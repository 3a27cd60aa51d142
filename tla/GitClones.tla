------------------------------ MODULE GitClones ------------------------------
(***************************************************************************)
(* The checkouts the git source keeps (internal/repos/git/git.go) under    *)
(* the requests that add and delete repositories (internal/app/repos.go).  *)
(* A clone is made aside and moved into place; which clones exist is       *)
(* remembered in memory only, and the repository's row is another store.   *)
(***************************************************************************)
EXTENDS Integers, FiniteSets

CONSTANTS
    CloneRepos,     \* repositories that may be registered
    DirOf,          \* sanitizeName: the directory of each; names may collide
    Requesters,     \* API requests in flight
    MaxCloneOps     \* bound: requests and restarts

ASSUME GitClonesAssumption ==
    MaxCloneOps \in Nat /\ CloneRepos # {} /\ {"none", "partial"} \cap CloneRepos = {}

VARIABLES
    disk,       \* directory -> "none", "partial" or the repository whose clone it holds
    tracked,    \* Source.repos: the repositories this process has cloned
    repoRows,   \* the repositories the catalog knows
    request,    \* requester -> the call it makes and how far it is
    stranded,   \* history: directories whose clone lost its row or its tracking
    torn,       \* history: directories a failed or interrupted removal left in part
    ops

cloneVars == <<disk, tracked, repoRows, request, stranded, torn, ops>>

CloneDirs == {DirOf[r] : r \in CloneRepos}
NoRequest == [op |-> "none", repo |-> CHOOSE r \in CloneRepos : TRUE]
At(q, op) == request[q].op = op
Goto(q, op) == request' = [request EXCEPT ![q].op = op]
Ends(q) == request' = [request EXCEPT ![q] = NoRequest]
Spend == ops < MaxCloneOps /\ ops' = ops + 1

ClonesInit ==
    /\ disk = [d \in CloneDirs |-> "none"]
    /\ tracked = {} /\ repoRows = {} /\ stranded = {} /\ torn = {} /\ ops = 0
    /\ request = [q \in Requesters |-> NoRequest]

-----------------------------------------------------------------------------
(* AddRepo with a git source: Add, then the row. *)

(* cloneAtomic: an existing destination is refused before anything is fetched.     *)
AddStarts(q, r) ==
    /\ At(q, "none") /\ Spend
    /\ request' = [request EXCEPT ![q] =
           IF disk[DirOf[r]] = "none" THEN [op |-> "clone", repo |-> r] ELSE NoRequest]
    /\ UNCHANGED <<disk, tracked, repoRows, stranded, torn>>

(* Mutant of CloneInto: git is handed the destination itself. *)
CloneIntoPlace(d) == IF disk[d] = "none" THEN [disk EXCEPT ![d] = "partial"] ELSE disk

(* While git runs only the temporary directory is written.                         *)
CloneInto(d) == disk

CloneRuns(q) ==
    /\ At(q, "clone")
    /\ disk' = CloneInto(DirOf[request[q].repo])
    /\ Goto(q, "cloned")
    /\ UNCHANGED <<tracked, repoRows, stranded, torn, ops>>

(* git fails, or the request is cancelled under it: the temporary directory goes.   *)
CloneFails(q) ==
    /\ At(q, "cloned") /\ Ends(q)
    /\ UNCHANGED <<disk, tracked, repoRows, stranded, torn, ops>>

(* The rename: refused when another request's clone got there first.               *)
RenameIntoPlace(q) ==
    LET r == request[q].repo
        d == DirOf[r]
    IN /\ At(q, "cloned")
       /\ IF disk[d] = "none"
          THEN disk' = [disk EXCEPT ![d] = r] /\ Goto(q, "placed")
          ELSE Ends(q) /\ UNCHANGED disk
       /\ UNCHANGED <<tracked, repoRows, stranded, torn, ops>>

Track(q) ==
    /\ At(q, "placed")
    /\ tracked' = tracked \cup {request[q].repo}
    /\ Goto(q, "tracked")
    /\ UNCHANGED <<disk, repoRows, stranded, torn, ops>>

(* StoreRepo: the row, or an error that undoes nothing of the above.               *)
StoreRow(q, ok) ==
    LET r == request[q].repo
    IN /\ At(q, "tracked") /\ Ends(q)
       /\ repoRows' = IF ok THEN repoRows \cup {r} ELSE repoRows
       /\ stranded' = IF ok THEN stranded ELSE stranded \cup {DirOf[r]}
       /\ UNCHANGED <<disk, tracked, torn, ops>>

-----------------------------------------------------------------------------
(* DeleteRepo: the row is read, the source and then the row are removed. *)

DeleteStarts(q, r) ==
    /\ At(q, "none") /\ r \in repoRows /\ Spend
    /\ request' = [request EXCEPT ![q] = [op |-> "remove", repo |-> r]]
    /\ UNCHANGED <<disk, tracked, repoRows, stranded, torn>>

(* os.RemoveAll went through: nothing of the directory is left.                     *)
Removed(r, d) ==
    /\ disk' = [disk EXCEPT ![d] = "none"] /\ tracked' = tracked \ {r}
    /\ stranded' = stranded \ {d} /\ torn' = torn \ {d}

(* os.RemoveAll failed: the directory stands whole or in part, and the source still  *)
(* counts it as a clone.                                                            *)
RemovalFailed(d) ==
    /\ \/ UNCHANGED <<disk, torn>>
       \/ disk' = [disk EXCEPT ![d] = "partial"] /\ torn' = torn \cup {d}
    /\ UNCHANGED <<tracked, stranded>>

(* Source.Remove, under its lock: only a clone this process remembers.  DeleteRepo     *)
(* collects its error, of either kind, and goes on.                                 *)
RemoveClone(q) ==
    LET r == request[q].repo
        d == DirOf[r]
    IN /\ At(q, "remove") /\ Goto(q, "unrow")
       /\ IF r \in tracked
          THEN Removed(r, d) \/ RemovalFailed(d)
          ELSE /\ stranded' = IF disk[d] = r THEN stranded \cup {d} ELSE stranded
               /\ UNCHANGED <<disk, tracked, torn>>
       /\ UNCHANGED <<repoRows, ops>>

(* The row goes, whatever happened to the clone and whatever an AddRepo of the same   *)
(* repository did in between; or the store refuses, and it stays.                    *)
DeleteRow(q, ok) ==
    LET r == request[q].repo
    IN /\ At(q, "unrow") /\ Ends(q)
       /\ repoRows' = IF ok THEN repoRows \ {r} ELSE repoRows
       /\ stranded' = IF disk[DirOf[r]] = r /\ r \notin repoRows'
                      THEN stranded \cup {DirOf[r]} ELSE stranded
       /\ UNCHANGED <<disk, tracked, torn, ops>>

(* The process ends under whatever is in flight, and forgets its clones; a removal   *)
(* it was in the middle of leaves the directory in part.                             *)
RestartSource ==
    LET interrupted == {DirOf[request[q].repo] : q \in {x \in Requesters :
                            request[x].op = "remove" /\ request[x].repo \in tracked}}
    IN /\ Spend
       /\ \E cut \in SUBSET interrupted :
             /\ disk' = [d \in CloneDirs |-> IF d \in cut THEN "partial" ELSE disk[d]]
             /\ torn' = torn \cup cut
       /\ tracked' = {}
       /\ stranded' = stranded \cup {DirOf[request[q].repo] : q \in {x \in Requesters :
                              request[x].op \in {"placed", "tracked", "remove", "unrow"}}}
       /\ request' = [q \in Requesters |-> NoRequest]
       /\ UNCHANGED repoRows

ClonesNext ==
    \/ \E q \in Requesters :
        \/ \E r \in CloneRepos : AddStarts(q, r) \/ DeleteStarts(q, r)
        \/ CloneRuns(q) \/ CloneFails(q) \/ RenameIntoPlace(q) \/ Track(q)
        \/ \E ok \in BOOLEAN : StoreRow(q, ok) \/ DeleteRow(q, ok)
        \/ RemoveClone(q)
    \/ RestartSource

-----------------------------------------------------------------------------
(* Properties *)

(* "A failed or interrupted clone leaves nothing behind for the next attempt to trip  *)
(* over" (cloneAtomic): with no request at work on it, a directory without a row is    *)
(* free to be cloned into.  The exceptions are the ones that strand a finished clone   *)
(* (a row that could not be stored, a row deleted under an AddRepo, a delete by a      *)
(* process that did not make the clone or could not remove it, a process that ended   *)
(* between the two stores) and a removal, never a clone, that stopped half way.  And a *)
(* clone the source remembers is whole, unless its removal stopped half way: a delete *)
(* removes the clone of its own repository, never one that took its directory since.  *)
InterruptedCloneRetryable ==
    /\ \A r \in tracked : disk[DirOf[r]] = r \/ DirOf[r] \in torn
    /\ \A d \in CloneDirs :
          (/\ \A q \in Requesters : ~At(q, "none") => DirOf[request[q].repo] # d
           /\ \A r \in repoRows : DirOf[r] # d
           /\ d \notin stranded \cup torn) => disk[d] = "none"

-----------------------------------------------------------------------------
(* The inductive invariant behind the theorem of ServerProofs.  *)

ClonesSpec == ClonesInit /\ [][ClonesNext]_cloneVars

CloneRequest == [op : {"none", "clone", "cloned", "placed", "tracked", "remove", "unrow"},
                 repo : CloneRepos]

ClonesTypeOK ==
    /\ disk \in [CloneDirs -> CloneRepos \cup {"none", "partial"}]
    /\ tracked \subseteq CloneRepos /\ repoRows \subseteq CloneRepos
    /\ stranded \subseteq CloneDirs /\ torn \subseteq CloneDirs
    /\ request \in [Requesters -> CloneRequest]
    /\ ops \in Nat

(* A clone stands in the directory of its repository; only a removal leaves part   *)
(* of one.                                                                         *)
ClonesInPlace == \A d \in CloneDirs :
    /\ disk[d] \in CloneRepos => DirOf[disk[d]] = d
    /\ disk[d] = "partial" <=> d \in torn

(* What is remembered is there, or what its removal left of it, and a directory is *)
(* remembered for one repository only.  A request that moved its clone into place  *)
(* finds it there when it remembers it: nobody can remove a clone nobody           *)
(* remembers.                                                                      *)
ClonesTracked ==
    /\ \A r \in tracked : disk[DirOf[r]] = r \/ DirOf[r] \in torn
    /\ \A r, s \in tracked : DirOf[r] = DirOf[s] => r = s
    /\ \A q \in Requesters : At(q, "placed") =>
          /\ disk[DirOf[request[q].repo]] = request[q].repo /\ request[q].repo \notin tracked
          /\ \A x \in Requesters : At(x, "placed") /\ request[x].repo = request[q].repo => x = q

(* Every clone has the row of its repository, a request at work on that           *)
(* repository, or is known to be stranded.                                        *)
ClonesAccounted ==
    \A d \in CloneDirs : disk[d] \in CloneRepos =>
        \/ d \in stranded \/ disk[d] \in repoRows
        \/ \E q \in Requesters : /\ request[q].op \in {"placed", "tracked", "remove", "unrow"}
                                 /\ request[q].repo = disk[d]

ClonesInv == ClonesTypeOK /\ ClonesInPlace /\ ClonesTracked /\ ClonesAccounted
=============================================================================
