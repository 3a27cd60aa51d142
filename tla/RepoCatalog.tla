----------------------------- MODULE RepoCatalog -----------------------------
(***************************************************************************)
(* The repository catalog (internal/app/repos.go, active.go and the repos  *)
(* table): registration, which reads the row and stores it back; deletion, *)
(* which runs step by step and without the claim while a pass may be       *)
(* writing the same repository; and the working set, which is read whole,  *)
(* edited and replaced.                                                    *)
(***************************************************************************)
EXTENDS Integers, Sequences, FiniteSets

CONSTANTS
    Repos,       \* repositories, by id
    Indexed,     \* the ones that are indexed and deleted here
    Admins,      \* requests and shells that edit the catalog
    MaxEdits     \* bound: catalog operations begun

ASSUME CatalogAssumption == MaxEdits \in Nat /\ Indexed \subseteq Repos

NoRepoRow == [status |-> "absent", cursor |-> FALSE, active |-> FALSE]

(* What a pass leaves of a repository, store by store. *)
Stores == {"indexers", "files", "units", "edges", "coverage"}

VARIABLES
    row,        \* per repository: the repos row; cursor: last_commit is set
    data,       \* per repository: the stores that hold something of it
    admin,      \* per admin: [op, repo, step, saved]
    passOf,     \* per repository: "none" or "running"
    edits,      \* operations begun
    left        \* history: <<r, store>> a deletion failed to clear, or that was
                \* written under the deletion or after it

catalogVars == <<row, data, admin, passOf, edits, left>>

Resting == [op |-> "none", repo |-> "none", step |-> 0, saved |-> NoRepoRow]

CatalogInit ==
    /\ row = [r \in Repos |-> NoRepoRow] /\ data = [r \in Repos |-> {}]
    /\ admin = [a \in Admins |-> Resting]
    /\ passOf = [r \in Repos |-> "none"]
    /\ edits = 0 /\ left = {}

HeldParts(r) == {<<r, k>> : k \in data[r]}
Registered == {r \in Repos : row[r] # NoRepoRow}
Active == {r \in Registered : row[r].active}

Begin(a, op, r, step, saved) ==
    /\ admin[a].op = "none" /\ edits < MaxEdits /\ edits' = edits + 1
    /\ admin' = [admin EXCEPT ![a] = [op |-> op, repo |-> r, step |-> step, saved |-> saved]]

-----------------------------------------------------------------------------
(* AddRepo *)

AddRepoReads(a, r) ==
    /\ Begin(a, "add", r, 1, row[r])
    /\ UNCHANGED <<row, data, passOf, left>>

(* StoreRepo inserts what was read, with no claim; on a row that exists it      *)
(* writes the name and the paths only.  A new row joins the working set.        *)
StoreRepo(r, saved) ==
    IF row[r] # NoRepoRow THEN row[r]
    ELSE [status |-> IF saved = NoRepoRow THEN "idle" ELSE saved.status,
          cursor |-> saved.cursor, active |-> TRUE]

AddRepoStores(a) ==
    LET r == admin[a].repo IN
    /\ admin[a].op = "add"
    /\ row' = [row EXCEPT ![r] = StoreRepo(r, admin[a].saved)]
    /\ admin' = [admin EXCEPT ![a] = Resting]
    /\ UNCHANGED <<data, passOf, edits, left>>

ResetRepo(r) ==
    /\ row[r].status = "indexing"
    /\ row' = [row EXCEPT ![r].status = "idle"]
    /\ UNCHANGED <<data, admin, passOf, edits, left>>

-----------------------------------------------------------------------------
(* DeleteRepo *)

(* Mutant of DeleteSteps: the edges are left to the next link pass. *)
DeleteStepsWithoutEdges == <<"indexers", "files", "units", "coverage", "row">>

(* The steps, in order.  The source's own checkout comes first and the           *)
(* compaction last; neither is modelled here.                                    *)
DeleteSteps == <<"indexers", "files", "units", "edges", "coverage", "row">>

DeleteRepoReads(a, r) ==
    /\ row[r] # NoRepoRow
    /\ Begin(a, "delete", r, 1, NoRepoRow)
    /\ UNCHANGED <<row, data, passOf, left>>

(* A step that fails is collected and the next one runs. *)
DeleteStep(a, ok) ==
    LET r == admin[a].repo
        what == DeleteSteps[admin[a].step]
    IN
    /\ admin[a].op = "delete"
    /\ IF what = "row"
       THEN row' = [row EXCEPT ![r] = IF ok THEN NoRepoRow ELSE @] /\ UNCHANGED <<data, left>>
       ELSE /\ data' = [data EXCEPT ![r] = IF ok THEN @ \ {what} ELSE @]
            /\ left' = IF ok THEN left \ {<<r, what>>} ELSE left \cup ({<<r, what>>} \cap HeldParts(r))
            /\ UNCHANGED row
    /\ admin' = [admin EXCEPT ![a] = IF admin[a].step = Len(DeleteSteps) THEN Resting
                                     ELSE [@ EXCEPT !.step = admin[a].step + 1]]
    /\ UNCHANGED <<passOf, edits>>

Deleting(r) == \E a \in Admins : admin[a].op = "delete" /\ admin[a].repo = r

-----------------------------------------------------------------------------
(* An index pass, as far as the catalog sees it *)

PassClaims(r) ==
    /\ row[r].status = "idle"
    /\ row' = [row EXCEPT ![r].status = "indexing"]
    /\ passOf' = [passOf EXCEPT ![r] = "running"]
    /\ UNCHANGED <<data, admin, edits, left>>

PassWrites(r, k) ==
    /\ passOf[r] = "running" /\ k \notin data[r]
    /\ data' = [data EXCEPT ![r] = @ \cup {k}]
    /\ left' = IF Deleting(r) \/ row[r] = NoRepoRow THEN left \cup {<<r, k>>} ELSE left
    /\ UNCHANGED <<row, admin, passOf, edits>>

(* The status write finds no row when the repository was deleted meanwhile.     *)
PassEnds(r) ==
    /\ passOf[r] = "running"
    /\ passOf' = [passOf EXCEPT ![r] = "none"]
    /\ row' = [row EXCEPT ![r] = IF @ = NoRepoRow THEN NoRepoRow
                                 ELSE [@ EXCEPT !.status = "idle", !.cursor = TRUE]]
    /\ UNCHANGED <<data, admin, edits, left>>

-----------------------------------------------------------------------------
(* The working set *)

(* SetRepoActive reads the whole set ... *)
SetRepoActiveReads(a, r, on) ==
    /\ admin[a].op = "none" /\ edits < MaxEdits /\ edits' = edits + 1
    /\ admin' = [admin EXCEPT ![a] =
                    [op |-> "active", repo |-> r, step |-> 1,
                     saved |-> IF on THEN Active \cup {r} ELSE Active \ {r}]]
    /\ UNCHANGED <<row, data, passOf, left>>

(* Mutant of SetActiveRepos: the rows are cleared before the transaction that   *)
(* raises the named ones.                                                       *)
SetActiveReposInTwo(a) ==
    /\ admin[a].op = "active"
    /\ row' = [r \in Repos |->
                 IF row[r] = NoRepoRow THEN NoRepoRow
                 ELSE [row[r] EXCEPT !.active = admin[a].step = 2 /\ r \in admin[a].saved]]
    /\ admin' = [admin EXCEPT ![a] = IF admin[a].step = 2 THEN Resting ELSE [@ EXCEPT !.step = 2]]
    /\ UNCHANGED <<data, passOf, edits, left>>

(* ... and SetActiveRepos replaces it, in one transaction. *)
SetActiveRepos(a) ==
    /\ admin[a].op = "active"
    /\ row' = [r \in Repos |->
                 IF row[r] = NoRepoRow THEN NoRepoRow ELSE [row[r] EXCEPT !.active = r \in admin[a].saved]]
    /\ admin' = [admin EXCEPT ![a] = Resting]
    /\ UNCHANGED <<data, passOf, edits, left>>

(* retrievalScope of a search that names no repository. *)
retrievalScope ==
    IF Active = Registered THEN "everywhere" ELSE IF Active = {} THEN "nothing" ELSE "some"

CatalogNext ==
    \/ \E a \in Admins :
        \/ \E r \in Indexed : DeleteRepoReads(a, r)
        \/ \E r \in Repos : \/ AddRepoReads(a, r)
                            \/ \E on \in BOOLEAN : SetRepoActiveReads(a, r, on)
        \/ AddRepoStores(a) \/ SetActiveRepos(a)
        \/ \E ok \in BOOLEAN : DeleteStep(a, ok)
    \/ \E r \in Indexed : ResetRepo(r) \/ PassClaims(r) \/ PassEnds(r)
                          \/ \E k \in Stores : PassWrites(r, k)

-----------------------------------------------------------------------------
(* Properties *)

(* "DeleteRepo removes a repository and all its indexed data": what is left of  *)
(* one that is not registered, once no pass and no deletion runs on it, was     *)
(* written by a pass under the deletion or survived a failed step.              *)
OrphansAccounted ==
    \A r \in Repos :
        row[r] = NoRepoRow /\ passOf[r] = "none" /\ ~Deleting(r) =>
            \A k \in data[r] : <<r, k>> \in left

(* "Between them nothing is active at all, and a search that read the working   *)
(* set in that window would answer with nothing" (SetActiveRepos): a search     *)
(* comes to answer from no repository only by an edit that asked for an empty   *)
(* set of the registered ones, or by a registration or deletion.                *)
NeverEmptiedByAnEdit ==
    [][retrievalScope # "nothing" /\ retrievalScope' = "nothing" =>
         \/ \E a \in Admins : admin[a].op = "active" /\ admin[a].saved \cap Registered = {}
         \/ Registered' # Registered]_catalogVars

-----------------------------------------------------------------------------
(* The inductive invariant behind the theorems of ServerProofs.  *)

CatalogSpec == CatalogInit /\ [][CatalogNext]_catalogVars

CatalogRow ==
    {NoRepoRow} \cup [status : {"idle", "indexing"}, cursor : BOOLEAN, active : BOOLEAN]

(* What an admin works on. *)
AdminOK(w) ==
    /\ w = [op |-> w.op, repo |-> w.repo, step |-> w.step, saved |-> w.saved]
    /\ w.op \in {"none", "add", "delete", "active"}
    /\ w.op # "none" => w.repo \in Repos /\ w.step \in 1 .. Len(DeleteSteps)
    /\ w.op = "add" => w.saved \in CatalogRow

CatalogTypeOK ==
    /\ row \in [Repos -> CatalogRow] /\ data \in [Repos -> SUBSET Stores]
    /\ admin = [a \in Admins |-> admin[a]] /\ \A a \in Admins : AdminOK(admin[a])
    /\ passOf \in [Repos -> {"none", "running"}]
    /\ edits \in Nat /\ left \subseteq Repos \X Stores

(* What is left of an unregistered repository is accounted for even while a     *)
(* pass still writes it ...                                                     *)
NoneUnaccounted ==
    \A r \in Repos : row[r] = NoRepoRow /\ ~Deleting(r) => HeldParts(r) \subseteq left

(* ... because a deletion that has passed a store leaves nothing unaccounted in *)
(* it, whatever a pass and other deletions do to the store meanwhile.           *)
PassedStoresAccounted ==
    \A a \in Admins : admin[a].op = "delete" =>
        \A i \in 1 .. admin[a].step - 1 :
            DeleteSteps[i] \in data[admin[a].repo] => <<admin[a].repo, DeleteSteps[i]>> \in left

CatalogInv == CatalogTypeOK /\ NoneUnaccounted /\ PassedStoresAccounted
=============================================================================
