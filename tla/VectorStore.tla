----------------------------- MODULE VectorStore -----------------------------
(***************************************************************************)
(* The remote vector store (internal/store/qdrant/qdrant.go) over the      *)
(* retrying HTTP client (pkg/httpx/httpx.go).  The workers of one process  *)
(* upsert and delete through a shared cache that says the collection was   *)
(* checked for a vector width.  Any exchange may fail before or after the  *)
(* server acted on it, an operator may drop the collection, and another    *)
(* process, embedding at a width of its own, may create it.                *)
(*                                                                         *)
(* An incarnation number stands for the life of one collection, from its   *)
(* creation to its drop.  Each call remembers the incarnation whose width  *)
(* the code compared (or chose) last: the code keeps no such number, the   *)
(* properties do.                                                          *)
(***************************************************************************)
EXTENDS Naturals, FiniteSets

CONSTANTS
    StoreWorkers,       \* goroutines that write
    Widths,             \* the vector widths the embedders in use produce
    VectorFiles,        \* files whose points are written
    Retries,            \* httpx: extra attempts (0 selects the default of 2, negative none)
    MaxVectorCalls,     \* bound: calls made
    MaxLost,            \* bound: exchanges that fail
    MaxDrops            \* bound: collections dropped

ASSUME VectorStoreAssumption ==
    /\ Widths \subseteq Nat \ {0}
    /\ {Retries, MaxVectorCalls, MaxLost, MaxDrops} \subseteq Nat

VARIABLES
    collection,     \* the server: [width, life, indexed, points]; width 0: no collection
    ready,          \* Qdrant.ready: [width, life]; width 0: nothing cached
    vcall,          \* worker -> its call
    lives,          \* collections created so far
    vbudget         \* [calls, lost, drops] used

vectorVars == <<collection, ready, vcall, lives, vbudget>>

NoPoint == [width |-> 0, life |-> 0]
NoCollection == [width |-> 0, life |-> 0, indexed |-> FALSE,
                 points |-> [f \in VectorFiles |-> NoPoint]]
NotReady == [width |-> 0, life |-> 0]
NoVCall == [step |-> "idle", width |-> 0, file |-> 0, attempt |-> 0, again |-> FALSE,
            life |-> 0, calm |-> TRUE]

VectorInit ==
    /\ collection = NoCollection /\ ready = NotReady
    /\ vcall = [w \in StoreWorkers |-> NoVCall]
    /\ lives = 0 /\ vbudget = [calls |-> 0, lost |-> 0, drops |-> 0]

-----------------------------------------------------------------------------
(* httpx: one exchange and its retries *)

extraAttempts == IF Retries = 0 THEN 2 ELSE Retries

Exists == collection.width # 0

(* What the server answers to the request of a step, and what it does.             *)
Status(c) ==
    CASE c.step = "create" -> IF Exists THEN 409 ELSE 200
      [] OTHER -> IF Exists THEN 200 ELSE 404

Created(width, life) ==
    [NoCollection EXCEPT !.width = width, !.life = life]

Served(c) ==
    CASE c.step = "create" /\ ~Exists -> Created(c.width, lives + 1)
      [] c.step = "index" /\ Exists -> [collection EXCEPT !.indexed = TRUE]
      [] c.step = "put" /\ Exists ->
             [collection EXCEPT !.points[c.file] = [width |-> c.width, life |-> c.life]]
      [] c.step = "delete" /\ Exists -> [collection EXCEPT !.points[c.file] = NoPoint]
      [] OTHER -> collection

ServedLives(c) == IF c.step = "create" /\ ~Exists THEN lives + 1 ELSE lives

Requests == {"get", "create", "index", "put", "delete"}

-----------------------------------------------------------------------------
(* qdrant.go: what a call does with the answer *)

Fail(c, why) == [NoVCall EXCEPT !.step = why, !.calm = c.calm]

(* checkCollection: the width is compared, unless the collection is missing.        *)
AfterGet(c, status) ==
    IF status = 404 THEN [c EXCEPT !.step = "create"]
    ELSE IF collection.width # c.width THEN Fail(c, "modelChanged")
    ELSE [c EXCEPT !.step = "index", !.life = collection.life]

(* createCollection: a conflict means somebody else created it.                     *)
AfterCreate(c, status) ==
    [c EXCEPT !.step = "index", !.life = IF status = 200 THEN ServedLives(c) ELSE 0]

(* ensurePayloadIndexes                                                             *)
AfterIndex(c, status) ==
    IF status \in {200, 409} THEN [c EXCEPT !.step = "settle"] ELSE Fail(c, "missing")

(* Upsert: the first 404 forgets and starts over, the second is an error.           *)
AfterPut(c, status) ==
    IF status = 200 THEN [NoVCall EXCEPT !.step = "done"]
    ELSE IF c.again THEN Fail(c, "missing")
    ELSE [c EXCEPT !.step = "forget"]

(* Delete: a missing collection holds nothing to delete.                            *)
AfterDelete(c, status) == [NoVCall EXCEPT !.step = "done"]

Answered(c, status) ==
    LET next == CASE c.step = "get" -> AfterGet(c, status)
                  [] c.step = "create" -> AfterCreate(c, status)
                  [] c.step = "index" -> AfterIndex(c, status)
                  [] c.step = "put" -> AfterPut(c, status)
                  [] OTHER -> AfterDelete(c, status)
    IN [next EXCEPT !.attempt = 0]

(* Do: the exchange succeeds, whatever the status says.                             *)
Exchange(w) ==
    LET c == vcall[w]
    IN /\ c.step \in Requests
       /\ collection' = Served(c) /\ lives' = ServedLives(c)
       /\ vcall' = [vcall EXCEPT ![w] = Answered(c, Status(c))]
       /\ UNCHANGED <<ready, vbudget>>

(* A connection error, a 429 or a 5xx: the server may have acted (served) or not.    *)
(* The request is repeated while attempts are left.                                 *)
ExchangeLost(w, served) ==
    LET c == vcall[w]
    IN /\ c.step \in Requests /\ vbudget.lost < MaxLost
       /\ vbudget' = [vbudget EXCEPT !.lost = @ + 1]
       /\ collection' = IF served THEN Served(c) ELSE collection
       /\ lives' = IF served THEN ServedLives(c) ELSE lives
       /\ vcall' = [vcall EXCEPT ![w] =
              IF c.attempt < extraAttempts THEN [c EXCEPT !.attempt = @ + 1]
              ELSE Fail(c, "unreachable")]
       /\ UNCHANGED ready

(* The context ends while Do waits for its next attempt.                            *)
CancelWait(w) ==
    /\ vcall[w].attempt > 0
    /\ vcall' = [vcall EXCEPT ![w] = Fail(vcall[w], "unreachable")]
    /\ UNCHANGED <<collection, ready, lives, vbudget>>

-----------------------------------------------------------------------------
(* Upsert and Delete *)

(* A call begins; calm says no other call is under way that could have checked       *)
(* before a drop (history).                                                         *)
Begins(w, step, width, file) ==
    /\ vcall[w].step = "idle" /\ vbudget.calls < MaxVectorCalls
    /\ vbudget' = [vbudget EXCEPT !.calls = @ + 1]
    /\ vcall' = [vcall EXCEPT ![w] = [NoVCall EXCEPT !.step = step, !.width = width, !.file = file,
                     !.calm = \A v \in StoreWorkers \ {w} : vcall[v].step \in
                                  {"idle", "done", "modelChanged", "missing", "unreachable"}]]
    /\ UNCHANGED <<collection, ready, lives>>

UpsertVectors(w, width, file) == Begins(w, "ensure", width, file)
DeleteVectors(w, file) == Begins(w, "delete", 0, file)

(* Mutant of Cached: a checked collection is good for every width. *)
CachedAnyWidth(width) == ready.width # 0

Cached(width) == ready.width = width

(* ensureCollection under readyMu: what was cached, else the check.                  *)
ensureCollection(w) ==
    LET c == vcall[w]
    IN /\ c.step = "ensure"
       /\ vcall' = [vcall EXCEPT ![w] =
              IF Cached(c.width) THEN [c EXCEPT !.step = "put", !.life = ready.life]
              ELSE [c EXCEPT !.step = "get"]]
       /\ UNCHANGED <<collection, ready, lives, vbudget>>

Settle(w) ==
    LET c == vcall[w]
    IN /\ c.step = "settle"
       /\ ready' = [width |-> c.width, life |-> c.life]
       /\ vcall' = [vcall EXCEPT ![w].step = "put"]
       /\ UNCHANGED <<collection, lives, vbudget>>

(* Mutant of Forgotten: the retry trusts the cache that just failed it. *)
ForgottenNot == ready

Forgotten == NotReady

forgetCollection(w) ==
    /\ vcall[w].step = "forget"
    /\ ready' = Forgotten
    /\ vcall' = [vcall EXCEPT ![w].step = "ensure", ![w].again = TRUE]
    /\ UNCHANGED <<collection, lives, vbudget>>

(* The caller has its answer.                                                       *)
Returns(w) ==
    /\ vcall[w].step \in {"done", "modelChanged", "missing", "unreachable"}
    /\ vcall' = [vcall EXCEPT ![w] = NoVCall]
    /\ UNCHANGED <<collection, ready, lives, vbudget>>

-----------------------------------------------------------------------------
(* Everybody else *)

DropCollection ==
    /\ Exists /\ vbudget.drops < MaxDrops
    /\ vbudget' = [vbudget EXCEPT !.drops = @ + 1]
    /\ collection' = NoCollection
    /\ vcall' = [w \in StoreWorkers |-> IF vcall[w].step = "idle" THEN NoVCall
                                         ELSE [vcall[w] EXCEPT !.calm = FALSE]]
    /\ UNCHANGED <<ready, lives>>

CreatedElsewhere(width) ==
    /\ ~Exists /\ lives' = lives + 1
    /\ collection' = Created(width, lives + 1)
    /\ UNCHANGED <<ready, vcall, vbudget>>

VectorNext ==
    \/ \E w \in StoreWorkers :
          \/ \E width \in Widths, file \in VectorFiles : UpsertVectors(w, width, file)
          \/ \E file \in VectorFiles : DeleteVectors(w, file)
          \/ ensureCollection(w)
          \/ Exchange(w)
          \/ \E served \in BOOLEAN : ExchangeLost(w, served)
          \/ CancelWait(w)
          \/ Settle(w)
          \/ forgetCollection(w)
          \/ Returns(w)
    \/ DropCollection
    \/ \E width \in Widths : CreatedElsewhere(width)

VectorSpec == VectorInit /\ [][VectorNext]_vectorVars

-----------------------------------------------------------------------------
(* Properties *)

(* "The model-changed error cannot be cached away" (ensureCollection): a point of     *)
(* another width than its collection's was never written by a call that compared     *)
(* this collection's width, or relied on the cached result of comparing it.  (A call  *)
(* that lost the race to create the collection, or whose cache dates from an earlier  *)
(* one, compared nothing: those are the two ways widths can mix.)                     *)
CheckedWidthHolds ==
    \A f \in VectorFiles :
        LET p == collection.points[f]
        IN p # NoPoint /\ p.life = collection.life => p.width = collection.width

(* "The cache can never turn a recoverable state into a permanent failure" (Upsert):  *)
(* a call that starts alone and sees no drop does not end on a missing collection,    *)
(* however stale the cache it found.                                                *)
CacheNeverStrands ==
    \A w \in StoreWorkers : vcall[w].step = "missing" => ~vcall[w].calm

(* VectorStore's promises together.                                                  *)
VectorStoreSafe == CheckedWidthHolds /\ CacheNeverStrands

-----------------------------------------------------------------------------
(* The inductive invariant.  Whoever compared the width of the collection that    *)
(* is there, or wrote in the name of that comparison, has its width; and while a  *)
(* calm call is under way the collection has not been dropped since it began, so  *)
(* what any call has checked since is there still.                               *)
Steps == Requests \cup {"idle", "ensure", "settle", "forget", "done", "modelChanged", "missing", "unreachable"}
Ended == {"idle", "done", "modelChanged", "missing", "unreachable"}
PointType == [width : Nat, life : Nat]
CallType == [step : Steps, width : Nat, file : VectorFiles \cup {0}, attempt : Nat, again : BOOLEAN,
             life : Nat, calm : BOOLEAN]
CollectionType == [width : Nat, life : Nat, indexed : BOOLEAN, points : [VectorFiles -> PointType]]

VectorTypeOK ==
    /\ collection \in CollectionType /\ ready \in PointType /\ lives \in Nat
    /\ vcall \in [StoreWorkers -> CallType]
    /\ vbudget \in [calls : Nat, lost : Nat, drops : Nat]

(* x, a point, a cached check or a call, is no later than the collection and, if *)
(* it is of the same life, of its width.                                          *)
OfItsLife(x) ==
    /\ x.life <= lives
    /\ Exists /\ x.life = collection.life => x.width = collection.width

LivesInOrder ==
    /\ collection.life <= lives /\ (Exists => collection.life # 0)
    /\ ~Exists => collection = NoCollection
    /\ OfItsLife(ready)
    /\ \A w \in StoreWorkers : OfItsLife(vcall[w])
    /\ \A f \in VectorFiles : OfItsLife(collection.points[f]) \/ collection.points[f] = NoPoint

CallsKeepWidth ==
    \A w \in StoreWorkers : vcall[w].step \notin Ended \cup {"delete"} => vcall[w].width # 0

CalmCallsSeeIt ==
    \A w \in StoreWorkers : vcall[w].step \notin Ended /\ vcall[w].calm =>
        /\ \A u \in StoreWorkers : vcall[u].step \in {"index", "settle"} => Exists
        /\ vcall[w].again => (ready.width # 0 \/ vcall[w].step = "put" => Exists)

VectorInv == VectorTypeOK /\ LivesInOrder /\ CallsKeepWidth /\ CalmCallsSeeIt /\ CacheNeverStrands
=============================================================================
