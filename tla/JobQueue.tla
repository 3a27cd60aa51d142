------------------------------ MODULE JobQueue ------------------------------
(***************************************************************************)
(* The distributed indexing job queue: table index_jobs and the JobStore   *)
(* methods over it (internal/store/sqlite/jobs.go; the Postgres backend    *)
(* runs the same statements).  One action per SQL statement, because a     *)
(* statement is what the database makes atomic: the stale sweep and the    *)
(* release are two statements each, and other workers run between them.    *)
(*                                                                         *)
(* A row's created_at and claimed_at are display only and are left out.    *)
(* heartbeat_at is kept as the one thing the queue asks of it: whether it  *)
(* is older than the stale cutoff ("stale") or not ("fresh").              *)
(***************************************************************************)
EXTENDS Integers, FiniteSets

CONSTANTS
    Repos,      \* repository ids
    Workers,    \* worker ids (Service.ownerID of the instances)
    NoWorker,   \* claimed_by = ''
    Batches     \* the commit batches clients may push: [first, last]

ASSUME NoWorkerAssumption == NoWorker \notin Workers

ASSUME ReposAssumption == Repos # {}

(***************************************************************************)
(* A pushed batch is a run first..last of a linear history; commit c has   *)
(* the parent c - 1, and 0 is the empty SHA.                               *)
(***************************************************************************)
ASSUME BatchesAssumption ==
    \A b \in Batches : /\ b = [first |-> b.first, last |-> b.last]
                       /\ b.first \in Nat \ {0}
                       /\ b.last \in Nat
                       /\ b.first <= b.last

(* The payload of an index job: empty. *)
NoBatch == [first |-> 0, last |-> 0]

VARIABLES
    lastId,     \* the AUTOINCREMENT counter of index_jobs
    jobs,       \* the rows, by id: rows are never deleted
    sweep       \* per worker: rows older than the cutoff of its running sweep

queueVars == <<lastId, jobs, sweep>>

JobIds == 1 .. lastId

JobErrors == {"", "superseded", "failed", "cancelled", "gap"}

Row == [repo : Repos, kind : {"index", "commits"}, force : BOOLEAN,
        status : {"pending", "running", "done", "error"},
        worker : Workers \cup {NoWorker}, heartbeat : {"fresh", "stale"},
        batch : Batches \cup {NoBatch}, error : JobErrors]

Pending(i) == jobs[i].status = "pending"
Running(i) == jobs[i].status = "running"
Terminal(i) == jobs[i].status \in {"done", "error"}
IsIndex(i) == jobs[i].kind = "index"

(* status = 'pending' AND kind = 'index': the rows of the partial unique index *)
PendingIndexOf(r) == {i \in JobIds : jobs[i].repo = r /\ Pending(i) /\ IsIndex(i)}

(* Mutants of HeldBy: the UPDATE forgets the status, or the owner. *)
HeldByAnyStatus(i, w) == i \in JobIds /\ jobs[i].worker = w
HeldByAnyone(i, w) == i \in JobIds /\ Running(i)

(* status = 'running' AND claimed_by = w: the scope of a worker's writes *)
HeldBy(i, w) == i \in JobIds /\ Running(i) /\ jobs[i].worker = w

(* running rows whose heartbeat_at is behind the cutoff *)
StaleRows == {i \in JobIds : Running(i) /\ jobs[i].heartbeat = "stale"}

-----------------------------------------------------------------------------
QueueInit ==
    /\ lastId = 0
    /\ jobs = [i \in 1 .. 0 |-> NoBatch]
    /\ sweep = [w \in Workers |-> {}]

(* INSERT ... RETURNING: the new row takes the next id *)
Insert(row) ==
    /\ lastId' = lastId + 1
    /\ jobs' = [i \in 1 .. lastId + 1 |-> IF i = lastId + 1 THEN row ELSE jobs[i]]

NewRow(r, kind, f, b) ==
    [repo |-> r, kind |-> kind, force |-> f, status |-> "pending", worker |-> NoWorker,
     heartbeat |-> "fresh", batch |-> b, error |-> ""]

(* What the statements write into a row. *)
Forced(row, f) == [row EXCEPT !.force = row.force \/ f]
Claimed(row, w) == [row EXCEPT !.status = "running", !.worker = w, !.heartbeat = "fresh"]
Beaten(row, hb) == [row EXCEPT !.heartbeat = hb]
Requeue(row) == [row EXCEPT !.status = "pending", !.worker = NoWorker, !.heartbeat = "fresh"]

(* Mutant of Ended: status and error arguments swapped. *)
EndedSwapped(row, err) == [row EXCEPT !.status = err, !.error = IF err = "" THEN "done" ELSE "error"]

Ended(row, err) == [row EXCEPT !.status = IF err = "" THEN "done" ELSE "error", !.error = err]

(* The upsert: a pending index row of the repo absorbs the request. *)
EnqueueIndexJob(r, f) ==
    /\ \/ /\ PendingIndexOf(r) = {}
          /\ Insert(NewRow(r, "index", f, NoBatch))
       \/ /\ PendingIndexOf(r) # {}
          /\ jobs' = [i \in JobIds |-> IF i \in PendingIndexOf(r)
                                       THEN Forced(jobs[i], f)
                                       ELSE jobs[i]]
          /\ lastId' = lastId
    /\ UNCHANGED sweep

EnqueueCommitJob(r, b) ==
    /\ Insert(NewRow(r, "commits", FALSE, b))
    /\ UNCHANGED sweep

(* an unfinished commit job of the repo with a smaller id *)
HasPendingCommitJobBefore(r, i) ==
    \E k \in JobIds : /\ k < i /\ jobs[k].repo = r /\ jobs[k].kind = "commits"
                      /\ jobs[k].status \in {"pending", "running"}

(* the row a claim would take: the oldest pending one *)
NextPending(i) == Pending(i) /\ \A k \in JobIds : Pending(k) => i <= k

(* A fresh heartbeat is newer than the cutoff of every sweep in progress. *)
ClaimNextIndexJob(i, w) ==
    /\ i \in JobIds /\ NextPending(i)
    /\ jobs' = [jobs EXCEPT ![i] = Claimed(jobs[i], w)]
    /\ sweep' = [v \in Workers |-> sweep[v] \ {i}]
    /\ UNCHANGED lastId

HeartbeatIndexJob(i, w) ==
    /\ HeldBy(i, w)
    /\ jobs' = [jobs EXCEPT ![i] = Beaten(jobs[i], "fresh")]
    /\ sweep' = [v \in Workers |-> sweep[v] \ {i}]
    /\ UNCHANGED lastId

(* Scoped to the claiming worker: zero rows match for anyone else. *)
CompleteIndexJob(i, w, err) ==
    /\ jobs' = IF HeldBy(i, w)
               THEN [jobs EXCEPT ![i] = Ended(jobs[i], err)] ELSE jobs
    /\ UNCHANGED <<lastId, sweep>>

(* The condition of ReleaseIndexJob's UPDATE. *)
Releasable(i, w) ==
    HeldBy(i, w) /\ (IsIndex(i) => PendingIndexOf(jobs[i].repo) = {})

(* ReleaseIndexJob, first statement: back to pending if its slot is free. *)
ReleaseIndexJob(i, w) ==
    /\ Releasable(i, w)
    /\ jobs' = [jobs EXCEPT ![i] = Requeue(jobs[i])]
    /\ UNCHANGED <<lastId, sweep>>

(* ReleaseIndexJob, second statement, run when the first matched no row. *)
SupersedeReleased(i, w) == CompleteIndexJob(i, w, "superseded")

(* Mutant of Surplus: commit jobs are not exempt. *)
SurplusOfAnyKind ==
    {i \in StaleRows : \/ PendingIndexOf(jobs[i].repo) # {}
                       \/ \E k \in StaleRows : k < i /\ jobs[k].repo = jobs[i].repo}

(* Stale index rows that would collide on the partial unique index. *)
Surplus ==
    {i \in StaleRows : /\ IsIndex(i)
                       /\ \/ PendingIndexOf(jobs[i].repo) # {}
                          \/ \E k \in StaleRows : /\ IsIndex(k) /\ k < i
                                                  /\ jobs[k].repo = jobs[i].repo}

(* RequeueStaleIndexJobs, first statement: fail the surplus. *)
SupersedeStale(w) ==
    /\ sweep' = [sweep EXCEPT ![w] = StaleRows]
    /\ jobs' = [i \in JobIds |->
                   IF i \in Surplus
                   THEN Ended(jobs[i], "superseded")
                   ELSE jobs[i]]
    /\ UNCHANGED lastId

(* Mutant of Requeued: stale commit jobs are left behind. *)
RequeuedIndexOnly(w) == {i \in sweep[w] : i \in StaleRows /\ IsIndex(i)}

(* what the second statement matches: stale at its cutoff and still running *)
Requeued(w) == {i \in sweep[w] : i \in StaleRows}

(* Mutant of Collides: the partial unique index does not exist. *)
NeverCollides(w) == FALSE

(* Two rows of one repo would become pending: the unique index refuses the  *)
(* whole statement, which then changes nothing.                             *)
Collides(w) ==
    \E i \in Requeued(w) :
        /\ IsIndex(i)
        /\ \/ PendingIndexOf(jobs[i].repo) # {}
           \/ \E k \in Requeued(w) : IsIndex(k) /\ k # i /\ jobs[k].repo = jobs[i].repo

(* RequeueStaleIndexJobs, second statement: requeue what is left. *)
RequeueStale(w) ==
    /\ jobs' = [i \in JobIds |->
                   IF i \in Requeued(w) /\ ~Collides(w)
                   THEN Requeue(jobs[i])
                   ELSE jobs[i]]
    /\ sweep' = [sweep EXCEPT ![w] = {}]
    /\ UNCHANGED lastId

(* Time passes: the row's heartbeat falls behind the stale cutoff. *)
HeartbeatAges(i) ==
    /\ i \in JobIds /\ Running(i) /\ jobs[i].heartbeat = "fresh"
    /\ jobs' = [jobs EXCEPT ![i] = Beaten(jobs[i], "stale")]
    /\ UNCHANGED <<lastId, sweep>>

(* A sweep that ended with its process. *)
ForgetSweep(w) ==
    /\ sweep' = [sweep EXCEPT ![w] = {}]
    /\ UNCHANGED <<lastId, jobs>>

-----------------------------------------------------------------------------
(***************************************************************************)
(* The queue on its own: any worker may call any method at any time.  The  *)
(* service (IndexService) is one such caller.                              *)
(***************************************************************************)
QueueNext ==
    \/ \E r \in Repos, f \in BOOLEAN : EnqueueIndexJob(r, f)
    \/ \E r \in Repos, b \in Batches : EnqueueCommitJob(r, b)
    \/ \E w \in Workers : SupersedeStale(w) \/ RequeueStale(w) \/ ForgetSweep(w)
    \/ \E i \in JobIds : HeartbeatAges(i)
    \/ \E i \in JobIds, w \in Workers :
          \/ ClaimNextIndexJob(i, w) \/ HeartbeatIndexJob(i, w)
          \/ ReleaseIndexJob(i, w)
          \/ \E err \in JobErrors \ {"superseded"} : CompleteIndexJob(i, w, err)
          \/ IsIndex(i) /\ SupersedeReleased(i, w)

QueueSpec == QueueInit /\ [][QueueNext]_queueVars

-----------------------------------------------------------------------------
(* Every row is well formed and a sweep only names rows that exist. *)
QueueTypeOK ==
    /\ lastId \in Nat
    /\ jobs \in [JobIds -> Row]
    /\ sweep \in [Workers -> SUBSET JobIds]

(***************************************************************************)
(* At most one index job per repository is pending, whatever interleaving  *)
(* of enqueues, releases and sweeps of several workers led here.           *)
(***************************************************************************)
OnePendingIndexJob ==
    \A i, k \in JobIds :
        /\ Pending(i) /\ IsIndex(i) /\ Pending(k) /\ IsIndex(k)
        /\ jobs[i].repo = jobs[k].repo
        => i = k

(***************************************************************************)
(* "Commit jobs are never superseded - dropping one would drop a piece of  *)
(* the repository's history."                                              *)
(***************************************************************************)
CommitJobsNotSuperseded ==
    \A i \in JobIds : jobs[i].kind = "commits" => jobs[i].error # "superseded"

(***************************************************************************)
(* A terminal row is never re-opened, re-run or rewritten: a late worker,  *)
(* a sweep begun before the result was recorded and a late heartbeat all   *)
(* leave it alone.                                                         *)
(***************************************************************************)
TerminalIsFinal ==
    [][\A i \in JobIds : Terminal(i) => jobs'[i] = jobs[i]]_queueVars

=============================================================================
