------------------------- MODULE IndexServiceProofs -------------------------
(* What the job queue guarantees to every caller, and what the instances   *)
(* that work on it guarantee together, for any number of instances,        *)
(* workers, request slots, repositories, batches, jobs and mishaps.        *)
EXTENDS IndexService, TLAPS

-----------------------------------------------------------------------------
(* What a statement writes into a row is a row. *)
LEMMA NewRowType ==
    ASSUME NEW r \in Repos, NEW kind \in {"index", "commits"}, NEW f \in BOOLEAN,
           NEW b \in Batches \cup {NoBatch}
    PROVE  NewRow(r, kind, f, b) \in Row
  BY DEF NewRow, Row, JobErrors

LEMMA WrittenRowTypes ==
    ASSUME NEW row \in Row
    PROVE  /\ \A f \in BOOLEAN : Forced(row, f) \in Row
           /\ \A w \in Workers : Claimed(row, w) \in Row
           /\ \A hb \in {"fresh", "stale"} : Beaten(row, hb) \in Row
           /\ Requeue(row) \in Row
           /\ \A err \in JobErrors : Ended(row, err) \in Row
  BY DEF Row, Forced, Claimed, Beaten, Requeue, Ended

LEMMA InsertType ==
    ASSUME QueueTypeOK, NEW row \in Row, Insert(row)
    PROVE  /\ lastId' \in Nat
           /\ jobs' \in [1 .. lastId' -> Row]
           /\ JobIds \subseteq 1 .. lastId'
  BY DEF QueueTypeOK, Insert, JobIds

(* An UPDATE of one row by id keeps the table well formed. *)
LEMMA UpdateType ==
    ASSUME QueueTypeOK, NEW i, NEW row \in Row,
           jobs' = [jobs EXCEPT ![i] = row], UNCHANGED lastId
    PROVE  jobs' \in [JobIds' -> Row]
  BY DEF QueueTypeOK, JobIds

LEMMA QueueInitType == QueueInit => QueueTypeOK
  BY DEF QueueInit, QueueTypeOK, JobIds

(* Every statement of the queue preserves the type invariant. *)
LEMMA QueueStepType == QueueTypeOK /\ [QueueNext]_queueVars => QueueTypeOK'
<1> SUFFICES ASSUME QueueTypeOK, [QueueNext]_queueVars PROVE QueueTypeOK'
  OBVIOUS
<1> USE DEF QueueTypeOK, JobIds
<1>0. "superseded" \in JobErrors
  BY DEF JobErrors
<1>1. ASSUME NEW r \in Repos, NEW f \in BOOLEAN, EnqueueIndexJob(r, f) PROVE QueueTypeOK'
  <2>1. CASE PendingIndexOf(r) = {}
    <3>1. NewRow(r, "index", f, NoBatch) \in Row
      BY NewRowType
    <3> QED BY <3>1, <2>1, <1>1, InsertType DEF EnqueueIndexJob
  <2>2. CASE PendingIndexOf(r) # {}
    BY <2>2, <1>1, WrittenRowTypes DEF EnqueueIndexJob
  <2> QED BY <2>1, <2>2
<1>2. ASSUME NEW r \in Repos, NEW b \in Batches, EnqueueCommitJob(r, b) PROVE QueueTypeOK'
  <2>1. NewRow(r, "commits", FALSE, b) \in Row
    BY NewRowType
  <2> QED BY <2>1, <1>2, InsertType DEF EnqueueCommitJob
<1>3. ASSUME NEW w \in Workers, SupersedeStale(w) PROVE QueueTypeOK'
  BY <1>0, <1>3, WrittenRowTypes DEF SupersedeStale, StaleRows
<1>4. ASSUME NEW w \in Workers, RequeueStale(w) PROVE QueueTypeOK'
  BY <1>4, WrittenRowTypes DEF RequeueStale
<1>5. ASSUME NEW w \in Workers, ForgetSweep(w) PROVE QueueTypeOK'
  BY <1>5 DEF ForgetSweep
<1>6. ASSUME NEW i \in JobIds, HeartbeatAges(i) PROVE QueueTypeOK'
  BY <1>6, WrittenRowTypes, UpdateType DEF HeartbeatAges
<1>7. ASSUME NEW i \in JobIds, NEW w \in Workers, ClaimNextIndexJob(i, w) PROVE QueueTypeOK'
  BY <1>7, WrittenRowTypes, UpdateType DEF ClaimNextIndexJob
<1>8. ASSUME NEW i \in JobIds, NEW w \in Workers, HeartbeatIndexJob(i, w) PROVE QueueTypeOK'
  BY <1>8, WrittenRowTypes, UpdateType DEF HeartbeatIndexJob
<1>9. ASSUME NEW i \in JobIds, NEW w \in Workers, ReleaseIndexJob(i, w) PROVE QueueTypeOK'
  BY <1>9, WrittenRowTypes, UpdateType DEF ReleaseIndexJob
<1>10. ASSUME NEW i \in JobIds, NEW w \in Workers, NEW err \in JobErrors,
              CompleteIndexJob(i, w, err)
       PROVE  QueueTypeOK'
  BY <1>10, WrittenRowTypes, UpdateType DEF CompleteIndexJob
<1>11. CASE UNCHANGED queueVars
  BY <1>11 DEF queueVars
<1> QED
  BY <1>0, <1>1, <1>2, <1>3, <1>4, <1>5, <1>6, <1>7, <1>8, <1>9, <1>10, <1>11
  DEF QueueNext, SupersedeReleased

(* Every reachable state of the queue is well formed, for any callers. *)
THEOREM QueueTypeCorrect == QueueSpec => []QueueTypeOK
  BY QueueInitType, QueueStepType, PTL DEF QueueSpec

-----------------------------------------------------------------------------
(* How a statement changes one row, field by field. *)
LEMMA WrittenRowFields ==
    ASSUME NEW row \in Row
    PROVE  /\ \A f : /\ Forced(row, f).repo = row.repo /\ Forced(row, f).kind = row.kind
                     /\ Forced(row, f).status = row.status /\ Forced(row, f).error = row.error
                     /\ Forced(row, f).batch = row.batch /\ Forced(row, f).worker = row.worker
           /\ \A w : /\ Claimed(row, w).repo = row.repo /\ Claimed(row, w).kind = row.kind
                     /\ Claimed(row, w).status = "running" /\ Claimed(row, w).error = row.error
                     /\ Claimed(row, w).batch = row.batch /\ Claimed(row, w).worker = w
           /\ \A hb : /\ Beaten(row, hb).repo = row.repo /\ Beaten(row, hb).kind = row.kind
                      /\ Beaten(row, hb).status = row.status /\ Beaten(row, hb).error = row.error
                      /\ Beaten(row, hb).batch = row.batch /\ Beaten(row, hb).worker = row.worker
           /\ Requeue(row).repo = row.repo /\ Requeue(row).kind = row.kind
           /\ Requeue(row).status = "pending" /\ Requeue(row).error = row.error
           /\ Requeue(row).batch = row.batch
           /\ \A err : /\ Ended(row, err).repo = row.repo /\ Ended(row, err).kind = row.kind
                       /\ Ended(row, err).status \in {"done", "error"}
                       /\ Ended(row, err).error = err /\ Ended(row, err).batch = row.batch
  BY DEF Row, Forced, Claimed, Beaten, Requeue, Ended

(* An insert adds one row and leaves the others alone. *)
LEMMA InsertRows ==
    ASSUME QueueTypeOK, NEW row, Insert(row)
    PROVE  /\ JobIds' = JobIds \cup {lastId + 1}
           /\ lastId + 1 \notin JobIds
           /\ jobs'[lastId + 1] = row
           /\ \A i \in JobIds : jobs'[i] = jobs[i]
  BY DEF QueueTypeOK, Insert, JobIds

(***************************************************************************)
(* The statements that make a row pending are the insert, the release and  *)
(* the requeue; each finds the slot of its repository empty.               *)
(***************************************************************************)
LEMMA OnePendingStep ==
    QueueTypeOK /\ OnePendingIndexJob /\ [QueueNext]_queueVars => OnePendingIndexJob'
<1> SUFFICES ASSUME QueueTypeOK, OnePendingIndexJob, [QueueNext]_queueVars
             PROVE  OnePendingIndexJob'
  OBVIOUS
<1> USE DEF QueueTypeOK, JobIds, OnePendingIndexJob, Pending, IsIndex
<1>1. ASSUME NEW r \in Repos, NEW f \in BOOLEAN, EnqueueIndexJob(r, f)
      PROVE  OnePendingIndexJob'
  <2>1. CASE PendingIndexOf(r) = {}
    <3> DEFINE row == NewRow(r, "index", f, NoBatch)
    <3>1. Insert(row)
      BY <2>1, <1>1 DEF EnqueueIndexJob
    <3>2. row.repo = r
      BY DEF NewRow
    <3> HIDE DEF row
    <3> QED BY <3>1, <3>2, <2>1, InsertRows DEF PendingIndexOf
  <2>2. CASE PendingIndexOf(r) # {}
    <3>1. \A i \in JobIds : /\ jobs'[i].repo = jobs[i].repo /\ jobs'[i].kind = jobs[i].kind
                            /\ jobs'[i].status = jobs[i].status
      BY <2>2, <1>1, WrittenRowFields DEF EnqueueIndexJob
    <3> QED BY <3>1, <2>2, <1>1 DEF EnqueueIndexJob
  <2> QED BY <2>1, <2>2
<1>2. ASSUME NEW r \in Repos, NEW b \in Batches, EnqueueCommitJob(r, b)
      PROVE  OnePendingIndexJob'
  <2> DEFINE row == NewRow(r, "commits", FALSE, b)
  <2>1. Insert(row)
    BY <1>2 DEF EnqueueCommitJob
  <2>2. row.kind = "commits"
    BY DEF NewRow
  <2> HIDE DEF row
  <2> QED BY <2>1, <2>2, InsertRows
<1>3. ASSUME NEW w \in Workers, SupersedeStale(w) PROVE OnePendingIndexJob'
  <2>1. \A i \in JobIds : /\ jobs'[i].repo = jobs[i].repo /\ jobs'[i].kind = jobs[i].kind
                          /\ jobs'[i].status = "pending" => jobs[i].status = "pending"
    BY <1>3, WrittenRowFields DEF SupersedeStale
  <2> QED BY <2>1, <1>3 DEF SupersedeStale
<1>4. ASSUME NEW w \in Workers, RequeueStale(w) PROVE OnePendingIndexJob'
  <2>1. CASE Collides(w)
    <3>1. \A i \in JobIds : jobs'[i] = jobs[i]
      BY <2>1, <1>4 DEF RequeueStale
    <3> QED BY <3>1, <1>4 DEF RequeueStale
  <2>2. CASE ~Collides(w)
    <3>1. \A i \in JobIds : /\ jobs'[i].repo = jobs[i].repo /\ jobs'[i].kind = jobs[i].kind
                            /\ jobs'[i].status = "pending"
                               => i \in Requeued(w) \/ jobs[i].status = "pending"
      BY <2>2, <1>4, WrittenRowFields DEF RequeueStale
    <3>2. SUFFICES ASSUME NEW i \in JobIds, NEW k \in JobIds,
                          jobs'[i].status = "pending", jobs'[i].kind = "index",
                          jobs'[k].status = "pending", jobs'[k].kind = "index",
                          jobs'[i].repo = jobs'[k].repo
                   PROVE  i = k
      BY <1>4 DEF RequeueStale
    <3>3. jobs[i].repo = jobs[k].repo /\ jobs[i].kind = "index" /\ jobs[k].kind = "index"
      BY <3>1, <3>2
    <3>4. CASE i \in Requeued(w)
      <4>1. k \notin PendingIndexOf(jobs[i].repo)
        BY <3>4, <3>3, <2>2 DEF Collides
      <4>2. k \in Requeued(w)
        BY <4>1, <3>1, <3>2, <3>3 DEF PendingIndexOf
      <4> QED BY <4>2, <3>3, <3>4, <2>2 DEF Collides
    <3>5. CASE k \in Requeued(w)
      <4>1. i \notin PendingIndexOf(jobs[k].repo)
        BY <3>5, <3>3, <2>2 DEF Collides
      <4>2. i \in Requeued(w)
        BY <4>1, <3>1, <3>2, <3>3 DEF PendingIndexOf
      <4> QED BY <4>2, <3>3, <3>5, <2>2 DEF Collides
    <3> QED BY <3>1, <3>2, <3>3, <3>4, <3>5
  <2> QED BY <2>1, <2>2
<1>5. ASSUME NEW w \in Workers, ForgetSweep(w) PROVE OnePendingIndexJob'
  BY <1>5 DEF ForgetSweep
<1>6. ASSUME NEW i \in JobIds, HeartbeatAges(i) PROVE OnePendingIndexJob'
  BY <1>6, WrittenRowFields DEF HeartbeatAges
<1>7. ASSUME NEW i \in JobIds, NEW w \in Workers, ClaimNextIndexJob(i, w)
      PROVE  OnePendingIndexJob'
  BY <1>7, WrittenRowFields DEF ClaimNextIndexJob
<1>8. ASSUME NEW i \in JobIds, NEW w \in Workers, HeartbeatIndexJob(i, w)
      PROVE  OnePendingIndexJob'
  BY <1>8, WrittenRowFields DEF HeartbeatIndexJob
<1>9. ASSUME NEW i \in JobIds, NEW w \in Workers, ReleaseIndexJob(i, w)
      PROVE  OnePendingIndexJob'
  BY <1>9, WrittenRowFields DEF ReleaseIndexJob, Releasable, PendingIndexOf
<1>10. ASSUME NEW i \in JobIds, NEW w \in Workers, NEW err, CompleteIndexJob(i, w, err)
       PROVE  OnePendingIndexJob'
  BY <1>10, WrittenRowFields DEF CompleteIndexJob
<1>11. CASE UNCHANGED queueVars
  BY <1>11 DEF queueVars
<1> QED
  BY <1>1, <1>2, <1>3, <1>4, <1>5, <1>6, <1>7, <1>8, <1>9, <1>10, <1>11
  DEF QueueNext, SupersedeReleased

(* Any interleaving of enqueues, releases and sweeps leaves at most one     *)
(* pending index job per repository.                                        *)
THEOREM OnePending == QueueSpec => []OnePendingIndexJob
<1>1. QueueInit => OnePendingIndexJob
  BY DEF QueueInit, OnePendingIndexJob, JobIds
<1> QED BY <1>1, OnePendingStep, QueueTypeCorrect, PTL DEF QueueSpec

-----------------------------------------------------------------------------
LEMMA NotSupersededStep ==
    QueueTypeOK /\ CommitJobsNotSuperseded /\ [QueueNext]_queueVars
    => CommitJobsNotSuperseded'
<1> SUFFICES ASSUME QueueTypeOK, CommitJobsNotSuperseded, [QueueNext]_queueVars
             PROVE  CommitJobsNotSuperseded'
  OBVIOUS
<1> USE DEF QueueTypeOK, JobIds, CommitJobsNotSuperseded
<1>1. ASSUME NEW r \in Repos, NEW f \in BOOLEAN, EnqueueIndexJob(r, f)
      PROVE  CommitJobsNotSuperseded'
  <2>1. CASE PendingIndexOf(r) = {}
    <3> DEFINE row == NewRow(r, "index", f, NoBatch)
    <3>1. Insert(row)
      BY <2>1, <1>1 DEF EnqueueIndexJob
    <3>2. row.error = ""
      BY DEF NewRow
    <3> HIDE DEF row
    <3> QED BY <3>1, <3>2, InsertRows
  <2>2. CASE PendingIndexOf(r) # {}
    BY <2>2, <1>1, WrittenRowFields DEF EnqueueIndexJob
  <2> QED BY <2>1, <2>2
<1>2. ASSUME NEW r \in Repos, NEW b \in Batches, EnqueueCommitJob(r, b)
      PROVE  CommitJobsNotSuperseded'
  <2> DEFINE row == NewRow(r, "commits", FALSE, b)
  <2>1. Insert(row)
    BY <1>2 DEF EnqueueCommitJob
  <2>2. row.error = ""
    BY DEF NewRow
  <2> HIDE DEF row
  <2> QED BY <2>1, <2>2, InsertRows
<1>3. ASSUME NEW w \in Workers, SupersedeStale(w) PROVE CommitJobsNotSuperseded'
  BY <1>3, WrittenRowFields DEF SupersedeStale, Surplus, IsIndex
<1>4. ASSUME NEW w \in Workers, RequeueStale(w) PROVE CommitJobsNotSuperseded'
  BY <1>4, WrittenRowFields DEF RequeueStale
<1>5. ASSUME NEW w \in Workers, ForgetSweep(w) PROVE CommitJobsNotSuperseded'
  BY <1>5 DEF ForgetSweep
<1>6. ASSUME NEW i \in JobIds, HeartbeatAges(i) PROVE CommitJobsNotSuperseded'
  BY <1>6, WrittenRowFields DEF HeartbeatAges
<1>7. ASSUME NEW i \in JobIds, NEW w \in Workers, ClaimNextIndexJob(i, w)
      PROVE  CommitJobsNotSuperseded'
  BY <1>7, WrittenRowFields DEF ClaimNextIndexJob
<1>8. ASSUME NEW i \in JobIds, NEW w \in Workers, HeartbeatIndexJob(i, w)
      PROVE  CommitJobsNotSuperseded'
  BY <1>8, WrittenRowFields DEF HeartbeatIndexJob
<1>9. ASSUME NEW i \in JobIds, NEW w \in Workers, ReleaseIndexJob(i, w)
      PROVE  CommitJobsNotSuperseded'
  BY <1>9, WrittenRowFields DEF ReleaseIndexJob
<1>10. ASSUME NEW i \in JobIds, NEW w \in Workers, NEW err, CompleteIndexJob(i, w, err),
              err # "superseded" \/ IsIndex(i)
       PROVE  CommitJobsNotSuperseded'
  BY <1>10, WrittenRowFields DEF CompleteIndexJob, IsIndex
<1>11. CASE UNCHANGED queueVars
  BY <1>11 DEF queueVars
<1> QED
  BY <1>1, <1>2, <1>3, <1>4, <1>5, <1>6, <1>7, <1>8, <1>9, <1>10, <1>11
  DEF QueueNext, SupersedeReleased

(* No interleaving of the sweep's two statements with anything else drops a *)
(* commit batch as superseded.                                              *)
THEOREM NotSuperseded == QueueSpec => []CommitJobsNotSuperseded
<1>1. QueueInit => CommitJobsNotSuperseded
  BY DEF QueueInit, CommitJobsNotSuperseded, JobIds
<1> QED BY <1>1, NotSupersededStep, QueueTypeCorrect, PTL DEF QueueSpec

-----------------------------------------------------------------------------
(* Every statement but the insert is guarded by the status of the rows it   *)
(* matches, so a finished row is never written again.                       *)
LEMMA TerminalStep ==
    ASSUME QueueTypeOK, [QueueNext]_queueVars, NEW j \in JobIds, Terminal(j)
    PROVE  jobs'[j] = jobs[j]
<1> USE DEF QueueTypeOK, JobIds, Terminal
<1>1. ASSUME NEW r \in Repos, NEW f \in BOOLEAN, EnqueueIndexJob(r, f)
      PROVE  jobs'[j] = jobs[j]
  BY <1>1, InsertRows DEF EnqueueIndexJob, PendingIndexOf, Pending
<1>2. ASSUME NEW r \in Repos, NEW b \in Batches, EnqueueCommitJob(r, b)
      PROVE  jobs'[j] = jobs[j]
  BY <1>2, InsertRows DEF EnqueueCommitJob
<1>3. ASSUME NEW w \in Workers, SupersedeStale(w) \/ RequeueStale(w) \/ ForgetSweep(w)
      PROVE  jobs'[j] = jobs[j]
  BY <1>3 DEF SupersedeStale, RequeueStale, ForgetSweep, Surplus, Requeued, StaleRows, Running
<1>4. ASSUME NEW i \in JobIds, HeartbeatAges(i) PROVE jobs'[j] = jobs[j]
  BY <1>4 DEF HeartbeatAges, Running
<1>5. ASSUME NEW i \in JobIds, NEW w \in Workers, ClaimNextIndexJob(i, w)
      PROVE  jobs'[j] = jobs[j]
  BY <1>5 DEF ClaimNextIndexJob, NextPending, Pending
<1>6. ASSUME NEW i \in JobIds, NEW w \in Workers,
             HeartbeatIndexJob(i, w) \/ ReleaseIndexJob(i, w)
      PROVE  jobs'[j] = jobs[j]
  BY <1>6 DEF HeartbeatIndexJob, ReleaseIndexJob, Releasable, HeldBy, Running
<1>7. ASSUME NEW i \in JobIds, NEW w \in Workers, NEW err, CompleteIndexJob(i, w, err)
      PROVE  jobs'[j] = jobs[j]
  BY <1>7 DEF CompleteIndexJob, HeldBy, Running
<1>8. CASE UNCHANGED queueVars
  BY <1>8 DEF queueVars
<1> QED
  BY <1>1, <1>2, <1>3, <1>4, <1>5, <1>6, <1>7, <1>8 DEF QueueNext, SupersedeReleased

(* A recorded result is final: no late worker, sweep or heartbeat changes it. *)
THEOREM TerminalRowsFinal == QueueSpec => TerminalIsFinal
<1>1. QueueTypeOK /\ [QueueNext]_queueVars
      => [\A i \in JobIds : Terminal(i) => jobs'[i] = jobs[i]]_queueVars
  BY TerminalStep
<1> QED BY <1>1, QueueTypeCorrect, PTL DEF QueueSpec, TerminalIsFinal

-----------------------------------------------------------------------------
(* Facts for the callers of the queue. *)

(* A row keeps its kind, its repository and its batch. *)
LEMMA RowIdentity ==
    ASSUME QueueTypeOK, [QueueNext]_queueVars, NEW j \in JobIds
    PROVE  /\ j \in JobIds'
           /\ jobs'[j].kind = jobs[j].kind /\ jobs'[j].repo = jobs[j].repo
           /\ jobs'[j].batch = jobs[j].batch
<1> USE DEF QueueTypeOK, JobIds
<1> DEFINE Same == /\ j \in JobIds'
                   /\ jobs'[j].kind = jobs[j].kind /\ jobs'[j].repo = jobs[j].repo
                   /\ jobs'[j].batch = jobs[j].batch
<1>1. ASSUME NEW r \in Repos, NEW f \in BOOLEAN, EnqueueIndexJob(r, f) PROVE Same
  <2>1. CASE PendingIndexOf(r) = {}
    BY <2>1, <1>1, InsertRows DEF EnqueueIndexJob
  <2>2. CASE PendingIndexOf(r) # {}
    BY <2>2, <1>1, WrittenRowFields DEF EnqueueIndexJob
  <2> QED BY <2>1, <2>2
<1>2. ASSUME NEW r \in Repos, NEW b \in Batches, EnqueueCommitJob(r, b) PROVE Same
  BY <1>2, InsertRows DEF EnqueueCommitJob
<1>3. ASSUME NEW w \in Workers, SupersedeStale(w) PROVE Same
  BY <1>3, WrittenRowFields DEF SupersedeStale
<1>4. ASSUME NEW w \in Workers, RequeueStale(w) PROVE Same
  BY <1>4, WrittenRowFields DEF RequeueStale
<1>5. ASSUME NEW w \in Workers, ForgetSweep(w) PROVE Same
  BY <1>5 DEF ForgetSweep
<1>6. ASSUME NEW i \in JobIds, HeartbeatAges(i) PROVE Same
  BY <1>6, WrittenRowFields DEF HeartbeatAges
<1>7. ASSUME NEW i \in JobIds, NEW w \in Workers, ClaimNextIndexJob(i, w) PROVE Same
  BY <1>7, WrittenRowFields DEF ClaimNextIndexJob
<1>8. ASSUME NEW i \in JobIds, NEW w \in Workers, HeartbeatIndexJob(i, w) PROVE Same
  BY <1>8, WrittenRowFields DEF HeartbeatIndexJob
<1>9. ASSUME NEW i \in JobIds, NEW w \in Workers, ReleaseIndexJob(i, w) PROVE Same
  BY <1>9, WrittenRowFields DEF ReleaseIndexJob
<1>10. ASSUME NEW i \in JobIds, NEW w \in Workers, NEW err, CompleteIndexJob(i, w, err)
       PROVE  Same
  BY <1>10, WrittenRowFields DEF CompleteIndexJob
<1>11. ASSUME UNCHANGED queueVars PROVE Same
  BY <1>11 DEF queueVars
<1> HIDE DEF Same
<1>12. Same
  BY <1>1, <1>2, <1>3, <1>4, <1>5, <1>6, <1>7, <1>8, <1>9, <1>10, <1>11
  DEF QueueNext, SupersedeReleased
<1> QED BY <1>12 DEF Same

(* The id a step adds, if any, is that of a pending row. *)
LEMMA NewRows ==
    ASSUME QueueTypeOK, [QueueNext]_queueVars, NEW j \in JobIds', j \notin JobIds
    PROVE  /\ jobs'[j].status = "pending"
           /\ jobs'[j].kind = "commits" => jobs'[j].batch \in Batches
<1> USE DEF QueueTypeOK
<1>1. ASSUME NEW r \in Repos, NEW f \in BOOLEAN, EnqueueIndexJob(r, f)
      PROVE  jobs'[j].status = "pending" /\ jobs'[j].kind = "index"
  <2> DEFINE row == NewRow(r, "index", f, NoBatch)
  <2>1. PendingIndexOf(r) = {} /\ Insert(row)
    BY <1>1 DEF EnqueueIndexJob, JobIds
  <2>2. row.status = "pending" /\ row.kind = "index"
    BY DEF NewRow
  <2> HIDE DEF row
  <2> QED BY <2>1, <2>2, InsertRows
<1>2. ASSUME NEW r \in Repos, NEW b \in Batches, EnqueueCommitJob(r, b)
      PROVE  jobs'[j].status = "pending" /\ jobs'[j].batch \in Batches
  <2> DEFINE row == NewRow(r, "commits", FALSE, b)
  <2>1. Insert(row)
    BY <1>2 DEF EnqueueCommitJob
  <2>2. row.status = "pending" /\ row.batch = b
    BY DEF NewRow
  <2> HIDE DEF row
  <2> QED BY <2>1, <2>2, InsertRows
<1>3. \/ \E r \in Repos, f \in BOOLEAN : EnqueueIndexJob(r, f)
      \/ \E r \in Repos, b \in Batches : EnqueueCommitJob(r, b)
      \/ UNCHANGED lastId
  BY DEF QueueNext, SupersedeReleased, SupersedeStale, RequeueStale, ForgetSweep, HeartbeatAges,
         ClaimNextIndexJob, HeartbeatIndexJob, ReleaseIndexJob, CompleteIndexJob, queueVars
<1> QED BY <1>1, <1>2, <1>3 DEF JobIds

(* Only a claim makes a worker the holder of a row. *)
LEMMA OnlyClaimHolds ==
    ASSUME QueueTypeOK, [QueueNext]_queueVars, NEW j, NEW v \in Workers,
           HeldBy(j, v)', ~HeldBy(j, v)
    PROVE  j \in JobIds /\ ClaimNextIndexJob(j, v)
<1> USE DEF QueueTypeOK, HeldBy, Running
<1>0. j \in JobIds
  BY NewRows
<1>00. jobs[j] \in Row /\ v # NoWorker
  BY <1>0, NoWorkerAssumption
<1> USE DEF JobIds
<1> DEFINE Kept == jobs'[j].status = "running" /\ jobs'[j].worker = v
                   => jobs[j].status = "running" /\ jobs[j].worker = v
<1>1. ASSUME NEW r \in Repos, NEW f \in BOOLEAN, EnqueueIndexJob(r, f) PROVE Kept
  <2>1. CASE PendingIndexOf(r) = {}
    BY <2>1, <1>1, <1>0, InsertRows DEF EnqueueIndexJob
  <2>2. CASE PendingIndexOf(r) # {}
    BY <2>2, <1>1, <1>0, <1>00, WrittenRowFields DEF EnqueueIndexJob
  <2> QED BY <2>1, <2>2
<1>2. ASSUME NEW r \in Repos, NEW b \in Batches, EnqueueCommitJob(r, b) PROVE Kept
  BY <1>2, <1>0, InsertRows DEF EnqueueCommitJob
<1>3. ASSUME NEW w \in Workers, SupersedeStale(w) PROVE Kept
  BY <1>3, <1>0, <1>00, WrittenRowFields DEF SupersedeStale
<1>4. ASSUME NEW w \in Workers, RequeueStale(w) PROVE Kept
  BY <1>4, <1>0, <1>00, WrittenRowFields DEF RequeueStale
<1>5. ASSUME NEW w \in Workers, ForgetSweep(w) PROVE Kept
  BY <1>5 DEF ForgetSweep
<1>6. ASSUME NEW i \in JobIds, HeartbeatAges(i) PROVE Kept
  BY <1>6, <1>0, <1>00, WrittenRowFields DEF HeartbeatAges
<1>7. ASSUME NEW i \in JobIds, NEW w \in Workers, ClaimNextIndexJob(i, w)
      PROVE  Kept \/ ClaimNextIndexJob(j, v)
  <2>1. CASE i # j
    BY <1>7, <2>1, <1>0 DEF ClaimNextIndexJob
  <2>2. CASE i = j
    <3>1. jobs'[j].worker = w
      BY <1>7, <2>2, <1>0, <1>00, WrittenRowFields DEF ClaimNextIndexJob
    <3> QED BY <1>7, <2>2, <3>1
  <2> QED BY <2>1, <2>2
<1>8. ASSUME NEW i \in JobIds, NEW w \in Workers, HeartbeatIndexJob(i, w) PROVE Kept
  BY <1>8, <1>0, <1>00, WrittenRowFields DEF HeartbeatIndexJob
<1>9. ASSUME NEW i \in JobIds, NEW w \in Workers, ReleaseIndexJob(i, w) PROVE Kept
  BY <1>9, <1>0, <1>00, WrittenRowFields DEF ReleaseIndexJob
<1>10. ASSUME NEW i \in JobIds, NEW w \in Workers, NEW err, CompleteIndexJob(i, w, err)
       PROVE  Kept
  BY <1>10, <1>0, <1>00, WrittenRowFields DEF CompleteIndexJob
<1>11. ASSUME UNCHANGED queueVars PROVE Kept
  BY <1>11 DEF queueVars
<1>12. ~Kept
  BY <1>0
<1> HIDE DEF Kept
<1> QED
  BY <1>0, <1>1, <1>2, <1>3, <1>4, <1>5, <1>6, <1>7, <1>8, <1>9, <1>10, <1>11, <1>12
  DEF QueueNext, SupersedeReleased

-----------------------------------------------------------------------------
(* What the actions write is well formed. *)

LEMMA IdleType == Idle \in Proc
  BY ReposAssumption DEF Idle, Proc, PCs, Shas, JobErrors

LEMMA ProcWrites ==
    ASSUME NEW pr \in Proc
    PROVE  /\ \A pc \in PCs : At(pr, pc) \in Proc
           /\ \A pc \in PCs, err \in JobErrors : AtWith(pr, pc, err) \in Proc
  BY DEF Proc, At, AtWith

LEMMA ProcFields ==
    ASSUME NEW pr \in Proc
    PROVE  /\ \A pc : /\ At(pr, pc).pc = pc /\ At(pr, pc).kind = pr.kind
                      /\ At(pr, pc).repo = pr.repo /\ At(pr, pc).batch = pr.batch
                      /\ At(pr, pc).job = pr.job /\ At(pr, pc).err = pr.err
           /\ \A pc, err : /\ AtWith(pr, pc, err).pc = pc /\ AtWith(pr, pc, err).kind = pr.kind
                           /\ AtWith(pr, pc, err).repo = pr.repo
                           /\ AtWith(pr, pc, err).batch = pr.batch
                           /\ AtWith(pr, pc, err).job = pr.job /\ AtWith(pr, pc, err).err = err
  BY DEF Proc, At, AtWith

LEMMA IdleFields ==
    /\ Idle.pc = "idle" /\ Idle.kind = "none" /\ Idle.job = 0
    /\ Idle.batch = NoBatch /\ Idle.err = ""
  BY DEF Idle

LEMMA RepoWrites ==
    ASSUME NEW row \in RepoRow
    PROVE  /\ \A w \in Workers : ClaimedRow(row, w) \in RepoRow
           /\ \A st \in {"idle", "error"} : FreedRow(row, st) \in RepoRow
           /\ \A sha \in Shas : [row EXCEPT !.pendingCommit = sha] \in RepoRow
           /\ \A sha \in Shas : [row EXCEPT !.lastCommit = sha] \in RepoRow
           /\ [row EXCEPT !.live = FALSE] \in RepoRow
  BY DEF RepoRow, ClaimedRow, FreedRow, Shas

LEMMA NewRepoType ==
    /\ NewRepo \in RepoRow
    /\ [NewRepo EXCEPT !.registered = FALSE] \in RepoRow
    /\ [NewRepo EXCEPT !.lastCommit = Cursor0] \in RepoRow
  BY ServiceAssumption DEF NewRepo, RepoRow, Shas

LEMMA BatchType ==
    ASSUME NEW b \in Batches \cup {NoBatch}
    PROVE  b.first \in Nat /\ b.last \in Nat
  BY BatchesAssumption DEF NoBatch

LEMMA ProcsType ==
    /\ \A p \in Procs : Instance(p) \in Workers
    /\ \A w \in Workers : Poller(w) \in Procs /\ Instance(Poller(w)) = w
    /\ Handlers \subseteq Procs
    /\ \A p \in Handlers : p # Poller(Instance(p))
  BY ServiceAssumption DEF Procs, Instance, Poller, Handlers

-----------------------------------------------------------------------------
(***************************************************************************)
(* Every step of the service is a step of the job queue, or leaves the     *)
(* queue alone.                                                            *)
(***************************************************************************)
LEMMA QueueStep ==
    ASSUME TypeOK, ProcInv, [Next]_vars
    PROVE  [QueueNext]_queueVars
<1> USE DEF TypeOK
<1>1. ASSUME NEW p \in Procs, Enqueue(p) PROVE QueueNext
  <2>1. proc[p] \in Proc
    OBVIOUS
  <2>2. proc[p].repo \in Repos /\ proc[p].force \in BOOLEAN
    BY <2>1 DEF Proc
  <2>3. proc[p].kind = "commits" => proc[p].batch \in Batches
    BY DEF ProcInv
  <2> QED BY <1>1, <2>2, <2>3 DEF Enqueue, QueueNext
<1>2. ASSUME NEW p \in Procs, Complete(p) PROVE [QueueNext]_queueVars
  <2>1. CASE UNCHANGED queueVars
    BY <2>1
  <2>2. CASE CompleteIndexJob(proc[p].job, Instance(p), proc[p].err)
    <3>1. CASE ~HeldBy(proc[p].job, Instance(p))
      BY <2>2, <3>1 DEF CompleteIndexJob, queueVars
    <3>2. CASE HeldBy(proc[p].job, Instance(p))
      <4>1. proc[p] \in Proc /\ proc[p].err # "superseded"
        BY DEF ProcInv
      <4>2. proc[p].err \in JobErrors \ {"superseded"}
        BY <4>1 DEF Proc
      <4> QED BY <2>2, <3>2, <4>2, ProcsType DEF QueueNext, HeldBy
    <3> QED BY <3>1, <3>2
  <2> QED BY <1>2, <2>1, <2>2 DEF Complete
<1>3. ASSUME NEW p \in Procs, Release(p) PROVE [QueueNext]_queueVars
  BY <1>3, ProcsType DEF Release, QueueNext, ReleaseIndexJob, Releasable, HeldBy
<1>4. ASSUME NEW p \in Procs, Supersede(p) PROVE [QueueNext]_queueVars
  <2>1. CASE ~HeldBy(proc[p].job, Instance(p))
    BY <1>4, <2>1 DEF Supersede, SupersedeReleased, CompleteIndexJob, queueVars
  <2>2. CASE HeldBy(proc[p].job, Instance(p))
    <3>1. IsIndex(proc[p].job)
      BY <1>4, <2>2 DEF Supersede, ProcInv
    <3> QED BY <1>4, <2>2, <3>1, ProcsType DEF Supersede, QueueNext, HeldBy
  <2> QED BY <2>1, <2>2
<1>5. ASSUME NEW w \in Workers, PollNext(w) PROVE [QueueNext]_queueVars
  BY <1>5 DEF PollNext, PollSweep, PollRequeue, PollNothing, PollClaim, QueueNext
<1>6. ASSUME NEW w \in Workers, Heartbeat(w) PROVE QueueNext
  BY <1>6 DEF Heartbeat, HeartbeatIndexJob, HeldBy, QueueNext
<1>7. ASSUME NEW w \in Workers, Crash(w) PROVE QueueNext
  BY <1>7 DEF Crash, QueueNext
<1>8. ASSUME NEW w \in Workers, Close(w) \/ Closed(w) \/ Start(w) PROVE UNCHANGED queueVars
  BY <1>8 DEF Close, Closed, Start
<1>9. ASSUME NEW p \in Handlers, HandlerNext(p) PROVE UNCHANGED queueVars
  BY <1>9 DEF HandlerNext, StartIndex, IndexRepoSync, SyncRepoAsync, ApplyLocalChanges, ApplyCommits, Accept
<1>10. ASSUME NEW i \in JobIds, JobAges(i) PROVE QueueNext
  BY <1>10 DEF JobAges, QueueNext
<1>11. ASSUME NEW r \in Repos, ResetRepo(r) \/ DeleteRepo(r) \/ AddRepo(r) \/ ClaimExpires(r)
       PROVE  UNCHANGED queueVars
  BY <1>11 DEF ResetRepo, DeleteRepo, AddRepo, ClaimExpires
<1>12. ASSUME NEW p \in Procs,
              \/ Announce(p) \/ LoadRepo(p) \/ AwaitEarlier(p) \/ RetractPending(p)
              \/ ClaimRepo(p) \/ PublishPending(p) \/ PassLands(p) \/ PassFails(p)
              \/ WriteCursor(p) \/ WriteStatus(p)
       PROVE  UNCHANGED queueVars
  BY <1>12 DEF Announce, LoadRepo, AwaitEarlier, RetractPending, ClaimRepo, PublishPending,
               PassLands, PassFails, WriteCursor, WriteStatus
<1>13. CASE UNCHANGED vars
  BY <1>13 DEF vars
<1> QED
  BY <1>1, <1>2, <1>3, <1>4, <1>5, <1>6, <1>7, <1>8, <1>9, <1>10, <1>11, <1>12, <1>13
  DEF Next, ProcNext

-----------------------------------------------------------------------------
(* Type correctness. *)

LEMMA InitType == Init => TypeOK
<1> SUFFICES ASSUME Init PROVE TypeOK
  OBVIOUS
<1>1. QueueTypeOK
  BY QueueInitType DEF Init
<1>2. repos \in [Repos -> RepoRow]
  BY NewRepoType DEF Init
<1>3. proc \in [Procs -> Proc]
  BY IdleType DEF Init
<1> QED BY <1>1, <1>2, <1>3 DEF Init, TypeOK

LEMMA ProcUpdate ==
    ASSUME proc \in [Procs -> Proc], NEW p \in Procs, NEW pr \in Proc,
           proc' = [proc EXCEPT ![p] = pr]
    PROVE  proc' \in [Procs -> Proc]
  OBVIOUS

LEMMA GotoType ==
    ASSUME proc \in [Procs -> Proc], NEW p \in Procs, NEW pc \in PCs
    PROVE  /\ Goto(p, pc) => proc' \in [Procs -> Proc]
           /\ \A err \in JobErrors : GotoWith(p, pc, err) => proc' \in [Procs -> Proc]
           /\ Done(p) => proc' \in [Procs -> Proc]
<1>1. /\ At(proc[p], pc) \in Proc
      /\ \A err \in JobErrors : AtWith(proc[p], pc, err) \in Proc
  BY ProcWrites
<1> QED BY <1>1, IdleType DEF Goto, GotoWith, Done

LEMMA RepoUpdate ==
    ASSUME repos \in [Repos -> RepoRow], NEW r \in Repos
    PROVE  /\ \A w \in Workers :
                 ClaimRepoForIndexing(r, w) => repos' \in [Repos -> RepoRow]
           /\ \A sha \in Shas :
                 SetRepoPendingCommit(r, sha) => repos' \in [Repos -> RepoRow]
           /\ \A sha \in Shas :
                 UpdateRepoLastCommit(r, sha) => repos' \in [Repos -> RepoRow]
           /\ \A st \in {"idle", "error"} :
                 UpdateRepoStatus(r, st) => repos' \in [Repos -> RepoRow]
<1>1. repos[r] \in RepoRow
  OBVIOUS
<1> QED BY <1>1, RepoWrites
        DEF ClaimRepoForIndexing, SetRepoPendingCommit, UpdateRepoLastCommit, UpdateRepoStatus

LEMMA MishapType ==
    ASSUME mishaps \in Nat, NEW kind
    PROVE  Mishap(kind) => mishaps' \in Nat
  BY DEF Mishap

LEMMA AcceptType ==
    ASSUME TypeOK, NEW p \in Procs, NEW r \in Repos, NEW kind \in {"index", "commits", "local"},
           NEW force \in BOOLEAN, NEW b \in Batches \cup {NoBatch},
           NEW next \in {"enqueue", "claimRepo"}, Accept(p, r, kind, force, b, next)
    PROVE  /\ proc' \in [Procs -> Proc]
           /\ requests' \in Nat
           /\ UNCHANGED <<repos, mode, landed, mishaps>>
<1> DEFINE pr == [pc |-> next, kind |-> kind, repo |-> r, force |-> force, batch |-> b,
                  job |-> 0, pending |-> 0, err |-> ""]
<1>1. pr \in Proc
  BY DEF Proc, PCs, Shas, JobErrors
<1>2. proc' = [proc EXCEPT ![p] = pr] /\ proc \in [Procs -> Proc]
  BY DEF Accept, TypeOK
<1> HIDE DEF pr
<1>3. proc' \in [Procs -> Proc]
  BY <1>1, <1>2, ProcUpdate
<1>4. requests' \in Nat
  <2>1. requests' = requests + 1
    BY DEF Accept
  <2>2. requests \in Nat
    BY DEF TypeOK
  <2> QED BY <2>1, <2>2
<1>5. UNCHANGED <<repos, mode, landed, mishaps>>
  BY DEF Accept
<1> QED BY <1>3, <1>4, <1>5

LEMMA StepType ==
    ASSUME TypeOK, ProcInv, [Next]_vars
    PROVE  TypeOK'
<1> USE DEF TypeOK
<1> DEFINE Rest == /\ repos \in [Repos -> RepoRow]
                   /\ mode \in [Workers -> {"up", "closing", "down"}]
                   /\ proc \in [Procs -> Proc]
                   /\ landed \in [Repos -> SUBSET Shas]
                   /\ requests \in Nat /\ mishaps \in Nat
<1>0. QueueTypeOK'
  BY QueueStep, QueueStepType
<1>00. /\ \A p \in Procs : /\ proc[p] \in Proc /\ proc[p].repo \in Repos
                           /\ proc[p].batch.last \in Shas
                           /\ proc[p].batch.first .. proc[p].batch.last \subseteq Shas
       /\ \A r \in Repos : repos[r] \in RepoRow /\ repos[r].pendingCommit \in Shas
       /\ PassPCs \subseteq PCs
       /\ {"idle", "requeue", "claimJob", "getRepo", "await", "retract", "claimRepo",
           "release", "supersede", "complete", "enqueue", "announce"} \subseteq PCs
       /\ {"", "failed", "cancelled", "gap"} \subseteq JobErrors
       /\ 0 \in Shas
  <2>1. ASSUME NEW p \in Procs
        PROVE  /\ proc[p] \in Proc /\ proc[p].repo \in Repos
               /\ proc[p].batch.last \in Shas
               /\ proc[p].batch.first .. proc[p].batch.last \subseteq Shas
    <3>1. proc[p] \in Proc /\ proc[p].batch \in Batches \cup {NoBatch}
      BY DEF Proc
    <3>2. proc[p].batch.first \in Nat /\ proc[p].batch.last \in Nat
      BY <3>1, BatchType
    <3> QED BY <3>1, <3>2 DEF Proc, Shas
  <2>2. \A r \in Repos : repos[r] \in RepoRow /\ repos[r].pendingCommit \in Shas
    BY DEF RepoRow
  <2> QED BY <2>1, <2>2 DEF PCs, PassPCs, JobErrors, Shas
<1>1. ASSUME NEW p \in Handlers, HandlerNext(p) PROVE Rest'
  <2>1. p \in Procs
    BY ProcsType
  <2> QED BY <1>1, <2>1, AcceptType
          DEF HandlerNext, StartIndex, IndexRepoSync, SyncRepoAsync, ApplyLocalChanges, ApplyCommits
<1>2. ASSUME NEW w \in Workers, PollNext(w) PROVE Rest'
  <2> DEFINE p == Poller(w)
  <2>1. p \in Procs
    BY ProcsType
  <2>2. ASSUME PollClaim(w) PROVE Rest'
    <3>1. PICK i \in JobIds :
             proc' = [proc EXCEPT ![p] =
                         [pc |-> "getRepo", kind |-> jobs[i].kind, repo |-> jobs[i].repo,
                          force |-> FALSE, batch |-> jobs[i].batch, job |-> i,
                          pending |-> 0, err |-> ""]]
      BY <2>2 DEF PollClaim
    <3>2. jobs[i] \in Row /\ i \in Nat
      BY DEF QueueTypeOK, JobIds
    <3> DEFINE pr == [pc |-> "getRepo", kind |-> jobs[i].kind, repo |-> jobs[i].repo,
                      force |-> FALSE, batch |-> jobs[i].batch, job |-> i,
                      pending |-> 0, err |-> ""]
    <3>3. pr \in Proc
      BY <3>2, <1>00 DEF Row, Proc
    <3> HIDE DEF pr
    <3>4. proc' \in [Procs -> Proc]
      BY <3>1, <3>3, <2>1, ProcUpdate DEF pr
    <3> QED BY <3>4, <2>2 DEF PollClaim
  <2>3. ASSUME PollSweep(w) \/ PollRequeue(w) \/ PollNothing(w) PROVE Rest'
    BY <2>1, <2>3, <1>00, GotoType DEF PollSweep, PollRequeue, PollNothing
  <2> QED BY <1>2, <2>2, <2>3 DEF PollNext
<1>3. ASSUME NEW w \in Workers, Heartbeat(w) PROVE Rest'
  BY <1>3 DEF Heartbeat, serviceVars
<1>4. ASSUME NEW w \in Workers, Crash(w) PROVE Rest'
  BY <1>4, IdleType, MishapType DEF Crash
<1>5. ASSUME NEW w \in Workers, Close(w) \/ Closed(w) PROVE Rest'
  BY <1>5, MishapType DEF Close, Closed
<1>6. ASSUME NEW w \in Workers, Start(w) PROVE Rest'
  BY <1>6, RepoWrites DEF Start, ResetStuckRepos
<1>7. ASSUME NEW r \in Repos, ResetRepo(r) PROVE Rest'
  BY <1>7, RepoUpdate, MishapType DEF ResetRepo
<1>8. ASSUME NEW r \in Repos, DeleteRepo(r) \/ AddRepo(r) PROVE Rest'
  BY <1>8, NewRepoType, MishapType DEF DeleteRepo, AddRepo
<1>9. ASSUME NEW r \in Repos, ClaimExpires(r) PROVE Rest'
  <2>1. [repos[r] EXCEPT !.live = FALSE] \in RepoRow
    BY RepoWrites
  <2> QED BY <1>9, <2>1, MishapType DEF ClaimExpires
<1>10. ASSUME NEW i \in JobIds, JobAges(i) PROVE Rest'
  BY <1>10, MishapType DEF JobAges
<1>11. ASSUME NEW p \in Procs, Enqueue(p) \/ Release(p) \/ Supersede(p) \/ AwaitEarlier(p)
       PROVE  Rest'
  BY <1>11, <1>00, GotoType DEF Enqueue, Release, Supersede, AwaitEarlier
<1>12. ASSUME NEW p \in Procs, Complete(p) PROVE Rest'
  BY <1>12, <1>00, GotoType, MishapType DEF Complete
<1>13. ASSUME NEW p \in Procs, Announce(p) \/ RetractPending(p) \/ PublishPending(p)
       PROVE  Rest'
  BY <1>13, <1>00, GotoType, RepoUpdate, MishapType
  DEF Announce, RetractPending, PublishPending, PassPCs
<1>14. ASSUME NEW p \in Procs, LoadRepo(p) PROVE Rest'
  <2> DEFINE pr(pc) == [proc[p] EXCEPT !.pc = pc,
                                       !.pending = repos[proc[p].repo].pendingCommit]
  <2>1. pr("retract") \in Proc /\ pr("await") \in Proc
    BY <1>00 DEF Proc
  <2>2. \/ GotoWith(p, "complete", "cancelled") \/ GotoWith(p, "complete", "failed")
        \/ Goto(p, "claimRepo")
        \/ proc' = [proc EXCEPT ![p] = pr("retract")]
        \/ proc' = [proc EXCEPT ![p] = pr("await")]
    BY <1>14 DEF LoadRepo
  <2> HIDE DEF pr
  <2>3. proc' \in [Procs -> Proc]
    BY <2>1, <2>2, <1>00, GotoType, ProcUpdate
  <2> QED BY <1>14, <2>3 DEF LoadRepo
<1>15. ASSUME NEW p \in Procs, ClaimRepo(p) PROVE Rest'
  BY <1>15, <1>00, GotoType, RepoUpdate, ProcsType DEF ClaimRepo, PassPCs
<1>16. ASSUME NEW p \in Procs, PassLands(p) PROVE Rest'
  BY <1>16, <1>00, GotoType DEF PassLands, PassPCs
<1>17. ASSUME NEW p \in Procs, PassFails(p) PROVE Rest'
  BY <1>17, <1>00, GotoType DEF PassFails, PassPCs
<1>18. ASSUME NEW p \in Procs, WriteCursor(p) \/ WriteStatus(p) PROVE Rest'
  BY <1>18, <1>00, GotoType, RepoUpdate, MishapType
  DEF WriteCursor, WriteStatus, TerminalStatus, PassPCs
<1>19. ASSUME UNCHANGED vars PROVE Rest'
  BY <1>19 DEF vars, queueVars, serviceVars
<1> HIDE DEF Rest
<1>20. Rest'
  BY <1>1, <1>2, <1>3, <1>4, <1>5, <1>6, <1>7, <1>8, <1>9, <1>10, <1>11, <1>12,
     <1>13, <1>14, <1>15, <1>16, <1>17, <1>18, <1>19
  DEF Next, ProcNext
<1> QED BY <1>0, <1>20 DEF Rest

-----------------------------------------------------------------------------
(* What a process carries. *)

LEMMA InitProcInv == Init => ProcInv
<1> SUFFICES ASSUME Init PROVE ProcInv
  OBVIOUS
<1>1. \A p \in Procs : proc[p] = Idle
  BY DEF Init
<1>2. JobIds = {}
  BY DEF Init, QueueInit, JobIds
<1> QED BY <1>1, <1>2, IdleFields DEF ProcInv

(* A worker comes to hold a job only by the claim of its own poller. *)
LEMMA ClaimIsPollClaim ==
    ASSUME TypeOK, ProcInv, [Next]_vars, NEW j, NEW v \in Workers,
           HeldBy(j, v)', ~HeldBy(j, v)
    PROVE  proc'[Poller(v)].pc = "getRepo"
<1>1. j \in JobIds /\ ClaimNextIndexJob(j, v)
  BY QueueStep, OnlyClaimHolds DEF TypeOK
<1>2. jobs \in [JobIds -> Row] /\ jobs[j] \in Row /\ lastId \in Nat
  BY <1>1 DEF TypeOK, QueueTypeOK
<1>3. /\ jobs[j].status = "pending"
      /\ jobs'[j].status = "running" /\ jobs'[j].worker = v
      /\ lastId' = lastId
  BY <1>1 DEF ClaimNextIndexJob, NextPending, Pending, HeldBy, Running
<1>4. lastId' # lastId + 1
  BY <1>2, <1>3
<1>5. ASSUME NEW p \in Procs, ProcNext(p) PROVE FALSE
  <2>1. ASSUME \/ Announce(p) \/ LoadRepo(p) \/ AwaitEarlier(p) \/ RetractPending(p)
               \/ ClaimRepo(p) \/ PublishPending(p) \/ PassLands(p) \/ PassFails(p)
               \/ WriteCursor(p) \/ WriteStatus(p)
        PROVE  jobs' = jobs
    BY <2>1 DEF Announce, LoadRepo, AwaitEarlier, RetractPending, ClaimRepo, PublishPending,
                PassLands, PassFails, WriteCursor, WriteStatus, queueVars
  <2>2. ASSUME Enqueue(p) PROVE FALSE
    <3>1. \A f : Forced(jobs[j], f).status = "pending"
      BY <1>2, <1>3, WrittenRowFields
    <3>2. PICK r, f : /\ jobs' = [i \in JobIds |-> IF i \in PendingIndexOf(r)
                                                  THEN Forced(jobs[i], f) ELSE jobs[i]]
                      /\ lastId' = lastId
      BY <1>4, <2>2 DEF Enqueue, EnqueueIndexJob, EnqueueCommitJob, Insert
    <3> QED BY <3>1, <3>2, <1>1, <1>3
  <2>3. ASSUME Complete(p) \/ Release(p) \/ Supersede(p) PROVE FALSE
    <3>1. \/ jobs' = jobs
          \/ \E k, row : jobs[k].status = "running" /\ jobs' = [jobs EXCEPT ![k] = row]
      BY <2>3
      DEF Complete, Release, Supersede, CompleteIndexJob, ReleaseIndexJob, SupersedeReleased,
          HeldBy, Running, Releasable, queueVars
    <3> QED BY <3>1, <1>1, <1>2, <1>3
  <2> QED BY <1>3, <1>5, <2>1, <2>2, <2>3 DEF ProcNext
<1>6. ASSUME NEW w \in Workers, PollSweep(w) \/ PollRequeue(w) \/ PollNothing(w) PROVE FALSE
  BY <1>1, <1>2, <1>3, <1>6, WrittenRowFields
  DEF PollSweep, PollRequeue, PollNothing, SupersedeStale, RequeueStale, ForgetSweep, Surplus,
      Requeued, StaleRows, Running, queueVars
<1>7. ASSUME NEW w \in Workers, PollClaim(w) PROVE proc'[Poller(v)].pc = "getRepo"
  <2>1. PICK i \in JobIds :
           /\ jobs' = [jobs EXCEPT ![i] = Claimed(jobs[i], w)]
           /\ proc' = [proc EXCEPT ![Poller(w)] =
                         [pc |-> "getRepo", kind |-> jobs[i].kind, repo |-> jobs[i].repo,
                          force |-> FALSE, batch |-> jobs[i].batch, job |-> i,
                          pending |-> 0, err |-> ""]]
    BY <1>7 DEF PollClaim, ClaimNextIndexJob
  <2>2. w = v
    <3>1. i = j
      BY <2>1, <1>1, <1>2, <1>3
    <3>2. jobs'[j] = Claimed(jobs[j], w)
      BY <2>1, <3>1, <1>1, <1>2
    <3> QED BY <3>2, <1>2, <1>3, WrittenRowFields
  <2> QED BY <2>1, <2>2, ProcsType DEF TypeOK
<1>8. ASSUME NEW w \in Workers, Heartbeat(w) \/ Crash(w) \/ Close(w) \/ Closed(w) \/ Start(w)
      PROVE  FALSE
  BY <1>1, <1>2, <1>3, <1>8, WrittenRowFields
  DEF Heartbeat, HeartbeatIndexJob, HeldBy, Running, Crash, ForgetSweep, Close, Closed, Start,
      queueVars
<1>9. ASSUME NEW i \in JobIds, JobAges(i) PROVE FALSE
  BY <1>1, <1>2, <1>3, <1>9, WrittenRowFields DEF JobAges, HeartbeatAges, Running
<1>10. ASSUME \/ \E r \in Repos : ResetRepo(r) \/ DeleteRepo(r) \/ AddRepo(r) \/ ClaimExpires(r)
              \/ \E p \in Handlers : HandlerNext(p)
              \/ UNCHANGED vars
       PROVE  FALSE
  BY <1>3, <1>10 DEF ResetRepo, DeleteRepo, AddRepo, ClaimExpires, HandlerNext, StartIndex,
      IndexRepoSync, SyncRepoAsync, ApplyLocalChanges, ApplyCommits, Accept, vars, queueVars
<1> QED BY <1>5, <1>6, <1>7, <1>8, <1>9, <1>10 DEF Next, PollNext

LEMMA ProcInvStep ==
    ASSUME TypeOK, ProcInv, [Next]_vars
    PROVE  ProcInv'
<1> DEFINE Carries(q, pr) == /\ pr.job # 0 => q = Poller(Instance(q))
                             /\ pr.kind = "commits" => pr.batch \in Batches
                             /\ pr.pc \in {"publish", "cursor"} => pr.kind = "commits"
                             /\ pr.err # "superseded"
                             /\ pr.pc = "idle" => pr = Idle
           Moved(q) == \/ proc'[q] = proc[q]
                       \/ proc'[q] = Idle
                       \/ /\ Carries(q, proc'[q])
                          /\ mode'[Instance(q)] = mode[Instance(q)]
                          /\ mode[Instance(q)] # "down"
                          /\ proc'[q].pc # "supersede"
                       \/ Release(q)
<1>1. \A q \in Procs : Carries(q, proc[q]) /\ proc[q] \in Proc
  BY DEF ProcInv, TypeOK
<1>2. \A q \in Procs : Carries(q, Idle)
  BY IdleFields
<1>3. \A p \in Procs : mode[Instance(p)] = "down" => proc[p].pc = "idle"
  BY IdleFields DEF ProcInv
<1>4. ASSUME NEW p \in Procs, mode[Instance(p)] # "down", UNCHANGED mode,
             NEW pr, Carries(p, pr), pr.pc # "supersede", proc' = [proc EXCEPT ![p] = pr]
      PROVE  \A q \in Procs : Moved(q)
  BY <1>4 DEF TypeOK
<1>5. ASSUME NEW p \in Procs, mode[Instance(p)] # "down", UNCHANGED mode,
             \/ Done(p)
             \/ \E pc \in PCs \ {"idle", "supersede", "publish", "cursor"} :
                   \/ Goto(p, pc)
                   \/ \E err \in {"failed", "cancelled", "gap"} : GotoWith(p, pc, err)
             \/ proc[p].kind = "commits" /\ (Goto(p, "publish") \/ Goto(p, "cursor"))
      PROVE  \A q \in Procs : Moved(q)
  <2>1. ASSUME NEW pc \in PCs, pc \notin {"idle", "publish", "cursor"}
        PROVE  /\ Carries(p, At(proc[p], pc))
               /\ \A err \in {"failed", "cancelled", "gap"} : Carries(p, AtWith(proc[p], pc, err))
    BY <1>1, <2>1, ProcFields
  <2>2. ASSUME NEW pc \in {"publish", "cursor"}, proc[p].kind = "commits"
        PROVE  Carries(p, At(proc[p], pc))
    BY <1>1, <2>2, ProcFields
  <2>3. \A pc, err : At(proc[p], pc).pc = pc /\ AtWith(proc[p], pc, err).pc = pc
    BY <1>1, ProcFields
  <2> HIDE DEF Carries, Moved
  <2>4. CASE Done(p)
    BY <1>4, <1>5, <1>2, <2>4, IdleFields DEF Done
  <2>5. ASSUME NEW pc \in PCs \ {"idle", "supersede", "publish", "cursor"}, Goto(p, pc)
        PROVE  \A q \in Procs : Moved(q)
    <3>1. Carries(p, At(proc[p], pc)) /\ At(proc[p], pc).pc # "supersede"
      BY <2>1, <2>3
    <3> QED BY <1>4, <1>5, <2>5, <3>1 DEF Goto
  <2>6. ASSUME NEW pc \in PCs \ {"idle", "supersede", "publish", "cursor"},
               NEW err \in {"failed", "cancelled", "gap"}, GotoWith(p, pc, err)
        PROVE  \A q \in Procs : Moved(q)
    <3>1. Carries(p, AtWith(proc[p], pc, err)) /\ AtWith(proc[p], pc, err).pc # "supersede"
      BY <2>1, <2>3
    <3> QED BY <1>4, <1>5, <2>6, <3>1 DEF GotoWith
  <2>7. ASSUME NEW pc \in {"publish", "cursor"}, proc[p].kind = "commits", Goto(p, pc)
        PROVE  \A q \in Procs : Moved(q)
    BY <1>4, <1>5, <2>2, <2>3, <2>7 DEF Goto
  <2> QED BY <1>5, <2>4, <2>5, <2>6, <2>7
<1> HIDE DEF Moved
<1>6. ASSUME NEW p \in Procs, ProcNext(p) PROVE \A q \in Procs : Moved(q)
  <2>1. /\ proc[p].pc # "idle" /\ UNCHANGED mode
    BY <1>6 DEF ProcNext, Enqueue, Announce, LoadRepo, AwaitEarlier, RetractPending, ClaimRepo,
                PublishPending, PassLands, PassFails, WriteCursor, WriteStatus, Complete,
                Release, Supersede
  <2>2. mode[Instance(p)] # "down"
    BY <1>3, <2>1
  <2>3. CASE Release(p)
    BY <2>3, <2>1 DEF Release, Goto, Done, Moved, TypeOK
  <2>4. CASE LoadRepo(p)
    <3> DEFINE pr(pc) == [proc[p] EXCEPT !.pc = pc,
                                         !.pending = repos[proc[p].repo].pendingCommit]
    <3>1. \A pc \in {"retract", "await"} : Carries(p, pr(pc)) /\ pr(pc).pc = pc
      BY <1>1 DEF Proc
    <3>2. \/ \E err \in {"failed", "cancelled"} : GotoWith(p, "complete", err)
          \/ Goto(p, "claimRepo")
          \/ \E pc \in {"retract", "await"} : proc' = [proc EXCEPT ![p] = pr(pc)]
      BY <2>4 DEF LoadRepo
    <3> HIDE DEF pr, Carries
    <3> QED BY <1>4, <1>5, <2>1, <2>2, <3>1, <3>2 DEF PCs
  <2>5. CASE Enqueue(p) \/ Announce(p) \/ AwaitEarlier(p) \/ RetractPending(p)
    BY <1>5, <2>1, <2>2, <2>5 DEF Enqueue, Announce, AwaitEarlier, RetractPending, PCs
  <2>6. CASE ClaimRepo(p) \/ PublishPending(p) \/ PassLands(p) \/ PassFails(p)
    BY <1>5, <2>1, <2>2, <2>6
    DEF ClaimRepo, PublishPending, PassLands, PassFails, PCs, PassPCs
  <2>7. CASE WriteCursor(p) \/ WriteStatus(p) \/ Complete(p) \/ Supersede(p)
    BY <1>5, <2>1, <2>2, <2>7 DEF WriteCursor, WriteStatus, Complete, Supersede, PCs, PassPCs
  <2> QED BY <1>6, <2>3, <2>4, <2>5, <2>6, <2>7 DEF ProcNext
<1>7. ASSUME NEW w \in Workers, PollNext(w) PROVE \A q \in Procs : Moved(q)
  <2> DEFINE p == Poller(w)
  <2>1. p \in Procs /\ Instance(p) = w
    BY ProcsType
  <2>2. UNCHANGED mode /\ mode[w] # "down"
    BY <1>3, <1>7, <2>1 DEF PollNext, PollSweep, PollRequeue, PollNothing, PollClaim
  <2>3. CASE PollSweep(w) \/ PollRequeue(w) \/ PollNothing(w)
    BY <1>5, <2>1, <2>2, <2>3 DEF PollSweep, PollRequeue, PollNothing, PCs
  <2>4. CASE PollClaim(w)
    <3> DEFINE pr(i) == [pc |-> "getRepo", kind |-> jobs[i].kind, repo |-> jobs[i].repo,
                         force |-> FALSE, batch |-> jobs[i].batch, job |-> i,
                         pending |-> 0, err |-> ""]
    <3>1. PICK i \in JobIds : proc' = [proc EXCEPT ![p] = pr(i)]
      BY <2>4 DEF PollClaim
    <3>2. Carries(p, pr(i)) /\ pr(i).pc # "supersede"
      BY <2>1 DEF ProcInv
    <3> HIDE DEF pr, Carries
    <3> QED BY <1>4, <2>1, <2>2, <3>1, <3>2
  <2> QED BY <1>7, <2>3, <2>4 DEF PollNext
<1>8. ASSUME NEW p \in Handlers, HandlerNext(p) PROVE \A q \in Procs : Moved(q)
  <2>1. ASSUME NEW r, NEW kind, NEW force, NEW b, NEW next \in {"enqueue", "claimRepo"},
               kind = "commits" => b \in Batches, Accept(p, r, kind, force, b, next)
        PROVE  \A q \in Procs : Moved(q)
    <3> DEFINE pr == [pc |-> next, kind |-> kind, repo |-> r, force |-> force, batch |-> b,
                      job |-> 0, pending |-> 0, err |-> ""]
    <3>1. /\ UNCHANGED mode /\ mode[Instance(p)] = "up"
          /\ proc' = [proc EXCEPT ![p] = pr]
      BY <2>1 DEF Accept
    <3>2. Carries(p, pr) /\ pr.pc # "supersede"
      BY <2>1
    <3> HIDE DEF pr, Carries
    <3> QED BY <1>4, <3>1, <3>2, ProcsType
  <2> QED BY <1>8, <2>1
          DEF HandlerNext, StartIndex, IndexRepoSync, SyncRepoAsync, ApplyLocalChanges, ApplyCommits
<1>9. ASSUME NEW w \in Workers, Crash(w) PROVE \A q \in Procs : Moved(q)
  BY <1>9 DEF Crash, Moved
<1>10. ASSUME \/ \E w \in Workers : Heartbeat(w) \/ Close(w) \/ Closed(w) \/ Start(w)
              \/ \E r \in Repos : ResetRepo(r) \/ DeleteRepo(r) \/ AddRepo(r) \/ ClaimExpires(r)
              \/ \E i \in JobIds : JobAges(i)
              \/ UNCHANGED vars
       PROVE  \A q \in Procs : Moved(q)
  <2>1. proc' = proc
    BY <1>10 DEF Heartbeat, Close, Closed, Start, ResetRepo, DeleteRepo, AddRepo, ClaimExpires,
                 JobAges, vars, serviceVars
  <2> QED BY <2>1 DEF Moved
<1>11. \A q \in Procs : Moved(q)
  BY <1>6, <1>7, <1>8, <1>9, <1>10 DEF Next
<1>12. ASSUME NEW q \in Procs PROVE Carries(q, proc'[q])
  <2>1. CASE Release(q)
    <3>1. proc'[q] = Idle \/ proc'[q] = At(proc[q], "supersede")
      BY <2>1 DEF Release, Done, Goto, TypeOK
    <3> QED BY <3>1, <1>1, <1>2, ProcFields
  <2> HIDE DEF Carries
  <2> QED BY <1>1, <1>2, <1>11, <2>1 DEF Moved
<1>13. ASSUME NEW q \in Procs, mode'[Instance(q)] = "down" PROVE proc'[q] = Idle
  <2>1. CASE mode[Instance(q)] = "down"
    <3>1. proc[q] = Idle
      BY <2>1 DEF ProcInv
    <3>2. ~Release(q)
      BY <3>1, IdleFields DEF Release
    <3> QED BY <1>11, <2>1, <3>1, <3>2 DEF Moved
  <2>2. CASE mode[Instance(q)] # "down"
    <3>1. \E w \in Workers : w = Instance(q) /\ (Crash(w) \/ Closed(w))
      BY <1>13, <2>2, ProcsType
      DEF Next, HandlerNext, StartIndex, IndexRepoSync, SyncRepoAsync, ApplyLocalChanges, ApplyCommits, Accept,
          PollNext, PollSweep, PollRequeue, PollNothing, PollClaim, Heartbeat, serviceVars, Close,
          Closed, Start, Crash, ProcNext, Enqueue, Announce, LoadRepo, AwaitEarlier,
          RetractPending, ClaimRepo, PublishPending, PassLands, PassFails, WriteCursor,
          WriteStatus, Complete, Release, Supersede, ResetRepo, DeleteRepo, AddRepo,
          ClaimExpires, JobAges, vars, TypeOK
    <3>2. CASE Crash(Instance(q))
      BY <3>2 DEF Crash
    <3>3. CASE Closed(Instance(q))
      BY <3>3 DEF Closed, ProcInv
    <3> QED BY <3>1, <3>2, <3>3
  <2> QED BY <2>1, <2>2
<1>14. ASSUME NEW q \in Procs, proc'[q].pc = "supersede", NEW j, j = proc'[q].job,
              HeldBy(j, Instance(q))'
       PROVE  IsIndex(j)'
  <2> DEFINE v == Instance(q)
  <2>1. v \in Workers /\ HeldBy(j, v)' /\ j \in JobIds'
    BY <1>14, ProcsType DEF HeldBy
  <2>2. j # 0
    BY <2>1, StepType DEF TypeOK, QueueTypeOK, JobIds
  <2>3. HeldBy(j, v)
    <3>1. q = Poller(v)
      BY <1>12, <1>14, <2>2
    <3> QED BY <1>14, <2>1, <3>1, ClaimIsPollClaim
  <2>4. CASE Release(q)
    <3>1. /\ proc'[q] = At(proc[q], "supersede") /\ UNCHANGED queueVars
          /\ ~Releasable(proc[q].job, v)
      BY <1>14, <2>4, IdleFields DEF Release, Done, Goto, TypeOK
    <3>2. j = proc[q].job
      BY <3>1, <1>1, <1>14, ProcFields
    <3> QED BY <2>3, <3>1, <3>2 DEF Releasable, IsIndex, queueVars
  <2>5. CASE proc'[q] = proc[q]
    <3>1. IsIndex(j) /\ j \in JobIds
      BY <1>14, <2>3, <2>5 DEF ProcInv, HeldBy
    <3> QED BY <3>1, QueueStep, RowIdentity DEF IsIndex, TypeOK
  <2> QED BY <1>11, <1>14, <2>4, <2>5, IdleFields DEF Moved
<1>15. ASSUME NEW i \in JobIds', jobs'[i].kind = "commits" PROVE jobs'[i].batch \in Batches
  BY <1>15, QueueStep, RowIdentity, NewRows DEF ProcInv, TypeOK
<1>16. ASSUME NEW q \in Procs, proc'[q].pc = "supersede", HeldBy(proc[q].job, Instance(q))'
       PROVE  IsIndex(proc[q].job)'
  BY <1>14, <1>16 DEF HeldBy, IsIndex
<1> QED BY <1>12, <1>13, <1>15, <1>16 DEF ProcInv

(***************************************************************************)
(* The rows, the processes and everything they read are well formed, and   *)
(* only pollers carry jobs.                                                *)
(***************************************************************************)
THEOREM TypeCorrect == Spec => [](TypeOK /\ ProcInv)
<1>1. TypeOK /\ ProcInv /\ [Next]_vars => (TypeOK /\ ProcInv)'
  BY StepType, ProcInvStep
<1> QED BY <1>1, InitType, InitProcInv, PTL DEF Spec

(***************************************************************************)
(* The instances use the queue as JobQueue describes it: whatever they do  *)
(* to index_jobs is a behaviour of the queue on its own.                   *)
(***************************************************************************)
THEOREM ServiceImplementsQueue == Spec => QueueSpec
<1>1. Init => QueueInit
  BY DEF Init
<1>2. TypeOK /\ ProcInv /\ [Next]_vars => [QueueNext]_queueVars
  BY QueueStep
<1> QED BY <1>1, <1>2, TypeCorrect, PTL DEF Spec, QueueSpec

(***************************************************************************)
(* What the queue guarantees holds in every behaviour of the service:      *)
(* at most one pending index job per repository, no commit job dropped as  *)
(* superseded, and finished jobs never re-opened.                          *)
(***************************************************************************)
THEOREM ServiceQueueSafe ==
    Spec => [](OnePendingIndexJob /\ CommitJobsNotSuperseded) /\ TerminalIsFinal
  BY ServiceImplementsQueue, OnePending, NotSuperseded, TerminalRowsFinal, PTL

-----------------------------------------------------------------------------
(* One pass at a time over a repository. *)

LEMMA RepoFields ==
    ASSUME NEW row \in RepoRow
    PROVE  /\ \A w : /\ ClaimedRow(row, w).registered = row.registered
                     /\ ClaimedRow(row, w).status = "indexing" /\ ClaimedRow(row, w).live
                     /\ ClaimedRow(row, w).claimedBy = w
                     /\ ClaimedRow(row, w).lastCommit = row.lastCommit
           /\ \A st : /\ FreedRow(row, st).registered = row.registered
                      /\ FreedRow(row, st).lastCommit = row.lastCommit
  BY DEF RepoRow, ClaimedRow, FreedRow

(* The statements that leave the claim alone. *)
LEMMA ClaimKept ==
    ASSUME repos \in [Repos -> RepoRow], NEW r \in Repos, NEW sha,
           SetRepoPendingCommit(r, sha) \/ UpdateRepoLastCommit(r, sha), NEW x \in Repos
    PROVE  /\ repos'[x].registered = repos[x].registered
           /\ repos'[x].status = repos[x].status
           /\ repos'[x].live = repos[x].live
           /\ repos'[x].claimedBy = repos[x].claimedBy
           /\ SetRepoPendingCommit(r, sha) => repos'[x].lastCommit = repos[x].lastCommit
<1>1. ASSUME NEW row \in RepoRow
      PROVE  /\ [row EXCEPT !.pendingCommit = sha].registered = row.registered
             /\ [row EXCEPT !.pendingCommit = sha].status = row.status
             /\ [row EXCEPT !.pendingCommit = sha].live = row.live
             /\ [row EXCEPT !.pendingCommit = sha].claimedBy = row.claimedBy
             /\ [row EXCEPT !.pendingCommit = sha].lastCommit = row.lastCommit
             /\ [row EXCEPT !.lastCommit = sha].registered = row.registered
             /\ [row EXCEPT !.lastCommit = sha].status = row.status
             /\ [row EXCEPT !.lastCommit = sha].live = row.live
             /\ [row EXCEPT !.lastCommit = sha].claimedBy = row.claimedBy
  BY DEF RepoRow
<1> DEFINE pend == [repos[r] EXCEPT !.pendingCommit = sha]
           curs == [repos[r] EXCEPT !.lastCommit = sha]
<1>2. \/ repos' = repos
      \/ repos' = [repos EXCEPT ![r] = pend]
      \/ repos' = [repos EXCEPT ![r] = curs] /\ UpdateRepoLastCommit(r, sha)
  BY DEF SetRepoPendingCommit, UpdateRepoLastCommit
<1>3. SetRepoPendingCommit(r, sha) => repos' = repos \/ repos' = [repos EXCEPT ![r] = pend]
  BY DEF SetRepoPendingCommit
<1>4. /\ pend.registered = repos[r].registered /\ pend.status = repos[r].status
      /\ pend.live = repos[r].live /\ pend.claimedBy = repos[r].claimedBy
      /\ pend.lastCommit = repos[r].lastCommit
      /\ curs.registered = repos[r].registered /\ curs.status = repos[r].status
      /\ curs.live = repos[r].live /\ curs.claimedBy = repos[r].claimedBy
  BY <1>1
<1> HIDE DEF pend, curs
<1> QED BY <1>2, <1>3, <1>4

(* A process moves on inside a pass, or out of it, but not into one. *)
LEMMA PassKept ==
    ASSUME proc \in [Procs -> Proc], NEW p \in Procs, NEW q \in Procs, NEW r,
           \/ Done(p)
           \/ \E pc, err : /\ Goto(p, pc) \/ GotoWith(p, pc, err)
                           /\ pc \in PassPCs => proc[p].pc \in PassPCs,
           InPass(q, r)'
    PROVE  InPass(q, r) /\ (q = p => proc'[p] # Idle)
<1>1. \A pc, err : /\ At(proc[p], pc).pc = pc /\ At(proc[p], pc).repo = proc[p].repo
                   /\ AtWith(proc[p], pc, err).pc = pc
                   /\ AtWith(proc[p], pc, err).repo = proc[p].repo
  BY ProcFields
<1>2. Idle.pc \notin PassPCs
  BY IdleFields DEF PassPCs
<1> QED BY <1>1, <1>2 DEF InPass, Done, Goto, GotoWith

LEMMA ExclusionStep ==
    ASSUME Mishaps \cap {"overrun", "reset", "delete"} = {},
           TypeOK, ProcInv, PassHoldsClaim, PassExclusion,
           \A r \in Repos : repos[r].registered,
           [Next]_vars
    PROVE  PassHoldsClaim' /\ PassExclusion' /\ \A r \in Repos : repos'[r].registered
<1> DEFINE Kept(r) == /\ repos'[r].status = repos[r].status
                      /\ repos'[r].live = repos[r].live
                      /\ repos'[r].claimedBy = repos[r].claimedBy
           Stays == \A r \in Repos : repos'[r].registered
           Goal == PassHoldsClaim' /\ PassExclusion' /\ Stays
<1>1. /\ proc \in [Procs -> Proc] /\ repos \in [Repos -> RepoRow]
      /\ \A r \in Repos : repos[r] \in RepoRow
      /\ \A p \in Procs : proc[p].repo \in Repos
  BY DEF TypeOK, Proc
<1>2. \A r \in Repos, p \in Procs : InPass(p, r) =>
         /\ repos[r].status = "indexing" /\ repos[r].live /\ repos[r].claimedBy = Instance(p)
         /\ ~Free(r)
         /\ \A q \in Procs : InPass(q, r) => q = p
  BY DEF PassHoldsClaim, PassExclusion, Free
<1>3. ASSUME \A r \in Repos, q \in Procs : InPass(q, r)' => InPass(q, r) /\ Kept(r), Stays
      PROVE  Goal
  BY <1>2, <1>3 DEF PassHoldsClaim, PassExclusion
<1>4. ASSUME \A r \in Repos, q \in Procs : InPass(q, r)' => InPass(q, r), repos' = repos
      PROVE  Goal
  BY <1>3, <1>4
<1>5. ASSUME NEW p \in Procs, repos' = repos
      PROVE  /\ Done(p) => Goal
             /\ \A pc : Goto(p, pc) /\ (pc \in PassPCs => proc[p].pc \in PassPCs) => Goal
             /\ \A pc, err : /\ GotoWith(p, pc, err)
                             /\ pc \in PassPCs => proc[p].pc \in PassPCs
                             => Goal
  BY <1>1, <1>4, <1>5, PassKept
<1>6. ASSUME NEW p \in Procs, NEW r \in Repos, NEW sha,
             SetRepoPendingCommit(r, sha) \/ UpdateRepoLastCommit(r, sha)
      PROVE  /\ Done(p) => Goal
             /\ \A pc : Goto(p, pc) /\ (pc \in PassPCs => proc[p].pc \in PassPCs) => Goal
  BY <1>1, <1>3, <1>6, PassKept, ClaimKept
<1> HIDE DEF Goal
<1>7. ASSUME NEW p \in Procs, Enqueue(p) \/ AwaitEarlier(p) \/ PassFails(p) \/ Complete(p)
                              \/ Release(p) \/ Supersede(p) \/ PassLands(p)
      PROVE  Goal
  <2>1. CASE Enqueue(p) \/ AwaitEarlier(p)
    BY <1>5, <2>1 DEF Enqueue, AwaitEarlier, PassPCs
  <2>2. CASE Complete(p) \/ Release(p) \/ Supersede(p)
    BY <1>5, <2>2 DEF Complete, Release, Supersede, PassPCs
  <2>3. CASE PassLands(p)
    BY <1>5, <2>3 DEF PassLands, PassPCs
  <2>4. CASE PassFails(p)
    BY <1>5, <2>4 DEF PassFails, PassPCs
  <2> QED BY <1>7, <2>1, <2>2, <2>3, <2>4
<1>8. ASSUME NEW p \in Procs, Announce(p) \/ RetractPending(p) \/ PublishPending(p)
                              \/ WriteCursor(p)
      PROVE  Goal
  <2>1. CASE Announce(p)
    BY <1>1, <1>5, <1>6, <2>1 DEF Announce
  <2>2. CASE RetractPending(p)
    BY <1>1, <1>5, <1>6, <2>2 DEF RetractPending, PassPCs
  <2>3. CASE PublishPending(p)
    BY <1>1, <1>5, <1>6, <2>3 DEF PublishPending, PassPCs
  <2>4. CASE WriteCursor(p)
    BY <1>1, <1>5, <1>6, <2>4 DEF WriteCursor, PassPCs
  <2> QED BY <1>8, <2>1, <2>2, <2>3, <2>4
<1>9. ASSUME NEW p \in Procs, LoadRepo(p) PROVE Goal
  <2> DEFINE pr(pc) == [proc[p] EXCEPT !.pc = pc,
                                       !.pending = repos[proc[p].repo].pendingCommit]
  <2>1. /\ repos' = repos
        /\ \/ Goto(p, "claimRepo")
           \/ \E err : GotoWith(p, "complete", err)
           \/ \E pc \in {"retract", "await"} : proc' = [proc EXCEPT ![p] = pr(pc)]
    BY <1>9 DEF LoadRepo
  <2>2. \A pc \in {"retract", "await"} : pr(pc).pc = pc
    BY <1>1 DEF Proc
  <2> HIDE DEF pr
  <2>3. CASE \E pc \in {"retract", "await"} : proc' = [proc EXCEPT ![p] = pr(pc)]
    BY <1>1, <1>4, <2>1, <2>2, <2>3 DEF InPass, PassPCs
  <2> QED BY <1>5, <2>1, <2>3 DEF PassPCs
<1>10. ASSUME NEW p \in Procs, ClaimRepo(p) PROVE Goal
  <2>0. PICK r \in Repos : r = proc[p].repo
    BY <1>1
  <2>1. CASE Cancelled(p) \/ ~Free(r)
    BY <1>5, <1>10, <2>0, <2>1 DEF ClaimRepo, PassPCs
  <2>2. CASE ~Cancelled(p) /\ Free(r)
    <3>1. /\ repos' = [repos EXCEPT ![r] = ClaimedRow(repos[r], Instance(p))]
          /\ \E pc \in {"publish", "run"} : proc' = [proc EXCEPT ![p] = At(proc[p], pc)]
      BY <1>10, <2>0, <2>2 DEF ClaimRepo, ClaimRepoForIndexing, Goto
    <3>2. \A q \in Procs : ~InPass(q, r)
      BY <1>2, <2>2
    <3>3. \A q \in Procs, x \in Repos : InPass(q, x)' => IF q = p THEN x = r ELSE InPass(q, x)
      BY <1>1, <2>0, <3>1, ProcFields DEF InPass
    <3>4. /\ repos'[r].status = "indexing" /\ repos'[r].live
          /\ repos'[r].claimedBy = Instance(p)
          /\ repos'[r].registered
      BY <1>1, <3>1, RepoFields
    <3>5. \A x \in Repos : x # r => repos'[x] = repos[x]
      BY <1>1, <3>1
    <3>6. PassHoldsClaim'
      BY <1>2, <3>2, <3>3, <3>4, <3>5 DEF PassHoldsClaim
    <3>7. PassExclusion'
      BY <1>2, <3>2, <3>3 DEF PassExclusion
    <3>8. Stays
      BY <3>4, <3>5
    <3> QED BY <3>6, <3>7, <3>8 DEF Goal
  <2> QED BY <2>1, <2>2
<1>11. ASSUME NEW p \in Procs, WriteStatus(p) PROVE Goal
  <2>0. PICK r \in Repos : r = proc[p].repo
    BY <1>1
  <2>1. CASE repos' = repos
    BY <1>5, <1>11, <2>1 DEF WriteStatus, PassPCs
  <2>2. CASE repos' # repos
    <3>1. PICK st : repos' = [repos EXCEPT ![r] = FreedRow(repos[r], st)]
      BY <1>11, <2>0, <2>2 DEF WriteStatus, UpdateRepoStatus
    <3>2. Done(p) \/ Goto(p, "complete")
      BY <1>11 DEF WriteStatus
    <3>3. \A q \in Procs, x \in Repos : InPass(q, x)' => InPass(q, x) /\ q # p
      <4>1. proc'[p].pc \notin PassPCs
        <5>1. proc'[p] = Idle \/ proc'[p] = At(proc[p], "complete")
          BY <1>1, <3>2 DEF Done, Goto
        <5>2. At(proc[p], "complete").pc = "complete"
          BY <1>1, ProcFields
        <5> QED BY <5>1, <5>2, IdleFields DEF PassPCs
      <4>2. \A q \in Procs : q # p => proc'[q] = proc[q]
        BY <1>1, <3>2 DEF Done, Goto
      <4> QED BY <4>1, <4>2 DEF InPass
    <3>4. InPass(p, r)
      BY <1>11, <2>0 DEF WriteStatus, InPass, PassPCs
    <3>5. \A q \in Procs : ~InPass(q, r)'
      BY <1>2, <3>3, <3>4
    <3>6. \A x \in Repos : /\ x # r => repos'[x] = repos[x]
                           /\ repos'[x].registered
      BY <1>1, <3>1, RepoFields
    <3> QED BY <1>3, <3>3, <3>5, <3>6
  <2> QED BY <2>1, <2>2
<1>12. ASSUME NEW w \in Workers, PollNext(w) PROVE Goal
  <2>1. Poller(w) \in Procs
    BY ProcsType
  <2>2. CASE PollClaim(w)
    <3>1. /\ repos' = repos
          /\ \A q \in Procs : proc'[q] = proc[q] \/ proc'[q].pc = "getRepo"
      <4>1. PICK i \in JobIds :
               proc' = [proc EXCEPT ![Poller(w)] =
                           [pc |-> "getRepo", kind |-> jobs[i].kind, repo |-> jobs[i].repo,
                            force |-> FALSE, batch |-> jobs[i].batch, job |-> i,
                            pending |-> 0, err |-> ""]]
        BY <2>2 DEF PollClaim
      <4> QED BY <1>1, <2>1, <2>2, <4>1 DEF PollClaim
    <3> QED BY <1>4, <3>1 DEF InPass, PassPCs
  <2>3. CASE PollSweep(w) \/ PollRequeue(w) \/ PollNothing(w)
    BY <1>5, <2>1, <2>3 DEF PollSweep, PollRequeue, PollNothing, PassPCs
  <2> QED BY <1>12, <2>2, <2>3 DEF PollNext
<1>13. ASSUME NEW p \in Handlers, HandlerNext(p) PROVE Goal
  <2>1. ASSUME NEW r, NEW kind, NEW force, NEW b, NEW next \in {"enqueue", "claimRepo"},
               Accept(p, r, kind, force, b, next)
        PROVE  /\ repos' = repos
               /\ \A q \in Procs : proc'[q] = proc[q] \/ proc'[q].pc \notin PassPCs
    BY <1>1, <2>1, ProcsType DEF Accept, PassPCs
  <2>2. /\ repos' = repos
        /\ \A q \in Procs : proc'[q] = proc[q] \/ proc'[q].pc \notin PassPCs
    BY <1>13, <2>1
    DEF HandlerNext, StartIndex, IndexRepoSync, SyncRepoAsync, ApplyLocalChanges, ApplyCommits
  <2> QED BY <1>4, <2>2 DEF InPass
<1>14. ASSUME NEW w \in Workers, Crash(w) PROVE Goal
  <2>1. \A q \in Procs : proc'[q] = proc[q] \/ proc'[q].pc = "idle"
    BY <1>14, IdleFields DEF Crash
  <2> QED BY <1>4, <1>14, <2>1 DEF Crash, InPass, PassPCs
<1>15. ASSUME NEW w \in Workers, Start(w) PROVE Goal
  <2>1. \A q \in Procs, r \in Repos : InPass(q, r)' => InPass(q, r)
    BY <1>15 DEF Start, InPass
  <2>2. \A r \in Repos : repos'[r] = repos[r] \/ \A q \in Procs : ~InPass(q, r)
    <3>1. CASE Distributed
      BY <1>2, <1>15, <3>1 DEF Start, ResetStuckRepos
    <3>2. CASE ~Distributed
      <4>1. \A q \in Procs : Instance(q) = w
        BY <3>2, SingleInstanceAssumption, ProcsType
      <4>2. \A q \in Procs : proc[q].pc = "idle"
        BY <1>15, <4>1, IdleFields DEF Start, ProcInv
      <4> QED BY <4>2 DEF InPass, PassPCs
    <3> QED BY <3>1, <3>2
  <2>3. Stays
    BY <1>1, <1>15, RepoFields DEF Start, ResetStuckRepos
  <2> QED BY <1>3, <2>1, <2>2, <2>3
<1>16. ASSUME NEW r \in Repos, ClaimExpires(r) PROVE Goal
  <2>1. HolderGone(r)
    BY <1>16 DEF ClaimExpires, Mishap
  <2>2. \A q \in Procs : ~InPass(q, r)
    BY <1>2, <2>1 DEF HolderGone
  <2>3. \A q \in Procs, x \in Repos : InPass(q, x)' => InPass(q, x)
    BY <1>16 DEF ClaimExpires, InPass
  <2>4. \A x \in Repos : /\ x # r => repos'[x] = repos[x]
                         /\ repos'[x].registered
    <3>1. [repos[r] EXCEPT !.live = FALSE].registered = repos[r].registered
      BY <1>1 DEF RepoRow
    <3> QED BY <1>1, <1>16, <3>1 DEF ClaimExpires
  <2> QED BY <1>3, <2>2, <2>3, <2>4
<1>17. ASSUME NEW r \in Repos, ResetRepo(r) \/ DeleteRepo(r) \/ AddRepo(r) PROVE Goal
  BY <1>17 DEF ResetRepo, DeleteRepo, AddRepo, Mishap
<1>18. ASSUME \/ \E w \in Workers : Heartbeat(w) \/ Close(w) \/ Closed(w)
              \/ \E i \in JobIds : JobAges(i)
              \/ UNCHANGED vars
       PROVE  Goal
  <2>1. proc' = proc /\ repos' = repos
    BY <1>18 DEF Heartbeat, Close, Closed, JobAges, vars, serviceVars
  <2> QED BY <1>4, <2>1 DEF InPass
<1>19. Goal
  BY <1>7, <1>8, <1>9, <1>10, <1>11, <1>12, <1>13, <1>14, <1>15, <1>16, <1>17, <1>18
  DEF Next, ProcNext
<1> QED BY <1>19 DEF Goal

LEMMA InitExclusion ==
    ASSUME Init
    PROVE  PassHoldsClaim /\ PassExclusion /\ \A r \in Repos : repos[r].registered
<1>1. [NewRepo EXCEPT !.lastCommit = Cursor0].registered
  BY DEF NewRepo
<1>2. \A r \in Repos : repos[r].registered
  BY <1>1 DEF Init
<1>3. \A p \in Procs : proc[p].pc = "idle"
  BY IdleFields DEF Init
<1>4. PassHoldsClaim /\ PassExclusion
  BY <1>3 DEF PassHoldsClaim, PassExclusion, InPass, PassPCs
<1> QED BY <1>2, <1>4

(***************************************************************************)
(* Two passes never run over one repository, for any number of instances,  *)
(* requests, crashes and late heartbeats, as long as no pass outlives its  *)
(* claim and no client resets or deletes the repository under a pass.      *)
(***************************************************************************)
THEOREM Exclusion ==
    ASSUME Mishaps \cap {"overrun", "reset", "delete"} = {}
    PROVE  Spec => []PassExclusion
<1> DEFINE Inv == /\ TypeOK /\ ProcInv /\ PassHoldsClaim /\ PassExclusion
                  /\ \A r \in Repos : repos[r].registered
<1>1. Init => Inv
  BY InitType, InitProcInv, InitExclusion
<1>2. Inv /\ [Next]_vars => Inv'
  BY StepType, ProcInvStep, ExclusionStep
<1>3. Inv => PassExclusion
  OBVIOUS
<1> QED BY <1>1, <1>2, <1>3, PTL DEF Spec

-----------------------------------------------------------------------------
(* The cursor and the commits that landed. *)

LEMMA ChainStep ==
    ASSUME Cursor0 # 0, "delete" \notin Mishaps,
           TypeOK, ProcInv, ChainInv, NoHoles, [Next]_vars
    PROVE  ChainInv' /\ NoHoles'
<1> DEFINE Ready == {"claimRepo", "publish", "run", "cursor"}
           Grows == \A r \in Repos : landed[r] \subseteq landed'[r]
           Cursors == \A r \in Repos : /\ repos'[r].registered
                                       /\ repos'[r].lastCommit = repos[r].lastCommit
           Before(pr, here) == \A c \in Commits : Cursor0 < c /\ c < pr.batch.first => c \in here
           Within(pr, here) == pr.batch.first .. pr.batch.last \subseteq here
           Fits(pr, here) == pr.kind = "commits" =>
                               /\ pr.pc \in Ready => Before(pr, here)
                               /\ pr.pc = "cursor" => Within(pr, here)
           Same(pr, old) == pr.kind = old.kind /\ pr.batch = old.batch /\ pr.repo = old.repo
           Follows(q) == \/ proc'[q] = proc[q]
                         \/ proc'[q].pc \notin Ready
                         \/ proc'[q].kind # "commits"
                         \/ /\ Same(proc'[q], proc[q])
                            /\ proc[q].pc \in Ready /\ proc'[q].pc # "cursor"
           Goal == ChainInv' /\ NoHoles'
<1>1. /\ proc \in [Procs -> Proc] /\ repos \in [Repos -> RepoRow]
      /\ landed \in [Repos -> SUBSET Shas]
      /\ \A r \in Repos : repos[r] \in RepoRow /\ repos[r].registered
      /\ \A p \in Procs : proc[p].repo \in Repos /\ Fits(proc[p], landed[proc[p].repo])
  BY DEF TypeOK, Proc, ChainInv
<1>2. ASSUME \A q \in Procs : Fits(proc'[q], landed'[proc'[q].repo]), Grows, Cursors
      PROVE  Goal
  <2>1. \A r \in Repos : repos'[r].registered /\ repos'[r].lastCommit # 0
    BY <1>2 DEF ChainInv
  <2>2. ChainInv'
    BY <1>2, <2>1 DEF ChainInv
  <2>3. NoHoles'
    BY <1>2 DEF NoHoles
  <2> QED BY <2>2, <2>3
<1>3. ASSUME NEW q \in Procs, Grows, Follows(q) PROVE Fits(proc'[q], landed'[proc'[q].repo])
  BY <1>1, <1>3
<1>4. ASSUME \A q \in Procs : Follows(q), Grows, Cursors PROVE Goal
  BY <1>2, <1>3, <1>4
<1> HIDE DEF Fits, Goal
<1>5. \A p \in Procs : \A pc, err :
          /\ At(proc[p], pc).pc = pc /\ Same(At(proc[p], pc), proc[p])
          /\ AtWith(proc[p], pc, err).pc = pc /\ Same(AtWith(proc[p], pc, err), proc[p])
  BY <1>1, ProcFields
<1>6. ASSUME NEW p \in Procs
      PROVE  /\ Done(p) => \A q \in Procs : Follows(q)
             /\ \A pc : Goto(p, pc) /\ (pc \in Ready => proc[p].pc \in Ready /\ pc # "cursor")
                        => \A q \in Procs : Follows(q)
             /\ \A pc, err : GotoWith(p, pc, err) /\ pc \notin Ready
                             => \A q \in Procs : Follows(q)
  <2>1. ASSUME Done(p), NEW q \in Procs PROVE Follows(q)
    BY <1>1, <2>1, IdleFields DEF Done
  <2>2. ASSUME NEW pc, Goto(p, pc), pc \in Ready => proc[p].pc \in Ready /\ pc # "cursor",
               NEW q \in Procs
        PROVE  Follows(q)
    <3>1. CASE q = p
      <4>1. proc'[q] = At(proc[q], pc)
        BY <1>1, <2>2, <3>1 DEF Goto
      <4> QED BY <4>1, <1>5, <2>2, <3>1
    <3>2. CASE q # p
      BY <1>1, <2>2, <3>2 DEF Goto
    <3> QED BY <3>1, <3>2
  <2>3. ASSUME NEW pc, NEW err, GotoWith(p, pc, err), pc \notin Ready, NEW q \in Procs
        PROVE  Follows(q)
    <3>1. CASE q = p
      <4>1. proc'[q] = AtWith(proc[q], pc, err)
        BY <1>1, <2>3, <3>1 DEF GotoWith
      <4> QED BY <4>1, <1>5, <2>3, <3>1
    <3>2. CASE q # p
      BY <1>1, <2>3, <3>2 DEF GotoWith
    <3> QED BY <3>1, <3>2
  <2> QED BY <2>1, <2>2, <2>3
<1>7. ASSUME NEW r \in Repos, NEW sha, SetRepoPendingCommit(r, sha) PROVE Cursors
  BY <1>1, <1>7, ClaimKept
<1>8. ASSUME NEW r \in Repos, NEW st, UpdateRepoStatus(r, st) PROVE Cursors
  BY <1>1, <1>8, RepoFields DEF UpdateRepoStatus
<1>9. ASSUME UNCHANGED repos PROVE Cursors
  BY <1>1, <1>9
<1>10. ASSUME UNCHANGED landed PROVE Grows
  BY <1>10
<1> HIDE DEF Follows, Grows, Cursors
<1>11. ASSUME NEW p \in Procs, Enqueue(p) \/ AwaitEarlier(p) \/ Complete(p) \/ Release(p)
                               \/ Supersede(p)
       PROVE  Goal
  <2>1. CASE Enqueue(p)
    BY <1>4, <1>6, <1>9, <1>10, <2>1 DEF Enqueue
  <2>2. CASE AwaitEarlier(p)
    BY <1>4, <1>6, <1>9, <1>10, <2>2 DEF AwaitEarlier
  <2>3. CASE Complete(p) \/ Release(p) \/ Supersede(p)
    BY <1>4, <1>6, <1>9, <1>10, <2>3 DEF Complete, Release, Supersede
  <2> QED BY <1>11, <2>1, <2>2, <2>3
<1>12. ASSUME NEW p \in Procs, Announce(p) \/ RetractPending(p) \/ PublishPending(p)
       PROVE  Goal
  <2>1. CASE Announce(p)
    BY <1>1, <1>4, <1>6, <1>7, <1>9, <1>10, <2>1 DEF Announce
  <2>2. CASE RetractPending(p)
    BY <1>1, <1>4, <1>6, <1>7, <1>9, <1>10, <2>2 DEF RetractPending
  <2>3. CASE PublishPending(p)
    BY <1>1, <1>4, <1>6, <1>7, <1>9, <1>10, <2>3 DEF PublishPending
  <2> QED BY <1>12, <2>1, <2>2, <2>3
<1>13. ASSUME NEW p \in Procs, ClaimRepo(p) PROVE Goal
  <2>1. Grows
    BY <1>10, <1>13 DEF ClaimRepo
  <2>2. Cursors
    <3>1. CASE UNCHANGED repos
      BY <1>9, <3>1
    <3>2. CASE ClaimRepoForIndexing(proc[p].repo, Instance(p))
      BY <1>1, <3>2, RepoFields DEF ClaimRepoForIndexing, Cursors
    <3> QED BY <1>13, <3>1, <3>2 DEF ClaimRepo
  <2>3. \A q \in Procs : Follows(q)
    BY <1>6, <1>13 DEF ClaimRepo
  <2> QED BY <1>4, <2>1, <2>2, <2>3
<1>14. ASSUME NEW p \in Procs, PassFails(p) \/ WriteStatus(p) PROVE Goal
  <2>1. CASE PassFails(p)
    BY <1>4, <1>6, <1>9, <1>10, <2>1 DEF PassFails
  <2>2. CASE WriteStatus(p)
    BY <1>1, <1>4, <1>6, <1>8, <1>9, <1>10, <2>2 DEF WriteStatus
  <2> QED BY <1>14, <2>1, <2>2
<1>15. ASSUME NEW p \in Procs, PassLands(p) PROVE Goal
  <2>1. PICK r \in Repos : r = proc[p].repo
    BY <1>1
  <2>2. /\ proc[p].pc = "run" /\ UNCHANGED repos
        /\ proc[p].kind = "commits" =>
              landed'[r] = landed[r] \cup (proc[p].batch.first .. proc[p].batch.last)
        /\ proc[p].kind # "commits" => landed'[r] = landed[r]
        /\ \A x \in Repos : x # r => landed'[x] = landed[x]
    BY <1>1, <1>15, <2>1 DEF PassLands
  <2>3. Grows
    BY <2>2 DEF Grows
  <2>4. PICK pc : Goto(p, pc) /\ pc \in {"cursor", "status"}
                  /\ (proc[p].kind # "commits" => pc = "status")
    BY <1>15 DEF PassLands
  <2>5. \A q \in Procs : q # p => proc'[q] = proc[q]
    BY <1>1, <2>4 DEF Goto
  <2>6. proc'[p] = At(proc[p], pc)
    BY <1>1, <2>4 DEF Goto
  <2>7. Fits(proc'[p], landed'[proc'[p].repo])
    <3>1. CASE pc = "status"
      BY <2>6, <3>1, <1>5 DEF Fits
    <3>2. CASE proc[p].kind = "commits"
      <4>1. Before(proc[p], landed[r])
        BY <1>1, <2>1, <2>2, <3>2 DEF Fits
      <4>2. Before(proc[p], landed'[r]) /\ Within(proc[p], landed'[r])
        BY <4>1, <2>2, <3>2
      <4>3. proc'[p].batch = proc[p].batch /\ proc'[p].repo = r
        BY <2>1, <2>6, <1>5
      <4> QED BY <4>2, <4>3 DEF Fits
    <3> QED BY <2>4, <3>1, <3>2
  <2>8. \A q \in Procs : Fits(proc'[q], landed'[proc'[q].repo])
    BY <1>3, <2>3, <2>5, <2>7 DEF Follows
  <2> QED BY <1>2, <1>9, <2>2, <2>3, <2>8
<1>16. ASSUME NEW p \in Procs, WriteCursor(p) PROVE Goal
  <2>1. PICK r \in Repos : r = proc[p].repo
    BY <1>1
  <2>2. Grows /\ \A q \in Procs : Follows(q)
    BY <1>6, <1>10, <1>16 DEF WriteCursor
  <2>3. CASE UNCHANGED repos
    BY <1>4, <1>9, <2>2, <2>3
  <2>4. CASE UpdateRepoLastCommit(r, proc[p].batch.last)
    <3> DEFINE b == proc[p].batch
    <3>1. /\ proc[p].pc = "cursor" /\ proc[p].kind = "commits" /\ b \in Batches
          /\ landed' = landed
      BY <1>16 DEF WriteCursor, ProcInv
    <3>2. Before(proc[p], landed[r]) /\ Within(proc[p], landed[r])
      BY <1>1, <2>1, <3>1 DEF Fits
    <3>3. b.first \in Nat /\ b.last \in Nat /\ b.last # 0
      BY <3>1, BatchesAssumption
    <3>4. /\ repos'[r].lastCommit = b.last /\ repos'[r].registered
          /\ \A x \in Repos : x # r => repos'[x] = repos[x]
      <4>1. /\ [repos[r] EXCEPT !.lastCommit = b.last].lastCommit = b.last
            /\ [repos[r] EXCEPT !.lastCommit = b.last].registered = repos[r].registered
        BY <1>1 DEF RepoRow
      <4> QED BY <1>1, <2>4, <4>1 DEF UpdateRepoLastCommit
    <3>5. \A c \in Commits : c \in Nat
      BY BatchesAssumption DEF Commits
    <3>6. NoHoles'
      <4>1. \A c \in Commits : Cursor0 < c /\ c <= b.last => c \in landed[r]
        BY <3>2, <3>3, <3>5
      <4> QED BY <3>1, <3>4, <4>1 DEF NoHoles
    <3>7. \A x \in Repos : repos'[x].registered /\ repos'[x].lastCommit # 0
      BY <3>3, <3>4 DEF ChainInv
    <3>8. \A q \in Procs : Fits(proc'[q], landed'[proc'[q].repo])
      BY <1>3, <2>2
    <3>9. ChainInv'
      BY <3>7, <3>8 DEF ChainInv, Fits
    <3> QED BY <3>6, <3>9 DEF Goal
  <2> QED BY <1>16, <2>1, <2>3, <2>4 DEF WriteCursor
<1>17. ASSUME NEW r \in Repos, NEW b \in Batches, hasParent(b, repos[r].lastCommit)
       PROVE  \A c \in Commits : Cursor0 < c /\ c < b.first => c \in landed[r]
  <2>1. /\ b.first \in Nat /\ repos[r].lastCommit \in Nat
        /\ \A c \in Commits : c \in Nat
    BY <1>1, BatchesAssumption DEF RepoRow, Shas, Commits
  <2> QED BY <1>17, <2>1 DEF hasParent, NoHoles
<1>18. ASSUME NEW p \in Procs, LoadRepo(p) PROVE Goal
  <2> DEFINE pr(pc) == [proc[p] EXCEPT !.pc = pc,
                                       !.pending = repos[proc[p].repo].pendingCommit]
  <2>1. Grows /\ Cursors /\ landed' = landed
    BY <1>9, <1>10, <1>18 DEF LoadRepo
  <2>2. CASE \E pc \in {"retract", "await"} : proc' = [proc EXCEPT ![p] = pr(pc)]
    <3>1. \A pc \in {"retract", "await"} : pr(pc).pc = pc
      BY <1>1 DEF Proc
    <3> HIDE DEF pr
    <3>2. \A q \in Procs : Follows(q)
      BY <1>1, <2>2, <3>1 DEF Follows
    <3> QED BY <1>4, <2>1, <3>2
  <2>3. CASE \E err : GotoWith(p, "complete", err)
    BY <1>4, <1>6, <2>1, <2>3
  <2>4. CASE /\ Goto(p, "claimRepo")
             /\ \/ proc[p].kind = "index"
                \/ commitJobOrder(repos[proc[p].repo].lastCommit, proc[p].batch) = "next"
    <3>1. /\ \A q \in Procs : q # p => proc'[q] = proc[q]
          /\ proc'[p] = At(proc[p], "claimRepo")
      BY <1>1, <2>4 DEF Goto
    <3>2. Fits(proc'[p], landed'[proc'[p].repo])
      <4>1. CASE proc[p].kind # "commits"
        BY <1>5, <3>1, <4>1 DEF Fits
      <4>2. CASE proc[p].kind = "commits"
        <5>1. proc[p].batch \in Batches
          BY <4>2 DEF ProcInv
        <5>2. hasParent(proc[p].batch, repos[proc[p].repo].lastCommit)
          BY <1>1, <2>4, <4>2 DEF commitJobOrder, ChainInv
        <5>3. Before(proc[p], landed[proc[p].repo])
          BY <1>1, <1>17, <5>1, <5>2
        <5> QED BY <1>5, <2>1, <3>1, <5>3 DEF Fits
      <4> QED BY <4>1, <4>2
    <3>3. \A q \in Procs : Fits(proc'[q], landed'[proc'[q].repo])
      BY <1>3, <2>1, <3>1, <3>2 DEF Follows
    <3> QED BY <1>2, <2>1, <3>3
  <2> QED BY <1>18, <2>2, <2>3, <2>4 DEF LoadRepo
<1>19. ASSUME NEW p \in Handlers, HandlerNext(p) PROVE Goal
  <2>1. ASSUME NEW r \in Repos, NEW kind, NEW force, NEW b, NEW next \in {"enqueue", "claimRepo"},
               kind = "commits" => /\ b \in Batches
                                   /\ repos[r].lastCommit = 0 \/ hasParent(b, repos[r].lastCommit),
               Accept(p, r, kind, force, b, next)
        PROVE  Goal
    <3> DEFINE pr == [pc |-> next, kind |-> kind, repo |-> r, force |-> force, batch |-> b,
                      job |-> 0, pending |-> 0, err |-> ""]
    <3>1. /\ Grows /\ Cursors /\ landed' = landed
          /\ proc' = [proc EXCEPT ![p] = pr]
      BY <1>9, <1>10, <2>1 DEF Accept
    <3>2. /\ pr.kind = kind /\ pr.batch = b /\ pr.repo = r
          /\ pr.pc # "cursor"
      OBVIOUS
    <3> HIDE DEF pr
    <3>3. p \in Procs
      BY ProcsType
    <3>4. Fits(pr, landed[r])
      <4>1. ASSUME kind = "commits" PROVE Before(pr, landed[r])
        <5>1. hasParent(b, repos[r].lastCommit)
          BY <2>1, <4>1 DEF ChainInv
        <5> QED BY <1>17, <2>1, <3>2, <4>1, <5>1
      <4> QED BY <3>2, <4>1 DEF Fits
    <3>5. proc'[p] = pr /\ \A q \in Procs : q # p => proc'[q] = proc[q]
      BY <1>1, <3>1, <3>3
    <3>6. \A q \in Procs : Fits(proc'[q], landed'[proc'[q].repo])
      BY <1>3, <3>1, <3>2, <3>4, <3>5 DEF Follows
    <3> QED BY <1>2, <3>1, <3>6
  <2>2. ASSUME NEW r \in Repos, NEW b \in Batches, ApplyCommits(p, r, b) PROVE Goal
    BY <2>1, <2>2 DEF ApplyCommits
  <2>3. ASSUME NEW r \in Repos, NEW f, StartIndex(p, r, f) \/ IndexRepoSync(p, r) \/ SyncRepoAsync(p, r)
                                       \/ ApplyLocalChanges(p, r)
        PROVE  Goal
    BY <2>1, <2>3 DEF StartIndex, IndexRepoSync, SyncRepoAsync, ApplyLocalChanges
  <2> QED BY <1>19, <2>2, <2>3 DEF HandlerNext
<1>20. ASSUME NEW w \in Workers, PollNext(w) PROVE Goal
  <2>1. Poller(w) \in Procs
    BY ProcsType
  <2>2. CASE PollClaim(w)
    <3>1. PICK i \in JobIds :
             proc' = [proc EXCEPT ![Poller(w)] =
                         [pc |-> "getRepo", kind |-> jobs[i].kind, repo |-> jobs[i].repo,
                          force |-> FALSE, batch |-> jobs[i].batch, job |-> i,
                          pending |-> 0, err |-> ""]]
      BY <2>2 DEF PollClaim
    <3>2. \A q \in Procs : proc'[q] = proc[q] \/ proc'[q].pc = "getRepo"
      BY <1>1, <2>1, <3>1
    <3>3. \A q \in Procs : Follows(q)
      BY <3>2 DEF Follows
    <3> QED BY <1>4, <1>9, <1>10, <2>2, <3>3 DEF PollClaim
  <2>3. CASE PollSweep(w) \/ PollRequeue(w) \/ PollNothing(w)
    BY <1>4, <1>6, <1>9, <1>10, <2>1, <2>3 DEF PollSweep, PollRequeue, PollNothing
  <2> QED BY <1>20, <2>2, <2>3 DEF PollNext
<1>21. ASSUME NEW w \in Workers, Crash(w) PROVE Goal
  <2>1. \A q \in Procs : proc'[q] = proc[q] \/ proc'[q].pc = "idle"
    BY <1>21, IdleFields DEF Crash
  <2>2. \A q \in Procs : Follows(q)
    BY <2>1 DEF Follows
  <2> QED BY <1>4, <1>9, <1>10, <1>21, <2>2 DEF Crash
<1>22. ASSUME proc' = proc, landed' = landed, Cursors PROVE Goal
  BY <1>4, <1>10, <1>22 DEF Follows
<1>23. ASSUME NEW w \in Workers, Start(w) PROVE Goal
  <2>1. Cursors
    BY <1>1, <1>23, RepoFields DEF Start, ResetStuckRepos, Cursors
  <2> QED BY <1>22, <1>23, <2>1 DEF Start
<1>24. ASSUME NEW r \in Repos, ClaimExpires(r) PROVE Goal
  <2>1. /\ [repos[r] EXCEPT !.live = FALSE].registered = repos[r].registered
        /\ [repos[r] EXCEPT !.live = FALSE].lastCommit = repos[r].lastCommit
    BY <1>1 DEF RepoRow
  <2>2. Cursors
    BY <1>1, <1>24, <2>1 DEF ClaimExpires, Cursors
  <2> QED BY <1>22, <1>24, <2>2 DEF ClaimExpires
<1>25. ASSUME NEW r \in Repos, ResetRepo(r) \/ DeleteRepo(r) \/ AddRepo(r) PROVE Goal
  BY <1>1, <1>8, <1>22, <1>25 DEF ResetRepo, DeleteRepo, AddRepo, Mishap
<1>26. ASSUME \/ \E w \in Workers : Heartbeat(w) \/ Close(w) \/ Closed(w)
              \/ \E i \in JobIds : JobAges(i)
              \/ UNCHANGED vars
       PROVE  Goal
  <2>1. proc' = proc /\ repos' = repos /\ landed' = landed
    BY <1>26 DEF Heartbeat, Close, Closed, JobAges, vars, serviceVars
  <2> QED BY <1>9, <1>22, <2>1
<1>27. Goal
  BY <1>11, <1>12, <1>13, <1>14, <1>15, <1>16, <1>18, <1>19, <1>20, <1>21, <1>23, <1>24,
     <1>25, <1>26
  DEF Next, ProcNext
<1> QED BY <1>27 DEF Goal

LEMMA InitChain ==
    ASSUME Cursor0 # 0, Init
    PROVE  ChainInv /\ NoHoles
<1>1. /\ [NewRepo EXCEPT !.lastCommit = Cursor0].registered
      /\ [NewRepo EXCEPT !.lastCommit = Cursor0].lastCommit = Cursor0
  BY DEF NewRepo
<1>2. \A r \in Repos : repos[r].registered /\ repos[r].lastCommit = Cursor0
  BY <1>1 DEF Init
<1>3. \A p \in Procs : proc[p].pc = "idle"
  BY IdleFields DEF Init
<1>4. ChainInv
  BY <1>2, <1>3 DEF ChainInv
<1>5. \A c \in Commits : c \in Nat
  BY BatchesAssumption DEF Commits
<1>6. NoHoles
  BY <1>2, <1>5, ServiceAssumption DEF NoHoles
<1> QED BY <1>4, <1>6

(***************************************************************************)
(* The cursor of a repository that has one never passes a commit that did  *)
(* not land, however pushes, passes, resets, overrun claims, crashes and   *)
(* late heartbeats interleave, unless the repository itself is deleted.    *)
(***************************************************************************)
THEOREM CursorHasNoHoles ==
    ASSUME Cursor0 # 0, "delete" \notin Mishaps
    PROVE  Spec => []NoHoles
<1> DEFINE Inv == TypeOK /\ ProcInv /\ ChainInv /\ NoHoles
<1>1. Init => Inv
  BY InitType, InitProcInv, InitChain
<1>2. Inv /\ [Next]_vars => Inv'
  BY StepType, ProcInvStep, ChainStep
<1>3. Inv => NoHoles
  OBVIOUS
<1> QED BY <1>1, <1>2, <1>3, PTL DEF Spec

-----------------------------------------------------------------------------
(* Who changes a row of the queue, and who moves a process. *)

(* A worker's statements about its job: what they leave of row i, and that the  *)
(* worker moved on with them.                                                   *)
HolderWrites(p, i) ==
    /\ p = Poller(Instance(p)) /\ proc[p].job = i /\ HeldBy(i, Instance(p))
    /\ proc'[p] # proc[p]
    /\ \/ Complete(p) /\ jobs'[i] = Ended(jobs[i], proc[p].err)
       \/ Release(p) /\ jobs'[i] = Requeue(jobs[i])
       \/ Supersede(p) /\ jobs'[i] = Ended(jobs[i], "superseded")

SweepWrites(i) ==
    /\ i \in StaleRows
    /\ jobs'[i] = Requeue(jobs[i]) \/ (IsIndex(i) /\ jobs'[i] = Ended(jobs[i], "superseded"))

ClaimWrites(w, i) ==
    /\ Pending(i) /\ PollClaim(w) /\ jobs'[i] = Claimed(jobs[i], w)
    /\ proc'[Poller(w)].job = i

(***************************************************************************)
(* What one step of the service does to one row of the queue: a request    *)
(* forces a pending one, a poller claims it, its holder writes it, a sweep *)
(* takes a stale one, and heartbeats are written and age.                  *)
(***************************************************************************)
LEMMA RowStep ==
    ASSUME TypeOK, ProcInv, [Next]_vars, NEW i \in JobIds
    PROVE  \/ jobs'[i] = jobs[i]
           \/ Pending(i) /\ \E f : jobs'[i] = Forced(jobs[i], f)
           \/ \E w \in Workers : ClaimWrites(w, i)
           \/ \E p \in Procs : HolderWrites(p, i)
           \/ SweepWrites(i)
           \/ Running(i) /\ jobs'[i] = Beaten(jobs[i], "fresh")
           \/ Running(i) /\ JobAges(i) /\ jobs'[i] = Beaten(jobs[i], "stale")
<1> DEFINE Goal == \/ jobs'[i] = jobs[i]
                   \/ Pending(i) /\ \E f : jobs'[i] = Forced(jobs[i], f)
                   \/ \E w \in Workers : ClaimWrites(w, i)
                   \/ \E p \in Procs : HolderWrites(p, i)
                   \/ SweepWrites(i)
                   \/ Running(i) /\ jobs'[i] = Beaten(jobs[i], "fresh")
                   \/ Running(i) /\ JobAges(i) /\ jobs'[i] = Beaten(jobs[i], "stale")
<1>1. /\ jobs \in [JobIds -> Row] /\ lastId \in Nat /\ proc \in [Procs -> Proc]
      /\ \A k \in JobIds : k # 0
  BY DEF TypeOK, QueueTypeOK, JobIds
<1>2. ASSUME NEW p \in Procs, Complete(p) \/ Release(p) \/ Supersede(p), jobs'[i] # jobs[i]
      PROVE  HolderWrites(p, i)
  <2>1. proc[p] \in Proc /\ proc[p].pc \in {"complete", "release", "supersede"}
    BY <1>1, <1>2 DEF Complete, Release, Supersede
  <2>2. proc'[p] # proc[p]
    <3>1. CASE Done(p)
      BY <1>1, <2>1, <3>1, IdleFields DEF Done
    <3>2. CASE proc[p].pc = "release" /\ Goto(p, "supersede")
      BY <1>1, <2>1, <3>2, ProcFields DEF Goto
    <3> QED BY <1>2, <3>1, <3>2 DEF Complete, Release, Supersede
  <2>3. /\ HeldBy(proc[p].job, Instance(p))
        /\ \/ Complete(p) /\ jobs' = [jobs EXCEPT ![proc[p].job] = Ended(jobs[proc[p].job], proc[p].err)]
           \/ Release(p) /\ jobs' = [jobs EXCEPT ![proc[p].job] = Requeue(jobs[proc[p].job])]
           \/ Supersede(p) /\ jobs' = [jobs EXCEPT ![proc[p].job] = Ended(jobs[proc[p].job], "superseded")]
    BY <1>2 DEF Complete, Release, Supersede, CompleteIndexJob, ReleaseIndexJob,
                SupersedeReleased, Releasable, queueVars
  <2>4. proc[p].job = i
    BY <1>1, <1>2, <2>3
  <2>5. p = Poller(Instance(p))
    BY <1>1, <2>4 DEF ProcInv
  <2> QED BY <1>1, <2>2, <2>3, <2>4, <2>5 DEF HolderWrites
<1>3. ASSUME NEW p \in Procs, Enqueue(p) PROVE Goal
  <2>1. CASE \E row : Insert(row)
    BY <2>1, InsertRows DEF TypeOK
  <2>2. CASE \E r, f : jobs' = [k \in JobIds |-> IF k \in PendingIndexOf(r)
                                                  THEN Forced(jobs[k], f) ELSE jobs[k]]
    BY <2>2 DEF PendingIndexOf
  <2> QED BY <1>3, <2>1, <2>2 DEF Enqueue, EnqueueIndexJob, EnqueueCommitJob
<1>4. ASSUME NEW p \in Procs, ProcNext(p) PROVE Goal
  <2>1. ASSUME \/ Announce(p) \/ LoadRepo(p) \/ AwaitEarlier(p) \/ RetractPending(p)
               \/ ClaimRepo(p) \/ PublishPending(p) \/ PassLands(p) \/ PassFails(p)
               \/ WriteCursor(p) \/ WriteStatus(p)
        PROVE  jobs' = jobs
    BY <2>1 DEF Announce, LoadRepo, AwaitEarlier, RetractPending, ClaimRepo, PublishPending,
                PassLands, PassFails, WriteCursor, WriteStatus, queueVars
  <2> QED BY <1>2, <1>3, <1>4, <2>1 DEF ProcNext
<1>5. ASSUME NEW w \in Workers, PollSweep(w) \/ PollRequeue(w) \/ PollNothing(w) PROVE Goal
  BY <1>1, <1>5
  DEF PollSweep, PollRequeue, PollNothing, SupersedeStale, RequeueStale, ForgetSweep, Surplus,
      Requeued, SweepWrites, queueVars
<1>6. ASSUME NEW w \in Workers, PollClaim(w) PROVE Goal
  <2>1. PICK k \in JobIds :
           /\ ClaimNextIndexJob(k, w)
           /\ proc' = [proc EXCEPT ![Poller(w)] =
                         [pc |-> "getRepo", kind |-> jobs[k].kind, repo |-> jobs[k].repo,
                          force |-> FALSE, batch |-> jobs[k].batch, job |-> k,
                          pending |-> 0, err |-> ""]]
    BY <1>6 DEF PollClaim
  <2>2. CASE k # i
    BY <1>1, <2>1, <2>2 DEF ClaimNextIndexJob
  <2>3. CASE k = i
    <3>1. Pending(i) /\ jobs'[i] = Claimed(jobs[i], w)
      BY <1>1, <2>1, <2>3 DEF ClaimNextIndexJob, NextPending
    <3>2. proc'[Poller(w)].job = i
      BY <1>1, <2>1, <2>3, ProcsType
    <3> QED BY <1>6, <3>1, <3>2 DEF ClaimWrites
  <2> QED BY <2>2, <2>3
<1>7. ASSUME NEW w \in Workers, Heartbeat(w) \/ Crash(w) \/ Close(w) \/ Closed(w) \/ Start(w)
      PROVE  Goal
  <2>1. CASE Heartbeat(w)
    BY <1>1, <2>1 DEF Heartbeat, HeartbeatIndexJob, HeldBy
  <2> QED BY <1>7, <2>1 DEF Crash, ForgetSweep, Close, Closed, Start, queueVars
<1>8. ASSUME NEW j \in JobIds, JobAges(j) PROVE Goal
  BY <1>1, <1>8 DEF JobAges, HeartbeatAges
<1>9. ASSUME \/ \E r \in Repos : ResetRepo(r) \/ DeleteRepo(r) \/ AddRepo(r) \/ ClaimExpires(r)
             \/ \E p \in Handlers : HandlerNext(p)
             \/ UNCHANGED vars
      PROVE  jobs' = jobs
  BY <1>9 DEF ResetRepo, DeleteRepo, AddRepo, ClaimExpires, HandlerNext, StartIndex,
      IndexRepoSync, SyncRepoAsync, ApplyLocalChanges, ApplyCommits, Accept, vars, queueVars
<1> QED BY <1>4, <1>5, <1>6, <1>7, <1>8, <1>9 DEF Next, PollNext

(***************************************************************************)
(* While its heartbeat is fresh a running job is left to the worker that   *)
(* runs it, for any number of instances, sweeps and mishaps: no recovery   *)
(* pass of another instance takes the job from under a live worker.        *)
(***************************************************************************)
THEOREM HolderAlwaysDecides == Spec => HolderDecides
<1>1. ASSUME TypeOK, ProcInv, [Next]_vars, NEW i \in JobIds,
             Running(i), jobs[i].heartbeat = "fresh", jobs'[i].status # "running"
      PROVE  /\ proc[Poller(jobs[i].worker)].job = i
             /\ proc'[Poller(jobs[i].worker)] # proc[Poller(jobs[i].worker)]
  <2>1. jobs[i] \in Row
    BY <1>1 DEF TypeOK, QueueTypeOK
  <2>2. PICK p \in Procs : HolderWrites(p, i)
    BY <1>1, <2>1, RowStep, WrittenRowFields
    DEF Running, Pending, ClaimWrites, SweepWrites, StaleRows
  <2> QED BY <2>2 DEF HolderWrites, HeldBy
<1>2. TypeOK /\ ProcInv /\ [Next]_vars
      => [\A i \in JobIds :
             Running(i) /\ jobs[i].heartbeat = "fresh" /\ jobs'[i].status # "running"
             => /\ proc[Poller(jobs[i].worker)].job = i
                /\ proc'[Poller(jobs[i].worker)] # proc[Poller(jobs[i].worker)]]_vars
  BY <1>1
<1> QED BY <1>2, TypeCorrect, PTL DEF Spec, HolderDecides

(* What a process carries from one call to the next. *)
SameWork(pr, old) ==
    pr.kind = old.kind /\ pr.repo = old.repo /\ pr.batch = old.batch /\ pr.job = old.job

(* What it takes up: a job of the queue, or a request. *)
ClaimsWork(p) ==
    /\ p = Poller(Instance(p)) /\ proc[p].pc \in {"idle", "claimJob"}
    /\ \E i \in JobIds :
          /\ ClaimWrites(Instance(p), i)
          /\ proc'[p].pc = "getRepo" /\ proc'[p].job = i
          /\ proc'[p].kind = jobs[i].kind /\ proc'[p].repo = jobs[i].repo
          /\ proc'[p].batch = jobs[i].batch

TakesWork(p) ==
    /\ proc[p].pc = "idle" /\ proc'[p].job = 0
    /\ proc'[p].pc \in {"enqueue", "claimRepo"} /\ (proc'[p].pc = "enqueue" => Distributed)
    /\ proc'[p].kind = "commits" => /\ proc'[p].batch \in Batches /\ proc'[p].repo \in Repos
                                    /\ ApplyCommits(p, proc'[p].repo, proc'[p].batch)

(* What ends it: the last call, an empty tick, or the end of the instance. *)
EndsWork(p) ==
    /\ proc'[p] = Idle
    /\ ProcNext(p) \/ proc[p].pc = "claimJob" \/ Crash(Instance(p))

(* A process is moved by itself, and loses its work only by ending it or with   *)
(* its instance.                                                                *)
LEMMA OwnStep ==
    ASSUME TypeOK, ProcInv, [Next]_vars, NEW p \in Procs, proc'[p] # proc[p]
    PROVE  \/ EndsWork(p)
           \/ ProcNext(p) /\ SameWork(proc'[p], proc[p])
           \/ /\ p = Poller(Instance(p)) /\ SameWork(proc'[p], proc[p])
              /\ proc[p].pc \in {"idle", "requeue"} /\ proc'[p].pc \in {"requeue", "claimJob"}
           \/ ClaimsWork(p)
           \/ TakesWork(p)
<1> DEFINE Goal == \/ EndsWork(p)
                   \/ ProcNext(p) /\ SameWork(proc'[p], proc[p])
                   \/ /\ p = Poller(Instance(p)) /\ SameWork(proc'[p], proc[p])
                      /\ proc[p].pc \in {"idle", "requeue"} /\ proc'[p].pc \in {"requeue", "claimJob"}
                   \/ ClaimsWork(p) \/ TakesWork(p)
<1>1. proc \in [Procs -> Proc] /\ proc[p] \in Proc
  BY DEF TypeOK
<1>2. ASSUME NEW q, q # p, NEW pr, proc' = [proc EXCEPT ![q] = pr] PROVE FALSE
  BY <1>1, <1>2
<1>3. ASSUME NEW pc, Goto(p, pc) \/ \E err : GotoWith(p, pc, err)
      PROVE  SameWork(proc'[p], proc[p]) /\ proc'[p].pc = pc
  BY <1>1, <1>3, ProcFields DEF Goto, GotoWith, SameWork
<1>4. ASSUME Done(p) PROVE proc'[p] = Idle
  BY <1>1, <1>4 DEF Done
<1>5. ASSUME NEW q \in Procs, ProcNext(q) PROVE Goal
  <2> DEFINE pr(pc) == [proc[q] EXCEPT !.pc = pc, !.pending = repos[proc[q].repo].pendingCommit]
  <2>1. \/ Done(q)
        \/ \E pc : Goto(q, pc) \/ \E err : GotoWith(q, pc, err)
        \/ \E pc : proc' = [proc EXCEPT ![q] = pr(pc)]
    <3>1. CASE LoadRepo(q)
      BY <3>1 DEF LoadRepo
    <3>2. CASE Enqueue(q) \/ Announce(q) \/ AwaitEarlier(q) \/ RetractPending(q)
      BY <3>2 DEF Enqueue, Announce, AwaitEarlier, RetractPending
    <3>3. CASE ClaimRepo(q) \/ PublishPending(q) \/ PassLands(q) \/ PassFails(q)
      BY <3>3 DEF ClaimRepo, PublishPending, PassLands, PassFails
    <3>4. CASE WriteCursor(q) \/ WriteStatus(q) \/ Complete(q) \/ Release(q) \/ Supersede(q)
      BY <3>4 DEF WriteCursor, WriteStatus, Complete, Release, Supersede
    <3> QED BY <1>5, <3>1, <3>2, <3>3, <3>4 DEF ProcNext
  <2>2. q = p
    BY <1>2, <2>1 DEF Done, Goto, GotoWith
  <2>3. ASSUME NEW pc, proc' = [proc EXCEPT ![q] = pr(pc)] PROVE SameWork(proc'[p], proc[p])
    BY <1>1, <2>2, <2>3 DEF SameWork, Proc
  <2> QED BY <1>3, <1>4, <1>5, <2>1, <2>2, <2>3 DEF EndsWork
<1>6. ASSUME NEW w \in Workers, PollSweep(w) \/ PollRequeue(w) \/ PollNothing(w) PROVE Goal
  <2>1. Poller(w) = p
    BY <1>2, <1>6 DEF PollSweep, PollRequeue, PollNothing, Done, Goto
  <2>2. Instance(p) = w
    BY <2>1, ProcsType
  <2> QED BY <1>3, <1>4, <1>6, <2>1, <2>2 DEF PollSweep, PollRequeue, PollNothing, EndsWork
<1>7. ASSUME NEW w \in Workers, PollClaim(w) PROVE Goal
  <2> DEFINE pr(i) == [pc |-> "getRepo", kind |-> jobs[i].kind, repo |-> jobs[i].repo,
                       force |-> FALSE, batch |-> jobs[i].batch, job |-> i,
                       pending |-> 0, err |-> ""]
  <2>1. PICK i \in JobIds : ClaimNextIndexJob(i, w) /\ proc' = [proc EXCEPT ![Poller(w)] = pr(i)]
    BY <1>7 DEF PollClaim
  <2>2. Poller(w) = p /\ Instance(p) = w
    BY <1>2, <2>1, ProcsType
  <2>3. /\ pr(i).pc = "getRepo" /\ pr(i).job = i /\ pr(i).kind = jobs[i].kind
        /\ pr(i).repo = jobs[i].repo /\ pr(i).batch = jobs[i].batch
    OBVIOUS
  <2> HIDE DEF pr
  <2>4. /\ proc'[p].pc = "getRepo" /\ proc'[p].job = i /\ proc'[p].kind = jobs[i].kind
        /\ proc'[p].repo = jobs[i].repo /\ proc'[p].batch = jobs[i].batch
    BY <1>1, <2>1, <2>2, <2>3
  <2>5. Pending(i) /\ jobs'[i] = Claimed(jobs[i], w)
    BY <2>1 DEF ClaimNextIndexJob, NextPending, TypeOK, QueueTypeOK
  <2>6. ClaimWrites(Instance(p), i)
    BY <1>7, <2>2, <2>4, <2>5 DEF ClaimWrites
  <2>7. proc[p].pc \in {"idle", "claimJob"}
    BY <1>7, <2>2 DEF PollClaim
  <2> QED BY <2>2, <2>4, <2>6, <2>7 DEF ClaimsWork
<1>8. ASSUME NEW q \in Handlers, HandlerNext(q) PROVE TakesWork(p)
  <2>1. ASSUME NEW r \in Repos, NEW kind, NEW f, NEW b, NEW next \in {"enqueue", "claimRepo"},
               next = "enqueue" => Distributed,
               kind = "commits" => b \in Batches /\ ApplyCommits(q, r, b),
               Accept(q, r, kind, f, b, next)
        PROVE  TakesWork(p)
    <3> DEFINE pr == [pc |-> next, kind |-> kind, repo |-> r, force |-> f,
                      batch |-> b, job |-> 0, pending |-> 0, err |-> ""]
    <3>1. proc' = [proc EXCEPT ![q] = pr]
      BY <2>1 DEF Accept
    <3>2. q = p
      BY <1>2, <3>1
    <3>3. pr.pc = next /\ pr.job = 0 /\ pr.kind = kind /\ pr.repo = r /\ pr.batch = b
      OBVIOUS
    <3> HIDE DEF pr
    <3>4. /\ proc'[p].pc = next /\ proc'[p].job = 0 /\ proc'[p].kind = kind
          /\ proc'[p].repo = r /\ proc'[p].batch = b
      BY <1>1, <3>1, <3>2, <3>3
    <3>5. proc[p].pc = "idle"
      BY <2>1, <3>2 DEF Accept
    <3> QED BY <2>1, <3>2, <3>4, <3>5 DEF TakesWork
  <2>2. ASSUME NEW r \in Repos, NEW b \in Batches, ApplyCommits(q, r, b) PROVE TakesWork(p)
    <3>1. Accept(q, r, "commits", FALSE, b, IF Distributed THEN "enqueue" ELSE "claimRepo")
      BY <2>2 DEF ApplyCommits
    <3> QED BY <2>1, <2>2, <3>1
  <2>3. ASSUME NEW r \in Repos, NEW f, StartIndex(q, r, f) \/ IndexRepoSync(q, r) \/ SyncRepoAsync(q, r)
                                       \/ ApplyLocalChanges(q, r)
        PROVE  TakesWork(p)
    BY <2>1, <2>3 DEF StartIndex, IndexRepoSync, SyncRepoAsync, ApplyLocalChanges
  <2> QED BY <1>8, <2>2, <2>3 DEF HandlerNext
<1>9. ASSUME NEW w \in Workers, Crash(w) PROVE EndsWork(p)
  BY <1>9 DEF Crash, EndsWork
<1>10. ASSUME \/ \E w \in Workers : Heartbeat(w) \/ Close(w) \/ Closed(w) \/ Start(w)
              \/ \E r \in Repos : ResetRepo(r) \/ DeleteRepo(r) \/ AddRepo(r) \/ ClaimExpires(r)
              \/ \E i \in JobIds : JobAges(i)
              \/ UNCHANGED vars
       PROVE  FALSE
  BY <1>10 DEF Heartbeat, Close, Closed, Start, ResetRepo, DeleteRepo, AddRepo, ClaimExpires,
               JobAges, vars, serviceVars
<1> QED BY <1>5, <1>6, <1>7, <1>8, <1>9, <1>10 DEF Next, PollNext

(* How a cursor changes. *)
LEMMA CursorStep ==
    ASSUME TypeOK, ProcInv, [Next]_vars, NEW r \in Repos
    PROVE  \/ repos'[r].lastCommit = repos[r].lastCommit
           \/ ~(repos[r].registered /\ repos'[r].registered) /\ repos'[r].lastCommit = 0
           \/ \E p \in Procs : /\ WriteCursor(p) /\ proc[p].repo = r
                               /\ repos'[r].lastCommit = proc[p].batch.last
<1> DEFINE Same == repos'[r].lastCommit = repos[r].lastCommit
<1>1. /\ repos \in [Repos -> RepoRow] /\ repos[r] \in RepoRow
      /\ proc \in [Procs -> Proc] /\ \A p \in Procs : proc[p].repo \in Repos
  BY DEF TypeOK, Proc
<1>2. ASSUME NEW p \in Procs,
             \/ Enqueue(p) \/ Announce(p) \/ LoadRepo(p) \/ AwaitEarlier(p) \/ RetractPending(p)
             \/ PublishPending(p)
      PROVE  Same
  <2>1. repos' = repos \/ \E x, sha : SetRepoPendingCommit(x, sha)
    BY <1>2 DEF Enqueue, Announce, LoadRepo, AwaitEarlier, RetractPending, PublishPending
  <2> QED BY <1>1, <2>1 DEF SetRepoPendingCommit, RepoRow
<1>3. ASSUME NEW p \in Procs,
             \/ ClaimRepo(p) \/ PassLands(p) \/ PassFails(p) \/ WriteStatus(p) \/ Complete(p)
             \/ Release(p) \/ Supersede(p)
      PROVE  Same
  BY <1>1, <1>3, RepoFields
  DEF ClaimRepo, PassLands, PassFails, WriteStatus, Complete, Release, Supersede,
      ClaimRepoForIndexing, UpdateRepoStatus
<1>4. ASSUME NEW p \in Procs, WriteCursor(p)
      PROVE  Same \/ (proc[p].repo = r /\ repos'[r].lastCommit = proc[p].batch.last)
  BY <1>1, <1>4 DEF WriteCursor, UpdateRepoLastCommit, RepoRow
<1>5. ASSUME NEW x \in Repos, ResetRepo(x) \/ ClaimExpires(x) PROVE Same
  BY <1>1, <1>5, RepoFields DEF ResetRepo, ClaimExpires, UpdateRepoStatus, RepoRow
<1>6. ASSUME NEW x \in Repos, DeleteRepo(x) \/ AddRepo(x)
      PROVE  Same \/ (~(repos[r].registered /\ repos'[r].registered) /\ repos'[r].lastCommit = 0)
  BY <1>1, <1>6 DEF DeleteRepo, AddRepo, NewRepo
<1>7. ASSUME NEW w \in Workers, Start(w) PROVE Same
  BY <1>1, <1>7, RepoFields DEF Start, ResetStuckRepos
<1>8. ASSUME \/ \E w \in Workers : PollNext(w) \/ Heartbeat(w) \/ Crash(w) \/ Close(w) \/ Closed(w)
             \/ \E p \in Handlers : HandlerNext(p)
             \/ \E i \in JobIds : JobAges(i)
             \/ UNCHANGED vars
      PROVE  Same
  BY <1>8 DEF PollNext, PollSweep, PollRequeue, PollNothing, PollClaim, Heartbeat, Crash, Close, Closed,
      HandlerNext, StartIndex, IndexRepoSync, SyncRepoAsync, ApplyLocalChanges, ApplyCommits, Accept,
      JobAges, vars, serviceVars
<1> QED BY <1>2, <1>3, <1>4, <1>5, <1>6, <1>7, <1>8 DEF Next, ProcNext

(* A new row is the request of the process that enqueued it. *)
LEMMA NewRowStep ==
    ASSUME TypeOK, ProcInv, [Next]_vars, NEW i \in JobIds', i \notin JobIds
    PROVE  \E p \in Procs : /\ Enqueue(p) /\ JobIds' = JobIds \cup {i}
                            /\ jobs'[i].kind = proc[p].kind /\ jobs'[i].repo = proc[p].repo
                            /\ jobs'[i].status = "pending"
                            /\ proc[p].kind = "commits" => jobs'[i].batch = proc[p].batch
<1>1. lastId' # lastId
  BY DEF JobIds
<1>2. ASSUME NEW w \in Workers, PollNext(w) \/ Heartbeat(w) \/ Crash(w) \/ Close(w) \/ Closed(w) \/ Start(w)
      PROVE  FALSE
  BY <1>1, <1>2
  DEF PollNext, PollSweep, PollRequeue, PollNothing, PollClaim, SupersedeStale, RequeueStale, ForgetSweep,
      ClaimNextIndexJob, Heartbeat, HeartbeatIndexJob, Crash, Close, Closed, Start, queueVars
<1>3. ASSUME \/ \E r \in Repos : ResetRepo(r) \/ DeleteRepo(r) \/ AddRepo(r) \/ ClaimExpires(r)
             \/ \E p \in Handlers : HandlerNext(p)
             \/ \E k \in JobIds : JobAges(k)
             \/ UNCHANGED vars
      PROVE  FALSE
  BY <1>1, <1>3 DEF ResetRepo, DeleteRepo, AddRepo, ClaimExpires, HandlerNext, StartIndex,
      IndexRepoSync, SyncRepoAsync, ApplyLocalChanges, ApplyCommits, Accept, JobAges, HeartbeatAges,
      vars, queueVars
<1>4. ASSUME NEW p \in Procs, ProcNext(p), ~Enqueue(p) PROVE FALSE
  <2>1. ASSUME \/ Announce(p) \/ LoadRepo(p) \/ AwaitEarlier(p) \/ RetractPending(p)
               \/ ClaimRepo(p) \/ PublishPending(p) \/ PassLands(p) \/ PassFails(p)
               \/ WriteCursor(p) \/ WriteStatus(p)
        PROVE  FALSE
    BY <1>1, <2>1 DEF Announce, LoadRepo, AwaitEarlier, RetractPending, ClaimRepo, PublishPending,
                      PassLands, PassFails, WriteCursor, WriteStatus, queueVars
  <2>2. ASSUME Complete(p) \/ Release(p) \/ Supersede(p) PROVE FALSE
    BY <1>1, <2>2 DEF Complete, Release, Supersede, CompleteIndexJob, ReleaseIndexJob, SupersedeReleased,
                      queueVars
  <2> QED BY <1>4, <2>1, <2>2 DEF ProcNext
<1>5. PICK p \in Procs : Enqueue(p)
  BY <1>2, <1>3, <1>4 DEF Next
<1>6. CASE proc[p].kind = "index"
  <2> DEFINE row == NewRow(proc[p].repo, "index", proc[p].force, NoBatch)
  <2>1. Insert(row)
    BY <1>1, <1>5, <1>6 DEF Enqueue, EnqueueIndexJob
  <2>2. row.kind = "index" /\ row.repo = proc[p].repo /\ row.status = "pending"
    BY DEF NewRow
  <2> HIDE DEF row
  <2> QED BY <1>5, <1>6, <2>1, <2>2, InsertRows DEF TypeOK
<1>7. CASE proc[p].kind = "commits"
  <2> DEFINE row == NewRow(proc[p].repo, "commits", FALSE, proc[p].batch)
  <2>1. Insert(row)
    BY <1>5, <1>7 DEF Enqueue, EnqueueCommitJob
  <2>2. /\ row.kind = "commits" /\ row.repo = proc[p].repo /\ row.status = "pending"
        /\ row.batch = proc[p].batch
    BY DEF NewRow
  <2> HIDE DEF row
  <2> QED BY <1>5, <1>7, <2>1, <2>2, InsertRows DEF TypeOK
<1> QED BY <1>5, <1>6, <1>7 DEF Enqueue

(* A batch is announced only by the request that has just queued it. *)
LEMMA AnnounceStep ==
    ASSUME TypeOK, NEW p \in Procs, ProcNext(p)
    PROVE  /\ proc'[p].pc # "enqueue"
           /\ proc'[p].pc = "announce" => Enqueue(p)
           /\ Enqueue(p) => proc'[p] = Idle \/ proc'[p].pc = "announce"
           /\ proc[p].pc = "announce" => proc'[p] = Idle
<1>1. proc \in [Procs -> Proc] /\ proc[p] \in Proc
  BY DEF TypeOK
<1>2. ASSUME NEW pc, Goto(p, pc) \/ \E err : GotoWith(p, pc, err) PROVE proc'[p].pc = pc
  BY <1>1, <1>2, ProcFields DEF Goto, GotoWith
<1>3. ASSUME Done(p) PROVE proc'[p] = Idle /\ proc'[p].pc = "idle"
  BY <1>1, <1>3, IdleFields DEF Done
<1>4. CASE Enqueue(p)
  BY <1>2, <1>3, <1>4 DEF Enqueue
<1>5. CASE Announce(p)
  BY <1>3, <1>5 DEF Announce, Enqueue
<1>6. CASE LoadRepo(p)
  <2> DEFINE pr(pc) == [proc[p] EXCEPT !.pc = pc, !.pending = repos[proc[p].repo].pendingCommit]
  <2>1. \/ \E pc \in {"complete", "claimRepo"} : Goto(p, pc) \/ \E err : GotoWith(p, pc, err)
        \/ \E pc \in {"retract", "await"} : proc' = [proc EXCEPT ![p] = pr(pc)]
    BY <1>6 DEF LoadRepo
  <2>2. ASSUME NEW pc, proc' = [proc EXCEPT ![p] = pr(pc)] PROVE proc'[p].pc = pc
    BY <1>1, <2>2 DEF Proc
  <2> HIDE DEF pr
  <2> QED BY <1>2, <1>6, <2>1, <2>2 DEF LoadRepo, Enqueue
<1>7. CASE AwaitEarlier(p) \/ RetractPending(p) \/ ClaimRepo(p) \/ PublishPending(p)
  <2>1. \/ Done(p)
        \/ \E pc \in {"release", "retract", "complete", "publish", "run"} :
              Goto(p, pc) \/ \E err : GotoWith(p, pc, err)
    BY <1>7 DEF AwaitEarlier, RetractPending, ClaimRepo, PublishPending
  <2>2. proc[p].pc \notin {"enqueue", "announce"}
    BY <1>7 DEF AwaitEarlier, RetractPending, ClaimRepo, PublishPending
  <2> QED BY <1>2, <1>3, <2>1, <2>2 DEF Enqueue
<1>8. CASE PassLands(p) \/ PassFails(p) \/ WriteCursor(p) \/ WriteStatus(p)
  <2>1. \/ Done(p)
        \/ \E pc \in {"cursor", "status", "complete"} : Goto(p, pc) \/ \E err : GotoWith(p, pc, err)
    BY <1>8 DEF PassLands, PassFails, WriteCursor, WriteStatus
  <2>2. proc[p].pc \notin {"enqueue", "announce"}
    BY <1>8 DEF PassLands, PassFails, WriteCursor, WriteStatus
  <2> QED BY <1>2, <1>3, <2>1, <2>2 DEF Enqueue
<1>9. CASE Complete(p) \/ Release(p) \/ Supersede(p)
  <2>1. Done(p) \/ Goto(p, "supersede")
    BY <1>9 DEF Complete, Release, Supersede
  <2>2. proc[p].pc \notin {"enqueue", "announce"}
    BY <1>9 DEF Complete, Release, Supersede
  <2> QED BY <1>2, <1>3, <2>1, <2>2 DEF Enqueue
<1> QED BY <1>4, <1>5, <1>6, <1>7, <1>8, <1>9 DEF ProcNext

LEMMA JobInvStep ==
    ASSUME TypeOK, ProcInv, JobInv, [Next]_vars
    PROVE  JobInv'
<1> SUFFICES ASSUME NEW p \in Procs, proc'[p].job # 0
             PROVE  /\ proc'[p].pc \notin {"enqueue", "announce"}
                    /\ proc'[p].job \in JobIds'
                    /\ jobs'[proc'[p].job].kind = proc'[p].kind
                    /\ jobs'[proc'[p].job].repo = proc'[p].repo
                    /\ jobs'[proc'[p].job].batch = proc'[p].batch
  BY DEF JobInv
<1>1. \A j \in JobIds : /\ j \in JobIds' /\ jobs'[j].kind = jobs[j].kind
                        /\ jobs'[j].repo = jobs[j].repo /\ jobs'[j].batch = jobs[j].batch
  BY QueueStep, RowIdentity DEF TypeOK
<1>2. ASSUME SameWork(proc'[p], proc[p])
      PROVE  /\ proc'[p].job \in JobIds'
             /\ jobs'[proc'[p].job].kind = proc'[p].kind
             /\ jobs'[proc'[p].job].repo = proc'[p].repo
             /\ jobs'[proc'[p].job].batch = proc'[p].batch
             /\ proc[p].pc \notin {"enqueue", "announce"}
  BY <1>1, <1>2 DEF JobInv, SameWork
<1>3. CASE ProcNext(p) /\ SameWork(proc'[p], proc[p])
  BY <1>2, <1>3, AnnounceStep DEF Enqueue
<1>4. CASE SameWork(proc'[p], proc[p]) /\ proc'[p].pc \in {proc[p].pc, "requeue", "claimJob"}
  BY <1>2, <1>4
<1>5. CASE ClaimsWork(p)
  BY <1>1, <1>5 DEF ClaimsWork
<1>6. CASE proc'[p] = Idle \/ TakesWork(p)
  BY <1>6, IdleFields DEF TakesWork
<1>7. proc'[p] = proc[p] => SameWork(proc'[p], proc[p]) /\ proc'[p].pc = proc[p].pc
  BY DEF SameWork
<1> QED BY <1>3, <1>4, <1>5, <1>6, <1>7, OwnStep DEF EndsWork

(* Nothing that landed is lost while repositories are not deleted. *)
LEMMA LandedStep ==
    ASSUME TypeOK, [Next]_vars, "delete" \notin Mishaps, NEW r \in Repos
    PROVE  landed[r] \subseteq landed'[r]
<1>1. landed \in [Repos -> SUBSET Shas]
  BY DEF TypeOK
<1>2. ASSUME NEW p \in Procs, PassLands(p) PROVE landed[r] \subseteq landed'[r]
  BY <1>1, <1>2 DEF PassLands
<1>3. ASSUME NEW p \in Procs, ProcNext(p), ~PassLands(p) PROVE landed' = landed
  BY <1>3 DEF ProcNext, Enqueue, Announce, LoadRepo, AwaitEarlier, RetractPending, ClaimRepo, PublishPending,
              PassFails, WriteCursor, WriteStatus, Complete, Release, Supersede
<1>4. ASSUME \/ \E w \in Workers : \/ PollNext(w) \/ Heartbeat(w) \/ Crash(w) \/ Close(w) \/ Closed(w)
                                   \/ Start(w)
             \/ \E x \in Repos : ResetRepo(x) \/ DeleteRepo(x) \/ AddRepo(x) \/ ClaimExpires(x)
             \/ \E p \in Handlers : HandlerNext(p)
             \/ \E k \in JobIds : JobAges(k)
             \/ UNCHANGED vars
      PROVE  landed' = landed
  BY <1>4 DEF PollNext, PollSweep, PollRequeue, PollNothing, PollClaim, Heartbeat, Crash, Close, Closed,
      Start, ResetRepo, DeleteRepo, AddRepo, ClaimExpires, Mishap, HandlerNext, StartIndex,
      IndexRepoSync, SyncRepoAsync, ApplyLocalChanges, ApplyCommits, Accept, JobAges, vars, serviceVars
<1> QED BY <1>2, <1>3, <1>4 DEF Next

(* Where a report of success comes from: the call before it, the cursor that was *)
(* written, or the finding that the cursor is inside the batch already.          *)
LEMMA SuccessStep ==
    ASSUME TypeOK, NEW p \in Procs, ProcNext(p), proc[p].kind = "commits",
           proc'[p].pc \in {"status", "retract", "complete"}, proc'[p].err = ""
    PROVE  \/ proc[p].pc = "cursor"
           \/ proc[p].pc \in {"status", "retract"} /\ proc[p].err = ""
           \/ commitJobOrder(repos[proc[p].repo].lastCommit, proc[p].batch) = "applied"
<1>1. proc \in [Procs -> Proc] /\ proc[p] \in Proc
  BY DEF TypeOK
<1>2. ASSUME NEW pc, Goto(p, pc) PROVE proc'[p].pc = pc /\ proc'[p].err = proc[p].err
  BY <1>1, <1>2, ProcFields DEF Goto
<1>3. ASSUME NEW pc, NEW err \in {"failed", "cancelled", "gap"}, GotoWith(p, pc, err) PROVE FALSE
  <2>1. proc'[p] = AtWith(proc[p], pc, err)
    BY <1>1, <1>3 DEF GotoWith
  <2>2. AtWith(proc[p], pc, err).err = err
    BY <1>1 DEF AtWith, Proc
  <2> QED BY <2>1, <2>2
<1>4. ~Done(p)
  BY <1>1, IdleFields DEF Done
<1>5. CASE LoadRepo(p) /\ commitJobOrder(repos[proc[p].repo].lastCommit, proc[p].batch) # "applied"
  <2> DEFINE order == IF proc[p].kind = "index" THEN "next"
                      ELSE commitJobOrder(repos[proc[p].repo].lastCommit, proc[p].batch)
             pr(pc) == [proc[p] EXCEPT !.pc = pc, !.pending = repos[proc[p].repo].pendingCommit]
  <2>1. order # "applied"
    BY <1>5
  <2>2. CASE Cancelled(p) \/ ~repos[proc[p].repo].registered
    <3>1. GotoWith(p, "complete", "cancelled") \/ GotoWith(p, "complete", "failed")
      BY <1>5, <2>2 DEF LoadRepo
    <3> QED BY <1>3, <3>1
  <2>3. ~(proc' = [proc EXCEPT ![p] = pr("await")])
    BY <1>1 DEF Proc
  <2>4. CASE ~Cancelled(p) /\ repos[proc[p].repo].registered /\ order = "next"
    <3>1. Goto(p, "claimRepo")
      BY <1>5, <2>4 DEF LoadRepo
    <3> HIDE DEF order, pr
    <3>2. proc'[p].pc = "claimRepo"
      BY <1>2, <3>1
    <3> QED BY <3>2
  <2>5. CASE ~Cancelled(p) /\ repos[proc[p].repo].registered /\ order # "next"
    <3>1. proc' = [proc EXCEPT ![p] = pr("await")]
      BY <1>5, <2>1, <2>5 DEF LoadRepo
    <3> QED BY <2>3, <3>1
  <2> QED BY <2>2, <2>4, <2>5
<1>6. CASE Enqueue(p) \/ Announce(p) \/ PublishPending(p) \/ Complete(p) \/ Release(p) \/ Supersede(p)
  <2>1. \E pc \in {"announce", "run", "supersede"} : Goto(p, pc)
    BY <1>4, <1>6 DEF Enqueue, Announce, PublishPending, Complete, Release, Supersede
  <2> QED BY <1>2, <2>1
<1>7. CASE AwaitEarlier(p) \/ ClaimRepo(p) \/ PassLands(p) \/ PassFails(p)
  <2>1. \/ \E pc \in {"release", "publish", "run", "cursor"} : Goto(p, pc)
        \/ \E pc \in {"retract", "complete", "status"}, err \in {"failed", "cancelled", "gap"} :
              GotoWith(p, pc, err)
    BY <1>4, <1>7 DEF AwaitEarlier, ClaimRepo, PassLands, PassFails
  <2> QED BY <1>2, <1>3, <2>1
<1>8. CASE RetractPending(p) \/ WriteCursor(p) \/ WriteStatus(p)
  <2>1. \E pc \in {"complete", "status"} : Goto(p, pc)
    BY <1>4, <1>8 DEF RetractPending, WriteCursor, WriteStatus
  <2> QED BY <1>2, <1>8, <2>1 DEF RetractPending, WriteCursor, WriteStatus
<1> QED BY <1>5, <1>6, <1>7, <1>8 DEF ProcNext

-----------------------------------------------------------------------------
(* A batch reported as done has landed. *)

(* A cursor inside a batch stands at its end, so the batch has landed. *)
LEMMA AppliedLanded ==
    ASSUME BatchesEndApart, NoHoles, ResultInv, NEW r \in Repos, NEW b \in Batches,
           Cursor0 < b.first, commitJobOrder(repos[r].lastCommit, b) = "applied"
    PROVE  b.first .. b.last \subseteq landed[r]
<1> DEFINE last == repos[r].lastCommit
<1>1. Cursor0 \in Nat /\ b.first \in Nat /\ b.last \in Nat
  BY ServiceAssumption, BatchType
<1>2. last \in b.first .. b.last
  BY DEF commitJobOrder
<1>3. last # Cursor0
  BY <1>1, <1>2
<1>4. last = b.last
  BY <1>2, <1>3 DEF ResultInv, BatchesEndApart
<1>5. SUFFICES ASSUME NEW c \in b.first .. b.last PROVE c \in landed[r]
  OBVIOUS
<1>6. c \in Commits
  BY DEF Commits
<1> HIDE DEF last
<1>7. Cursor0 < c /\ c <= last
  BY <1>1, <1>4
<1> QED BY <1>6, <1>7 DEF NoHoles, last

LEMMA ResultStep ==
    ASSUME Cursor0 # 0, "delete" \notin Mishaps, BatchesEndApart,
           TypeOK, ProcInv, JobInv, ChainInv, NoHoles, ResultInv, DoneMeansLanded, [Next]_vars
    PROVE  ResultInv' /\ DoneMeansLanded'
<1>1. /\ proc \in [Procs -> Proc] /\ \A p \in Procs : proc[p] \in Proc /\ proc[p].repo \in Repos
      /\ repos \in [Repos -> RepoRow] /\ \A r \in Repos : repos[r].lastCommit \in Nat
      /\ \A i \in JobIds : jobs[i] \in Row /\ jobs[i].repo \in Repos
      /\ Cursor0 \in Nat
  BY ServiceAssumption DEF TypeOK, QueueTypeOK, Proc, Row, RepoRow, Shas
<1>2. \A r \in Repos : landed[r] \subseteq landed'[r]
  BY LandedStep
<1>3. ASSUME NEW r \in Repos
      PROVE  /\ Cursor0 <= repos'[r].lastCommit
             /\ \/ repos'[r].lastCommit = Cursor0
                \/ \E b \in Batches : repos'[r].lastCommit = b.last
  <2>1. CASE repos'[r].lastCommit = repos[r].lastCommit
    BY <2>1 DEF ResultInv
  <2>2. ASSUME NEW p \in Procs, WriteCursor(p), repos'[r].lastCommit = proc[p].batch.last
        PROVE  /\ Cursor0 <= repos'[r].lastCommit
               /\ \E b \in Batches : repos'[r].lastCommit = b.last
    <3>1. proc[p].kind = "commits" /\ proc[p].batch \in Batches
      BY <2>2 DEF WriteCursor, ProcInv
    <3>2. Cursor0 < proc[p].batch.first
      BY <3>1 DEF ResultInv
    <3> QED BY <1>1, <2>2, <3>1, <3>2, BatchesAssumption
  <2>3. repos[r].registered /\ repos'[r].registered
    BY ChainStep DEF ChainInv
  <2> QED BY <2>1, <2>2, <2>3, CursorStep
<1>4. \A j \in JobIds : /\ j \in JobIds' /\ jobs'[j].kind = jobs[j].kind
                        /\ jobs'[j].repo = jobs[j].repo /\ jobs'[j].batch = jobs[j].batch
  BY QueueStep, RowIdentity DEF TypeOK
<1>5. ASSUME NEW i \in JobIds', jobs'[i].kind = "commits" PROVE Cursor0 < jobs'[i].batch.first
  <2>1. CASE i \in JobIds
    BY <1>4, <1>5, <2>1 DEF ResultInv
  <2>2. CASE i \notin JobIds
    <3>1. \E p \in Procs : proc[p].kind = "commits" /\ jobs'[i].batch = proc[p].batch
      BY <1>5, <2>2, NewRowStep
    <3> QED BY <3>1 DEF ResultInv
  <2> QED BY <2>1, <2>2
<1>6. ASSUME NEW p \in Procs, proc'[p].kind = "commits" PROVE Cursor0 < proc'[p].batch.first
  <2>1. CASE proc'[p] = proc[p] \/ SameWork(proc'[p], proc[p])
    BY <1>6, <2>1 DEF ResultInv, SameWork
  <2>2. CASE ClaimsWork(p)
    BY <1>6, <2>2 DEF ResultInv, ClaimsWork
  <2>3. CASE TakesWork(p)
    <3> DEFINE b == proc'[p].batch
               r == proc'[p].repo
    <3>1. b \in Batches /\ r \in Repos /\ ApplyCommits(p, r, b)
      BY <1>6, <2>3 DEF TakesWork
    <3>2. b.first - 1 = repos[r].lastCommit
      BY <3>1 DEF ApplyCommits, hasParent, ChainInv
    <3> HIDE DEF b, r
    <3>3. Cursor0 <= repos[r].lastCommit
      BY <3>1 DEF ResultInv
    <3>4. Cursor0 < b.first
      BY <1>1, <3>1, <3>2, <3>3, BatchType
    <3> QED BY <3>4 DEF b
  <2> QED BY <1>6, <2>1, <2>2, <2>3, OwnStep, IdleFields DEF EndsWork
<1>7. ASSUME NEW p \in Procs, proc'[p].kind = "commits",
             proc'[p].pc \in {"status", "retract", "complete"}, proc'[p].err = ""
      PROVE  proc'[p].batch.first .. proc'[p].batch.last \subseteq landed'[proc'[p].repo]
  <2>1. CASE proc'[p] = proc[p]
    BY <1>1, <1>2, <1>7, <2>1 DEF ResultInv
  <2>2. CASE ProcNext(p) /\ SameWork(proc'[p], proc[p])
    <3>1. proc[p].kind = "commits" /\ proc'[p].batch = proc[p].batch /\ proc'[p].repo = proc[p].repo
      BY <1>7, <2>2 DEF SameWork
    <3>2. \/ proc[p].pc = "cursor"
          \/ proc[p].pc \in {"status", "retract"} /\ proc[p].err = ""
          \/ commitJobOrder(repos[proc[p].repo].lastCommit, proc[p].batch) = "applied"
      BY <1>7, <2>2, <3>1, SuccessStep
    <3>3. proc[p].batch \in Batches /\ Cursor0 < proc[p].batch.first
      BY <3>1 DEF ProcInv, ResultInv
    <3>4. proc[p].batch.first .. proc[p].batch.last \subseteq landed[proc[p].repo]
      BY <1>1, <3>1, <3>2, <3>3, AppliedLanded DEF ChainInv, ResultInv
    <3> QED BY <1>1, <1>2, <3>1, <3>4
  <2>3. ~(proc'[p] = Idle) /\ ~ClaimsWork(p) /\ ~TakesWork(p)
    BY <1>7, IdleFields DEF ClaimsWork, TakesWork
  <2> QED BY <1>7, <2>1, <2>2, <2>3, OwnStep DEF EndsWork
<1>8. ASSUME NEW i \in JobIds', jobs'[i].kind = "commits", jobs'[i].status = "done"
      PROVE  jobs'[i].batch.first .. jobs'[i].batch.last \subseteq landed'[jobs'[i].repo]
  <2>1. i \in JobIds
    BY <1>8, NewRowStep
  <2>2. CASE jobs[i].status = "done"
    BY <1>1, <1>2, <1>4, <1>8, <2>1, <2>2 DEF DoneMeansLanded
  <2>3. CASE jobs[i].status # "done"
    <3>1. \A err : Ended(jobs[i], err).status = (IF err = "" THEN "done" ELSE "error")
      BY <1>1, <2>1 DEF Ended, Row
    <3>2. jobs'[i] # jobs[i] /\ jobs[i] \in Row
      BY <1>1, <1>8, <2>1, <2>3
    <3>3. /\ \A f : jobs'[i] # Forced(jobs[i], f)
          /\ \A hb : jobs'[i] # Beaten(jobs[i], hb)
          /\ \A w : jobs'[i] # Claimed(jobs[i], w)
          /\ jobs'[i] # Requeue(jobs[i]) /\ jobs'[i] # Ended(jobs[i], "superseded")
      <4>1. /\ \A f : Forced(jobs[i], f).status = jobs[i].status
            /\ \A hb : Beaten(jobs[i], hb).status = jobs[i].status
            /\ \A w : Claimed(jobs[i], w).status = "running"
            /\ Requeue(jobs[i]).status = "pending"
        BY <3>2, WrittenRowFields
      <4>2. Ended(jobs[i], "superseded").status = "error"
        BY <3>1
      <4> QED BY <1>8, <2>3, <4>1, <4>2
    <3>4. PICK p \in Procs : HolderWrites(p, i)
      BY <2>1, <3>2, <3>3, RowStep DEF ClaimWrites, SweepWrites
    <3>5. Complete(p) /\ jobs'[i] = Ended(jobs[i], proc[p].err) /\ proc[p].job = i
      BY <3>3, <3>4 DEF HolderWrites
    <3>6. proc[p].err = ""
      BY <1>8, <3>1, <3>5
    <3>7. i # 0
      BY <2>1 DEF JobIds, TypeOK, QueueTypeOK
    <3>8. proc[p].kind = "commits" /\ jobs[i].repo = proc[p].repo /\ jobs[i].batch = proc[p].batch
      BY <1>4, <1>8, <2>1, <3>7, <3>5 DEF JobInv
    <3>9. proc[p].batch.first .. proc[p].batch.last \subseteq landed[proc[p].repo]
      BY <3>8, <3>5, <3>6 DEF Complete, ResultInv
    <3> QED BY <1>1, <1>2, <1>4, <2>1, <3>8, <3>9
  <2> QED BY <2>2, <2>3
<1> QED BY <1>3, <1>5, <1>6, <1>7, <1>8 DEF ResultInv, DoneMeansLanded

(***************************************************************************)
(* A commit job reported as done has its whole batch in the index, with    *)
(* any number of instances, pipelined pushes, crashes, overrun claims,     *)
(* resets and failed writes, as long as no batch ends inside another one   *)
(* and the repository had a cursor and is not deleted.                     *)
(***************************************************************************)
THEOREM DoneIsLanded ==
    ASSUME Cursor0 # 0, "delete" \notin Mishaps, BatchesEndApart
    PROVE  Spec => []DoneMeansLanded
<1> DEFINE Inv == /\ TypeOK /\ ProcInv /\ JobInv /\ ChainInv /\ NoHoles
                  /\ ResultInv /\ DoneMeansLanded
<1>1. Init => Inv
  <2> SUFFICES ASSUME Init PROVE Inv
    OBVIOUS
  <2>1. TypeOK /\ ProcInv /\ ChainInv /\ NoHoles
    BY InitType, InitProcInv, InitChain
  <2>2. \A p \in Procs : proc[p] = Idle
    BY DEF Init
  <2>3. JobIds = {}
    BY DEF Init, QueueInit, JobIds
  <2>4. [NewRepo EXCEPT !.lastCommit = Cursor0].lastCommit = Cursor0
    BY DEF NewRepo
  <2>5. \A r \in Repos : repos[r].lastCommit = Cursor0
    BY <2>4 DEF Init
  <2>6. JobInv /\ DoneMeansLanded
    BY <2>2, <2>3, IdleFields DEF JobInv, DoneMeansLanded
  <2>7. \A r \in Repos : Cursor0 <= repos[r].lastCommit /\ repos[r].lastCommit = Cursor0
    BY <2>5, ServiceAssumption
  <2>8. \A p \in Procs : proc[p].kind # "commits"
    BY <2>2, IdleFields
  <2>9. ResultInv
    BY <2>3, <2>7, <2>8 DEF ResultInv
  <2> QED BY <2>1, <2>6, <2>9
<1>2. Inv /\ [Next]_vars => Inv'
  BY StepType, ProcInvStep, JobInvStep, ChainStep, ResultStep
<1>3. Inv => DoneMeansLanded
  OBVIOUS
<1> QED BY <1>1, <1>2, <1>3, PTL DEF Spec

-----------------------------------------------------------------------------
(* One unfinished batch at a time. *)

(* A terminal row is final, so an unfinished one was unfinished before. *)
LEMMA QueuedStep ==
    ASSUME TypeOK, ProcInv, [Next]_vars, NEW i \in JobIds, Queued(i)'
    PROVE  Queued(i)
<1>1. jobs'[i].kind = jobs[i].kind
  BY QueueStep, RowIdentity DEF TypeOK
<1>2. ASSUME Terminal(i) PROVE jobs'[i] = jobs[i]
  BY <1>2, RowStep DEF Terminal, Pending, Running, ClaimWrites, HolderWrites, HeldBy, SweepWrites, StaleRows
<1> QED BY <1>1, <1>2 DEF Queued, Terminal

(* With no heartbeat late, nobody takes a job from the poller that runs it. *)
LEMMA HeldStep ==
    ASSUME TypeOK, ProcInv, JobInv, OneBatchInv, [Next]_vars, "late" \notin Mishaps,
           NEW p \in Procs, proc'[p].job # 0
    PROVE  /\ HeldBy(proc[p].job, Instance(p))'
           /\ jobs'[proc'[p].job].heartbeat = "fresh"
<1> DEFINE j == proc'[p].job
           Kept == j \in JobIds' /\ jobs'[j].status = "running" /\ jobs'[j].worker = Instance(p)
                   /\ jobs'[j].heartbeat = "fresh"
<1>1. \A k \in JobIds : k \in JobIds' /\ jobs[k] \in Row
  BY QueueStep, RowIdentity DEF TypeOK, QueueTypeOK
<1>2. ASSUME j = proc[p].job PROVE Kept
  <2>1. /\ j \in JobIds /\ Running(j) /\ jobs[j].worker = Instance(p) /\ jobs[j].heartbeat = "fresh"
        /\ p = Poller(Instance(p)) /\ Instance(p) \in Workers
    BY <1>2, ProcsType DEF OneBatchInv, HeldBy, ProcInv
  <2> HIDE DEF j
  <2>2. ASSUME NEW q \in Procs, HolderWrites(q, j) PROVE FALSE
    <3>1. q = p
      BY <2>1, <2>2 DEF HolderWrites, HeldBy
    <3>2. Requeue(jobs[j]).status = "pending"
      BY <1>1, <2>1, WrittenRowFields
    <3>3. Done(p)
      BY <2>1, <2>2, <3>1, <3>2 DEF HolderWrites, Complete, Release, Supersede, queueVars, Running
    <3>4. proc'[p] = Idle
      BY <3>3 DEF Done, TypeOK
    <3> QED BY <3>4, IdleFields
  <2>3. ~JobAges(j)
    BY <1>2, <2>1 DEF JobAges, Orphan, Mishap
  <2>4. ~Pending(j) /\ ~SweepWrites(j)
    BY <2>1 DEF Pending, Running, SweepWrites, StaleRows
  <2>5. jobs'[j] = jobs[j] \/ jobs'[j] = Beaten(jobs[j], "fresh")
    BY <2>1, <2>2, <2>3, <2>4, RowStep DEF ClaimWrites
  <2>6. /\ Beaten(jobs[j], "fresh").status = "running" /\ Beaten(jobs[j], "fresh").heartbeat = "fresh"
        /\ Beaten(jobs[j], "fresh").worker = Instance(p)
    BY <1>1, <2>1 DEF Beaten, Row, Running
  <2> QED BY <1>1, <2>1, <2>5, <2>6 DEF Running
<1>3. ASSUME ClaimsWork(p) PROVE Kept
  <2>1. j \in JobIds /\ jobs'[j] = Claimed(jobs[j], Instance(p))
    BY <1>3 DEF ClaimsWork, ClaimWrites
  <2> HIDE DEF j
  <2>2. /\ Claimed(jobs[j], Instance(p)).status = "running"
        /\ Claimed(jobs[j], Instance(p)).worker = Instance(p)
        /\ Claimed(jobs[j], Instance(p)).heartbeat = "fresh"
    BY <1>1, <2>1 DEF Claimed, Row
  <2> QED BY <1>1, <2>1, <2>2
<1>4. proc'[p] # Idle /\ ~TakesWork(p)
  BY IdleFields DEF TakesWork
<1>5. Kept
  <2>1. CASE proc'[p] = proc[p] \/ SameWork(proc'[p], proc[p])
    BY <1>2, <2>1 DEF SameWork
  <2> QED BY <1>3, <1>4, <2>1, OwnStep DEF EndsWork
<1> QED BY <1>5 DEF HeldBy, Running

(* Who queues a batch has it from a request, and has it alone. *)
LEMMA EnqueuedTaken ==
    ASSUME JobInv, NEW p \in Procs, Enqueue(p), proc[p].kind = "commits"
    PROVE  TakenDirectly(p)
  BY DEF JobInv, Enqueue, TakenDirectly

(* The cursor is moved for the one unfinished batch of its repository. *)
LEMMA CursorWriter ==
    ASSUME TypeOK, ProcInv, JobInv, OneBatchInv, NEW p \in Procs, proc[p].kind = "commits",
           proc[p].pc = "cursor"
    PROVE  \/ TakenDirectly(p)
           \/ /\ proc[p].job \in JobIds /\ Queued(proc[p].job)
              /\ jobs[proc[p].job].repo = proc[p].repo /\ jobs[proc[p].job].batch = proc[p].batch
<1>1. CASE proc[p].job = 0
  BY <1>1 DEF TakenDirectly
<1>2. CASE proc[p].job # 0
  BY <1>2 DEF OneBatchInv, JobInv, HeldBy, Running, Queued, Terminal
<1> QED BY <1>1, <1>2

LEMMA OneBatchStep ==
    ASSUME PipelinedPushes = FALSE, "late" \notin Mishaps,
           TypeOK, ProcInv, JobInv, OneBatchInv, [Next]_vars
    PROVE  OneBatchInv'
<1>1. /\ \A p \in Procs : /\ proc[p].repo \in Repos
                           /\ proc[p].batch.first \in Nat /\ proc[p].batch.last \in Nat
      /\ \A i \in JobIds : jobs[i].repo \in Repos /\ jobs[i].batch.last \in Nat
      /\ \A r \in Repos : repos[r].lastCommit \in Nat
  BY BatchType DEF TypeOK, QueueTypeOK, Proc, Row, RepoRow, Shas
<1>2. \A j \in JobIds : /\ j \in JobIds' /\ jobs'[j].kind = jobs[j].kind
                        /\ jobs'[j].repo = jobs[j].repo /\ jobs'[j].batch = jobs[j].batch
  BY QueueStep, RowIdentity DEF TypeOK
<1>3. ASSUME NEW i \in JobIds', i \notin JobIds, Queued(i)'
      PROVE  \E p \in Procs : /\ Enqueue(p) /\ TakenDirectly(p) /\ JobIds' = JobIds \cup {i}
                              /\ proc[p].kind = "commits"
                              /\ jobs'[i].repo = proc[p].repo /\ jobs'[i].batch = proc[p].batch
  BY <1>3, NewRowStep, EnqueuedTaken DEF Queued
<1>4. ASSUME NEW i \in JobIds', NEW k \in JobIds', Queued(i)', Queued(k)',
             jobs'[i].repo = jobs'[k].repo, i \notin JobIds
      PROVE  i = k
  <2>1. PICK p \in Procs : /\ TakenDirectly(p) /\ JobIds' = JobIds \cup {i}
                          /\ jobs'[i].repo = proc[p].repo
    BY <1>3, <1>4
  <2>2. ASSUME k \in JobIds PROVE FALSE
    <3>1. Queued(k)
      BY <1>4, <2>2, QueuedStep
    <3>2. jobs[k].repo = proc[p].repo
      BY <1>2, <1>4, <2>1, <2>2
    <3> QED BY <2>1, <2>2, <3>1, <3>2 DEF OneBatchInv
  <2> QED BY <2>1, <2>2
<1>5. \A i, k \in JobIds' : Queued(i)' /\ Queued(k)' /\ jobs'[i].repo = jobs'[k].repo => i = k
  <2> SUFFICES ASSUME NEW i \in JobIds', NEW k \in JobIds', Queued(i)', Queued(k)',
                      jobs'[i].repo = jobs'[k].repo
               PROVE  i = k
    OBVIOUS
  <2>1. CASE i \in JobIds /\ k \in JobIds
    <3>1. Queued(i) /\ Queued(k)
      BY <2>1, QueuedStep
    <3>2. jobs[i].repo = jobs[k].repo
      BY <1>2, <2>1
    <3> QED BY <2>1, <3>1, <3>2 DEF OneBatchInv
  <2> QED BY <1>4, <2>1
<1>6. ASSUME NEW p \in Procs, TakenDirectly(p)', TakenDirectly(p), proc'[p].repo = proc[p].repo,
             proc'[p].batch = proc[p].batch
      PROVE  /\ \A i \in JobIds' : Queued(i)' => jobs'[i].repo # proc'[p].repo
             /\ \A q \in Procs : proc'[q].kind = "commits" /\ proc'[q].repo = proc'[p].repo => q = p
             /\ repos'[proc'[p].repo].lastCommit <= proc'[p].batch.last
  <2> DEFINE r == proc[p].repo
  <2>1. ASSUME NEW i \in JobIds', Queued(i)', jobs'[i].repo = r PROVE FALSE
    <3>1. i \notin JobIds
      BY <1>2, <1>6, <2>1, QueuedStep DEF OneBatchInv
    <3>2. PICK q \in Procs : Enqueue(q) /\ TakenDirectly(q) /\ proc[q].kind = "commits" /\ proc[q].repo = r
      BY <1>3, <2>1, <3>1
    <3>3. q = p
      BY <1>6, <3>2 DEF OneBatchInv
    <3>4. ProcNext(p)
      BY <3>2, <3>3 DEF ProcNext
    <3>5. proc'[p] = Idle \/ proc'[p].pc = "announce"
      BY <3>2, <3>3, <3>4, AnnounceStep
    <3> QED BY <1>6, <3>5, IdleFields DEF TakenDirectly
  <2>2. ASSUME NEW q \in Procs, proc'[q].kind = "commits", proc'[q].repo = r PROVE q = p
    <3>1. CASE proc'[q] = proc[q] \/ SameWork(proc'[q], proc[q])
      BY <1>6, <2>2, <3>1 DEF OneBatchInv, SameWork
    <3>2. CASE ClaimsWork(q)
      <4>1. PICK i \in JobIds : Pending(i) /\ jobs[i].kind = "commits" /\ jobs[i].repo = r
        BY <2>2, <3>2 DEF ClaimsWork, ClaimWrites
      <4> QED BY <1>6, <4>1 DEF OneBatchInv, Queued, Terminal, Pending
    <3>3. CASE TakesWork(q)
      <4>1. ~Unfinished(r)
        BY <2>2, <3>3 DEF TakesWork, ApplyCommits
      <4> QED BY <1>6, <4>1 DEF Unfinished, TakenDirectly
    <3> QED BY <2>2, <3>1, <3>2, <3>3, OwnStep, IdleFields DEF EndsWork
  <2>3. repos'[r].lastCommit <= proc[p].batch.last
    <3>1. repos[r].lastCommit <= proc[p].batch.last
      BY <1>6 DEF OneBatchInv
    <3>2. ASSUME NEW q \in Procs, WriteCursor(q), proc[q].repo = r PROVE q = p
      BY <1>6, <3>2 DEF WriteCursor, ProcInv, OneBatchInv
    <3> QED BY <1>1, <3>1, <3>2, CursorStep
  <2> QED BY <1>6, <2>1, <2>2, <2>3
<1>7. ASSUME NEW p \in Procs, TakenDirectly(p)', TakesWork(p)
      PROVE  /\ \A i \in JobIds' : Queued(i)' => jobs'[i].repo # proc'[p].repo
             /\ \A q \in Procs : proc'[q].kind = "commits" /\ proc'[q].repo = proc'[p].repo => q = p
             /\ repos'[proc'[p].repo].lastCommit <= proc'[p].batch.last
  <2> DEFINE r == proc'[p].repo
             b == proc'[p].batch
  <2>1. r \in Repos /\ b \in Batches /\ ApplyCommits(p, r, b)
    BY <1>7 DEF TakesWork, TakenDirectly
  <2> HIDE DEF r, b
  <2>2. ~Unfinished(r) /\ (repos[r].lastCommit = 0 \/ b.first - 1 = repos[r].lastCommit)
    BY <2>1 DEF ApplyCommits, hasParent
  <2>3. /\ jobs' = jobs /\ lastId' = lastId /\ repos' = repos
        /\ \A q \in Procs : q # p => proc'[q] = proc[q]
    BY <2>1 DEF ApplyCommits, Accept, queueVars, TypeOK
  <2>4. ASSUME NEW i \in JobIds', Queued(i)' PROVE jobs'[i].repo # r
    BY <2>2, <2>3, <2>4 DEF Unfinished, Queued, Terminal, JobIds
  <2>5. ASSUME NEW q \in Procs, proc'[q].kind = "commits", proc'[q].repo = r PROVE q = p
    BY <2>2, <2>3, <2>5 DEF Unfinished
  <2>6. repos'[r].lastCommit <= b.last
    BY <1>1, <2>1, <2>2, <2>3, BatchesAssumption
  <2> QED BY <2>4, <2>5, <2>6 DEF r, b
<1>8. ASSUME NEW p \in Procs, TakenDirectly(p)'
      PROVE  /\ \A i \in JobIds' : Queued(i)' => jobs'[i].repo # proc'[p].repo
             /\ \A q \in Procs : proc'[q].kind = "commits" /\ proc'[q].repo = proc'[p].repo => q = p
             /\ repos'[proc'[p].repo].lastCommit <= proc'[p].batch.last
  <2>1. CASE SameWork(proc'[p], proc[p]) /\ proc[p].pc # "announce"
    <3>1. TakenDirectly(p) /\ proc'[p].repo = proc[p].repo /\ proc'[p].batch = proc[p].batch
      BY <1>8, <2>1 DEF TakenDirectly, SameWork
    <3> QED BY <1>6, <1>8, <3>1
  <2>2. proc'[p] # Idle /\ ~ClaimsWork(p)
    <3>1. \A i \in JobIds : i # 0
      BY DEF JobIds, TypeOK, QueueTypeOK
    <3> QED BY <1>8, <3>1, IdleFields DEF TakenDirectly, ClaimsWork
  <2>3. proc'[p] = proc[p] => SameWork(proc'[p], proc[p]) /\ proc[p].pc # "announce"
    BY <1>8 DEF SameWork, TakenDirectly
  <2>4. ProcNext(p) => proc[p].pc # "announce"
    BY <2>2, AnnounceStep
  <2> QED BY <1>7, <1>8, <2>1, <2>2, <2>3, <2>4, OwnStep DEF EndsWork
<1>9. ASSUME NEW i \in JobIds', Queued(i)'
      PROVE  repos'[jobs'[i].repo].lastCommit <= jobs'[i].batch.last
  <2>1. CASE i \in JobIds
    <3> DEFINE r == jobs[i].repo
    <3>1. Queued(i) /\ repos[r].lastCommit <= jobs[i].batch.last
      BY <1>9, <2>1, QueuedStep DEF OneBatchInv
    <3>2. ASSUME NEW q \in Procs, WriteCursor(q), proc[q].repo = r
          PROVE  proc[q].batch = jobs[i].batch
      <4>1. proc[q].kind = "commits" /\ proc[q].pc = "cursor"
        BY <3>2 DEF WriteCursor, ProcInv
      <4>2. ~TakenDirectly(q)
        BY <2>1, <3>1, <3>2 DEF OneBatchInv
      <4>3. /\ proc[q].job \in JobIds /\ Queued(proc[q].job)
            /\ jobs[proc[q].job].repo = r /\ jobs[proc[q].job].batch = proc[q].batch
        BY <3>2, <4>1, <4>2, CursorWriter
      <4>4. proc[q].job = i
        BY <2>1, <3>1, <4>3 DEF OneBatchInv
      <4> QED BY <4>3, <4>4
    <3>3. r \in Repos
      BY <1>1, <2>1
    <3> HIDE DEF r
    <3>4. repos'[r].lastCommit <= jobs[i].batch.last
      BY <1>1, <2>1, <3>1, <3>2, <3>3, CursorStep
    <3> QED BY <1>2, <2>1, <3>4 DEF r
  <2>2. CASE i \notin JobIds
    <3>1. PICK p \in Procs : /\ Enqueue(p) /\ TakenDirectly(p)
                            /\ jobs'[i].repo = proc[p].repo /\ jobs'[i].batch = proc[p].batch
      BY <1>3, <1>9, <2>2
    <3>2. repos' = repos
      BY <3>1 DEF Enqueue
    <3> QED BY <3>1, <3>2 DEF OneBatchInv
  <2> QED BY <2>1, <2>2
<1>10. ASSUME NEW p \in Procs, proc'[p].job # 0
       PROVE  HeldBy(proc[p].job, Instance(p))' /\ jobs'[proc'[p].job].heartbeat = "fresh"
  BY <1>10, HeldStep
<1> QED BY <1>5, <1>8, <1>9, <1>10 DEF OneBatchInv

(***************************************************************************)
(* Clients that wait for a batch before pushing the next one see a         *)
(* repository's cursor only move forwards, with any number of instances    *)
(* and of crashes, shutdowns, overrun claims, resets, deletions and failed *)
(* writes, as long as no live worker's heartbeat is late.                  *)
(***************************************************************************)
THEOREM CursorMovesForward ==
    ASSUME PipelinedPushes = FALSE, "late" \notin Mishaps
    PROVE  Spec => CursorNeverGoesBack
<1> DEFINE Inv == TypeOK /\ ProcInv /\ JobInv /\ OneBatchInv
           Forward == \A r \in Repos : repos'[r].registered /\ repos[r].registered
                                       => repos[r].lastCommit <= repos'[r].lastCommit
<1>1. Init => Inv
  <2> SUFFICES ASSUME Init PROVE Inv
    OBVIOUS
  <2>1. TypeOK /\ ProcInv
    BY InitType, InitProcInv
  <2>2. \A p \in Procs : proc[p].job = 0 /\ proc[p].kind = "none"
    BY IdleFields DEF Init
  <2>3. JobIds = {}
    BY DEF Init, QueueInit, JobIds
  <2> QED BY <2>1, <2>2, <2>3 DEF JobInv, OneBatchInv, TakenDirectly
<1>2. Inv /\ [Next]_vars => Inv'
  BY StepType, ProcInvStep, JobInvStep, OneBatchStep
<1>3. Inv /\ [Next]_vars => Forward
  <2> SUFFICES ASSUME Inv, [Next]_vars, NEW r \in Repos, repos[r].registered, repos'[r].registered
               PROVE  repos[r].lastCommit <= repos'[r].lastCommit
    OBVIOUS
  <2>1. ASSUME NEW p \in Procs, WriteCursor(p), proc[p].repo = r
        PROVE  repos[r].lastCommit <= proc[p].batch.last
    <3>1. proc[p].kind = "commits" /\ proc[p].pc = "cursor"
      BY <2>1 DEF WriteCursor, ProcInv
    <3> QED BY <2>1, <3>1, CursorWriter DEF OneBatchInv
  <2>2. repos[r].lastCommit \in Nat
    BY DEF TypeOK, RepoRow, Shas
  <2> QED BY <2>1, <2>2, CursorStep
<1>4. Inv /\ [Next]_vars => [Forward]_vars
  BY <1>3
<1> QED BY <1>1, <1>2, <1>4, PTL DEF Spec, CursorNeverGoesBack

-----------------------------------------------------------------------------
(* The batch an instance names as pending. *)

(* A pass that has published its batch goes on to its end, or dies with its     *)
(* instance.                                                                    *)
LEMMA AppliesStep ==
    ASSUME TypeOK, ProcInv, [Next]_vars, NEW p \in Procs, NEW r, NEW sha, Applies(p, r, sha)
    PROVE  \/ Applies(p, r, sha)'
           \/ WriteStatus(p)
           \/ Crash(Instance(p))
<1>1. proc \in [Procs -> Proc] /\ proc[p] \in Proc
  BY DEF TypeOK
<1>2. ASSUME ProcNext(p), ~WriteStatus(p) PROVE Applies(p, r, sha)'
  <2>1. PassLands(p) \/ PassFails(p) \/ WriteCursor(p)
    BY <1>2 DEF Applies, ProcNext, Enqueue, Announce, LoadRepo, AwaitEarlier, RetractPending, ClaimRepo,
                PublishPending, Complete, Release, Supersede
  <2>2. \E pc \in {"cursor", "status"} : Goto(p, pc) \/ \E err : GotoWith(p, pc, err)
    BY <2>1 DEF PassLands, PassFails, WriteCursor
  <2>3. /\ proc'[p].pc \in {"cursor", "status"} /\ proc'[p].kind = proc[p].kind
        /\ proc'[p].repo = proc[p].repo /\ proc'[p].batch = proc[p].batch
    BY <1>1, <2>2, ProcFields DEF Goto, GotoWith
  <2> QED BY <2>3 DEF Applies
<1>3. proc[p].pc \notin {"idle", "requeue", "claimJob"}
  BY DEF Applies
<1>4. CASE proc'[p] = proc[p]
  BY <1>4 DEF Applies
<1> QED BY <1>2, <1>3, <1>4, OwnStep DEF EndsWork, ClaimsWork, TakesWork

(* How pending_commit changes. *)
LEMMA PendingStep ==
    ASSUME TypeOK, ProcInv, [Next]_vars, NEW r \in Repos, repos'[r].pendingCommit # 0
    PROVE  \/ /\ repos'[r].pendingCommit = repos[r].pendingCommit
              /\ repos[r].registered => repos'[r].registered
              /\ ~\E p \in Procs : WriteStatus(p) /\ proc[p].repo = r /\ repos[r].registered
                                   /\ "status" \notin Mishaps
              /\ ~\E w \in Workers : Start(w) /\ repos[r].registered /\ repos[r].status = "indexing"
                                     /\ ~Distributed
           \/ \E p \in Procs : /\ PublishPending(p) \/ Announce(p)
                               /\ proc[p].repo = r /\ repos[r].registered /\ repos'[r].registered
                               /\ repos'[r].pendingCommit = proc[p].batch.last
<1> DEFINE Same == /\ repos'[r].pendingCommit = repos[r].pendingCommit
                   /\ repos[r].registered => repos'[r].registered
           Ends == \E p \in Procs : WriteStatus(p) /\ proc[p].repo = r /\ repos[r].registered
                                    /\ "status" \notin Mishaps
           Starts == \E w \in Workers : Start(w) /\ repos[r].registered /\ repos[r].status = "indexing"
                                     /\ ~Distributed
           Sets == \E p \in Procs : /\ PublishPending(p) \/ Announce(p)
                                    /\ proc[p].repo = r /\ repos[r].registered /\ repos'[r].registered
                                    /\ repos'[r].pendingCommit = proc[p].batch.last
<1>1. /\ repos \in [Repos -> RepoRow] /\ repos[r] \in RepoRow
      /\ proc \in [Procs -> Proc] /\ \A p \in Procs : proc[p].repo \in Repos
  BY DEF TypeOK, Proc
<1>2. \A st : /\ FreedRow(repos[r], st).pendingCommit = 0
  BY <1>1 DEF FreedRow, RepoRow
<1>3. \A w : /\ ClaimedRow(repos[r], w).pendingCommit = repos[r].pendingCommit
             /\ ClaimedRow(repos[r], w).registered = repos[r].registered
  BY <1>1 DEF ClaimedRow, RepoRow
<1>4. ASSUME NEW p \in Procs, Announce(p) \/ PublishPending(p) \/ RetractPending(p)
      PROVE  Same \/ Sets
  <2>1. \/ repos' = repos
        \/ (Announce(p) \/ PublishPending(p)) /\ SetRepoPendingCommit(proc[p].repo, proc[p].batch.last)
        \/ SetRepoPendingCommit(proc[p].repo, 0)
    BY <1>4 DEF Announce, PublishPending, RetractPending
  <2>2. ASSUME NEW x \in Repos, NEW sha, SetRepoPendingCommit(x, sha)
        PROVE  \/ Same
               \/ /\ x = r /\ repos[r].registered /\ repos'[r].registered
                  /\ repos'[r].pendingCommit = sha
    BY <1>1, <2>2 DEF SetRepoPendingCommit, RepoRow
  <2> QED BY <1>1, <2>1, <2>2
<1>5. ASSUME NEW p \in Procs,
             \/ Enqueue(p) \/ LoadRepo(p) \/ AwaitEarlier(p) \/ ClaimRepo(p) \/ PassLands(p) \/ PassFails(p)
             \/ WriteCursor(p) \/ Complete(p) \/ Release(p) \/ Supersede(p)
      PROVE  Same
  <2>1. CASE repos' = repos
    BY <2>1
  <2>2. CASE ClaimRepoForIndexing(proc[p].repo, Instance(p))
    BY <1>1, <1>3, <2>2 DEF ClaimRepoForIndexing
  <2>3. CASE UpdateRepoLastCommit(proc[p].repo, proc[p].batch.last)
    BY <1>1, <2>3 DEF UpdateRepoLastCommit, RepoRow
  <2> QED BY <1>5, <2>1, <2>2, <2>3
          DEF Enqueue, LoadRepo, AwaitEarlier, ClaimRepo, PassLands, PassFails, WriteCursor, Complete,
              Release, Supersede
<1>6. ASSUME NEW x \in Repos, NEW st, UpdateRepoStatus(x, st)
      PROVE  Same /\ ~(x = r /\ repos[r].registered)
  BY <1>1, <1>2, <1>6 DEF UpdateRepoStatus
<1>7. ASSUME NEW p \in Procs, WriteStatus(p) PROVE Same
  BY <1>1, <1>6, <1>7 DEF WriteStatus
<1>8. ~Ends
  BY <1>1, <1>6 DEF WriteStatus, Mishap
<1>9. ASSUME NEW w \in Workers, Start(w)
      PROVE  Same /\ ~(repos[r].registered /\ repos[r].status = "indexing" /\ ~Distributed)
  BY <1>2, <1>9 DEF Start, ResetStuckRepos
<1>10. ASSUME NEW x \in Repos, ResetRepo(x) \/ DeleteRepo(x) \/ AddRepo(x) \/ ClaimExpires(x)
       PROVE  Same
  <2>1. CASE ResetRepo(x)
    BY <1>6, <2>1 DEF ResetRepo
  <2>2. CASE DeleteRepo(x) \/ AddRepo(x)
    BY <1>1, <2>2 DEF DeleteRepo, AddRepo, NewRepo
  <2>3. CASE ClaimExpires(x)
    BY <1>1, <2>3 DEF ClaimExpires, RepoRow
  <2> QED BY <1>10, <2>1, <2>2, <2>3
<1>11. ASSUME \/ \E w \in Workers : PollNext(w) \/ Heartbeat(w) \/ Crash(w) \/ Close(w) \/ Closed(w)
              \/ \E p \in Handlers : HandlerNext(p)
              \/ \E i \in JobIds : JobAges(i)
              \/ UNCHANGED vars
       PROVE  Same
  BY <1>11 DEF PollNext, PollSweep, PollRequeue, PollNothing, PollClaim, Heartbeat, Crash, Close, Closed,
      HandlerNext, StartIndex, IndexRepoSync, SyncRepoAsync, ApplyLocalChanges, ApplyCommits, Accept,
      JobAges, vars, serviceVars
<1>12. Same \/ Sets
  BY <1>4, <1>5, <1>7, <1>9, <1>10, <1>11 DEF Next, ProcNext
<1>13. ~Starts
  BY <1>9
<1> QED BY <1>8, <1>12, <1>13

(* The status of a row whose instance is down is kept until the next start. *)
LEMMA DownStep ==
    ASSUME TypeOK, ProcInv, [Next]_vars, \A w \in Workers : mode[w] = "down",
           NEW r \in Repos, repos[r].registered, repos[r].status = "indexing",
           repos'[r].pendingCommit # 0
    PROVE  \/ \E w \in Workers : Start(w)
           \/ repos'[r].status = "indexing" /\ \A w \in Workers : mode'[w] = "down"
<1>1. /\ repos \in [Repos -> RepoRow] /\ repos[r] \in RepoRow
      /\ \A p \in Procs : Instance(p) \in Workers /\ proc[p].pc = "idle"
      /\ \A w \in Workers : Poller(w) \in Procs
  BY ProcsType, IdleFields DEF TypeOK, ProcInv
<1>2. ASSUME NEW p \in Procs, ProcNext(p) PROVE FALSE
  BY <1>1, <1>2 DEF ProcNext, Enqueue, Announce, LoadRepo, AwaitEarlier, RetractPending, ClaimRepo,
         PublishPending, PassLands, PassFails, WriteCursor, WriteStatus, Complete, Release, Supersede
<1>3. ASSUME NEW p \in Handlers, HandlerNext(p) PROVE FALSE
  BY <1>1, <1>3, ProcsType DEF HandlerNext, StartIndex, IndexRepoSync, SyncRepoAsync, ApplyLocalChanges,
         ApplyCommits, Accept
<1>4. ASSUME NEW w \in Workers, PollNext(w) \/ Heartbeat(w) \/ Crash(w) \/ Close(w) \/ Closed(w) PROVE FALSE
  BY <1>1, <1>4 DEF PollNext, PollSweep, PollRequeue, PollNothing, PollClaim, Heartbeat, Crash, Close,
         Closed, PassPCs
<1>5. ASSUME NEW x \in Repos, ResetRepo(x) \/ DeleteRepo(x)
      PROVE  repos'[r].status = "indexing" /\ mode' = mode
  <2>1. \A st : FreedRow(repos[r], st).pendingCommit = 0
    BY <1>1 DEF FreedRow, RepoRow
  <2>2. CASE ResetRepo(x)
    BY <1>1, <2>1, <2>2 DEF ResetRepo, UpdateRepoStatus
  <2>3. CASE DeleteRepo(x)
    BY <1>1, <2>3 DEF DeleteRepo, NewRepo
  <2> QED BY <1>5, <2>2, <2>3
<1>6. ASSUME NEW x \in Repos, AddRepo(x) \/ ClaimExpires(x)
      PROVE  repos'[r].status = "indexing" /\ mode' = mode
  BY <1>1, <1>6 DEF AddRepo, ClaimExpires, RepoRow
<1>7. ASSUME (\E i \in JobIds : JobAges(i)) \/ UNCHANGED vars PROVE repos' = repos /\ mode' = mode
  BY <1>7 DEF JobAges, vars, serviceVars
<1> QED BY <1>2, <1>3, <1>4, <1>5, <1>6, <1>7 DEF Next

LEMMA PendingInvStep ==
    ASSUME ~Distributed, "status" \notin Mishaps, "crash" \notin Mishaps \/ PassHoldsClaim,
           TypeOK, ProcInv, PendingInv, [Next]_vars
    PROVE  PendingInv'
<1>1. \A p \in Procs : /\ proc[p].repo \in Repos /\ Instance(p) \in Workers
                       /\ proc \in [Procs -> Proc] /\ proc[p] \in Proc
  BY ProcsType DEF TypeOK, Proc
<1>2. ASSUME NEW p \in Procs PROVE proc'[p].pc \notin {"enqueue", "announce"}
  <2>1. proc[p].pc \notin {"enqueue", "announce"}
    BY DEF PendingInv
  <2>2. CASE ProcNext(p)
    BY <2>1, <2>2, AnnounceStep DEF Enqueue
  <2> QED BY <2>1, <2>2, OwnStep, IdleFields DEF EndsWork, ClaimsWork, TakesWork
<1>3. ASSUME NEW r \in Repos, repos'[r].pendingCommit # 0
      PROVE  /\ repos'[r].registered
             /\ \/ \E p \in Procs : Applies(p, r, repos[r].pendingCommit)'
                \/ repos'[r].status = "indexing" /\ \A w \in Workers : mode'[w] = "down"
  <2> DEFINE sha == repos'[r].pendingCommit
  <2>1. CASE \E p \in Procs : /\ PublishPending(p) \/ Announce(p)
                              /\ proc[p].repo = r /\ repos'[r].registered
                              /\ repos'[r].pendingCommit = proc[p].batch.last
    <3>1. PICK p \in Procs : /\ PublishPending(p) \/ Announce(p)
                             /\ proc[p].repo = r /\ repos'[r].registered
                             /\ repos'[r].pendingCommit = proc[p].batch.last
      BY <2>1
    <3>2. PublishPending(p) /\ proc[p].kind = "commits"
      BY <3>1 DEF Announce, PublishPending, PendingInv, ProcInv
    <3>3. Goto(p, "run")
      BY <3>2 DEF PublishPending
    <3>4. /\ proc'[p].pc = "run" /\ proc'[p].kind = "commits" /\ proc'[p].repo = r
          /\ proc'[p].batch = proc[p].batch
      BY <1>1, <3>1, <3>2, <3>3, ProcFields DEF Goto
    <3> QED BY <3>1, <3>4 DEF Applies
  <2>2. CASE /\ repos'[r].pendingCommit = repos[r].pendingCommit
             /\ repos[r].registered => repos'[r].registered
             /\ ~\E p \in Procs : WriteStatus(p) /\ proc[p].repo = r /\ repos[r].registered
                                  /\ "status" \notin Mishaps
             /\ ~\E w \in Workers : Start(w) /\ repos[r].registered /\ repos[r].status = "indexing"
                                    /\ ~Distributed
    <3>1. /\ repos[r].registered
          /\ \/ \E p \in Procs : Applies(p, r, repos[r].pendingCommit)
             \/ repos[r].status = "indexing" /\ \A w \in Workers : mode[w] = "down"
      BY <1>3, <2>2 DEF PendingInv
    <3>2. ASSUME NEW p \in Procs, Applies(p, r, repos[r].pendingCommit)
          PROVE  \/ Applies(p, r, repos[r].pendingCommit)'
                 \/ repos'[r].status = "indexing" /\ \A w \in Workers : mode'[w] = "down"
      <4>1. ~WriteStatus(p)
        BY <2>2, <3>1, <3>2 DEF Applies
      <4>2. CASE Crash(Instance(p))
        <5>1. repos' = repos /\ mode'[Instance(p)] = "down" /\ "crash" \in Mishaps
          BY <1>1, <4>2 DEF Crash, Mishap, TypeOK
        <5>2. repos[r].status = "indexing"
          BY <3>2, <5>1 DEF PassHoldsClaim, InPass, Applies, PassPCs
        <5>3. \A w \in Workers : w = Instance(p)
          BY <1>1, SingleInstanceAssumption
        <5> QED BY <5>1, <5>2, <5>3
      <4>3. CASE \A sh : Applies(p, r, sh) => Applies(p, r, sh)'
        BY <2>2, <3>2, <4>3 DEF Applies
      <4> QED BY <3>2, <4>1, <4>2, <4>3, AppliesStep
    <3>3. CASE repos[r].status = "indexing" /\ \A w \in Workers : mode[w] = "down"
      BY <1>3, <2>2, <3>1, <3>3, DownStep
    <3> QED BY <2>2, <3>1, <3>2, <3>3
  <2> QED BY <1>3, <2>1, <2>2, PendingStep
<1> QED BY <1>2, <1>3 DEF PendingInv

(***************************************************************************)
(* Without the queue, /sync-state of a running instance names only a batch *)
(* that is being applied, with any number of requests, failed writes of    *)
(* the pending commit or the cursor and shutdowns, and either crashes, or  *)
(* resets, deletions and overrun claims (TLC shows why not both: a reset   *)
(* between the claim and the publication, then a crash).                   *)
(***************************************************************************)
THEOREM PendingBatchIsHeld ==
    ASSUME ~Distributed, "status" \notin Mishaps,
           "crash" \notin Mishaps \/ Mishaps \cap {"overrun", "reset", "delete"} = {}
    PROVE  Spec => []PendingIsHeld
<1> DEFINE Claims == /\ PassHoldsClaim /\ PassExclusion
                     /\ \A r \in Repos : repos[r].registered
           Inv == /\ TypeOK /\ ProcInv /\ PendingInv
                  /\ "crash" \notin Mishaps \/ Claims
<1>1. Init => Inv
  <2> SUFFICES ASSUME Init PROVE Inv
    OBVIOUS
  <2>1. TypeOK /\ ProcInv /\ Claims
    BY InitType, InitProcInv, InitExclusion
  <2>2. [NewRepo EXCEPT !.lastCommit = Cursor0].pendingCommit = 0
    BY DEF NewRepo
  <2>3. \A r \in Repos : repos[r].pendingCommit = 0
    BY <2>2 DEF Init
  <2>4. \A p \in Procs : proc[p].pc = "idle"
    BY IdleFields DEF Init
  <2> QED BY <2>1, <2>3, <2>4 DEF PendingInv
<1>2. Inv /\ [Next]_vars => Inv'
  <2> SUFFICES ASSUME Inv, [Next]_vars PROVE Inv'
    OBVIOUS
  <2>1. TypeOK' /\ ProcInv'
    BY StepType, ProcInvStep
  <2>2. PendingInv'
    BY PendingInvStep
  <2>3. "crash" \notin Mishaps \/ Claims'
    BY ExclusionStep
  <2> QED BY <2>1, <2>2, <2>3
<1>3. Inv => PendingIsHeld
  BY DEF PendingInv, PendingIsHeld, Holds, Applies
<1> QED BY <1>1, <1>2, <1>3, PTL DEF Spec

=============================================================================
