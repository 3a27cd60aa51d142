---------------------------- MODULE IndexService ----------------------------
(***************************************************************************)
(* Who may index a repository, and when: the server instances, their job   *)
(* pollers and request handlers (internal/app/jobs.go, commits.go,         *)
(* indexing.go, repos.go) over the repository rows                         *)
(* (internal/store/sqlite/repos.go) and the job queue (JobQueue).          *)
(*                                                                         *)
(* Every call to the store is a step of its own, so everything two         *)
(* instances may do between two calls of a third one happens here.  What a *)
(* pass does to the index is abstracted to the set of commits it landed.   *)
(***************************************************************************)
EXTENDS JobQueue

CONSTANTS
    Distributed,     \* indexes.distributed
    Cursor0,         \* last_commit of every repo at the start (0: no cursor yet)
    Frontends,       \* the instances that take API requests
    Slots,           \* bound: the requests one instance handles at a time
    MaxRequests,     \* bound: API requests taken
    PipelinedPushes, \* do clients push a batch while another one is unfinished?
    DirectPasses,    \* passes run outside the queue: subset of {"sync", "pull", "local"}
    Mishaps,         \* what may go wrong: subset of AllMishaps
    MaxMishaps       \* bound: how many of them happen

(***************************************************************************)
(* "crash", "stop"    an instance dies, or is closed                       *)
(* "late"             a live worker's heartbeat falls behind the cutoff    *)
(* "overrun"          a pass outlives its claim (3600 s, never renewed)    *)
(* "reset", "delete"  POST /repos/{id}/reset, DELETE /repos/{id}           *)
(* the rest           that write fails, which is only logged               *)
(***************************************************************************)
AllMishaps == {"crash", "stop", "late", "overrun", "reset", "delete",
               "pending", "cursor", "status", "complete"}

ASSUME ServiceAssumption ==
    /\ {Distributed, PipelinedPushes} \subseteq BOOLEAN
    /\ Cursor0 \in Nat /\ MaxRequests \in Nat /\ MaxMishaps \in Nat
    /\ Frontends \subseteq Workers /\ "poll" \notin Slots
    /\ DirectPasses \subseteq {"sync", "pull", "local"}
    /\ Mishaps \subseteq AllMishaps

(* Without the shared queue the database belongs to one instance. *)
ASSUME SingleInstanceAssumption == Distributed \/ \A v, w \in Workers : v = w

VARIABLES
    repos,      \* table repos
    mode,       \* per instance: "up", "closing" (Close was called) or "down"
    proc,       \* per process: the call it makes next and what it read so far
    landed,     \* per repo: the commits whose changes reached the index
    requests,   \* API requests taken so far
    mishaps     \* how much has gone wrong so far

serviceVars == <<repos, mode, proc, landed, requests, mishaps>>
vars == <<queueVars, serviceVars>>

(* An instance runs one poller and handles requests beside it. *)
Procs == Workers \X ({"poll"} \cup Slots)
Poller(w) == <<w, "poll">>
Handlers == Frontends \X Slots
Instance(p) == p[1]

(* A SHA is the commit's place in the history; 0 is the empty SHA. *)
Shas == Nat
Commits == UNION {b.first .. b.last : b \in Batches}

RepoRow == [registered : BOOLEAN, status : {"idle", "indexing", "error"},
            claimedBy : Workers \cup {NoWorker}, live : BOOLEAN,
            lastCommit : Shas, pendingCommit : Shas]

NewRepo == [registered |-> TRUE, status |-> "idle", claimedBy |-> NoWorker,
            live |-> FALSE, lastCommit |-> 0, pendingCommit |-> 0]

(* pc names the store call the process makes next. *)
PassPCs == {"publish", "run", "cursor", "status"}
PCs == PassPCs \cup {"idle", "requeue", "claimJob", "getRepo", "await", "retract",
                     "claimRepo", "release", "supersede", "complete", "enqueue", "announce"}

Proc == [pc : PCs, kind : {"none", "index", "commits", "local"}, repo : Repos,
         force : BOOLEAN, batch : Batches \cup {NoBatch}, job : Nat,
         pending : Shas, err : JobErrors]

Idle == [pc |-> "idle", kind |-> "none", repo |-> CHOOSE r \in Repos : TRUE,
         force |-> FALSE, batch |-> NoBatch, job |-> 0, pending |-> 0, err |-> ""]

Mishap(kind) ==
    /\ kind \in Mishaps /\ mishaps < MaxMishaps
    /\ mishaps' = mishaps + 1

At(pr, pc) == [pr EXCEPT !.pc = pc]
AtWith(pr, pc, err) == [pr EXCEPT !.pc = pc, !.err = err]

Goto(p, pc) == proc' = [proc EXCEPT ![p] = At(proc[p], pc)]
GotoWith(p, pc, err) == proc' = [proc EXCEPT ![p] = AtWith(proc[p], pc, err)]
Done(p) == proc' = [proc EXCEPT ![p] = Idle]

(* The poller's context is the base context, which Close cancels. *)
Cancelled(p) == p[2] = "poll" /\ mode[Instance(p)] = "closing"

(* The process is inside an index pass over r, under the claim it took. *)
InPass(p, r) == proc[p].pc \in PassPCs /\ proc[p].repo = r

(* An unfinished batch of r that a client has already pushed. *)
Unfinished(r) ==
    \/ \E i \in JobIds : jobs[i].repo = r /\ jobs[i].kind = "commits" /\ ~Terminal(i)
    \/ \E p \in Procs : proc[p].kind = "commits" /\ proc[p].repo = r

-----------------------------------------------------------------------------
(* The repos table *)

(* Mutant of Free: the comparison with claim_expires_at is inverted. *)
FreeWhileLive(r) == repos[r].status # "indexing" \/ repos[r].live

Free(r) == repos[r].status # "indexing" \/ ~repos[r].live

(* What the statements write into a row. *)
ClaimedRow(row, w) == [row EXCEPT !.status = "indexing", !.claimedBy = w, !.live = TRUE]

(* Mutants of FreedRow: pending_commit survives, or the cursor does not. *)
FreedRowPending(row, status) == [row EXCEPT !.status = status, !.claimedBy = NoWorker,
                                            !.live = FALSE]
FreedRowNoCursor(row, status) == [row EXCEPT !.status = status, !.claimedBy = NoWorker,
                                             !.live = FALSE, !.pendingCommit = 0,
                                             !.lastCommit = 0]

FreedRow(row, status) == [row EXCEPT !.status = status, !.claimedBy = NoWorker,
                                     !.live = FALSE, !.pendingCommit = 0]

ClaimRepoForIndexing(r, w) == repos' = [repos EXCEPT ![r] = ClaimedRow(repos[r], w)]

(* Matches no row when the repository was deleted. *)
SetRepoPendingCommit(r, sha) ==
    repos' = IF repos[r].registered
             THEN [repos EXCEPT ![r] = [repos[r] EXCEPT !.pendingCommit = sha]] ELSE repos

UpdateRepoLastCommit(r, sha) ==
    repos' = IF repos[r].registered
             THEN [repos EXCEPT ![r] = [repos[r] EXCEPT !.lastCommit = sha]] ELSE repos

(* Releases the claim, whoever holds it, and clears pending_commit. *)
UpdateRepoStatus(r, status) ==
    repos' = IF repos[r].registered
             THEN [repos EXCEPT ![r] = FreedRow(repos[r], status)] ELSE repos

(* Mutant of ResetStuckRepos: the startup recovery waits for the TTL in any mode. *)
ResetExpiredRepos(force) ==
    repos' = [r \in Repos |->
                 IF repos[r].registered /\ repos[r].status = "indexing" /\ ~repos[r].live
                 THEN FreedRow(repos[r], "idle") ELSE repos[r]]

(* force: every claim; otherwise the expired ones *)
ResetStuckRepos(force) ==
    repos' = [r \in Repos |->
                 IF /\ repos[r].registered /\ repos[r].status = "indexing"
                    /\ force \/ ~repos[r].live
                 THEN FreedRow(repos[r], "idle") ELSE repos[r]]

-----------------------------------------------------------------------------
(* Commit chain *)

hasParent(b, sha) == sha # 0 /\ b.first - 1 = sha

commitJobOrder(last, b) ==
    IF last = 0 \/ hasParent(b, last) THEN "next"
    ELSE IF last \in b.first .. b.last THEN "applied" ELSE "tooEarly"

Init ==
    /\ QueueInit
    /\ repos = [r \in Repos |-> [NewRepo EXCEPT !.lastCommit = Cursor0]]
    /\ mode = [w \in Workers |-> "up"]
    /\ proc = [p \in Procs |-> Idle]
    /\ landed = [r \in Repos |-> {}]
    /\ requests = 0 /\ mishaps = 0

-----------------------------------------------------------------------------
(* Requests *)

(* Every handler starts with GetRepo; what it read is gone stale by its next call. *)
Accept(p, r, kind, force, b, next) ==
    /\ mode[Instance(p)] = "up" /\ proc[p].pc = "idle"
    /\ repos[r].registered
    /\ requests < MaxRequests
    /\ requests' = requests + 1
    /\ proc' = [proc EXCEPT ![p] =
                   [pc |-> next, kind |-> kind, repo |-> r, force |-> force,
                    batch |-> b, job |-> 0, pending |-> 0, err |-> ""]]
    /\ UNCHANGED <<queueVars, repos, mode, landed, mishaps>>

(* StartIndex *)
StartIndex(p, r, force) ==
    Accept(p, r, "index", force, NoBatch, IF Distributed THEN "enqueue" ELSE "claimRepo")

(* IndexRepoSync: the bulk load of --source, never queued *)
IndexRepoSync(p, r) ==
    "sync" \in DirectPasses /\ Accept(p, r, "index", FALSE, NoBatch, "claimRepo")

(* SyncRepoAsync: a webhook's pull and reindex, never queued *)
SyncRepoAsync(p, r) ==
    "pull" \in DirectPasses /\ Accept(p, r, "index", FALSE, NoBatch, "claimRepo")

(* ApplyLocalChanges: a watcher's batch, never queued *)
ApplyLocalChanges(p, r) ==
    "local" \in DirectPasses /\ Accept(p, r, "local", FALSE, NoBatch, "claimRepo")

(* ApplyCommits up to the gap check.  A refused batch (commit gap, or busy    *)
(* because it continues pending_commit) changes nothing.                      *)
ApplyCommits(p, r, b) ==
    /\ repos[r].lastCommit = 0 \/ hasParent(b, repos[r].lastCommit)
    /\ PipelinedPushes \/ ~Unfinished(r)
    /\ Accept(p, r, "commits", FALSE, b, IF Distributed THEN "enqueue" ELSE "claimRepo")

(* ... and, in distributed mode, the enqueue *)
Enqueue(p) ==
    /\ proc[p].pc = "enqueue"
    /\ \/ /\ proc[p].kind = "index"
          /\ EnqueueIndexJob(proc[p].repo, proc[p].force)
          /\ Done(p)
       \/ /\ proc[p].kind = "commits"
          /\ EnqueueCommitJob(proc[p].repo, proc[p].batch)
          /\ Goto(p, "announce")
    /\ UNCHANGED <<repos, mode, landed, requests, mishaps>>

(* Published after the batch is durable. *)
Announce(p) ==
    /\ proc[p].pc = "announce"
    /\ \/ SetRepoPendingCommit(proc[p].repo, proc[p].batch.last) /\ UNCHANGED mishaps
       \/ Mishap("pending") /\ UNCHANGED repos
    /\ Done(p)
    /\ UNCHANGED <<queueVars, mode, landed, requests>>

(* POST /repos/{id}/reset *)
ResetRepo(r) ==
    /\ Mishap("reset")
    /\ repos[r].registered
    /\ UpdateRepoStatus(r, "idle")
    /\ UNCHANGED <<queueVars, mode, proc, landed, requests>>

(* The row and everything indexed go, whether or not a pass holds the claim; *)
(* the repository's queued jobs stay.                                        *)
DeleteRepo(r) ==
    /\ Mishap("delete")
    /\ repos[r].registered
    /\ repos' = [repos EXCEPT ![r] = [NewRepo EXCEPT !.registered = FALSE]]
    /\ landed' = [landed EXCEPT ![r] = {}]
    /\ UNCHANGED <<queueVars, mode, proc, requests>>

(* AddRepo of a known repository keeps its lifecycle: only a new row changes. *)
AddRepo(r) ==
    /\ ~repos[r].registered
    /\ repos' = [repos EXCEPT ![r] = NewRepo]
    /\ UNCHANGED <<queueVars, mode, proc, landed, requests, mishaps>>

-----------------------------------------------------------------------------
(* The poller: pollIndexJobs and runQueuedJob *)

(* A tick: RequeueStaleIndexJobs, first statement.  A sweep that finds nothing *)
(* stale at its cutoff, or fails, changes nothing and is not a step: the tick  *)
(* then starts with PollClaim.                                                 *)
PollSweep(w) ==
    /\ mode[w] = "up" /\ proc[Poller(w)].pc = "idle" /\ Distributed
    /\ StaleRows # {}
    /\ SupersedeStale(w)
    /\ Goto(Poller(w), "requeue")
    /\ UNCHANGED <<repos, mode, landed, requests, mishaps>>

(* ... second statement; an error is logged and the tick goes on *)
PollRequeue(w) ==
    /\ proc[Poller(w)].pc = "requeue"
    /\ IF Cancelled(Poller(w)) THEN ForgetSweep(w) ELSE RequeueStale(w)
    /\ Goto(Poller(w), "claimJob")
    /\ UNCHANGED <<repos, mode, landed, requests, mishaps>>

(* Nothing pending, or the base context is gone: the tick ends. *)
PollNothing(w) ==
    /\ proc[Poller(w)].pc = "claimJob"
    /\ Cancelled(Poller(w)) \/ \A i \in JobIds : ~Pending(i)
    /\ Done(Poller(w))
    /\ UNCHANGED <<queueVars, repos, mode, landed, requests, mishaps>>

(* The job is claimed and its payload decoded.  What force does inside the    *)
(* pass is below this model.                                                  *)
PollClaim(w) ==
    /\ proc[Poller(w)].pc \in {"idle", "claimJob"} /\ mode[w] = "up" /\ Distributed
    /\ \E i \in JobIds :
          /\ ClaimNextIndexJob(i, w)
          /\ proc' = [proc EXCEPT ![Poller(w)] =
                         [pc |-> "getRepo", kind |-> jobs[i].kind, repo |-> jobs[i].repo,
                          force |-> FALSE, batch |-> jobs[i].batch, job |-> i,
                          pending |-> 0, err |-> ""]]
    /\ UNCHANGED <<repos, mode, landed, requests, mishaps>>

(* runQueuedJob: GetRepo and commitJobOrder over what it returned *)
LoadRepo(p) ==
    /\ proc[p].pc = "getRepo"
    /\ LET row == repos[proc[p].repo]
           order == IF proc[p].kind = "index" THEN "next"
                    ELSE commitJobOrder(row.lastCommit, proc[p].batch)
       IN  IF Cancelled(p) THEN GotoWith(p, "complete", "cancelled")
           ELSE IF ~row.registered THEN GotoWith(p, "complete", "failed")
           ELSE IF order = "next" THEN Goto(p, "claimRepo")
           ELSE proc' = [proc EXCEPT ![p] =
                    [proc[p] EXCEPT !.pc = IF order = "applied" THEN "retract" ELSE "await",
                                    !.pending = row.pendingCommit]]
    /\ UNCHANGED <<queueVars, repos, mode, landed, requests, mishaps>>

(* A batch that is too early waits only while its predecessor exists. *)
AwaitEarlier(p) ==
    /\ proc[p].pc = "await"
    /\ IF Cancelled(p) \/ HasPendingCommitJobBefore(proc[p].repo, proc[p].job)
       THEN Goto(p, "release")
       ELSE GotoWith(p, "retract", "gap")
    /\ UNCHANGED <<queueVars, repos, mode, landed, requests, mishaps>>

(* clearPendingCommit compares the snapshot, not the row. *)
RetractPending(p) ==
    /\ proc[p].pc = "retract"
    /\ \/ /\ proc[p].pending = proc[p].batch.last
          /\ SetRepoPendingCommit(proc[p].repo, 0) /\ UNCHANGED mishaps
       \/ proc[p].pending # proc[p].batch.last /\ UNCHANGED <<repos, mishaps>>
       \/ Mishap("pending") /\ UNCHANGED repos
    /\ Goto(p, "complete")
    /\ UNCHANGED <<queueVars, mode, landed, requests>>

(* The claim, for a queued job and for a pass started by a request alike. *)
ClaimRepo(p) ==
    /\ proc[p].pc = "claimRepo"
    /\ \/ /\ ~Cancelled(p) /\ repos[proc[p].repo].registered /\ Free(proc[p].repo)
          /\ ClaimRepoForIndexing(proc[p].repo, Instance(p))
          /\ Goto(p, IF proc[p].kind = "commits" THEN "publish" ELSE "run")
       \/ /\ ~Cancelled(p) /\ repos[proc[p].repo].registered /\ ~Free(proc[p].repo)
          /\ IF proc[p].job = 0 THEN Done(p) ELSE Goto(p, "release")
          /\ UNCHANGED repos
       \/ /\ Cancelled(p) \/ ~repos[proc[p].repo].registered
          /\ IF proc[p].job = 0 THEN Done(p)
             ELSE GotoWith(p, "complete", IF Cancelled(p) THEN "cancelled" ELSE "failed")
          /\ UNCHANGED repos
    /\ UNCHANGED <<queueVars, mode, landed, requests, mishaps>>

(* A failure to publish is logged and the batch is applied all the same. *)
PublishPending(p) ==
    /\ proc[p].pc = "publish"
    /\ \/ ~Cancelled(p) /\ SetRepoPendingCommit(proc[p].repo, proc[p].batch.last)
          /\ UNCHANGED mishaps
       \/ Cancelled(p) /\ UNCHANGED <<repos, mishaps>>
       \/ Mishap("pending") /\ UNCHANGED repos
    /\ Goto(p, "run")
    /\ UNCHANGED <<queueVars, mode, landed, requests>>

(* The pass itself (doIndex, doApplyCommits, applyPlan) landed everything. *)
PassLands(p) ==
    /\ proc[p].pc = "run"
    /\ landed' = [landed EXCEPT ![proc[p].repo] =
                     IF proc[p].kind = "commits"
                     THEN @ \cup (proc[p].batch.first .. proc[p].batch.last) ELSE @]
    /\ Goto(p, IF proc[p].kind = "commits" THEN "cursor" ELSE "status")
    /\ UNCHANGED <<queueVars, repos, mode, requests, mishaps>>

(* Mutants of PassFails: unapplied paths do not stop the cursor, or are not reported. *)
PassFailsAdvances(p) ==
    /\ proc[p].pc = "run"
    /\ Goto(p, IF proc[p].kind = "commits" THEN "cursor" ELSE "status")
    /\ UNCHANGED <<queueVars, repos, mode, landed, requests, mishaps>>

PassFailsSilently(p) ==
    /\ proc[p].pc = "run"
    /\ Goto(p, "status")
    /\ UNCHANGED <<queueVars, repos, mode, landed, requests, mishaps>>

(* ... or returned an error, left paths unapplied, or was cancelled by Close.  The *)
(* pull before a webhook's pass reports an error however it ended.                 *)
PassFails(p) ==
    /\ proc[p].pc = "run"
    /\ \/ GotoWith(p, "status", IF mode[Instance(p)] = "closing" THEN "cancelled" ELSE "failed")
       \/ /\ "pull" \in DirectPasses /\ proc[p].kind = "index" /\ proc[p].job = 0
          /\ GotoWith(p, "status", "failed")
    /\ UNCHANGED <<queueVars, repos, mode, landed, requests, mishaps>>

(* runApplyCommits: the cursor moves first; a failed write is only logged. *)
WriteCursor(p) ==
    /\ proc[p].pc = "cursor"
    /\ \/ UpdateRepoLastCommit(proc[p].repo, proc[p].batch.last) /\ UNCHANGED mishaps
       \/ Mishap("cursor") /\ UNCHANGED repos
    /\ Goto(p, "status")
    /\ UNCHANGED <<queueVars, mode, landed, requests>>

(* The terminal status of runIndex, runApplyCommits and ApplyLocalChanges. *)
TerminalStatus(kind, err) ==
    IF err = "" \/ (kind = "index" /\ err = "cancelled") THEN "idle" ELSE "error"

WriteStatus(p) ==
    /\ proc[p].pc = "status"
    /\ \/ /\ UpdateRepoStatus(proc[p].repo, TerminalStatus(proc[p].kind, proc[p].err))
          /\ UNCHANGED mishaps
       \/ Mishap("status") /\ UNCHANGED repos
    /\ IF proc[p].job = 0 THEN Done(p) ELSE Goto(p, "complete")
    /\ UNCHANGED <<queueVars, mode, landed, requests>>

(* jobBookkeeper.complete *)
Complete(p) ==
    /\ proc[p].pc = "complete"
    /\ \/ CompleteIndexJob(proc[p].job, Instance(p), proc[p].err) /\ UNCHANGED mishaps
       \/ Mishap("complete") /\ UNCHANGED queueVars
    /\ Done(p)
    /\ UNCHANGED <<repos, mode, landed, requests>>

(* jobBookkeeper.release, first and second statement *)
Release(p) ==
    /\ proc[p].pc = "release"
    /\ \/ ReleaseIndexJob(proc[p].job, Instance(p)) /\ Done(p)
       \/ /\ ~Releasable(proc[p].job, Instance(p))
          /\ Goto(p, "supersede")
          /\ UNCHANGED queueVars
    /\ UNCHANGED <<repos, mode, landed, requests, mishaps>>

Supersede(p) ==
    /\ proc[p].pc = "supersede"
    /\ SupersedeReleased(proc[p].job, Instance(p))
    /\ Done(p)
    /\ UNCHANGED <<repos, mode, landed, requests, mishaps>>

(* The heartbeat goroutine of a queued pass; Close ends it. *)
Heartbeat(w) ==
    /\ proc[Poller(w)].pc \in PassPCs /\ mode[w] = "up"
    /\ jobs[proc[Poller(w)].job].heartbeat = "stale"
    /\ HeartbeatIndexJob(proc[Poller(w)].job, w)
    /\ UNCHANGED serviceVars

-----------------------------------------------------------------------------
(* Instances stop and start, time passes *)

(* The process dies: nothing it was about to write is written. *)
Crash(w) ==
    /\ mode[w] # "down" /\ Mishap("crash")
    /\ mode' = [mode EXCEPT ![w] = "down"]
    /\ proc' = [p \in Procs |-> IF Instance(p) = w THEN Idle ELSE proc[p]]
    /\ ForgetSweep(w)
    /\ UNCHANGED <<repos, landed, requests>>

(* Service.Close: cancel the base context, then wait for the goroutines. *)
Close(w) ==
    /\ mode[w] = "up" /\ Mishap("stop")
    /\ mode' = [mode EXCEPT ![w] = "closing"]
    /\ UNCHANGED <<queueVars, repos, proc, landed, requests>>

Closed(w) ==
    /\ mode[w] = "closing"
    /\ \A p \in Procs : Instance(p) = w => proc[p].pc = "idle"
    /\ mode' = [mode EXCEPT ![w] = "down"]
    /\ UNCHANGED <<queueVars, repos, proc, landed, requests, mishaps>>

(* New: startJobPoller runs the recovery before anything else. *)
Start(w) ==
    /\ mode[w] = "down"
    /\ mode' = [mode EXCEPT ![w] = "up"]
    /\ ResetStuckRepos(~Distributed)
    /\ UNCHANGED <<queueVars, proc, landed, requests, mishaps>>

(* The instance named by the claim runs no pass over r (any more). *)
HolderGone(r) == \A p \in Procs : InPass(p, r) => Instance(p) # repos[r].claimedBy

(* The claim's TTL runs out. *)
ClaimExpires(r) ==
    /\ repos[r].status = "indexing" /\ repos[r].live
    /\ \/ HolderGone(r) /\ UNCHANGED mishaps
       \/ ~HolderGone(r) /\ Mishap("overrun")
    /\ repos' = [repos EXCEPT ![r] = [repos[r] EXCEPT !.live = FALSE]]
    /\ UNCHANGED <<queueVars, mode, proc, landed, requests>>

(* Nobody is working on the row any more. *)
Orphan(i) ==
    Running(i) /\ \A w \in Workers : proc[Poller(w)].job = i => jobs[i].worker # w

JobAges(i) ==
    /\ \/ Orphan(i) /\ UNCHANGED mishaps
       \/ ~Orphan(i) /\ Mishap("late")
    /\ HeartbeatAges(i)
    /\ UNCHANGED <<repos, mode, proc, landed, requests>>

-----------------------------------------------------------------------------
HandlerNext(p) ==
    \/ \E r \in Repos, f \in BOOLEAN : StartIndex(p, r, f)
    \/ \E r \in Repos : IndexRepoSync(p, r) \/ SyncRepoAsync(p, r) \/ ApplyLocalChanges(p, r)
    \/ \E r \in Repos, b \in Batches : ApplyCommits(p, r, b)

PollNext(w) == PollSweep(w) \/ PollRequeue(w) \/ PollNothing(w) \/ PollClaim(w)

(* The calls a process makes between taking work and being idle again. *)
ProcNext(p) ==
    \/ Enqueue(p) \/ Announce(p)
    \/ LoadRepo(p) \/ AwaitEarlier(p) \/ RetractPending(p)
    \/ ClaimRepo(p) \/ PublishPending(p) \/ PassLands(p) \/ PassFails(p)
    \/ WriteCursor(p) \/ WriteStatus(p)
    \/ Complete(p) \/ Release(p) \/ Supersede(p)

Next ==
    \/ \E p \in Handlers : HandlerNext(p)
    \/ \E w \in Workers : \/ PollNext(w) \/ Heartbeat(w)
                          \/ Crash(w) \/ Close(w) \/ Closed(w) \/ Start(w)
    \/ \E p \in Procs : ProcNext(p)
    \/ \E r \in Repos : ResetRepo(r) \/ DeleteRepo(r) \/ AddRepo(r) \/ ClaimExpires(r)
    \/ \E i \in JobIds : JobAges(i)

Spec == Init /\ [][Next]_vars

(***************************************************************************)
(* Fairness: a running process gets to make its next call, and a poller    *)
(* sweeps again and again (every tick does); a supervised instance is      *)
(* restarted; the clocks behind the two timeouts advance for work nobody   *)
(* does any more.  Nothing makes requests or mishaps happen.               *)
(***************************************************************************)
Fairness ==
    /\ \A w \in Workers : /\ WF_vars(PollNext(w)) /\ SF_vars(PollSweep(w))
                          /\ WF_vars(Closed(w)) /\ WF_vars(Start(w))
    /\ \A p \in Procs : WF_vars(ProcNext(p))
    /\ \A r \in Repos : WF_vars(HolderGone(r) /\ ClaimExpires(r))
    /\ WF_vars(\E i \in JobIds : Orphan(i) /\ JobAges(i))

FairSpec == Spec /\ Fairness

-----------------------------------------------------------------------------
(* Rows, snapshots and processes are well formed. *)
TypeOK ==
    /\ QueueTypeOK
    /\ repos \in [Repos -> RepoRow]
    /\ mode \in [Workers -> {"up", "closing", "down"}]
    /\ proc \in [Procs -> Proc]
    /\ landed \in [Repos -> SUBSET Shas]
    /\ requests \in Nat /\ mishaps \in Nat

(***************************************************************************)
(* Two passes never run over one repository at the same time: the pass     *)
(* "holds the repo's indexing claim, so nothing else writes these rows     *)
(* while it runs" (indexing.go).  It rests on the claim outliving the pass *)
(* and on nobody resetting or deleting the repository meanwhile.           *)
(***************************************************************************)
PassExclusion ==
    \A r \in Repos, p, q \in Procs : InPass(p, r) /\ InPass(q, r) => p = q

(***************************************************************************)
(* The cursor never passes a commit that did not land, whatever snapshot   *)
(* of the cursor the worker that moved it had read.  It rests on the       *)
(* repository having a cursor to begin with.                               *)
(***************************************************************************)
NoHoles ==
    \A r \in Repos : \A c \in Commits :
        Cursor0 < c /\ c <= repos[r].lastCommit => c \in landed[r]

(***************************************************************************)
(* A client that waits for its batch before pushing the next one sees the  *)
(* cursor only move forwards: no late or repeated run of an older batch    *)
(* overwrites a newer one.                                                 *)
(***************************************************************************)
CursorNeverGoesBack ==
    [][\A r \in Repos : repos'[r].registered /\ repos[r].registered
                        => repos[r].lastCommit <= repos'[r].lastCommit]_vars

(***************************************************************************)
(* A commit job recorded as done means its whole batch is in the index.    *)
(***************************************************************************)
DoneMeansLanded ==
    \A i \in JobIds : jobs[i].kind = "commits" /\ jobs[i].status = "done"
        => jobs[i].batch.first .. jobs[i].batch.last \subseteq landed[jobs[i].repo]

(***************************************************************************)
(* While its heartbeat is fresh, a running job leaves the running state    *)
(* only by a step of the worker that is running it.                        *)
(***************************************************************************)
HolderDecides ==
    [][\A i \in JobIds :
          Running(i) /\ jobs[i].heartbeat = "fresh" /\ jobs'[i].status # "running"
          => /\ proc[Poller(jobs[i].worker)].job = i
             /\ proc'[Poller(jobs[i].worker)] # proc[Poller(jobs[i].worker)]]_vars

(***************************************************************************)
(* /sync-state never names a batch nobody holds: pending_commit is the     *)
(* target of a batch that is queued or being applied.  It rests on the     *)
(* status being written, and on a repository not being reset, deleted or   *)
(* overrun between a claim and the publication if the instance dies after. *)
(***************************************************************************)
Holds(r, sha) ==
    \/ \E i \in JobIds : /\ jobs[i].repo = r /\ jobs[i].kind = "commits"
                         /\ ~Terminal(i) /\ jobs[i].batch.last = sha
    \/ \E p \in Procs : /\ proc[p].kind = "commits" /\ proc[p].repo = r
                        /\ proc[p].batch.last = sha

PendingIsHeld ==
    \A r \in Repos :
        (\E w \in Workers : mode[w] = "up") /\ repos[r].pendingCommit # 0
        => Holds(r, repos[r].pendingCommit)

(***************************************************************************)
(* "A forced reindex is never downgraded to a cheap one": a forced index   *)
(* job that is dropped as superseded leaves a forced one in its place.     *)
(***************************************************************************)
ForceNotDowngraded ==
    [][\A i \in JobIds :
          jobs[i].force /\ ~Terminal(i) /\ jobs'[i].error = "superseded"
          => \E k \in 1 .. lastId' : /\ jobs'[k].repo = jobs[i].repo /\ jobs'[k].force
                                     /\ jobs'[k].status \in {"pending", "running"}]_vars

(***************************************************************************)
(* An instance that dies "does not take the batch with it": no accepted    *)
(* batch ends because the worker applying it was shut down.                *)
(***************************************************************************)
StopKeepsBatch ==
    \A i \in JobIds : jobs[i].kind = "commits" => jobs[i].error # "cancelled"

(***************************************************************************)
(* "Batches are applied in the order they were accepted": a queued batch   *)
(* lands only when no earlier part of the history, accepted before it, is  *)
(* still unfinished.                                                       *)
(***************************************************************************)
AppliedInOrder ==
    [][\A p \in Procs :
          proc[p].pc = "run" /\ proc'[p].pc = "cursor" /\ proc[p].job # 0
          => \A k \in JobIds :
                k < proc[p].job /\ jobs[k].kind = "commits" /\ jobs[k].repo = proc[p].repo
                /\ jobs[k].batch.last < proc[p].batch.first
                => Terminal(k)]_vars

(***************************************************************************)
(* Every queued job is eventually done or failed, through crashes of the   *)
(* workers that claimed it and repositories that were busy.                *)
(***************************************************************************)
JobsFinish ==
    \A i \in 1 .. MaxRequests :
        (i \in JobIds) ~> (i \in JobIds /\ Terminal(i))

(***************************************************************************)
(* With one instance, a repository does not stay in the indexing status:   *)
(* a pass ends, and a restart releases the claim of one that died.         *)
(***************************************************************************)
RepoFreed ==
    \A r \in Repos : (repos[r].status = "indexing") ~> (repos[r].status # "indexing")

-----------------------------------------------------------------------------
(* Inductive invariants behind the theorems of IndexServiceProofs. *)

(* Only pollers carry jobs, and only batches are published or move a cursor. *)
ProcInv ==
    /\ \A p \in Procs :
          /\ proc[p].job # 0 => p = Poller(Instance(p))
          /\ proc[p].kind = "commits" => proc[p].batch \in Batches
          /\ proc[p].pc \in {"publish", "cursor"} => proc[p].kind = "commits"
          /\ proc[p].err # "superseded"
          /\ mode[Instance(p)] = "down" \/ proc[p].pc = "idle" => proc[p] = Idle
          /\ proc[p].pc = "supersede" /\ HeldBy(proc[p].job, Instance(p))
             => IsIndex(proc[p].job)
    /\ \A i \in JobIds : jobs[i].kind = "commits" => jobs[i].batch \in Batches

(* A pass runs under a live claim of its own instance. *)
PassHoldsClaim ==
    \A r \in Repos, p \in Procs :
        InPass(p, r) => /\ repos[r].status = "indexing" /\ repos[r].live
                        /\ repos[r].claimedBy = Instance(p)

(* A batch about to be applied continues what landed; one that landed is all there. *)
ChainInv ==
    /\ \A r \in Repos : repos[r].registered /\ repos[r].lastCommit # 0
    /\ \A p \in Procs : proc[p].kind = "commits" =>
          /\ proc[p].pc \in {"claimRepo", "publish", "run", "cursor"}
             => \A c \in Commits : Cursor0 < c /\ c < proc[p].batch.first
                                    => c \in landed[proc[p].repo]
          /\ proc[p].pc = "cursor"
             => proc[p].batch.first .. proc[p].batch.last \subseteq landed[proc[p].repo]

(* A poller carries what the row of its job says; a request that queues a batch *)
(* has no row yet.                                                              *)
JobInv ==
    \A p \in Procs : proc[p].job # 0 =>
        /\ proc[p].pc \notin {"enqueue", "announce"}
        /\ proc[p].job \in JobIds
        /\ jobs[proc[p].job].kind = proc[p].kind
        /\ jobs[proc[p].job].repo = proc[p].repo
        /\ jobs[proc[p].job].batch = proc[p].batch

(* No batch ends inside another one: clients never resend a part of a batch. *)
BatchesEndApart ==
    \A b, c \in Batches : c.last \in b.first .. b.last => c.last = b.last

(* The cursor stands at its start or at the end of a batch, every accepted      *)
(* batch begins behind the start, and a process about to report that it applied *)
(* its batch, or found it applied, has it in the index.                         *)
ResultInv ==
    /\ \A r \in Repos : /\ Cursor0 <= repos[r].lastCommit
                         /\ \/ repos[r].lastCommit = Cursor0
                            \/ \E b \in Batches : repos[r].lastCommit = b.last
    /\ \A i \in JobIds : jobs[i].kind = "commits" => Cursor0 < jobs[i].batch.first
    /\ \A p \in Procs : proc[p].kind = "commits" =>
          /\ Cursor0 < proc[p].batch.first
          /\ proc[p].pc \in {"status", "retract", "complete"} /\ proc[p].err = ""
             => proc[p].batch.first .. proc[p].batch.last \subseteq landed[proc[p].repo]

(* A request that has taken a batch and not yet queued it, or runs it itself. *)
TakenDirectly(p) == proc[p].kind = "commits" /\ proc[p].job = 0 /\ proc[p].pc # "announce"

(* An unfinished commit job. *)
Queued(i) == jobs[i].kind = "commits" /\ ~Terminal(i)

(* With no heartbeat late, a poller holds the job it runs; with clients that    *)
(* wait, a repository has one unfinished batch, in a request or in one row of   *)
(* the queue, and its cursor has not passed that batch.                         *)
OneBatchInv ==
    /\ \A p \in Procs : proc[p].job # 0 => /\ HeldBy(proc[p].job, Instance(p))
                                           /\ jobs[proc[p].job].heartbeat = "fresh"
    /\ \A i, k \in JobIds : Queued(i) /\ Queued(k) /\ jobs[i].repo = jobs[k].repo => i = k
    /\ \A p \in Procs : TakenDirectly(p) =>
          /\ \A i \in JobIds : Queued(i) => jobs[i].repo # proc[p].repo
          /\ \A q \in Procs : proc[q].kind = "commits" /\ proc[q].repo = proc[p].repo => q = p
          /\ repos[proc[p].repo].lastCommit <= proc[p].batch.last
    /\ \A i \in JobIds : Queued(i) => repos[jobs[i].repo].lastCommit <= jobs[i].batch.last

(* The process has published the batch it applies and not yet ended the pass. *)
Applies(p, r, sha) ==
    /\ proc[p].kind = "commits" /\ proc[p].repo = r /\ proc[p].batch.last = sha
    /\ proc[p].pc \in {"run", "cursor", "status"}

(* Without the queue a published batch is being applied, or its pass died with  *)
(* the instance and the row still says so to the recovery of the next start.    *)
PendingInv ==
    /\ \A p \in Procs : proc[p].pc \notin {"enqueue", "announce"}
    /\ \A r \in Repos : repos[r].pendingCommit # 0 =>
          /\ repos[r].registered
          /\ \/ \E p \in Procs : Applies(p, r, repos[r].pendingCommit)
             \/ repos[r].status = "indexing" /\ \A w \in Workers : mode[w] = "down"

=============================================================================
