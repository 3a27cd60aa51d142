--------------------------- MODULE VectorPipeline ---------------------------
(***************************************************************************)
(* The vector indexer's pipeline (internal/index/vector/indexer.go Index): *)
(* a producer chunks files, workers pack them into embed requests, writers *)
(* replace each file's points.  The stages are joined by two bounded       *)
(* channels; any remote call may fail, and the run may be cancelled.       *)
(*                                                                         *)
(* A file is one chunk; what it holds is left out.  The embed calls end:   *)
(* the HTTP client bounds them with a timeout.                             *)
(***************************************************************************)
EXTENDS Integers, Sequences, FiniteSets, SequencesExt

CONSTANTS
    PipeFiles,
    EmbedWorkers, Writers,      \* goroutines of the second and the third stage
    JobsCap, StoresCap,         \* capacities of the channels
    PackTarget                  \* packTargetTexts

ASSUME PipelineAssumption ==
    /\ {JobsCap, StoresCap, PackTarget} \subseteq Nat \ {0}
    /\ EmbedWorkers # {} /\ Writers # {}

VARIABLES
    toRead,     \* files the producer has not come to
    jobs,       \* the first channel
    jobsOpen,
    worker,     \* per embed worker: [pc, group]
    stores,     \* the second channel
    storesOpen,
    writer,     \* per writer: [pc, file]
    outcome,    \* per file: what the result says of it
    points,     \* per file: "old", "none" or "new"
    cancelled,  \* ctx is done
    returned

pipeVars == <<toRead, jobs, jobsOpen, worker, stores, storesOpen, writer, outcome, points, cancelled, returned>>

At(pc, group) == [pc |-> pc, group |-> group]
Writing(pc, f) == [pc |-> pc, file |-> f]
NoFile == 0

PipeInit ==
    /\ toRead = PipeFiles
    /\ jobs = <<>> /\ jobsOpen = TRUE
    /\ worker = [w \in EmbedWorkers |-> At("idle", <<>>)]
    /\ stores = <<>> /\ storesOpen = TRUE
    /\ writer = [v \in Writers |-> Writing("idle", NoFile)]
    /\ outcome = [f \in PipeFiles |-> "open"]
    /\ points = [f \in PipeFiles |-> "old"]
    /\ cancelled = FALSE
    /\ returned = "not called"

-----------------------------------------------------------------------------
(* A pass calls Index with the files.                                            *)
CallIndex ==
    /\ returned = "not called"
    /\ returned' = "no"
    /\ UNCHANGED <<toRead, jobs, jobsOpen, worker, stores, storesOpen, writer, outcome, points, cancelled>>

(* The producer: files in the order of a map, skipped, unreadable, or sent on.   *)
Produce(f) ==
    /\ returned = "no" /\ jobsOpen /\ f \in toRead /\ ~cancelled
    /\ toRead' = toRead \ {f}
    /\ \/ /\ outcome' \in {[outcome EXCEPT ![f] = how] : how \in {"skipped", "failed"}}
          /\ UNCHANGED jobs
       \/ /\ Len(jobs) < JobsCap
          /\ jobs' = Append(jobs, f)
          /\ UNCHANGED outcome
    /\ UNCHANGED <<jobsOpen, worker, stores, storesOpen, writer, points, cancelled, returned>>

CloseJobs ==
    /\ returned = "no" /\ jobsOpen
    /\ toRead = {} \/ cancelled
    /\ jobsOpen' = FALSE
    /\ UNCHANGED <<toRead, jobs, worker, stores, storesOpen, writer, outcome, points, cancelled, returned>>

-----------------------------------------------------------------------------
(* An embed worker takes one job, packs what is waiting without blocking, and    *)
(* ends when the channel is closed and empty.                                    *)
TakeJob(w) ==
    /\ worker[w].pc = "idle" /\ jobs # <<>>
    /\ worker' = [worker EXCEPT ![w] = At("pack", <<Head(jobs)>>)]
    /\ jobs' = Tail(jobs)
    /\ UNCHANGED <<toRead, jobsOpen, stores, storesOpen, writer, outcome, points, cancelled, returned>>

Pack(w) ==
    /\ worker[w].pc = "pack"
    /\ IF Len(worker[w].group) < PackTarget /\ jobs # <<>>
       THEN /\ worker' = [worker EXCEPT ![w].group = Append(@, Head(jobs))]
            /\ jobs' = Tail(jobs)
       ELSE /\ worker' = [worker EXCEPT ![w].pc = "embed"]
            /\ UNCHANGED jobs
    /\ UNCHANGED <<toRead, jobsOpen, stores, storesOpen, writer, outcome, points, cancelled, returned>>

WorkerEnds(w) ==
    /\ worker[w].pc = "idle" /\ jobs = <<>> /\ ~jobsOpen
    /\ worker' = [worker EXCEPT ![w].pc = "gone"]
    /\ UNCHANGED <<toRead, jobs, jobsOpen, stores, storesOpen, writer, outcome, points, cancelled, returned>>

(* embedGroup: one request for the group; when it fails every file is retried    *)
(* alone, unless the run was cancelled.                                          *)
EmbedOk(w) ==
    /\ worker[w].pc = "embed"
    /\ worker' = [worker EXCEPT ![w].pc = "push"]
    /\ UNCHANGED <<toRead, jobs, jobsOpen, stores, storesOpen, writer, outcome, points, cancelled, returned>>

embedFails(w) ==
    IF cancelled
    THEN /\ worker' = [worker EXCEPT ![w] = At("idle", <<>>)]
         /\ outcome' = [f \in PipeFiles |-> IF f \in ToSet(worker[w].group) THEN "failed" ELSE outcome[f]]
    ELSE /\ worker' = [worker EXCEPT ![w].pc = "solo"]
         /\ UNCHANGED outcome

EmbedFails(w) ==
    /\ worker[w].pc = "embed"
    /\ embedFails(w)
    /\ UNCHANGED <<toRead, jobs, jobsOpen, stores, storesOpen, writer, points, cancelled, returned>>

(* The next file of the group, or the next job.                                  *)
Onward(w, pc) ==
    IF Len(worker[w].group) = 1 THEN At("idle", <<>>) ELSE At(pc, Tail(worker[w].group))

(* embedFileChunks: three attempts with a shrinking budget, then the file fails. *)
SoloOk(w) ==
    /\ worker[w].pc = "solo"
    /\ worker' = [worker EXCEPT ![w].pc = "soloPush"]
    /\ UNCHANGED <<toRead, jobs, jobsOpen, stores, storesOpen, writer, outcome, points, cancelled, returned>>

SoloFails(w) ==
    /\ worker[w].pc = "solo"
    /\ worker' = [worker EXCEPT ![w] = Onward(w, "solo")]
    /\ outcome' = [outcome EXCEPT ![Head(worker[w].group)] = "failed"]
    /\ UNCHANGED <<toRead, jobs, jobsOpen, stores, storesOpen, writer, points, cancelled, returned>>

(* stores <- job, which blocks while the channel is full.                        *)
PushStore(w) ==
    /\ worker[w].pc \in {"push", "soloPush"}
    /\ Len(stores) < StoresCap
    /\ stores' = Append(stores, Head(worker[w].group))
    /\ worker' = [worker EXCEPT ![w] = Onward(w, IF worker[w].pc = "push" THEN "push" ELSE "solo")]
    /\ UNCHANGED <<toRead, jobs, jobsOpen, storesOpen, writer, outcome, points, cancelled, returned>>

CloseStores ==
    /\ storesOpen /\ ~jobsOpen
    /\ \A w \in EmbedWorkers : worker[w].pc = "gone"
    /\ storesOpen' = FALSE
    /\ UNCHANGED <<toRead, jobs, jobsOpen, worker, stores, writer, outcome, points, cancelled, returned>>

-----------------------------------------------------------------------------
(* storeFile: the old points go first, then the new ones come.                   *)
TakeStore(v) ==
    /\ writer[v].pc = "idle" /\ stores # <<>>
    /\ writer' = [writer EXCEPT ![v] = Writing("delete", Head(stores))]
    /\ stores' = Tail(stores)
    /\ UNCHANGED <<toRead, jobs, jobsOpen, worker, storesOpen, outcome, points, cancelled, returned>>

DeleteOld(v) ==
    /\ writer[v].pc = "delete"
    /\ writer' = [writer EXCEPT ![v].pc = "upsert"]
    /\ points' = [points EXCEPT ![writer[v].file] = "none"]
    /\ UNCHANGED <<toRead, jobs, jobsOpen, worker, stores, storesOpen, outcome, cancelled, returned>>

Upsert(v) ==
    /\ writer[v].pc = "upsert"
    /\ writer' = [writer EXCEPT ![v] = Writing("idle", NoFile)]
    /\ points' = [points EXCEPT ![writer[v].file] = "new"]
    /\ outcome' = [outcome EXCEPT ![writer[v].file] = "indexed"]
    /\ UNCHANGED <<toRead, jobs, jobsOpen, worker, stores, storesOpen, cancelled, returned>>

(* A failed call fails its file and the writer goes on to the next.              *)
afterFailureStops(v) == Writing("gone", NoFile)
afterFailure(v) == Writing("idle", NoFile)

StoreFails(v) ==
    /\ writer[v].pc \in {"delete", "upsert"}
    /\ writer' = [writer EXCEPT ![v] = afterFailure(v)]
    /\ outcome' = [outcome EXCEPT ![writer[v].file] = "failed"]
    /\ UNCHANGED <<toRead, jobs, jobsOpen, worker, stores, storesOpen, points, cancelled, returned>>

WriterEnds(v) ==
    /\ writer[v].pc = "idle" /\ stores = <<>> /\ ~storesOpen
    /\ writer' = [writer EXCEPT ![v].pc = "gone"]
    /\ UNCHANGED <<toRead, jobs, jobsOpen, worker, stores, storesOpen, outcome, points, cancelled, returned>>

-----------------------------------------------------------------------------
Cancel ==
    /\ ~cancelled /\ returned = "no"
    /\ cancelled' = TRUE
    /\ UNCHANGED <<toRead, jobs, jobsOpen, worker, stores, storesOpen, writer, outcome, points, returned>>

IndexReturns ==
    /\ returned = "no" /\ ~storesOpen
    /\ \A v \in Writers : writer[v].pc = "gone"
    /\ returned' = IF cancelled THEN "cancelled" ELSE "complete"
    /\ UNCHANGED <<toRead, jobs, jobsOpen, worker, stores, storesOpen, writer, outcome, points, cancelled>>

WorkerNext(w) ==
    TakeJob(w) \/ Pack(w) \/ WorkerEnds(w) \/ EmbedOk(w) \/ EmbedFails(w) \/ SoloOk(w) \/ SoloFails(w) \/ PushStore(w)
WriterNext(v) == TakeStore(v) \/ DeleteOld(v) \/ Upsert(v) \/ StoreFails(v) \/ WriterEnds(v)
MainNext == CloseJobs \/ CloseStores \/ IndexReturns \/ \E f \in PipeFiles : Produce(f)

PipeNext == CallIndex \/ MainNext \/ Cancel \/ (\E w \in EmbedWorkers : WorkerNext(w)) \/ (\E v \in Writers : WriterNext(v))

(* Every goroutine runs on: the Go scheduler, and calls that end.                *)
PipeFairness ==
    /\ WF_pipeVars(MainNext)
    /\ \A w \in EmbedWorkers : WF_pipeVars(WorkerNext(w))
    /\ \A v \in Writers : WF_pipeVars(WriterNext(v))

PipeSpec == PipeInit /\ [][PipeNext]_pipeVars /\ PipeFairness

-----------------------------------------------------------------------------
Promise == INSTANCE FileOutcomes WITH Files <- PipeFiles, settled <- outcome, stored <- points, ended <- returned

(* The pipeline keeps the indexer's promise: whatever fails and whenever it is   *)
(* cancelled, no stage waits for ever on another, every file is settled once, an *)
(* indexed file holds its new points, and a run that returns no error has        *)
(* settled them all.                                                             *)
PromiseKept == Promise!OutcomesSpec

-----------------------------------------------------------------------------
(* The inductive invariant behind the promise.  A file that is not settled is in *)
(* one place of the pipeline, and a settled one in none; and the stages end in    *)
(* order, each with its channel drained.                                         *)
InGroup(w, f) == f \in ToSet(worker[w].group)
Writes(v, f) == writer[v].pc \in {"delete", "upsert"} /\ writer[v].file = f

FileInOnePlace(f) ==
    LET read == f \in toRead
        job == f \in ToSet(jobs)
        store == f \in ToSet(stores)
    IN /\ outcome[f] = "open" <=> \/ read \/ job \/ store
                                  \/ \E w \in EmbedWorkers : InGroup(w, f)
                                  \/ \E v \in Writers : Writes(v, f)
       /\ ~(read /\ job) /\ ~(read /\ store) /\ ~(job /\ store)
       /\ read \/ job \/ store => /\ \A w \in EmbedWorkers : ~InGroup(w, f)
                                  /\ \A v \in Writers : ~Writes(v, f)
       /\ \A w \in EmbedWorkers : InGroup(w, f) =>
              (\A u \in EmbedWorkers \ {w} : ~InGroup(u, f)) /\ (\A v \in Writers : ~Writes(v, f))
       /\ \A v \in Writers : Writes(v, f) => \A u \in Writers \ {v} : ~Writes(u, f)

StagesInOrder ==
    /\ \A w \in EmbedWorkers : /\ worker[w].pc \in {"idle", "gone"} <=> worker[w].group = <<>>
                               /\ worker[w].pc = "gone" => jobs = <<>> /\ ~jobsOpen
    /\ ~jobsOpen => toRead = {} \/ cancelled
    /\ ~storesOpen => ~jobsOpen /\ \A w \in EmbedWorkers : worker[w].pc = "gone"
    /\ \A v \in Writers : /\ writer[v].pc = "gone" => stores = <<>> /\ ~storesOpen
                          /\ writer[v].pc \in {"delete", "upsert"} => writer[v].file \in PipeFiles
    /\ returned = "not called" => /\ jobsOpen /\ jobs = <<>> /\ stores = <<>>
                                  /\ \A w \in EmbedWorkers : worker[w].pc = "idle"
                                  /\ \A v \in Writers : writer[v].pc = "idle"
    /\ returned \in {"complete", "cancelled"} => ~storesOpen /\ \A v \in Writers : writer[v].pc = "gone"

PipeTypeOK ==
    /\ toRead \subseteq PipeFiles
    /\ jobs \in Seq(PipeFiles) /\ IsInjective(jobs) /\ stores \in Seq(PipeFiles) /\ IsInjective(stores)
    /\ worker \in [EmbedWorkers -> [pc : {"idle", "pack", "embed", "push", "solo", "soloPush", "gone"},
                                    group : Seq(PipeFiles)]]
    /\ \A w \in EmbedWorkers : IsInjective(worker[w].group)
    /\ writer \in [Writers -> [pc : {"idle", "delete", "upsert", "gone"}, file : PipeFiles \cup {NoFile}]]
    /\ outcome \in [PipeFiles -> {"open", "indexed", "failed", "skipped"}]
    /\ points \in [PipeFiles -> {"old", "none", "new"}]
    /\ {jobsOpen, storesOpen, cancelled} \subseteq BOOLEAN
    /\ returned \in {"not called", "no", "complete", "cancelled"}

PipeInv == PipeTypeOK /\ StagesInOrder /\ \A f \in PipeFiles : FileInOnePlace(f)
=============================================================================
