\* Two instances over the shared queue: late heartbeats, stale sweeps, busy repositories.
SPECIFICATION Spec
CONSTANTS
    Workers = {w1, w2}
    NoWorker = NoWorker
    Repos = {r1}
    Batches <- OverlappingBatches
    Distributed = TRUE
    Cursor0 = 1
    Frontends = {w1}
    Slots = {s1}
    MaxRequests = 2
    PipelinedPushes = TRUE
    DirectPasses = {"local"}
    Mishaps = {"late"}
    MaxMishaps = 2
INVARIANTS
    TypeOK
    OnePendingIndexJob
    CommitJobsNotSuperseded
    PassExclusion
    NoHoles
PROPERTIES
    TerminalIsFinal
    HolderDecides
CHECK_DEADLOCK FALSE
