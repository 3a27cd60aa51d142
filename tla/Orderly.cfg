\* Clients that wait for a batch before pushing the next; every queued job ends.
SPECIFICATION FairSpec
CONSTANTS
    Workers = {w1, w2}
    NoWorker = NoWorker
    Repos = {r1}
    Batches <- ChainedBatches
    Distributed = TRUE
    Cursor0 = 1
    Frontends = {w1}
    Slots = {s1}
    MaxRequests = 2
    PipelinedPushes = FALSE
    DirectPasses = {}
    Mishaps = {"crash", "stop", "pending", "cursor", "status", "complete"}
    MaxMishaps = 1
INVARIANTS
    DoneMeansLanded
PROPERTIES
    CursorNeverGoesBack
    JobsFinish
CHECK_DEADLOCK FALSE
