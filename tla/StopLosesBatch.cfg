\* A worker is closed while it applies a batch.
SPECIFICATION Spec
CONSTANTS
    Workers = {w1, w2}
    NoWorker = NoWorker
    Repos = {r1}
    Batches <- ChainedBatches
    Distributed = TRUE
    Cursor0 = 1
    Frontends = {w1}
    Slots = {s1}
    MaxRequests = 2
    PipelinedPushes = TRUE
    DirectPasses = {}
    Mishaps = {"stop"}
    MaxMishaps = 1
INVARIANTS
    StopKeepsBatch
CHECK_DEADLOCK FALSE
