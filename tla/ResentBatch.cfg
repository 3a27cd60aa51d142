\* A batch and the longer one resent over it, both accepted before either lands.
SPECIFICATION Spec
CONSTANTS
    Workers = {w1, w2}
    NoWorker = NoWorker
    Repos = {r1}
    Batches <- OverlappingBatches
    Distributed = TRUE
    Cursor0 = 1
    Frontends = {w1}
    Slots = {s1}
    MaxRequests = 2
    PipelinedPushes = TRUE
    DirectPasses = {}
    Mishaps = {}
    MaxMishaps = 0
INVARIANTS
    DoneMeansLanded
CHECK_DEADLOCK FALSE
