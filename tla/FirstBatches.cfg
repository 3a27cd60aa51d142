\* Batches pushed to a repository that has no cursor yet.
SPECIFICATION Spec
CONSTANTS
    Workers = {w1, w2}
    NoWorker = NoWorker
    Repos = {r1}
    Batches <- FirstBatches
    Distributed = TRUE
    Cursor0 = 0
    Frontends = {w1}
    Slots = {s1}
    MaxRequests = 2
    PipelinedPushes = TRUE
    DirectPasses = {}
    Mishaps = {}
    MaxMishaps = 0
PROPERTIES
    AppliedInOrder
CHECK_DEADLOCK FALSE
