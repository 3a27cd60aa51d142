\* A forced job released beside a pending cheap one.
SPECIFICATION Spec
CONSTANTS
    Workers = {w1, w2}
    NoWorker = NoWorker
    Repos = {r1}
    Batches <- ChainedBatches
    Distributed = TRUE
    Cursor0 = 1
    Frontends = {w1}
    Slots = {s1}
    MaxRequests = 3
    PipelinedPushes = TRUE
    DirectPasses = {"local"}
    Mishaps = {}
    MaxMishaps = 0
PROPERTIES
    ForceNotDowngraded
CHECK_DEADLOCK FALSE
