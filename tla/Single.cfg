\* One instance without the queue, two requests at a time.
SPECIFICATION FairSpec
CONSTANTS
    Workers = {w1}
    NoWorker = NoWorker
    Repos = {r1}
    Batches <- ChainedBatches
    Distributed = FALSE
    Cursor0 = 1
    Frontends = {w1}
    Slots = {s1, s2}
    MaxRequests = 3
    PipelinedPushes = FALSE
    DirectPasses = {"sync", "pull", "local"}
    Mishaps = {"crash", "stop", "reset", "delete", "overrun"}
    MaxMishaps = 1
INVARIANTS
    PendingIsHeld
PROPERTIES
    RepoFreed
CHECK_DEADLOCK FALSE
