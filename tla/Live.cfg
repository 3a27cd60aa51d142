\* The watcher, the LSP client and the vector pipeline, one at a time.
SPECIFICATION LiveSpec
CONSTANTS
    Dirs = {d}
    Names = {f}
    MaxContent = 1
    MaxStream = 2
    HardMax = 2
    WatchFaults = {"overflow", "descriptors", "add", "list", "apply"}
    Callers = {c1, c2}
    MaxCalls = 2
    MaxReplies = 2
    PipeFiles = {1, 2, 3}
    EmbedWorkers = {"e", "g"}
    Writers = {"v"}
    JobsCap = 1
    StoresCap = 1
    PackTarget = 2
INVARIANTS
    WatcherSafe
PROPERTIES
    WatcherLive
    LspPromise
    PromiseKept
CHECK_DEADLOCK FALSE
