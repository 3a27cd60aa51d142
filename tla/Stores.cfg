\* What the service stores and finds: eleven parts, one at a time.
INIT Init
NEXT Next
CONSTANTS
    Lines = {1, 2, 3, 4}
    MaxSymbols = 2
    MaxRefs = 1
    LineTolerance = 2
    MaxUnits = 2
    Home = 1
    Sources <- MCSources
    MaxPasses = 3
    MaxFaults = 1
    StoreFaults = {"edges", "rewriteDelete", "rewriteInsert", "link", "flush", "flow"}
    EdgePool <- MCEdgePool
    Kind <- MCKind
    ServiceOf <- MCServiceOf
    Aliases <- MCAliases
    MaxDepth = 4
    MaxExpansions = 7
    MaxChains = 2
    MaxAliasDepth = 2
    MaxHops = 2
    MaxRelated = 3
    StoreRepos = {"r", "s"}
    StorePaths = {"a", "b"}
    PathChunk = 1
    MaxStoreCalls = 3
    MaxStoreFaults = 1
    Docs <- MCDocs
    Units <- MCUnits
    GraphEdges <- MCGraphEdges
    Questions <- MCQuestions
    SearchRepos = {1, 2}
    TopN = 2
    HitLimit = 3
    EdgeLimit = 3
    MaxPromoted = 2
    UnitPool <- MCUnitPool
    Lookups <- MCLookups
    MaxCommits = 3
    StoreWorkers = {"w", "x"}
    Widths = {1, 2}
    VectorFiles = {1}
    Retries = 1
    MaxVectorCalls = 2
    MaxLost = 1
    MaxDrops = 1
    Shape <- MCShape
    Unlinked = {"u"}
    ServiceOfFile <- MCServiceOfFile
    BaseName <- MCBaseName
    MaxSumm = 2
    MaxSymSumm = 3
    SymbolBatchSize = 2
    MaxEnrichPasses = 2
    MaxFileEdits = 1
    MaxEnrichFaults = 1
    PkgShapes <- MCPkgShapes
    DirOf <- MCDirOf
    MaxBatches = 2
    SymFiles <- MCSymFiles
    LspServers = {"go", "java"}
    LangOrder <- MCLangOrder
    MaxSymPasses = 2
    MaxSymEdits = 1
    MaxSymFaults = 2
INVARIANTS
    LinkingSound
    GraphSound
    WalksSound
    BackendsAgree
    SearchSound
    PageIsBestPrefix
    VectorStoreSafe
    RefinersSound
    EnrichmentSafe
CHECK_DEADLOCK FALSE
