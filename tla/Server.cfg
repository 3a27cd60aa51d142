\* The process around the index: ten parts, one at a time.
INIT Init
NEXT Next
CONSTANTS
    KeyRepos = {"r"}
    KeyPaths = {1}
    Texts <- MCTexts
    WindowLines = 3
    Overlap = 1
    OptionalFields = {"path_text"}
    CacheCap = 1
    DeletePage = 2
    MaxWindows = 4
    MaxUpkeep = 1
    Publishers = {p1, p2}
    Shown = {r}
    LogCap = 2
    MaxPublish = 3
    Dashboards = {s1}
    Peers = {"a", "p"}
    Trusted = {"p"}
    Rate = 2
    Cost = 3
    Burst = 2
    IdleTicks = 3
    MaxNow = 4
    MaxRequests = 4
    Repos = {"r", "s"}
    Indexed = {"r"}
    Admins = {"a", "b"}
    MaxEdits = 2
    TreeDirs <- MCTreeDirs
    TreeFiles <- MCTreeFiles
    RootLines <- MCRootLines
    DirLines <- MCDirLines
    ExcludeLines <- MCExcludeLines
    Configured <- MCConfigured
    Beginning <- MCBeginning
    MaxRuleEdits = 1
    Folders <- MCFolders
    Hidden = {".h"}
    DiscoveryDepth = 2
    ServiceDirs <- MCServiceDirs
    ComposeServices <- MCComposeServices
    CmdNames = {"a", "b"}
    Declarations <- MCDeclarations
    Hints <- MCHints
    SkipDirs = {"vendor"}
    WalkDepth = 6
    MaxNameDepth = 4
    CloneRepos = {"r1", "r2", "r3"}
    DirOf <- MCDirOf
    Requesters = {"q1", "q2"}
    MaxCloneOps = 5
    Askers = {"a", "b"}
    GatewayRepos = {"api-1", "apix-2"}
    Present = {"apix-2"}
    Holding = {"api-1"}
    Wants = {"api"}
    CacheTTL = 2
    MaxTicks = 1
    MaxAsks = 2
    MaxChanges = 1
    MaxLosses = 1
    Named <- MCNamed
    Prefixed <- MCPrefixed
    Profiles <- MCProfiles
    MaxConfigEdits = 1
    MaxWireFaults = 1
    Openers = {"o", "p"}
    QueuedRepos = {"r"}
    MaxRows = 2
    MaxDeaths = 1
INVARIANTS
    BusConsistent
    LimiterSound
    OrphansAccounted
    KeywordIndexSafe
    RulesHold
    LayoutSound
    InterruptedCloneRetryable
    GatewayHonest
    StartupSafe
    MigrationsSafe
PROPERTIES
    NeverEmptiedByAnEdit
CHECK_DEADLOCK FALSE
