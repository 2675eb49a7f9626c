CONSTANTS
    \* McpSession
    Agents = {g1}
    MaxPageRealms = 2
    MaxRenumberings = 2
    MaxSwitches = 2
    \* UpdateDownload
    Releases <- MCReleases
    FirstRelease <- Candidate
    Builds = {1, 2}
    Shards <- MCShards
    Required <- MCRequired
    Windows = {w1, w2}
    MaxPublications = 3
    MaxLaunches = 2
    \* AssetInventory
    Targets = {a1, a2}
    NoApp = none
    MaxBuilds = 3
    MaxSaves = 1
    MaxStarts = 1
    \* Extraction
    Apps = {a1}
    Handlers = {h1, h2}
    MaxVersions = 2
    MaxRuns = 3
    MaxDeaths = 1
    \* CodeSearch
    HitCap = 2
    LineCap = 3
    ContextBefore = 1
    MaxFiles = 2
    MaxLines = 2
    MaxRunes = 5
    \* AgentStream
    RingSize = 2
    InboxSize = 1
    PageLimit = 1
    UpdateLimits = {1}
    MaxCaptures = 2
    MaxStreams = 1
    MaxPosts = 2
    \* MiniappTools
    Routes = {"A", "B"}
    MaxId = 3
    Attempts = 2
    MaxDepth = 2
    MaxMoves = 2
    \* PageStream
    Capacity = 2
    Limit = 1
    MaxSeq = 3
    MaxRealm = 1
    MaxGen = 1
    \* TrafficStore
    Calls = {1, 2, 3}
    Captured <- MCCaptured
    PageSize = 1
    VacuumRatio = 2
    None = none
    \* StoreOpen
    Openers = {o1, o2}
    Scripts <- MCScripts
SPECIFICATION AgentSpec
\* A component whose bounds are used up stops.
CHECK_DEADLOCK FALSE
INVARIANTS
    AgentTypeOK
    AgentIsToldTheTruth
    OnlyOverlapBreaksMarker
    
    OutputsAreKept
    SearchIsHonest
    AgentReadsWell
    
    StreamIsHonest
    HistoryIsHonest
    SchemaIsWhole
PROPERTIES
    NeverInstallsOlder
    KeepsTheEvidence
