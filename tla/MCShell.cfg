CONSTANTS
    Capacity = 2
    PageSize = 1
    MaxBorn = 3
    MaxClears = 1
    Emitters = {e1, e2}
    LogCapacity = 2
    MaxLines = 3
    MaxLogClears = 1
    Scripts = {s1}
    GlobalScripts = {s1}
    MaxNumberings = 2
    MaxRealms = 2
    MaxPresses = 1
    Apps = {a1}
    Tools = {t1}
    PageCount = 1
    MaxRebuilds = 2
    MaxVisits = 2
    Callers = {c1, c2, c3}
    MaxStarts = 4
    MaxPeers = 2
    MaxCommands = 5
    MaxEvents = 4
    Windows = {w1, w2}
    MaxRetired = 2
    MaxRequests = 9
    MaxSessions = 3
    MaxHappenings = 3
    MaxLinks = 2
    MaxOccasions = 3
    Agents = {1, 2}
    MaxSides = 2
    MaxUses = 4
    MaxScopes = 2
    MaxCaptures = 2
    MaxIncidents = 5
    MaxAttaches = 3
    MaxBoots = 2
    MaxSockets = 2
    MaxMishaps = 2
    MaxPeerLinks = 2
    MaxAttached = 3
    MaxProbes = 3
    MaxTroubles = 2
SPECIFICATION ShellSpec
\* A component whose bounds are used up stops.
CHECK_DEADLOCK FALSE
INVARIANTS
    ShellTypeOK
    ConsoleIsHonest
    LogReplayMerges
    SettledSessionIsTrue
    
    WaitGroupBalanced
    PausePolicyIsTrue
    H5IsIsolated
    ProbesComeOff
    DebugToolsAreTrue
    
    AttachIsClean
PROPERTIES
    StopMeansStopped
