CONSTANTS
    Users = {u1, u2}
    MaxCores = 2
    PendingLines = 2
    MaxStderr = 3
    Calls = {r1, r2}
    MaxTasks = 2
    MaxOpens = 1
    Dirs = {d1, d2}
    ScanMaxCached = 1
    MaxEdits = 1
    MaxScans = 3
    N = 3
    Exe = 1
    Required = {1, 2}
    Trees = {2, 3}
    MaxVersion = 3
    MaxFaults = 2
    MaxCrashes = 1
SPECIFICATION ServicesSpec
\* A component whose bounds are used up stops.
CHECK_DEADLOCK FALSE
INVARIANTS
    CoreOutputInOrder
    ShutdownIsOrderly
    
    SwapIsSound
PROPERTIES
    AppliedIsInstalled
    ServicesSettle
