CONSTANTS
    N = 3
    Exe = 1
    Required = {1, 2}
    Trees = {2, 3}
    MaxVersion = 2
    MaxFaults = 2
    MaxCrashes = 1
SPECIFICATION Spec
\* The executable may be left missing: then no launch is possible.
CHECK_DEADLOCK FALSE
PROPERTY CleanupAfterSuccess
