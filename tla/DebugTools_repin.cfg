CONSTANTS
    Agents = {1}
    MaxSides = 2
    MaxUses = 4
SPECIFICATION DebugSpec
\* A component whose bounds are used up stops.
CHECK_DEADLOCK FALSE
INVARIANT WantedIsEnabled
