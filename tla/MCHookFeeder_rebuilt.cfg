CONSTANTS
    RecordCap = 2
    UpdateCap = 2
    DrainLimit = 1
    UpdateLimit = 1
    MaxRecordRounds = 2
    MaxUpdateRounds = 2
    MaxPending = 1
    DeliveredCap = 6
    PollLimit = 1
    MaxSeq = 4
    MaxRealm = 1
    MaxRefresh = 2
    MaxClear = 0
SPECIFICATION RebuiltSpec
\* A page that neither captures nor is rebuilt any more stops.
CHECK_DEADLOCK FALSE
INVARIANT ReplaysAreCovered
