CONSTANTS
    RecordCap = 2
    UpdateCap = 2
    DrainLimit = 1
    UpdateLimit = 1
    MaxRecordRounds = 1
    MaxUpdateRounds = 1
    MaxPending = 1
    DeliveredCap = 6
    PollLimit = 1
    MaxSeq = 2
    MaxRealm = 1
    MaxRefresh = 0
    MaxClear = 0
SPECIFICATION ReloadSpec
PROPERTY EverythingArrives
