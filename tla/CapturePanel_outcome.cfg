CONSTANTS
    RecordCap = 2
    UpdateCap = 2
    DrainLimit = 1
    UpdateLimit = 1
    MaxRecordRounds = 2
    MaxUpdateRounds = 2
    MaxPending = 1
    DeliveredCap = 6
    PollLimit = 1
    MaxSeq = 1
    MaxRealm = 0
    MaxRefresh = 1
    MaxClear = 0
SPECIFICATION PFairSpec

PROPERTY OutcomeReachesPanel
