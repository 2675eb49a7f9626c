CONSTANTS
    RingSize = 2
    InboxSize = 1
    PageLimit = 1
    UpdateLimits = {0}
    MaxCaptures = 2
    MaxStreams = 1
    MaxPosts = 2
SPECIFICATION ReadsSpec
\* The agent may have sent all its requests.
CHECK_DEADLOCK FALSE
INVARIANT FedBackUpdatesArrive
