SPECIFICATION MCSpec
CONSTANTS
    Pools = {0, 1}
    DefaultSlot = 0
    MaxRetry = 2
    MaxEdits = 1
    MaxEvents = 0
INVARIANTS
    OnlyLaunchLosesEdits
    RequestReachesReader
CHECK_DEADLOCK FALSE
