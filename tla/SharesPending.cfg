SPECIFICATION Spec
CONSTANTS
    Reasons = {"low", "stale"}
    TableSize = 1
    MaxShares = 3
    MaxSessions = 2
INVARIANT PendingDropsToZero
CHECK_DEADLOCK FALSE
