SPECIFICATION MCPutSpec
CONSTANTS
    Pools = {0, 1}
    DefaultSlot = 0
    MaxRetry = 1
    MaxEdits = 1
    MaxEvents = 1
INVARIANT UnavailableMeansNoWork
CHECK_DEADLOCK FALSE
