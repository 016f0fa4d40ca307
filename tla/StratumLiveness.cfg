SPECIFICATION MCPutSpec
CONSTANTS
    Pools = {0, 1}
    DefaultSlot = 0
    MaxRetry = 2
    MaxEdits = 1
    MaxEvents = 2
PROPERTIES
    EditedPoolIsLeft
    Recovers
    LeavesFallback
CHECK_DEADLOCK FALSE
