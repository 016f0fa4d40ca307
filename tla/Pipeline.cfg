SPECIFICATION Spec
CONSTANTS
    Capacity = 1
    MaxActive = 2
    JobIds = {i1, i2}
    NoId = NoId
    MaxSessions = 2
    MaxLines = 3
INVARIANTS
    NoUseAfterFree
    SettledWorkIsNewest
    ShareIsValid
CHECK_DEADLOCK FALSE
