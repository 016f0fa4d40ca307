SPECIFICATION FairSpec
CONSTANTS
    Capacity = 1
    MaxActive = 2
    JobIds = {i1, i2}
    NoId = NoId
    MaxSessions = 2
    MaxLines = 2
PROPERTY NewestIsSent
CHECK_DEADLOCK FALSE
