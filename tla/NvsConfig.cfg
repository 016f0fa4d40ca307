SPECIFICATION FairSpec
CONSTANTS
    Slots <- MCSlots
    Keys <- MCKeys
    KeyOf <- MCKeyOf
    Values <- MCValues
    Default <- MCDefault
    Empty = ""
    Absent = Absent
    Tasks = {t1, t2}
    None = None
    NoUpdate = NoUpdate
    QueueLen = 2
    MaxSets = 3
    MaxFails = 1
    MaxRestarts = 2
INVARIANTS
    CacheReachesFlash
PROPERTIES
    SetterGetsThrough
    EventuallySaved
    RestartsToAnEarlierState
CHECK_DEADLOCK FALSE
