SPECIFICATION FairSpec
CONSTANTS
    NumSlots = 2
    MaxActive = 2
    None = None
    MaxSessions = 2
    MaxJobs = 3
    MaxHashes = 2
    MaxMessages = 5
INVARIANTS
    TransportIsThere
    FutureJobsGetNoShare
    ShareIsValid
    SettledWorkIsNewest
PROPERTY NewestIsMined
CHECK_DEADLOCK FALSE
