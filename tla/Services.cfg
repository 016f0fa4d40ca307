SPECIFICATION Spec
CONSTANTS
    Absent = Absent
    Tasks = {"stratum", "power"}
    MinPower = 1
    MaxPower = 3
    ResetPower = 2
    Grace = 2
    MaxTime = 2
    DifficultyChanges = 2
    Size = 2
    MaxDifficulty = 3
    MaxShares = 4
    ScoreRestarts = 1
    Builds = {"fa", "fb"}
    MaxQueue = 5
    MaxUploads = 3
    UpdateRestarts = 4
    MaxEvents = 3
    MaxClients = 1
    MaxScans = 2
    MaxDrops = 2
    QueueLen = 2
    BapInterval = 1
    SubscriptionTime = 2
    BapChanges = 1
    MaxCommands = 2
    BapRestarts = 1
    LogoTime = 2
    CarouselTime = 3
    WakeTime = 2
    DisplayTimeout = 4
    IdentifyTime = 3
    ScreenChanges = 3
    Domains = {1}
    ExpectedRate = 3
    Rates = {0, 3}
    NeededHashes = 4
    TestPowers = 3
    StartPower = 2
    TestRounds = 1
    MaxNonces = 1
    TestErrors = 1
    MaxStarts = 1
    Width = 6
    Burst = 2
    HashTime = 5
    MaxStops = 1
    HistorySize = 3
    Frequencies = {0, 2}
    MaxResponse = 2
    HistoryTime = 4
    MaxResponses = 2
    HistoryEdits = 1
    Reasons = {"low", "stale"}
    TableSize = 1
    SessionShares = 3
    MaxSessions = 2
    RingSize = 4
    Chunk = 3
    StdoutChunk = 2
    Scan = 3
    RestartLine = 1
    MaxLine = 3
    MaxWritten = 5
    LogRestarts = 1
    Fds = {1, 2}
    ClientSlots = {1}
    NoClient = NoClient
    DeviceChanges = 2
    MaxConnections = 2
    SendErrors = 1
    FanFull = 3
    FanIdle = 1
    FanStartup = 2
    FanErrors = 1
    FanEdits = 2
    FanRestarts = 1
    Temperatures <- Warmths
    TempTargets = {60}
    Minima = {25}
    FanSpeeds = {0, 7000}
    HeatMoves = 2
    PidCycles = 2
    ReadErrors = 1
    Drivers = {"BM1366", "BM1368", "BM1370", "BM1373", "BM1397"}
    Chips = 2
    SlotCount = 2
    SlotCount1397 = 3
    Attempts = 2
    ClockTargets = {4903}
    Masks = {{1}, {1, 2}}
    MaxJobs = 3
    MaxFrames = 1
    ChainStops = 1
    ChainErrors = 1
    PoolSettings <- Suggesting
    LongestLine = 2
    PieceSize = 2
    TimingSlots = 1
    RollingBits = {1, 2}
    PoolMasks = {{1, 3}}
    TopDifficulty = 2
    NothingSaid = NothingSaid
    LinesAhead = 1
    MaxLines = 2
    LineShares = 2
    LineSessions = 1
INVARIANTS
    CountsSettle
    BestAreListedAndSaved
    MeasurementsAreTrue
    DifficultyFits
    ViewersSeeTheDevice
    InterfaceMatchesFirmware
    NetworkIsKept
    ResultsAreUnderstood
    AccessoryIsServed
    ScreenIsRight
    PayoutIsRecognised
    ConnectionIsSound
    PoolIsUnderstood
    SelfTestIsHonest
    SettingsAreKept
PROPERTY HardwareIsAsReported
CHECK_DEADLOCK FALSE
