SPECIFICATION MCSpec
CONSTANTS
    Volts = {11, 12}
    Freqs = {4, 5}
    MinVolt = 11
    EmcInternalTemp = TRUE
    MinCycles = 2
    MaxFlips = 2
    MaxEdits = 1
    MaxHeats = 1
    MaxFails = 1
INVARIANTS
    UartIsQuiet
    StoppedIsOff
PROPERTIES
    StopIsHonoured
    MiningResumes
    
    SafeModeEnds
CHECK_DEADLOCK FALSE
