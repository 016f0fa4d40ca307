SPECIFICATION MCSpec
CONSTANTS
    Volts = {12}
    Freqs = {5}
    MinVolt = 11
    EmcInternalTemp = TRUE
    MinCycles = 2
    MaxFlips = 0
    MaxEdits = 0
    MaxHeats = 1
    MaxFails = 0
PROPERTIES
    WarmChipStaysOff
CHECK_DEADLOCK FALSE
