SPECIFICATION Spec
CONSTANTS
    Tasks = {"stratum", "power"}
    MinPower = 1
    MaxPower = 3
    ResetPower = 2
    Grace = 2
    MaxTime = 2
    MaxChanges = 2
INVARIANT SharesAreReported
CHECK_DEADLOCK FALSE
