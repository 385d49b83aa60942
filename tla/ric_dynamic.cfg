SPECIFICATION Spec
CONSTANTS
    a = a
    b = b
    c = c
    Lms <- ThreeLms
    Name <- DistinctNames
    InitialAdditional <- OnlyB
    InitialDefault = a
    Interval = 3
    MaxWait = 3
    Policy = "DROP"
    InactivityInterval = 5
    Delays = {0, 4}
    Calls = {"Start", "AddLogicModule", "RemoveLogicModule", "SetDefaultLogicModule"}
    MaxCalls = 3
    MaxTime = 8
CHECK_DEADLOCK FALSE
PROPERTY RoundSpec
