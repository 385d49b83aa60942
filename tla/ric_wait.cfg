SPECIFICATION Spec
CONSTANTS
    a = a
    b = b
    c = c
    Lms <- TwoLms
    Name <- DistinctNames
    InitialAdditional <- OnlyB
    InitialDefault = a
    Interval = 3
    MaxWait = 2
    Policy = "DROP"
    InactivityInterval = 2
    Delays = {0, 1, 2, 4}
    Calls = {"Start"}
    MaxCalls = 1
    MaxTime = 12
CHECK_DEADLOCK FALSE
INVARIANT TypeOK
INVARIANT BatchComplete
PROPERTY OneBatchPerCycle
PROPERTY RoundSpec
