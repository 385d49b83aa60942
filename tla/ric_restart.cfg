SPECIFICATION Spec
CONSTANTS
    a = a
    b = b
    c = c
    Lms <- TwoLms
    Name <- DistinctNames
    InitialAdditional <- OnlyB
    InitialDefault = a
    Interval = 2
    MaxWait = 1
    Policy = "SAVE"
    InactivityInterval = 2
    Delays = {0, 3}
    Calls = {"Activate", "Deactivate", "Start", "Stop", "NotifyReportReceived", "AddLogicModule"}
    MaxCalls = 4
    MaxTime = 5
CHECK_DEADLOCK FALSE
INVARIANT RunsAreCurrent
