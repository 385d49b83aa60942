SPECIFICATION Spec
CONSTANTS
    u = u
    g = g
    Null = Null
    Nodes <- TwoNodes
    Ues <- OnlyU
    Reporting = TRUE
    InitialReport = TRUE
    RegistrationInterval = 3
    SendInterval = 3
    TriggerInterval = 2
    Delays = {0, 1}
    Threshold = 4
    InactivityInterval = 5
    LmQueryInterval = 9
    InMemory = FALSE
    Calls = {"Start", "Stop", "ActivateNode"}
    MaxCalls = 3
    MaxTime = 5
CHECK_DEADLOCK FALSE
INVARIANT ReportsAttributed
INVARIANT ReportsFindRegistration
