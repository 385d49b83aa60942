SPECIFICATION Spec
CONSTANTS
    u = u
    g = g
    Null = Null
    Nodes <- TwoNodes
    Ues <- OnlyU
    Reporting = FALSE
    InitialReport = FALSE
    RegistrationInterval = 3
    SendInterval = 9
    TriggerInterval = 9
    Delays = {0, 1}
    Threshold = 4
    InactivityInterval = 3
    LmQueryInterval = 5
    InMemory = FALSE
    Calls = {"Start", "ActivateNode"}
    MaxCalls = 3
    MaxTime = 8
CHECK_DEADLOCK FALSE
INVARIANT TypeOK
INVARIANT OneRegistration
PROPERTY RegistrationKept
INVARIANT RegistersInTime
PROPERTY ListedForGood
