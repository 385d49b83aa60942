SPECIFICATION Spec
CONSTANTS
    u = u
    g = g
    Null = Null
    Nodes <- OneNode
    Ues <- OnlyU
    Reporting = FALSE
    InitialReport = FALSE
    RegistrationInterval = 3
    SendInterval = 9
    TriggerInterval = 9
    Delays = {0, 2}
    Threshold = 2
    InactivityInterval = 2
    LmQueryInterval = 5
    InMemory = FALSE
    Calls = {"Start", "ActivateNode", "DeactivateNode"}
    MaxCalls = 4
    MaxTime = 7
CHECK_DEADLOCK FALSE
INVARIANT SilentNodesLeave
