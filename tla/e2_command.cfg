SPECIFICATION CommandSpec
CONSTANTS
    u = u
    g = g
    Null = Null
    Nodes <- TwoNodes
    Ues <- OnlyU
    Reporting = FALSE
    InitialReport = FALSE
    RegistrationInterval = 1
    SendInterval = 9
    TriggerInterval = 9
    Delays = {0, 1}
    Threshold = 4
    InactivityInterval = 20
    LmQueryInterval = 1
    InMemory = FALSE
    Calls = {"Start", "Stop", "ActivateNode", "DeactivateNode"}
    MaxCalls = 4
    MaxTime = 2
    ProcessingDelays = {1}
CHECK_DEADLOCK FALSE
INVARIANT OwnedIds
INVARIANT RegistrationScheduled
 
