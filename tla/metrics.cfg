SPECIFICATION Spec
CONSTANTS
    Bearers <- TwoBearers
    TriggerInterval = 2
    InitialReport = TRUE
    SendInterval = 2
    Delays = {0, 1}
    RunInterval = 1
    m_N = 2
    MaxResponses = 2
    MaxDrops = 2
    MaxTime = 10
INVARIANT CountedOnce
 
CHECK_DEADLOCK FALSE
