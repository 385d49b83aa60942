SPECIFICATION Spec
CONSTANTS
    Cells <- TwoCells
    JoiningTimeout = 4
    LeavingTimeout = 10
    RandomAccessMax = 8
    AirDelays = {0, 1, 5}
    X2Delay = 1
    S1Delays = {1, 2}
    MaxHandovers = 3
    MaxLosses = 1
    MaxTime = 26
INVARIANT TypeOK
 
INVARIANT NoContextForgotten
INVARIANT UeNotStranded
CHECK_DEADLOCK FALSE
