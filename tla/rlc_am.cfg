SPECIFICATION FairSpec
CONSTANTS
    Modulus = 4
    WindowSize = 2
    FirstSn = 3
    SduSizes = {2}
    MaxTxBufferSize = 3
    Rooms = {1, 3}
    NackRooms = {1}
    MaxOvertaken = 1
    MaxSdus = 2
    MaxLosses = 1
    MaxInFlight = 2
INVARIANT TypeOK
INVARIANT WindowsFit
INVARIANT NothingForgotten
 
PROPERTY ServiceSpec
 
CHECK_DEADLOCK FALSE
