SPECIFICATION FairSpec
CONSTANTS
    Ues = {1, 2, 3}
    Beam <- TwoBeams
    Unknown = 0
    Weights = {0, 1, 3}
    Budget = 3
    Rbgs = {0, 2, 3}
    Buffers = {12, 40}
    BytesPerRbg = 10
    MaxSymbols = 2
    MaxCommands = 1
INVARIANT TypeOK
INVARIANT TargetsFillBudget
INVARIANT GrantsDisjoint
 
INVARIANT TargetsHonoured
PROPERTY HandlersReturn
