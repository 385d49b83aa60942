SPECIFICATION FairSpec
CONSTANTS
    MaxTti <- ThreeAndOne
    Workers = 2
    SaveEvery = 1
    None = None
INVARIANT TypeOK
INVARIANT LearnsWhatHappened
 
 
PROPERTY PoolDrains
