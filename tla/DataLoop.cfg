SPECIFICATION FairSpec
CONSTANTS
    Setups <- AllSetups
    WordSize = 16
    MaxReads = 1
    MaxFault = 1
    MaxIter = 2
INVARIANTS TypeOK OnTime ChunksConserved
PROPERTY LoopEnds
CHECK_DEADLOCK FALSE
