SPECIFICATION Spec
CONSTANTS
    Setups <- OneSetup
    WordSize = 16
    MaxReads = 1
    MaxFault = 0
    MaxIter = 2
INVARIANT EnoughOwnEvents
CHECK_DEADLOCK FALSE
