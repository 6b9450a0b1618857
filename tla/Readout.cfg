SPECIFICATION ReadoutFairSpec
CONSTANTS
    FrontEnds = {1, 2, 3}
    Channels = {1, 2}
    MaxDel = 2
    Options <- SomeOptions
    MaxBurst = 2
    MaxReads = 1
    MaxSize = 1
    QueueLimit = 1
INVARIANTS ReadoutTypeOK IdMapConsistent CountCoversQueue CycleDrains EachOnce GathererComplete BurstsApart
PROPERTY ReadingEnds
CHECK_DEADLOCK FALSE
