SPECIFICATION FairSpec
CONSTANTS
    Workers = {w1, w2, w3}
    NumTasks = 4
    FirstBatch = 2
INVARIANTS TypeOK ExactlyOnce SomeoneAwake
PROPERTIES StopEndsPool FuturesReady
CHECK_DEADLOCK FALSE
