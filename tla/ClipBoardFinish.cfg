SPECIFICATION FairSpec
CONSTANTS
    Producers = {p1}
    Consumer = c
    Main = m
    Data = {d1, d2}
    NoData = NoData
    Free = Free
    Usages = {"pipeline"}
    MaxPush = 1
PROPERTY FinishStopsConsumer
CHECK_DEADLOCK FALSE
