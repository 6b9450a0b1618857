SPECIFICATION FairSpec
CONSTANTS
    Producers = {p1, p2}
    Consumer = c
    Main = m
    Data = {d1, d2}
    NoData = NoData
    Free = Free
    Usages = {"pipeline", "feedback"}
    MaxPush = 4
INVARIANTS TypeOK PushWakesConsumer NothingLeftBehind FeedbackPopNotNull
PROPERTIES ChannelSpec Delivered
CHECK_DEADLOCK FALSE
