SPECIFICATION TuningFairSpec
CONSTANTS
    Configs <- AllConfigs
    WordSize = 32
    FE = {0, 1}
    Setups <- AllSetups
    PixelSteps <- Steps
    PixelReg = 2
    LowLimit = 1
    MaxAway = 2
INVARIANTS TuningTypeOK NestedOrder LabelledWithParameters AnswerOfIteration ValueInRange TuningCompleted ResultPerPosition
PROPERTIES TuningNotUndone ScanEnds
CHECK_DEADLOCK FALSE
