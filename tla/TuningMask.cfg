SPECIFICATION TuningSpec
CONSTANTS
    Configs <- MaskConfigs
    WordSize = 32
    FE = {0}
    Setups <- MaskSetups
    PixelSteps <- Steps
    PixelReg = 2
    LowLimit = 1
    MaxAway = 0
INVARIANT MaskKept
CHECK_DEADLOCK FALSE
