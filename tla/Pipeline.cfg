SPECIFICATION FairSpec
CONSTANTS
    NumFe = 1
    Actives = {{0}, {}}
    Tiers = 2
    NumHisto = 1
    Styles = {"drain", "segment"}
    MaxIter = 2
    MaxData = 2
INVARIANTS TypeOK ResultsComplete
PROPERTIES NoPushAfterFinish ScanTerminates
CHECK_DEADLOCK FALSE
