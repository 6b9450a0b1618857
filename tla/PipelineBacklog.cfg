SPECIFICATION Spec
CONSTANTS
    NumFe = 1
    Actives = {{0}}
    Tiers = 1
    NumHisto = 1
    Styles = {"segment"}
    MaxIter = 3
    MaxData = 1
INVARIANT AllProcessed
CHECK_DEADLOCK FALSE
