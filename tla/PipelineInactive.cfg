SPECIFICATION Spec
CONSTANTS
    NumFe = 2
    Actives = {{0}}
    Tiers = 1
    NumHisto = 1
    Styles = {"drain"}
    MaxIter = 1
    MaxData = 1
INVARIANT InactiveIsHarmless
CHECK_DEADLOCK FALSE
