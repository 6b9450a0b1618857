SPECIFICATION FairSpec
CONSTANTS
    N = 4
    Names <- NumberNames
    NameMaps <- SomeNames
    NoDependOn = NoDependOn
    DependLists <- SomeLists
INVARIANTS TypeOK TierAfterUpstream BuiltIffWellFounded
PROPERTY Terminates
CHECK_DEADLOCK FALSE
