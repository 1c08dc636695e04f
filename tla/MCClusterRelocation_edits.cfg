SPECIFICATION Spec
CONSTANTS
    None = None
    Names <- OnlyCluster
    Deletable <- OnlyCluster
    Specs <- GoodSpecs
    Original <- MCOriginal
    SelfDestruct <- Either
    Lagging <- Fresh
    MaxUID = 1
    MaxGeneration = 2
    MaxFail = 1
    MaxCrash = 0
INVARIANTS TypeOK StatusTruthful RevertedWhenGone NoDanglingWhileInstalled
PROPERTIES EditsSurvive  ImplementsLifecycle
CHECK_DEADLOCK FALSE
