SPECIFICATION Spec
CONSTANTS
    None = None
    Names <- TwoNames
    Deletable <- TwoNames
    Specs <- OneSpec
    Original <- MCOriginal
    SelfDestruct <- Never
    Lagging <- Fresh
    MaxUID = 2
    MaxGeneration = 1
    MaxFail = 0
    MaxCrash = 0
INVARIANTS StatusTruthful
CHECK_DEADLOCK FALSE
