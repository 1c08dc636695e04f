SPECIFICATION Spec
CONSTANTS
    None = None
    Names <- TwoNames
    Deletable <- NoNames
    Specs <- OneSpec
    Original <- MCOriginal
    SelfDestruct <- Either
    Lagging <- Stale
    MaxUID = 2
    MaxGeneration = 1
    MaxFail = 0
    MaxCrash = 0
INVARIANTS NoDanglingSecret
CHECK_DEADLOCK FALSE
