SPECIFICATION Spec
CONSTANTS
    None = None
    Names <- OnlyCluster
    Deletable <- NoNames
    Specs <- OneSpec
    Original <- MCOriginal
    SelfDestruct <- Either
    Lagging <- Fresh
    MaxUID = 1
    MaxGeneration = 1
    MaxFail = 1
    MaxCrash = 0
INVARIANTS OperatorRemoved
CHECK_DEADLOCK FALSE
