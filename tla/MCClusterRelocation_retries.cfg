SPECIFICATION FairSpec
CONSTANTS
    None = None
    Names <- OnlyCluster
    Deletable <- OnlyCluster
    Specs <- OneSpec
    Original <- MCOriginal
    SelfDestruct <- Never
    Lagging <- Fresh
    MaxUID = 2
    MaxGeneration = 1
    MaxFail = 1
    MaxCrash = 1
INVARIANTS RevertedWhenGone NoDanglingSecret
PROPERTIES DeletionCompletes EventuallyReconciled
CHECK_DEADLOCK FALSE
