SPECIFICATION FairSpec
CONSTANTS
    None = None
    Objects <- MCObjects
    Specs <- MCSpecs
    Data <- MCData
    Typed = {}
    Domains <- MCDomains
    NodeCounts = {1, 3}
    Lags = {0, 1}
    MaxUID = 1
    MaxGeneration = 2
    MaxEdits = 1
    MaxFail = 1
INVARIANTS TypeOK ReportMeansResolvable
PROPERTIES EventuallyReconciled
CHECK_DEADLOCK FALSE
