SPECIFICATION FairSpec
CONSTANTS
    None = None
    Objects <- MCObjects
    Specs <- MCSpecs
    Data <- MCData
    Typed <- MCTyped
    Hubs <- TwoHubs
    Lags = {1}
    MaxUID = 1
    MaxGeneration = 2
    MaxEdits = 1
    MaxFail = 1
INVARIANTS TypeOK ReportMeansRegistered
PROPERTIES KeptUntilRegistered EventuallyRegistered
CHECK_DEADLOCK FALSE
