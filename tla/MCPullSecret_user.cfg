SPECIFICATION FairSpec
CONSTANTS
    None = None
    Objects <- MCObjects
    Specs <- MCSpecs
    Data <- MCData
    Typed <- MCTyped
    Initial = "old"
    Lags <- FreshOrLate
    MaxUID = 2
    MaxGeneration = 2
    MaxEdits = 1
    MaxFail = 1
PROPERTIES UserSecretKept
CHECK_DEADLOCK FALSE
