SPECIFICATION Spec
CONSTANTS
    None = None
    Objects <- MCObjects
    Specs <- Moved
    Data <- MCData
    Typed <- MCTyped
    Hubs <- TwoHubs
    Lags = {0}
    MaxUID = 1
    MaxGeneration = 2
    MaxEdits = 1
    MaxFail = 0
PROPERTIES DeletedOnceRegistered
CHECK_DEADLOCK FALSE
