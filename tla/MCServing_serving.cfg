SPECIFICATION FairSpec
CONSTANTS
    None = None
    Objects <- MCObjects
    Specs <- MCSpecs
    Data <- MCData
    Typed <- MCTyped
    Domains <- MCDomains
    Keys <- MCKeys
    Before <- Bare
    Lags <- Fresh
    MaxUID = 1
    MaxGeneration = 2
    MaxEdits = 1
    MaxFail = 1
INVARIANTS TypeOK Held PutBack NothingDangles
PROPERTIES Settles
CHECK_DEADLOCK FALSE
