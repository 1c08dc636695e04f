SPECIFICATION FairSpec
CONSTANTS
    None = None
    Objects <- MCObjects
    Specs <- MCSpecs
    Data <- MCData
    Typed = {}
    Catalogs <- MCCatalogs
    Releases <- MCReleases
    Lags = {1}
    MaxUID = 1
    MaxGeneration = 2
    MaxEdits = 1
    MaxFail = 1
INVARIANTS TypeOK OneKindOfMirrorSet
PROPERTIES Settles
CHECK_DEADLOCK FALSE
