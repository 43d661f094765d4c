SPECIFICATION FairSpec
CONSTANTS
    Ids <- MCIds
INVARIANTS
    DownloadTypeOK
    WaitingIsListed
    ValidIsComplete
    RestartFindsTheSame
PROPERTIES
    AcceptedDownloadEnds
