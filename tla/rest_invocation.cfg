SPECIFICATION Spec
CONSTANTS
    MaxRedirects = 2
    MaxParts = 3
INVARIANTS
    InvocationTypeOK
    FreedOnceAtTheEnd
    OkMeansWholeFile
    GoneCommandIsLeftAlone
PROPERTIES
    CancelledIsFreed
CHECK_DEADLOCK FALSE
