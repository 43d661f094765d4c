SPECIFICATION FairSpec
CONSTANTS
    d1 = d1
    q1 = q1
    q2 = q2
    Requests <- MCRequests
    DownloadRequests <- MCDownloads
    FailureStatuses = {"ERROR", "INVALID_INVOCATION"}
INVARIANTS
    TypeOK
    BoundedLoops
    StallsOnlyWhenConnected
PROPERTIES
    EveryRequestSettles
    ServiceSpec
CHECK_DEADLOCK FALSE
