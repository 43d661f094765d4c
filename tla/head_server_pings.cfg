SPECIFICATION FairSpec
CONSTANTS
    d1 = d1
    q1 = q1
    q2 = q2
    Requests <- MCRequests
    DownloadRequests <- MCDownloads
    FailureStatuses = {"ERROR", "INVALID_INVOCATION"}
PROPERTIES
    RegularPings
CHECK_DEADLOCK FALSE
