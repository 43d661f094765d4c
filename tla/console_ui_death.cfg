SPECIFICATION FairConsoleSpec
CONSTANTS
    Connections <- MCConnections
    MaxChannelId = 0
    GarbageStates = {}
    Applications <- MCApplications
    ApplicationIds <- MCApplicationIds
    Codes = {"0"}
    MaxReconnections = 0
PROPERTIES
    DeathShowsMainUI
CHECK_DEADLOCK FALSE
