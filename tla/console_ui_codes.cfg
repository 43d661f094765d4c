SPECIFICATION ConsoleSpec
CONSTANTS
    Connections <- MCConnections
    MaxChannelId = 0
    GarbageStates = {}
    Applications <- MCApplications
    ApplicationIds <- MCApplicationIds
    Codes = {"0"}
    MaxReconnections = 1
INVARIANTS
    LinkedToItsApplication
CHECK_DEADLOCK FALSE
