SPECIFICATION TimedConsoleSpec
CONSTANTS
    Connections <- MCConnections
    MaxChannelId = 0
    GarbageStates = {}
    Applications <- MCApplications
    ApplicationIds <- MCApplicationIds
    Codes = {"0"}
    MaxReconnections = 1
INVARIANTS
    ConsoleTypeOK
    TablesAgree
    LinkedUntilReadmitted
    ScreenOwnsPlayers
    OneInForeground
PROPERTIES
    DelayedLaunchSettles
CHECK_DEADLOCK FALSE
