SPECIFICATION NorthSpec
CONSTANTS
    Connections <- MCConnections
    MaxChannelId = 3
    GarbageStates = {}
    Names <- MCNames
    MaxSessions = 3
    Sockets <- MCSockets
INVARIANTS
    NorthTypeOK
    EveryChannelHasItsPlayer
    EveryWebsocketIsHeard
    NamesAreUnique
PROPERTIES
    DeliveredToOwner
CHECK_DEADLOCK FALSE
