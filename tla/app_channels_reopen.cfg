SPECIFICATION AppSpec
CONSTANTS
    Connections <- MCTwoConnections
    WaitApps <- MCWaitApps
    MaxChannelId = 1
    MaxInFlight = 2
    GarbageStates = {}
INVARIANTS
    ReopenSucceeds
