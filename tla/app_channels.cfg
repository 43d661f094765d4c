SPECIFICATION AppSpec
CONSTANTS
    Connections <- MCTwoConnections
    WaitApps <- MCWaitApps
    MaxChannelId = 1
    MaxInFlight = 3
    GarbageStates = {"CHANNEL_OPEN_ONGOING"}
INVARIANTS
    SettledActivation
    NoOrphanPlayerMessage
PROPERTIES
    ActivationArrives
    OfferIsAccepted
CHECK_DEADLOCK FALSE
