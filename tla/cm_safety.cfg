SPECIFICATION Spec
CONSTANTS
    Connections <- MCConnections
    MaxChannelId = 2
    GarbageStates = {"CHANNEL_OPEN_ONGOING", "CHANNEL_OPEN"}
INVARIANTS
    TypeOK
    StackFollowsActive
    OpenMeansAccepted
PROPERTIES
    HandoverAnnouncesAll
    ExclusiveAppSpec
