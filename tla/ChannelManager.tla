--------------------------- MODULE ChannelManager ---------------------------
(***************************************************************************)
(* The console server's ServerChannelManager and the channels it owns      *)
(* (console-lib/src/server): which local application is the active one,    *)
(* and what happens to the control channel of every application and to the *)
(* channel of every player when applications connect, are switched, exit,  *)
(* and players come and go.                                                *)
(*                                                                         *)
(* The process is a single Qt event loop: every method runs to its end     *)
(* before another starts, so each is one action.  What an operation emits  *)
(* towards the applications is the set `outgoing` of the last operation;   *)
(* within one operation the code always emits in the order Deactivate,     *)
(* Activate, then the player channels by increasing id, so the set loses   *)
(* nothing (AppChannels puts the order back).                              *)
(***************************************************************************)
EXTENDS Integers, Sequences

CONSTANTS
    Connections,    \* ids of the TCP connections of applications; never reused
    MaxChannelId,   \* bound on the player channels ever opened
    GarbageStates   \* what the never initialised member _state of a new player
                    \* channel may read as, among the values open() acts upon

ASSUME ConnectionsAssumption == Connections \subseteq Nat
ASSUME MaxChannelIdAssumption == MaxChannelId \in Nat
ASSUME GarbageStatesAssumption ==
    GarbageStates \subseteq {"CHANNEL_OPEN_ONGOING", "CHANNEL_OPEN"}

VARIABLES
    controlChannels,          \* of a connection: "NONE", "OPEN" or "GONE"
    playerChannels,           \* of a channel id: "ABSENT" or its _state
    channelIdCount,           \* next free player channel id
    activeConnectionId,
    activeConnectionIdsStack,
    indeterminate,  \* channels whose _state was read but never yet written
    acceptedBy,     \* history: which connection last accepted the channel
    outgoing,       \* messages the last operation sent to the applications
    toNorth         \* channels whose player the last operation sent a message to

channelVars == <<playerChannels, indeterminate, acceptedBy>>
activeVars  == <<activeConnectionId, activeConnectionIdsStack>>
vars == <<controlChannels, playerChannels, channelIdCount, activeConnectionId,
          activeConnectionIdsStack, indeterminate, acceptedBy, outgoing, toNorth>>

NoConnection == -1
CONTROL_CHANNEL_ID == 0
ChannelIds == 1..MaxChannelId

ChannelStates == {"CHANNEL_CLOSED", "CHANNEL_OPEN_ONGOING", "CHANNEL_OPEN"}

\* Commands of applications.  Any other text is logged and dropped.
SouthCommands == {"Ping", "OpenChannelAccepted", "CloseChannel", "PlayerMessage"}

\* Commands the server sends to applications.
ServerCommands == {"Activate", "Deactivate", "PingReply", "OpenChannel",
                   "CloseChannel", "PlayerMessage"}

\* The id 0 is the control channel's: a counter started there would clash.
FirstChannelId_Zero == 0
FirstChannelId == 1

Msg(conn, ch, cmd) == [connection |-> conn, channel |-> ch, command |-> cmd]

Messages == [connection : Connections \cup {NoConnection},
             channel    : ChannelIds \cup {CONTROL_CHANNEL_ID},
             command    : ServerCommands]

-----------------------------------------------------------------------------
(* Helpers of the manager.                                                 *)

hasActiveConnection == activeConnectionId # NoConnection

\* ServerSidePlayerChannel::open() for every channel: only a channel that is
\* neither open nor being opened does anything.
Opened(chs) ==
    [ch \in ChannelIds |->
        IF chs[ch] = "CHANNEL_CLOSED" THEN "CHANNEL_OPEN_ONGOING" ELSE chs[ch]]

\* The OpenChannel messages open() sends through the south partner, which
\* addresses the connection that is active at that moment.
OpenRequests(chs, conn) ==
    {Msg(conn, ch, "OpenChannel") : ch \in {c \in ChannelIds : chs[c] = "CHANNEL_CLOSED"}}

\* ServerSidePlayerChannel::close() for every channel; it tells nobody.
Closed_LeftOpen(chs) == chs
Closed(chs) ==
    [ch \in ChannelIds |->
        IF chs[ch] = "ABSENT" THEN "ABSENT" ELSE "CHANNEL_CLOSED"]

\* What an activation tells the connection that was active.
Farewell ==
    IF hasActiveConnection
    THEN {Msg(activeConnectionId, CONTROL_CHANNEL_ID, "Deactivate")}
    ELSE {}

\* The stack an activation leaves: the formerly active connection is replaced.
StackWith_Kept(conn) == <<conn>> \o activeConnectionIdsStack
StackWith(conn) ==
    <<conn>> \o (IF hasActiveConnection
                 THEN Tail(activeConnectionIdsStack) ELSE activeConnectionIdsStack)

\* Whether a player channel's message of an application reaches the channel.
ListenedTo_AnyApp(conn, ch) == playerChannels[ch] # "ABSENT"
ListenedTo(conn, ch) == conn = activeConnectionId /\ playerChannels[ch] # "ABSENT"

\* Whether a message of a player's device is passed on (the channel is open,
\* the south partner has an active connection to address).
Forwards_NotYetOpen(ch, action) == action # "GoToMainMenu" /\ hasActiveConnection
Forwards(ch, action) ==
    action # "GoToMainMenu" /\ playerChannels[ch] = "CHANNEL_OPEN" /\ hasActiveConnection

-----------------------------------------------------------------------------
Init ==
    /\ controlChannels = [conn \in Connections |-> "NONE"]
    /\ playerChannels = [ch \in ChannelIds |-> "ABSENT"]
    /\ channelIdCount = FirstChannelId
    /\ activeConnectionId = NoConnection
    /\ activeConnectionIdsStack = <<>>
    /\ indeterminate = {}
    /\ acceptedBy = [ch \in ChannelIds |-> NoConnection]
    /\ outgoing = {}
    /\ toNorth = {}

\* An early return: nothing changes and nothing is sent.
Ignored ==
    /\ outgoing' = {}
    /\ toNorth' = {}
    /\ UNCHANGED <<controlChannels, channelIdCount, channelVars, activeVars>>

\* The body of activateConnection() after its check of the control channel.
Activation(conn) ==
    LET chs == IF hasActiveConnection THEN Closed(playerChannels) ELSE playerChannels
    IN  /\ activeConnectionId' = conn
        /\ activeConnectionIdsStack' = StackWith(conn)
        /\ playerChannels' = Opened(chs)
        /\ indeterminate' = IF hasActiveConnection THEN {} ELSE indeterminate
        /\ outgoing' = Farewell \cup {Msg(conn, CONTROL_CHANNEL_ID, "Activate")}
                                \cup OpenRequests(chs, conn)
        /\ toNorth' = {}
        /\ UNCHANGED <<channelIdCount, acceptedBy>>

\* ConnectionManager::onConnectionValidationOK(): a control channel is opened
\* for the new connection, which always becomes the active one.
ConnectionValidated(conn) ==
    /\ controlChannels[conn] = "NONE"
    /\ controlChannels' = [controlChannels EXCEPT ![conn] = "OPEN"]
    /\ Activation(conn)

\* activateConnection(), called when the wait application is resumed.
ActivateConnection(conn) ==
    IF controlChannels[conn] # "OPEN"
    THEN Ignored
    ELSE Activation(conn) /\ UNCHANGED controlChannels

\* deactivateConnection(), called when the wait application is paused.
DeactivateConnection(conn) ==
    IF controlChannels[conn] # "OPEN" \/ activeConnectionId # conn
    THEN Ignored
    ELSE LET chs == Closed(playerChannels)
             rest == Tail(activeConnectionIdsStack)
             resumes == rest # <<>> /\ controlChannels[Head(rest)] = "OPEN"
         IN  /\ activeConnectionId' = IF resumes THEN Head(rest) ELSE NoConnection
             /\ activeConnectionIdsStack' =
                    IF resumes THEN <<Head(rest)>> \o rest ELSE rest
             /\ playerChannels' = IF resumes THEN Opened(chs) ELSE chs
             /\ indeterminate' = {}
             /\ outgoing' = {Msg(conn, CONTROL_CHANNEL_ID, "Deactivate")} \cup
                    (IF resumes
                     THEN {Msg(Head(rest), CONTROL_CHANNEL_ID, "Activate")}
                            \cup OpenRequests(chs, Head(rest))
                     ELSE {})
             /\ toNorth' = {}
             /\ UNCHANGED <<controlChannels, channelIdCount, acceptedBy>>

\* applicationClosed(): the connection of an application is gone.  The player
\* channels are closed whether or not it was the active application.
ApplicationClosed(conn) ==
    IF controlChannels[conn] # "OPEN"
    THEN Ignored
    ELSE LET chs == Closed(playerChannels)
             rest == Tail(activeConnectionIdsStack)
             wasActive == conn = activeConnectionId
             resumes == wasActive /\ rest # <<>>
         IN  /\ controlChannels' = [controlChannels EXCEPT ![conn] = "GONE"]
             /\ activeConnectionId' = IF resumes THEN Head(rest)
                                      ELSE IF wasActive THEN NoConnection
                                      ELSE activeConnectionId
             /\ activeConnectionIdsStack' =
                    IF wasActive THEN rest ELSE activeConnectionIdsStack
             /\ playerChannels' = IF resumes THEN Opened(chs) ELSE chs
             /\ indeterminate' = {}
             /\ outgoing' = IF resumes THEN OpenRequests(chs, Head(rest)) ELSE {}
             /\ toNorth' = {}
             /\ UNCHANGED <<channelIdCount, acceptedBy>>

-----------------------------------------------------------------------------
\* openPlayerChannel(): the new channel's open() reads _state, which no
\* constructor has set; a value other than the garbage states reads as closed.
OpenPlayerChannel ==
    /\ channelIdCount \in ChannelIds
    /\ \E found \in GarbageStates \cup {"CHANNEL_CLOSED"} :
        LET ch == channelIdCount
            opens == found = "CHANNEL_CLOSED"
        IN  /\ playerChannels' = [playerChannels EXCEPT
                    ![ch] = IF opens THEN "CHANNEL_OPEN_ONGOING" ELSE found]
            /\ indeterminate' = IF opens THEN indeterminate ELSE indeterminate \cup {ch}
            /\ outgoing' = IF opens /\ hasActiveConnection
                           THEN {Msg(activeConnectionId, ch, "OpenChannel")} ELSE {}
    /\ channelIdCount' = channelIdCount + 1
    /\ toNorth' = {}
    /\ UNCHANGED <<controlChannels, activeVars, acceptedBy>>

\* closePlayerChannel(): the player left.  CloseChannel goes to the active
\* connection if the channel is open, with no check that there is one.
ClosePlayerChannel(ch) ==
    /\ playerChannels[ch] # "ABSENT"
    /\ outgoing' = IF playerChannels[ch] = "CHANNEL_OPEN"
                   THEN {Msg(activeConnectionId, ch, "CloseChannel")} ELSE {}
    /\ playerChannels' = [playerChannels EXCEPT ![ch] = "ABSENT"]
    /\ indeterminate' = indeterminate \ {ch}
    /\ toNorth' = {}
    /\ UNCHANGED <<controlChannels, channelIdCount, activeVars, acceptedBy>>

\* receivePlayerMessageFromNorth(): a message of the player's device, for the
\* active application unless it asks for the main menu.
ReceivePlayerMessageFromNorth(ch, action) ==
    /\ playerChannels[ch] # "ABSENT"
    /\ outgoing' = IF Forwards(ch, action)
                   THEN {Msg(activeConnectionId, ch, "PlayerMessage")} ELSE {}
    /\ toNorth' = {}
    /\ UNCHANGED <<controlChannels, channelIdCount, channelVars, activeVars>>

-----------------------------------------------------------------------------
\* A message on the control channel of a known connection: the registered
\* Ping command replies; nothing else of it touches the channels.
ProcessControlMessage(conn, cmd) ==
    /\ outgoing' = IF controlChannels[conn] = "OPEN" /\ cmd = "Ping"
                   THEN {Msg(conn, CONTROL_CHANNEL_ID, "PingReply")} ELSE {}
    /\ toNorth' = {}
    /\ UNCHANGED <<controlChannels, channelIdCount, channelVars, activeVars>>

\* A message on a player channel: only the active connection is listened to.
\* OpenChannelAccepted opens the channel in whatever state it is; CloseChannel
\* only clears the flag _isOpen, which player channels do not use.
ProcessPlayerChannelMessage(conn, ch, cmd) ==
    IF ~ListenedTo(conn, ch)
    THEN Ignored
    ELSE LET accepted == cmd = "OpenChannelAccepted"
         IN  /\ playerChannels' = IF accepted
                    THEN [playerChannels EXCEPT ![ch] = "CHANNEL_OPEN"] ELSE playerChannels
             /\ indeterminate' = IF accepted THEN indeterminate \ {ch} ELSE indeterminate
             /\ acceptedBy' = IF accepted
                    THEN [acceptedBy EXCEPT ![ch] = conn] ELSE acceptedBy
             /\ toNorth' = IF cmd = "PlayerMessage" THEN {ch} ELSE {}
             /\ outgoing' = {}
             /\ UNCHANGED <<controlChannels, channelIdCount, activeVars>>

ProcessMessageFromSouth(conn, ch, cmd) ==
    IF ch = CONTROL_CHANNEL_ID
    THEN ProcessControlMessage(conn, cmd)
    ELSE ProcessPlayerChannelMessage(conn, ch, cmd)

-----------------------------------------------------------------------------
Next ==
    \/ \E conn \in Connections :
        \/ ConnectionValidated(conn)
        \/ ActivateConnection(conn)
        \/ DeactivateConnection(conn)
        \/ ApplicationClosed(conn)
        \/ \E ch \in ChannelIds \cup {CONTROL_CHANNEL_ID}, cmd \in SouthCommands :
                ProcessMessageFromSouth(conn, ch, cmd)
    \/ OpenPlayerChannel
    \/ \E ch \in ChannelIds :
        \/ ClosePlayerChannel(ch)
        \/ \E action \in {"GoToMainMenu", "other"} : ReceivePlayerMessageFromNorth(ch, action)

Spec == Init /\ [][Next]_vars

-----------------------------------------------------------------------------
(* Properties.                                                             *)

\* The shape of the state; in particular a channel id is handed out once: no
\* id from channelIdCount on has ever been in use.
TypeOK ==
    /\ controlChannels \in [Connections -> {"NONE", "OPEN", "GONE"}]
    /\ playerChannels \in [ChannelIds -> ChannelStates \cup {"ABSENT"}]
    /\ channelIdCount \in 1..(MaxChannelId + 1)
    /\ activeConnectionId \in Connections \cup {NoConnection}
    /\ activeConnectionIdsStack \in Seq(Connections)
    /\ indeterminate \subseteq ChannelIds
    /\ acceptedBy \in [ChannelIds -> Connections \cup {NoConnection}]
    /\ outgoing \subseteq Messages
    /\ toNorth \subseteq ChannelIds
    /\ \A ch \in ChannelIds : ch >= channelIdCount => playerChannels[ch] = "ABSENT"

\* The stack and the variable it duplicates agree ("as stack has latest, we
\* could get rid of this var"): the stack holds the active connection and
\* nothing else, and that connection's control channel is open.  So no
\* application that lost its turn, or died, is ever resumed from the stack.
StackFollowsActive ==
    IF activeConnectionId = NoConnection
    THEN activeConnectionIdsStack = <<>>
    ELSE /\ activeConnectionIdsStack = <<activeConnectionId>>
         /\ controlChannels[activeConnectionId] = "OPEN"

\* A player channel counts as open only if the application that is active now
\* is the one that accepted it last: an acceptance never outlives the turn of
\* the application that gave it.  Channels whose _state was never written are
\* the exception.
OpenMeansAccepted ==
    \A ch \in ChannelIds :
        playerChannels[ch] = "CHANNEL_OPEN" /\ ch \notin indeterminate =>
            /\ hasActiveConnection
            /\ acceptedBy[ch] = activeConnectionId

\* Whatever an operation sends on a player channel goes to the connection that
\* is active when the operation ends, also in the middle of a switch.
OnlyActiveHears ==
    [][\A m \in outgoing' : m.channel # CONTROL_CHANNEL_ID =>
            m.connection = activeConnectionId']_vars

\* An application learns of every change of its turn: when the active
\* connection changes, the new one is sent Activate and the old one, unless its
\* connection is gone, Deactivate.
ToldOfSwitch ==
    [][activeConnectionId' # activeConnectionId =>
        /\ activeConnectionId' # NoConnection =>
                Msg(activeConnectionId', CONTROL_CHANNEL_ID, "Activate") \in outgoing'
        /\ activeConnectionId # NoConnection /\ controlChannels'[activeConnectionId] = "OPEN" =>
                Msg(activeConnectionId, CONTROL_CHANNEL_ID, "Deactivate") \in outgoing']_vars

\* An activation that takes the turn from an active application offers every
\* player's channel to the new one, whatever state the channel was in.
HandoverAnnouncesAll ==
    [][\A conn \in Connections :
        /\ hasActiveConnection
        /\ Msg(conn, CONTROL_CHANNEL_ID, "Activate") \in outgoing'
        => \A ch \in ChannelIds :
                playerChannels'[ch] # "ABSENT" => Msg(conn, ch, "OpenChannel") \in outgoing']_vars

=============================================================================
