------------------------ MODULE ChannelManagerProofs ------------------------
(***************************************************************************)
(* Proofs about ChannelManager for every set of connections, every number  *)
(* of player channels and every reading of the uninitialised _state.       *)
(*                                                                         *)
(* The inductive invariant is the conjunction IInv.  OpenMeansAccepted is  *)
(* not inductive alone: that activating an application closes every open   *)
(* channel first needs the stack to hold the active connection and nothing *)
(* else, or an application that lost its turn could be resumed from it.    *)
(* The same invariant gives the action properties and the refinement of    *)
(* ExclusiveApp.                                                           *)
(***************************************************************************)
EXTENDS ChannelManagerRefinement, TLAPS

IInv ==
    /\ TypeOK
    /\ StackFollowsActive
    /\ OpenMeansAccepted

-----------------------------------------------------------------------------
(* What the helpers return.                                                *)

ChannelMap == [ChannelIds -> ChannelStates \cup {"ABSENT"}]

\* closePlayerChannels() leaves no channel open and creates none.
LEMMA ClosedFacts ==
    ASSUME NEW chs \in ChannelMap
    PROVE  /\ Closed(chs) \in ChannelMap
           /\ \A ch \in ChannelIds : /\ Closed(chs)[ch] # "CHANNEL_OPEN"
                                     /\ Closed(chs)[ch] = "ABSENT" <=> chs[ch] = "ABSENT"
BY DEF Closed, ChannelMap, ChannelStates

\* reopenPlayerChannels() opens nothing by itself and creates none.
LEMMA OpenedFacts ==
    ASSUME NEW chs \in ChannelMap
    PROVE  /\ Opened(chs) \in ChannelMap
           /\ \A ch \in ChannelIds :
                /\ Opened(chs)[ch] = "CHANNEL_OPEN" <=> chs[ch] = "CHANNEL_OPEN"
                /\ Opened(chs)[ch] = "ABSENT" <=> chs[ch] = "ABSENT"
BY DEF Opened, ChannelMap, ChannelStates

\* What reopening sends are messages to the given connection.
LEMMA OpenRequestsFacts ==
    ASSUME NEW chs \in ChannelMap, NEW conn \in Connections
    PROVE  /\ OpenRequests(chs, conn) \subseteq Messages
           /\ \A m \in OpenRequests(chs, conn) :
                m.connection = conn /\ m.command = "OpenChannel"
BY DEF OpenRequests, Messages, Msg, ServerCommands

\* No connection is mistaken for none.
LEMMA ConnectionIsSome == \A conn \in Connections : conn # NoConnection
BY ConnectionsAssumption DEF NoConnection

LEMMA SingletonStack ==
    ASSUME NEW conn \in Connections
    PROVE  /\ <<conn>> \in Seq(Connections)
           /\ Tail(<<conn>>) = <<>>
           /\ <<conn>> \o <<>> = <<conn>>
           /\ <<>> \in Seq(Connections)
OBVIOUS

-----------------------------------------------------------------------------
(* The inductive invariant.                                                *)

LEMMA InitIInv == Init => IInv
<1> SUFFICES ASSUME Init PROVE IInv
    OBVIOUS
<1>1. TypeOK
  BY MaxChannelIdAssumption
  DEF Init, TypeOK, ChannelIds, ChannelStates, NoConnection, Messages, FirstChannelId
<1>2. StackFollowsActive
  BY DEF Init, StackFollowsActive, NoConnection
<1>3. OpenMeansAccepted
  BY DEF Init, OpenMeansAccepted
<1> QED BY <1>1, <1>2, <1>3 DEF IInv

\* An early return keeps the invariant.
LEMMA IgnoredIInv == IInv /\ Ignored => IInv'
BY DEF Ignored, IInv, TypeOK, StackFollowsActive, OpenMeansAccepted, hasActiveConnection,
       channelVars, activeVars, Messages

\* An activation keeps it for any connection whose control channel is open
\* afterwards.
LEMMA ActivationIInv ==
    ASSUME IInv, NEW conn \in Connections, Activation(conn),
           controlChannels' \in [Connections -> {"NONE", "OPEN", "GONE"}],
           controlChannels'[conn] = "OPEN"
    PROVE  IInv'
<1> DEFINE chs == IF hasActiveConnection THEN Closed(playerChannels) ELSE playerChannels
<1>1. playerChannels \in ChannelMap
  BY DEF IInv, TypeOK, ChannelMap
<1>2. chs \in ChannelMap
  BY <1>1, ClosedFacts
<1>3. /\ Opened(chs) \in ChannelMap
      /\ \A ch \in ChannelIds :
            /\ Opened(chs)[ch] = "CHANNEL_OPEN" <=> chs[ch] = "CHANNEL_OPEN"
            /\ Opened(chs)[ch] = "ABSENT" <=> chs[ch] = "ABSENT"
  BY <1>2, OpenedFacts
<1>4. \A ch \in ChannelIds : chs[ch] = "ABSENT" <=> playerChannels[ch] = "ABSENT"
  BY <1>1, ClosedFacts
<1>5. /\ playerChannels' = Opened(chs)
      /\ activeConnectionId' = conn
      /\ indeterminate' = IF hasActiveConnection THEN {} ELSE indeterminate
      /\ UNCHANGED <<channelIdCount, acceptedBy>>
      /\ toNorth' = {}
  BY DEF Activation
<1>6. activeConnectionIdsStack' = <<conn>>
  BY SingletonStack DEF Activation, StackWith, IInv, TypeOK, StackFollowsActive, hasActiveConnection
<1>7. outgoing' \subseteq Messages
  <2>1. OpenRequests(chs, conn) \subseteq Messages
    BY <1>2, OpenRequestsFacts
  <2>2. Farewell \subseteq Messages
    BY DEF Farewell, Messages, Msg, ServerCommands, IInv, TypeOK
  <2>3. Msg(conn, CONTROL_CHANNEL_ID, "Activate") \in Messages
    BY DEF Messages, Msg, ServerCommands
  <2> QED BY <2>1, <2>2, <2>3 DEF Activation
<1>8. TypeOK'
  <2>1. \A ch \in ChannelIds : ch >= channelIdCount' => playerChannels'[ch] = "ABSENT"
    BY <1>3, <1>4, <1>5 DEF IInv, TypeOK
  <2>2. activeConnectionIdsStack' \in Seq(Connections)
    BY <1>6, SingletonStack
  <2> QED BY <1>3, <1>5, <1>7, <2>1, <2>2 DEF IInv, TypeOK, ChannelMap
<1>9. StackFollowsActive'
  BY <1>5, <1>6, ConnectionIsSome DEF StackFollowsActive
<1>10. OpenMeansAccepted'
  <2> SUFFICES ASSUME NEW ch \in ChannelIds, playerChannels'[ch] = "CHANNEL_OPEN",
                      ch \notin indeterminate'
               PROVE  FALSE
      BY DEF OpenMeansAccepted
  <2>1. chs[ch] = "CHANNEL_OPEN"
    BY <1>3, <1>5
  <2>2. CASE hasActiveConnection
    BY <1>1, <2>1, <2>2, ClosedFacts
  <2>3. CASE ~hasActiveConnection
    BY <1>5, <2>1, <2>3 DEF IInv, OpenMeansAccepted
  <2> QED BY <2>2, <2>3
<1> QED BY <1>8, <1>9, <1>10 DEF IInv

LEMMA DeactivateIInv ==
    ASSUME IInv, NEW conn \in Connections, DeactivateConnection(conn)
    PROVE  IInv'
<1>1. CASE controlChannels[conn] # "OPEN" \/ activeConnectionId # conn
  BY <1>1, IgnoredIInv DEF DeactivateConnection
<1>2. CASE ~(controlChannels[conn] # "OPEN" \/ activeConnectionId # conn)
  <2>1. playerChannels \in ChannelMap
    BY DEF IInv, TypeOK, ChannelMap
  <2>2. activeConnectionIdsStack = <<conn>>
    BY <1>2, ConnectionIsSome DEF IInv, StackFollowsActive
  <2>3. Tail(activeConnectionIdsStack) = <<>>
    BY <2>2
  <2>4. /\ activeConnectionId' = NoConnection
        /\ activeConnectionIdsStack' = <<>>
        /\ playerChannels' = Closed(playerChannels)
        /\ indeterminate' = {}
        /\ outgoing' = {Msg(conn, CONTROL_CHANNEL_ID, "Deactivate")}
        /\ toNorth' = {}
        /\ UNCHANGED <<controlChannels, channelIdCount, acceptedBy>>
    BY <1>2, <2>3 DEF DeactivateConnection
  <2>5. outgoing' \subseteq Messages
    BY <2>4 DEF Messages, Msg, ServerCommands
  <2>6. TypeOK'
    BY <2>1, <2>4, <2>5, ClosedFacts DEF IInv, TypeOK, ChannelMap
  <2>7. StackFollowsActive'
    BY <2>4 DEF StackFollowsActive
  <2>8. OpenMeansAccepted'
    BY <2>1, <2>4, ClosedFacts DEF OpenMeansAccepted
  <2> QED BY <2>6, <2>7, <2>8 DEF IInv
<1> QED BY <1>1, <1>2

LEMMA ApplicationClosedIInv ==
    ASSUME IInv, NEW conn \in Connections, ApplicationClosed(conn)
    PROVE  IInv'
<1>1. CASE controlChannels[conn] # "OPEN"
  BY <1>1, IgnoredIInv DEF ApplicationClosed
<1>2. CASE controlChannels[conn] = "OPEN"
  <2>1. playerChannels \in ChannelMap
    BY DEF IInv, TypeOK, ChannelMap
  <2>2. conn = activeConnectionId => /\ activeConnectionIdsStack = <<conn>>
                                     /\ Tail(activeConnectionIdsStack) = <<>>
    BY ConnectionIsSome, SingletonStack DEF IInv, StackFollowsActive
  <2>3. /\ controlChannels' = [controlChannels EXCEPT ![conn] = "GONE"]
        /\ activeConnectionId' = IF conn = activeConnectionId
                                 THEN NoConnection ELSE activeConnectionId
        /\ activeConnectionIdsStack' = IF conn = activeConnectionId
                                       THEN <<>> ELSE activeConnectionIdsStack
        /\ playerChannels' = Closed(playerChannels)
        /\ indeterminate' = {}
        /\ outgoing' = {}
        /\ toNorth' = {}
        /\ UNCHANGED <<channelIdCount, acceptedBy>>
    BY <1>2, <2>2 DEF ApplicationClosed
  <2>4. TypeOK'
    BY <2>1, <2>3, ClosedFacts, SingletonStack DEF IInv, TypeOK, ChannelMap
  <2>5. StackFollowsActive'
    BY <2>3 DEF IInv, TypeOK, StackFollowsActive
  <2>6. OpenMeansAccepted'
    BY <2>1, <2>3, ClosedFacts DEF OpenMeansAccepted
  <2> QED BY <2>4, <2>5, <2>6 DEF IInv
<1> QED BY <1>1, <1>2

LEMMA OpenPlayerChannelIInv == IInv /\ OpenPlayerChannel => IInv'
<1> SUFFICES ASSUME IInv, OpenPlayerChannel PROVE IInv'
    OBVIOUS
<1> DEFINE ch == channelIdCount
<1>1. PICK found \in GarbageStates \cup {"CHANNEL_CLOSED"} :
        /\ playerChannels' = [playerChannels EXCEPT
                ![ch] = IF found = "CHANNEL_CLOSED" THEN "CHANNEL_OPEN_ONGOING" ELSE found]
        /\ indeterminate' = IF found = "CHANNEL_CLOSED"
                            THEN indeterminate ELSE indeterminate \cup {ch}
        /\ outgoing' = IF found = "CHANNEL_CLOSED" /\ hasActiveConnection
                       THEN {Msg(activeConnectionId, ch, "OpenChannel")} ELSE {}
  BY DEF OpenPlayerChannel
<1>2. /\ channelIdCount \in ChannelIds
      /\ channelIdCount' = channelIdCount + 1
      /\ toNorth' = {}
      /\ UNCHANGED <<controlChannels, activeConnectionId, activeConnectionIdsStack, acceptedBy>>
  BY DEF OpenPlayerChannel, activeVars
<1>3. outgoing' \subseteq Messages
  BY <1>1, <1>2 DEF IInv, TypeOK, Messages, Msg, ServerCommands
<1>4. found \in ChannelStates
  BY GarbageStatesAssumption DEF ChannelStates
<1>5. \A c \in ChannelIds : c >= channelIdCount' => playerChannels'[c] = "ABSENT"
  BY <1>1, <1>2, MaxChannelIdAssumption DEF IInv, TypeOK, ChannelIds
<1>6. playerChannels' \in [ChannelIds -> ChannelStates \cup {"ABSENT"}]
  BY <1>1, <1>2, <1>4 DEF IInv, TypeOK, ChannelStates
<1>7. channelIdCount' \in 1..(MaxChannelId + 1)
  BY <1>2, MaxChannelIdAssumption DEF ChannelIds
<1>8. TypeOK'
  BY <1>1, <1>2, <1>3, <1>5, <1>6, <1>7 DEF IInv, TypeOK
<1>9. StackFollowsActive'
  BY <1>2 DEF IInv, StackFollowsActive
<1>10. OpenMeansAccepted'
  BY <1>1, <1>2 DEF IInv, TypeOK, OpenMeansAccepted, hasActiveConnection
<1> QED BY <1>8, <1>9, <1>10 DEF IInv

LEMMA ClosePlayerChannelIInv ==
    ASSUME IInv, NEW ch \in ChannelIds, ClosePlayerChannel(ch)
    PROVE  IInv'
<1>1. outgoing' \subseteq Messages
  BY DEF ClosePlayerChannel, IInv, TypeOK, Messages, Msg, ServerCommands
<1>2. TypeOK'
  BY <1>1 DEF ClosePlayerChannel, IInv, TypeOK, activeVars
<1>3. StackFollowsActive'
  BY DEF ClosePlayerChannel, IInv, StackFollowsActive, activeVars
<1>4. OpenMeansAccepted'
  BY DEF ClosePlayerChannel, IInv, TypeOK, OpenMeansAccepted, activeVars, hasActiveConnection
<1> QED BY <1>2, <1>3, <1>4 DEF IInv

LEMMA FromNorthIInv ==
    ASSUME IInv, NEW ch \in ChannelIds, NEW action,
           ReceivePlayerMessageFromNorth(ch, action)
    PROVE  IInv'
<1>1. outgoing' \subseteq Messages
  BY DEF ReceivePlayerMessageFromNorth, IInv, TypeOK, Messages, Msg, ServerCommands
<1> QED
  BY <1>1 DEF ReceivePlayerMessageFromNorth, IInv, TypeOK, StackFollowsActive, OpenMeansAccepted,
              channelVars, activeVars, hasActiveConnection

LEMMA FromSouthIInv ==
    ASSUME IInv, NEW conn \in Connections, NEW ch \in ChannelIds \cup {CONTROL_CHANNEL_ID},
           NEW cmd \in SouthCommands, ProcessMessageFromSouth(conn, ch, cmd)
    PROVE  IInv'
<1>1. CASE ch = CONTROL_CHANNEL_ID
  <2>1. ProcessControlMessage(conn, cmd)
    BY <1>1 DEF ProcessMessageFromSouth
  <2>2. outgoing' \subseteq Messages
    BY <2>1 DEF ProcessControlMessage, Messages, Msg, ServerCommands
  <2> QED
    BY <2>1, <2>2 DEF ProcessControlMessage, IInv, TypeOK, StackFollowsActive, OpenMeansAccepted,
                      channelVars, activeVars, hasActiveConnection
<1>2. CASE ch # CONTROL_CHANNEL_ID /\ ~ListenedTo(conn, ch)
  BY <1>2, IgnoredIInv DEF ProcessMessageFromSouth, ProcessPlayerChannelMessage
<1>3. CASE ch # CONTROL_CHANNEL_ID /\ ListenedTo(conn, ch)
  <2>1. ch \in ChannelIds /\ conn = activeConnectionId /\ playerChannels[ch] # "ABSENT"
    BY <1>3 DEF ListenedTo
  <2>2. ProcessPlayerChannelMessage(conn, ch, cmd)
    BY <1>3 DEF ProcessMessageFromSouth
  <2>3. CASE cmd = "OpenChannelAccepted"
    <3>1. /\ playerChannels' = [playerChannels EXCEPT ![ch] = "CHANNEL_OPEN"]
          /\ indeterminate' = indeterminate \ {ch}
          /\ acceptedBy' = [acceptedBy EXCEPT ![ch] = conn]
          /\ toNorth' = {}
          /\ outgoing' = {}
          /\ UNCHANGED <<controlChannels, channelIdCount, activeConnectionId,
                         activeConnectionIdsStack>>
      BY <1>3, <2>2, <2>3 DEF ProcessPlayerChannelMessage, activeVars
    <3>2. TypeOK'
      BY <2>1, <3>1 DEF IInv, TypeOK, ChannelStates
    <3>3. StackFollowsActive'
      BY <3>1 DEF IInv, StackFollowsActive
    <3>4. OpenMeansAccepted'
      BY <2>1, <3>1, ConnectionIsSome DEF IInv, TypeOK, OpenMeansAccepted, hasActiveConnection
    <3> QED BY <3>2, <3>3, <3>4 DEF IInv
  <2>4. CASE cmd # "OpenChannelAccepted"
    <3>1. /\ toNorth' \subseteq ChannelIds
          /\ outgoing' = {}
          /\ UNCHANGED <<controlChannels, channelIdCount, activeConnectionId,
                         activeConnectionIdsStack, playerChannels, indeterminate, acceptedBy>>
      BY <1>3, <2>1, <2>2, <2>4 DEF ProcessPlayerChannelMessage, activeVars
    <3> QED
      BY <3>1 DEF IInv, TypeOK, StackFollowsActive, OpenMeansAccepted, hasActiveConnection
  <2> QED BY <2>3, <2>4
<1> QED BY <1>1, <1>2, <1>3

LEMMA NextIInv == IInv /\ [Next]_vars => IInv'
<1> SUFFICES ASSUME IInv, [Next]_vars PROVE IInv'
    OBVIOUS
<1>1. ASSUME NEW conn \in Connections, ConnectionValidated(conn) PROVE IInv'
  BY <1>1, ActivationIInv DEF ConnectionValidated, IInv, TypeOK
<1>2. ASSUME NEW conn \in Connections, ActivateConnection(conn) PROVE IInv'
  BY <1>2, ActivationIInv, IgnoredIInv DEF ActivateConnection, IInv, TypeOK
<1>3. ASSUME NEW conn \in Connections, DeactivateConnection(conn) PROVE IInv'
  BY <1>3, DeactivateIInv
<1>4. ASSUME NEW conn \in Connections, ApplicationClosed(conn) PROVE IInv'
  BY <1>4, ApplicationClosedIInv
<1>5. ASSUME NEW conn \in Connections, NEW ch \in ChannelIds \cup {CONTROL_CHANNEL_ID},
             NEW cmd \in SouthCommands, ProcessMessageFromSouth(conn, ch, cmd)
      PROVE  IInv'
  BY <1>5, FromSouthIInv
<1>6. ASSUME OpenPlayerChannel PROVE IInv'
  BY <1>6, OpenPlayerChannelIInv
<1>7. ASSUME NEW ch \in ChannelIds, ClosePlayerChannel(ch) PROVE IInv'
  BY <1>7, ClosePlayerChannelIInv
<1>8. ASSUME NEW ch \in ChannelIds, NEW action \in {"GoToMainMenu", "other"},
             ReceivePlayerMessageFromNorth(ch, action)
      PROVE  IInv'
  BY <1>8, FromNorthIInv
<1>9. CASE UNCHANGED vars
  BY <1>9 DEF vars, IInv, TypeOK, StackFollowsActive, OpenMeansAccepted, hasActiveConnection
<1> QED BY <1>1, <1>2, <1>3, <1>4, <1>5, <1>6, <1>7, <1>8, <1>9 DEF Next

\* The inductive invariant holds in every reachable state.
THEOREM InductiveInvariant == Spec => []IInv
BY InitIInv, NextIInv, PTL DEF Spec

\* The state keeps its shape; no channel id is ever handed out twice.
THEOREM TypeCorrect == Spec => []TypeOK
<1>1. IInv => TypeOK
  BY DEF IInv
<1> QED BY <1>1, InductiveInvariant, PTL

\* At most one application is active, it is connected, and the stack says the
\* same as the variable: no stack of suspended applications ever builds up.
THEOREM StackCorrect == Spec => []StackFollowsActive
<1>1. IInv => StackFollowsActive
  BY DEF IInv
<1> QED BY <1>1, InductiveInvariant, PTL

\* No acceptance of a player outlives the turn of the application that gave it.
THEOREM AcceptanceCorrect == Spec => []OpenMeansAccepted
<1>1. IInv => OpenMeansAccepted
  BY DEF IInv
<1> QED BY <1>1, InductiveInvariant, PTL

-----------------------------------------------------------------------------
(* Action properties.                                                      *)

\* What OnlyActiveHears says of one step.
OnlyActiveHearsStep ==
    \A m \in outgoing' : m.channel # CONTROL_CHANNEL_ID => m.connection = activeConnectionId'

LEMMA ActivationHeard ==
    ASSUME IInv, NEW conn \in Connections, Activation(conn)
    PROVE  OnlyActiveHearsStep
<1> DEFINE chs == IF hasActiveConnection THEN Closed(playerChannels) ELSE playerChannels
<1>1. playerChannels \in ChannelMap
  BY DEF IInv, TypeOK, ChannelMap
<1>2. chs \in ChannelMap
  BY <1>1, ClosedFacts
<1>3. \A m \in OpenRequests(chs, conn) : m.connection = conn
  BY <1>2, OpenRequestsFacts
<1>4. \A m \in Farewell \cup {Msg(conn, CONTROL_CHANNEL_ID, "Activate")} :
            m.channel = CONTROL_CHANNEL_ID
  BY DEF Farewell, Msg
<1> QED BY <1>3, <1>4 DEF Activation, OnlyActiveHearsStep

LEMMA NextHeard == IInv /\ Next => OnlyActiveHearsStep
<1> SUFFICES ASSUME IInv, Next PROVE OnlyActiveHearsStep
    OBVIOUS
<1>1. ASSUME NEW conn \in Connections, ConnectionValidated(conn) PROVE OnlyActiveHearsStep
  BY <1>1, ActivationHeard DEF ConnectionValidated
<1>2. ASSUME NEW conn \in Connections, ActivateConnection(conn) PROVE OnlyActiveHearsStep
  BY <1>2, ActivationHeard DEF ActivateConnection, Ignored, OnlyActiveHearsStep
<1>3. ASSUME NEW conn \in Connections, DeactivateConnection(conn) PROVE OnlyActiveHearsStep
  <2>1. CASE controlChannels[conn] # "OPEN" \/ activeConnectionId # conn
    BY <1>3, <2>1 DEF DeactivateConnection, Ignored, OnlyActiveHearsStep
  <2>2. CASE ~(controlChannels[conn] # "OPEN" \/ activeConnectionId # conn)
    <3>1. Tail(activeConnectionIdsStack) = <<>>
      BY <2>2, ConnectionIsSome, SingletonStack DEF IInv, StackFollowsActive
    <3>2. outgoing' = {Msg(conn, CONTROL_CHANNEL_ID, "Deactivate")}
      BY <1>3, <2>2, <3>1 DEF DeactivateConnection
    <3> QED BY <3>2 DEF OnlyActiveHearsStep, Msg
  <2> QED BY <2>1, <2>2
<1>4. ASSUME NEW conn \in Connections, ApplicationClosed(conn) PROVE OnlyActiveHearsStep
  <2>1. conn = activeConnectionId => Tail(activeConnectionIdsStack) = <<>>
    BY ConnectionIsSome, SingletonStack DEF IInv, StackFollowsActive
  <2>2. outgoing' = {}
    BY <1>4, <2>1 DEF ApplicationClosed, Ignored
  <2> QED BY <2>2 DEF OnlyActiveHearsStep
<1>5. ASSUME NEW conn \in Connections, NEW ch \in ChannelIds \cup {CONTROL_CHANNEL_ID},
             NEW cmd \in SouthCommands, ProcessMessageFromSouth(conn, ch, cmd)
      PROVE  OnlyActiveHearsStep
  BY <1>5 DEF ProcessMessageFromSouth, ProcessControlMessage, ProcessPlayerChannelMessage,
              Ignored, OnlyActiveHearsStep, Msg
<1>6. ASSUME OpenPlayerChannel PROVE OnlyActiveHearsStep
  BY <1>6 DEF OpenPlayerChannel, OnlyActiveHearsStep, Msg, activeVars
<1>7. ASSUME NEW ch \in ChannelIds, ClosePlayerChannel(ch) PROVE OnlyActiveHearsStep
  BY <1>7 DEF ClosePlayerChannel, OnlyActiveHearsStep, Msg, activeVars
<1>8. ASSUME NEW ch \in ChannelIds, NEW action \in {"GoToMainMenu", "other"},
             ReceivePlayerMessageFromNorth(ch, action)
      PROVE  OnlyActiveHearsStep
  BY <1>8 DEF ReceivePlayerMessageFromNorth, OnlyActiveHearsStep, Msg, activeVars
<1> QED BY <1>1, <1>2, <1>3, <1>4, <1>5, <1>6, <1>7, <1>8 DEF Next

\* In every step, also one in the middle of a switch, whatever is sent on a
\* player channel goes to the connection that is active when the step ends.
THEOREM HeardCorrect == Spec => OnlyActiveHears
<1>1. IInv /\ [Next]_vars => [OnlyActiveHearsStep]_vars
  BY NextHeard
<1> QED BY <1>1, InductiveInvariant, PTL DEF Spec, OnlyActiveHears, OnlyActiveHearsStep

\* What ToldOfSwitch says of one step.
ToldOfSwitchStep ==
    activeConnectionId' # activeConnectionId =>
        /\ activeConnectionId' # NoConnection =>
                Msg(activeConnectionId', CONTROL_CHANNEL_ID, "Activate") \in outgoing'
        /\ activeConnectionId # NoConnection /\ controlChannels'[activeConnectionId] = "OPEN" =>
                Msg(activeConnectionId, CONTROL_CHANNEL_ID, "Deactivate") \in outgoing'

LEMMA NextTold == IInv /\ Next => ToldOfSwitchStep
<1> SUFFICES ASSUME IInv, Next PROVE ToldOfSwitchStep
    OBVIOUS
<1>0. ASSUME NEW conn \in Connections, Activation(conn) PROVE ToldOfSwitchStep
  BY <1>0 DEF Activation, Farewell, hasActiveConnection, ToldOfSwitchStep
<1>1. ASSUME NEW conn \in Connections, ConnectionValidated(conn) PROVE ToldOfSwitchStep
  BY <1>0, <1>1 DEF ConnectionValidated
<1>2. ASSUME NEW conn \in Connections, ActivateConnection(conn) PROVE ToldOfSwitchStep
  BY <1>0, <1>2 DEF ActivateConnection, Ignored, activeVars, ToldOfSwitchStep
<1>3. ASSUME NEW conn \in Connections, DeactivateConnection(conn) PROVE ToldOfSwitchStep
  <2>1. CASE controlChannels[conn] # "OPEN" \/ activeConnectionId # conn
    BY <1>3, <2>1 DEF DeactivateConnection, Ignored, activeVars, ToldOfSwitchStep
  <2>2. CASE ~(controlChannels[conn] # "OPEN" \/ activeConnectionId # conn)
    <3>1. Tail(activeConnectionIdsStack) = <<>>
      BY <2>2, ConnectionIsSome, SingletonStack DEF IInv, StackFollowsActive
    <3>2. /\ outgoing' = {Msg(conn, CONTROL_CHANNEL_ID, "Deactivate")}
          /\ activeConnectionId' = NoConnection
      BY <1>3, <2>2, <3>1 DEF DeactivateConnection
    <3> QED BY <2>2, <3>2 DEF ToldOfSwitchStep
  <2> QED BY <2>1, <2>2
<1>4. ASSUME NEW conn \in Connections, ApplicationClosed(conn) PROVE ToldOfSwitchStep
  <2>1. CASE controlChannels[conn] # "OPEN"
    BY <1>4, <2>1 DEF ApplicationClosed, Ignored, activeVars, ToldOfSwitchStep
  <2>2. CASE controlChannels[conn] = "OPEN"
    <3>1. conn = activeConnectionId => Tail(activeConnectionIdsStack) = <<>>
      BY ConnectionIsSome, SingletonStack DEF IInv, StackFollowsActive
    <3>2. /\ controlChannels'[conn] = "GONE"
          /\ activeConnectionId' = IF conn = activeConnectionId
                                   THEN NoConnection ELSE activeConnectionId
      BY <1>4, <2>2, <3>1 DEF ApplicationClosed, IInv, TypeOK
    <3> QED BY <3>2 DEF ToldOfSwitchStep
  <2> QED BY <2>1, <2>2
<1>5. ASSUME NEW conn \in Connections, NEW ch \in ChannelIds \cup {CONTROL_CHANNEL_ID},
             NEW cmd \in SouthCommands, ProcessMessageFromSouth(conn, ch, cmd)
      PROVE  ToldOfSwitchStep
  BY <1>5 DEF ProcessMessageFromSouth, ProcessControlMessage, ProcessPlayerChannelMessage,
              Ignored, activeVars, ToldOfSwitchStep
<1>6. ASSUME OpenPlayerChannel PROVE ToldOfSwitchStep
  BY <1>6 DEF OpenPlayerChannel, ToldOfSwitchStep, activeVars
<1>7. ASSUME NEW ch \in ChannelIds, ClosePlayerChannel(ch) PROVE ToldOfSwitchStep
  BY <1>7 DEF ClosePlayerChannel, ToldOfSwitchStep, activeVars
<1>8. ASSUME NEW ch \in ChannelIds, NEW action \in {"GoToMainMenu", "other"},
             ReceivePlayerMessageFromNorth(ch, action)
      PROVE  ToldOfSwitchStep
  BY <1>8 DEF ReceivePlayerMessageFromNorth, ToldOfSwitchStep, activeVars
<1> QED BY <1>1, <1>2, <1>3, <1>4, <1>5, <1>6, <1>7, <1>8 DEF Next

\* No application gains or loses its turn without being told, unless it is its
\* own exit that ends the turn.
THEOREM ToldCorrect == Spec => ToldOfSwitch
<1>1. IInv /\ [Next]_vars => [ToldOfSwitchStep]_vars
  BY NextTold
<1> QED BY <1>1, InductiveInvariant, PTL DEF Spec, ToldOfSwitch, ToldOfSwitchStep

\* What HandoverAnnouncesAll says of one step.
HandoverStep ==
    \A conn \in Connections :
        /\ hasActiveConnection
        /\ Msg(conn, CONTROL_CHANNEL_ID, "Activate") \in outgoing'
        => \A ch \in ChannelIds :
                playerChannels'[ch] # "ABSENT" => Msg(conn, ch, "OpenChannel") \in outgoing'

\* Most steps send no Activate, and have nothing to announce.
LEMMA NoActivateNoHandover ==
    ASSUME \A m \in outgoing' : m.command # "Activate"
    PROVE  HandoverStep
BY DEF HandoverStep, Msg

LEMMA ActivationHandsOver ==
    ASSUME IInv, NEW conn \in Connections, Activation(conn)
    PROVE  HandoverStep
<1> SUFFICES ASSUME NEW other \in Connections, hasActiveConnection,
                    Msg(other, CONTROL_CHANNEL_ID, "Activate") \in outgoing',
                    NEW ch \in ChannelIds, playerChannels'[ch] # "ABSENT"
             PROVE  Msg(other, ch, "OpenChannel") \in outgoing'
    BY DEF HandoverStep
<1> DEFINE chs == Closed(playerChannels)
<1>1. playerChannels \in ChannelMap
  BY DEF IInv, TypeOK, ChannelMap
<1>2. /\ playerChannels' = Opened(chs)
      /\ outgoing' = Farewell \cup {Msg(conn, CONTROL_CHANNEL_ID, "Activate")}
                              \cup OpenRequests(chs, conn)
  BY DEF Activation
<1>3. other = conn
  <2>1. \A m \in Farewell \cup OpenRequests(chs, conn) : m.command # "Activate"
    BY <1>1, ClosedFacts, OpenRequestsFacts DEF Farewell, Msg
  <2> QED
    BY <1>2, <2>1 DEF Msg
<1>4. chs[ch] = "CHANNEL_CLOSED"
  BY <1>1, <1>2, ClosedFacts, OpenedFacts DEF Closed
<1> QED
  BY <1>2, <1>3, <1>4 DEF OpenRequests

LEMMA NextHandsOver == IInv /\ Next => HandoverStep
<1> SUFFICES ASSUME IInv, Next PROVE HandoverStep
    OBVIOUS
<1>0. ASSUME Ignored PROVE HandoverStep
  BY <1>0, NoActivateNoHandover DEF Ignored
<1>1. ASSUME NEW conn \in Connections, ConnectionValidated(conn) PROVE HandoverStep
  BY <1>1, ActivationHandsOver DEF ConnectionValidated
<1>2. ASSUME NEW conn \in Connections, ActivateConnection(conn) PROVE HandoverStep
  BY <1>0, <1>2, ActivationHandsOver DEF ActivateConnection
<1>3. ASSUME NEW conn \in Connections, DeactivateConnection(conn) PROVE HandoverStep
  <2>1. CASE controlChannels[conn] # "OPEN" \/ activeConnectionId # conn
    BY <1>0, <1>3, <2>1 DEF DeactivateConnection
  <2>2. CASE ~(controlChannels[conn] # "OPEN" \/ activeConnectionId # conn)
    <3>1. Tail(activeConnectionIdsStack) = <<>>
      BY <2>2, ConnectionIsSome, SingletonStack DEF IInv, StackFollowsActive
    <3>2. outgoing' = {Msg(conn, CONTROL_CHANNEL_ID, "Deactivate")}
      BY <1>3, <2>2, <3>1 DEF DeactivateConnection
    <3> QED BY <3>2, NoActivateNoHandover DEF Msg
  <2> QED BY <2>1, <2>2
<1>4. ASSUME NEW conn \in Connections, ApplicationClosed(conn) PROVE HandoverStep
  <2>1. CASE controlChannels[conn] # "OPEN"
    BY <1>0, <1>4, <2>1 DEF ApplicationClosed
  <2>2. CASE controlChannels[conn] = "OPEN"
    <3>1. conn = activeConnectionId => Tail(activeConnectionIdsStack) = <<>>
      BY ConnectionIsSome, SingletonStack DEF IInv, StackFollowsActive
    <3>2. outgoing' = {}
      BY <1>4, <2>2, <3>1 DEF ApplicationClosed
    <3> QED BY <3>2, NoActivateNoHandover
  <2> QED BY <2>1, <2>2
<1>5. ASSUME NEW conn \in Connections, NEW ch \in ChannelIds \cup {CONTROL_CHANNEL_ID},
             NEW cmd \in SouthCommands, ProcessMessageFromSouth(conn, ch, cmd)
      PROVE  HandoverStep
  BY <1>5, NoActivateNoHandover
  DEF ProcessMessageFromSouth, ProcessControlMessage, ProcessPlayerChannelMessage, Ignored, Msg
<1>6. ASSUME OpenPlayerChannel PROVE HandoverStep
  BY <1>6, NoActivateNoHandover DEF OpenPlayerChannel, Msg
<1>7. ASSUME NEW ch \in ChannelIds, ClosePlayerChannel(ch) PROVE HandoverStep
  BY <1>7, NoActivateNoHandover DEF ClosePlayerChannel, Msg
<1>8. ASSUME NEW ch \in ChannelIds, NEW action \in {"GoToMainMenu", "other"},
             ReceivePlayerMessageFromNorth(ch, action)
      PROVE  HandoverStep
  BY <1>8, NoActivateNoHandover DEF ReceivePlayerMessageFromNorth, Msg
<1> QED BY <1>1, <1>2, <1>3, <1>4, <1>5, <1>6, <1>7, <1>8 DEF Next

\* An application that takes the turn from another is offered every player,
\* whatever state the player's channel was in.
THEOREM HandoverCorrect == Spec => HandoverAnnouncesAll
<1>1. IInv /\ [Next]_vars => [HandoverStep]_vars
  BY NextHandsOver
<1> QED BY <1>1, InductiveInvariant, PTL DEF Spec, HandoverAnnouncesAll, HandoverStep

-----------------------------------------------------------------------------
(* The channel manager implements ExclusiveApp: every step maps to a step  *)
(* of the abstract service or changes nothing of it.                       *)

\* A step that passes on no player's message carries none.
LEMMA NothingCarried ==
    ASSUME \A m \in outgoing' : m.command # "PlayerMessage"
    PROVE  carriedMessages' = {}
BY DEF carriedMessages

\* A step that keeps the owner, adds no acceptance and carries nothing is one
\* of players leaving or pausing.
LEMMA WithdrawStep ==
    ASSUME UNCHANGED activeConnectionId, acceptedPlayers' \subseteq acceptedPlayers,
           carriedMessages' = {}
    PROVE  Exclusive!Next
BY DEF Exclusive!Next, Exclusive!Withdraw

\* A step that ends with no acceptance at all, whoever owns the players then.
LEMMA ClearingStep ==
    ASSUME acceptedPlayers' = {}, carriedMessages' = {},
           activeConnectionId' \in Connections \cup {NoConnection}
    PROVE  Exclusive!Next
<1>1. CASE activeConnectionId' = activeConnectionId
  BY <1>1, WithdrawStep
<1>2. CASE activeConnectionId' # activeConnectionId
  BY <1>2 DEF Exclusive!Next, Exclusive!Handover
<1> QED BY <1>1, <1>2

LEMMA IgnoredMaps == Ignored => Exclusive!Next
<1> SUFFICES ASSUME Ignored PROVE Exclusive!Next
    OBVIOUS
<1>1. UNCHANGED <<activeConnectionId, playerChannels, indeterminate>> /\ outgoing' = {}
  BY DEF Ignored, activeVars, channelVars
<1>2. acceptedPlayers' = acceptedPlayers
  BY <1>1 DEF acceptedPlayers
<1> QED BY <1>1, <1>2, NothingCarried, WithdrawStep

\* If every channel was closed first, only garbage can read as open after an
\* activation: nobody has been accepted by the new owner yet.
LEMMA ActivationMaps ==
    ASSUME IInv, NEW conn \in Connections, Activation(conn)
    PROVE  Exclusive!Next
<1> DEFINE chs == IF hasActiveConnection THEN Closed(playerChannels) ELSE playerChannels
<1>1. playerChannels \in ChannelMap
  BY DEF IInv, TypeOK, ChannelMap
<1>2. chs \in ChannelMap
  BY <1>1, ClosedFacts
<1>3. /\ playerChannels' = Opened(chs)
      /\ activeConnectionId' = conn
      /\ indeterminate' = IF hasActiveConnection THEN {} ELSE indeterminate
  BY DEF Activation
<1>4. acceptedPlayers' = {}
  <2> SUFFICES ASSUME NEW ch \in ChannelIds, playerChannels'[ch] = "CHANNEL_OPEN",
                      ch \notin indeterminate'
               PROVE  FALSE
      BY DEF acceptedPlayers
  <2>1. chs[ch] = "CHANNEL_OPEN"
    BY <1>2, <1>3, OpenedFacts
  <2>2. CASE hasActiveConnection
    BY <1>1, <2>1, <2>2, ClosedFacts
  <2>3. CASE ~hasActiveConnection
    BY <1>3, <2>1, <2>3 DEF IInv, OpenMeansAccepted
  <2> QED BY <2>2, <2>3
<1>5. \A m \in outgoing' : m.command # "PlayerMessage"
  <2>1. \A m \in OpenRequests(chs, conn) : m.command # "PlayerMessage"
    BY <1>2, OpenRequestsFacts
  <2>2. \A m \in Farewell \cup {Msg(conn, CONTROL_CHANNEL_ID, "Activate")} :
            m.command # "PlayerMessage"
    BY DEF Farewell, Msg
  <2> QED BY <2>1, <2>2 DEF Activation
<1> QED BY <1>3, <1>4, <1>5, NothingCarried, ClearingStep

\* Closing every channel voids every acceptance.
LEMMA ClosedAcceptsNobody ==
    ASSUME IInv, playerChannels' = Closed(playerChannels)
    PROVE  acceptedPlayers' = {}
<1>1. playerChannels \in ChannelMap
  BY DEF IInv, TypeOK, ChannelMap
<1> QED BY <1>1, ClosedFacts DEF acceptedPlayers

LEMMA NextMaps == IInv /\ IInv' /\ Next => Exclusive!Next
<1> SUFFICES ASSUME IInv, IInv', Next PROVE Exclusive!Next
    OBVIOUS
<1>1. ASSUME NEW conn \in Connections, ConnectionValidated(conn) PROVE Exclusive!Next
  BY <1>1, ActivationMaps DEF ConnectionValidated
<1>2. ASSUME NEW conn \in Connections, ActivateConnection(conn) PROVE Exclusive!Next
  BY <1>2, ActivationMaps, IgnoredMaps DEF ActivateConnection
<1>3. ASSUME NEW conn \in Connections, DeactivateConnection(conn) PROVE Exclusive!Next
  <2>1. CASE controlChannels[conn] # "OPEN" \/ activeConnectionId # conn
    BY <1>3, <2>1, IgnoredMaps DEF DeactivateConnection
  <2>2. CASE ~(controlChannels[conn] # "OPEN" \/ activeConnectionId # conn)
    <3>1. Tail(activeConnectionIdsStack) = <<>>
      BY <2>2, ConnectionIsSome, SingletonStack DEF IInv, StackFollowsActive
    <3>2. /\ outgoing' = {Msg(conn, CONTROL_CHANNEL_ID, "Deactivate")}
          /\ activeConnectionId' = NoConnection
          /\ playerChannels' = Closed(playerChannels)
      BY <1>3, <2>2, <3>1 DEF DeactivateConnection
    <3>3. carriedMessages' = {}
      BY <3>2, NothingCarried DEF Msg
    <3> QED BY <3>2, <3>3, ClosedAcceptsNobody, ClearingStep
  <2> QED BY <2>1, <2>2
<1>4. ASSUME NEW conn \in Connections, ApplicationClosed(conn) PROVE Exclusive!Next
  <2>1. CASE controlChannels[conn] # "OPEN"
    BY <1>4, <2>1, IgnoredMaps DEF ApplicationClosed
  <2>2. CASE controlChannels[conn] = "OPEN"
    <3>1. conn = activeConnectionId => Tail(activeConnectionIdsStack) = <<>>
      BY ConnectionIsSome, SingletonStack DEF IInv, StackFollowsActive
    <3>2. outgoing' = {} /\ playerChannels' = Closed(playerChannels)
      BY <1>4, <2>2, <3>1 DEF ApplicationClosed
    <3>3. activeConnectionId' \in Connections \cup {NoConnection}
      BY DEF IInv, TypeOK
    <3> QED BY <3>2, <3>3, ClosedAcceptsNobody, NothingCarried, ClearingStep
  <2> QED BY <2>1, <2>2
<1>5. ASSUME NEW conn \in Connections, NEW ch \in ChannelIds \cup {CONTROL_CHANNEL_ID},
             NEW cmd \in SouthCommands, ProcessMessageFromSouth(conn, ch, cmd)
      PROVE  Exclusive!Next
  <2>1. CASE ch = CONTROL_CHANNEL_ID
    <3>1. /\ UNCHANGED <<activeConnectionId, playerChannels, indeterminate>>
          /\ \A m \in outgoing' : m.command # "PlayerMessage"
      BY <1>5, <2>1 DEF ProcessMessageFromSouth, ProcessControlMessage, Msg, activeVars, channelVars
    <3>2. acceptedPlayers' = acceptedPlayers
      BY <3>1 DEF acceptedPlayers
    <3> QED BY <3>1, <3>2, NothingCarried, WithdrawStep
  <2>2. CASE ch # CONTROL_CHANNEL_ID /\ ~ListenedTo(conn, ch)
    BY <1>5, <2>2, IgnoredMaps DEF ProcessMessageFromSouth, ProcessPlayerChannelMessage
  <2>3. CASE ch # CONTROL_CHANNEL_ID /\ ListenedTo(conn, ch)
    <3>1. /\ outgoing' = {}
          /\ UNCHANGED activeConnectionId
          /\ cmd # "OpenChannelAccepted" => UNCHANGED <<playerChannels, indeterminate>>
          /\ cmd = "OpenChannelAccepted" =>
                /\ playerChannels' = [playerChannels EXCEPT ![ch] = "CHANNEL_OPEN"]
                /\ indeterminate' = indeterminate \ {ch}
      BY <1>5, <2>3 DEF ProcessMessageFromSouth, ProcessPlayerChannelMessage, activeVars
    <3>2. carriedMessages' = {}
      BY <3>1, NothingCarried
    <3>3. CASE cmd = "OpenChannelAccepted"
      <4>1. ch \in ChannelIds /\ activeConnectionId # NoConnection
        BY <2>3, ConnectionIsSome DEF ListenedTo
      <4>2. acceptedPlayers' = acceptedPlayers \cup {ch}
        BY <3>1, <3>3, <4>1 DEF acceptedPlayers, IInv, TypeOK
      <4>3. Exclusive!Accept(ch)
        BY <3>1, <3>2, <4>1, <4>2 DEF Exclusive!Accept
      <4> QED BY <4>1, <4>3 DEF Exclusive!Next
    <3>4. CASE cmd # "OpenChannelAccepted"
      <4>1. acceptedPlayers' = acceptedPlayers
        BY <3>1, <3>4 DEF acceptedPlayers
      <4> QED BY <3>1, <3>2, <4>1, WithdrawStep
    <3> QED BY <3>3, <3>4
  <2> QED BY <2>1, <2>2, <2>3
<1>6. ASSUME OpenPlayerChannel PROVE Exclusive!Next
  <2>1. PICK found \in GarbageStates \cup {"CHANNEL_CLOSED"} :
            /\ playerChannels' = [playerChannels EXCEPT ![channelIdCount] =
                    IF found = "CHANNEL_CLOSED" THEN "CHANNEL_OPEN_ONGOING" ELSE found]
            /\ indeterminate' = IF found = "CHANNEL_CLOSED"
                                THEN indeterminate ELSE indeterminate \cup {channelIdCount}
            /\ outgoing' = IF found = "CHANNEL_CLOSED" /\ hasActiveConnection
                           THEN {Msg(activeConnectionId, channelIdCount, "OpenChannel")} ELSE {}
    BY <1>6 DEF OpenPlayerChannel
  <2>2. UNCHANGED activeConnectionId /\ channelIdCount \in ChannelIds
    BY <1>6 DEF OpenPlayerChannel, activeVars
  <2>3. acceptedPlayers' \subseteq acceptedPlayers
    BY <2>1, <2>2 DEF acceptedPlayers, IInv, TypeOK
  <2>4. carriedMessages' = {}
    BY <2>1, NothingCarried DEF Msg
  <2> QED BY <2>2, <2>3, <2>4, WithdrawStep
<1>7. ASSUME NEW ch \in ChannelIds, ClosePlayerChannel(ch) PROVE Exclusive!Next
  <2>1. /\ UNCHANGED activeConnectionId
        /\ playerChannels' = [playerChannels EXCEPT ![ch] = "ABSENT"]
        /\ indeterminate' = indeterminate \ {ch}
        /\ \A m \in outgoing' : m.command # "PlayerMessage"
    BY <1>7 DEF ClosePlayerChannel, Msg, activeVars
  <2>2. acceptedPlayers' \subseteq acceptedPlayers
    BY <2>1 DEF acceptedPlayers, IInv, TypeOK
  <2> QED BY <2>1, <2>2, NothingCarried, WithdrawStep
<1>8. ASSUME NEW ch \in ChannelIds, NEW action \in {"GoToMainMenu", "other"},
             ReceivePlayerMessageFromNorth(ch, action)
      PROVE  Exclusive!Next
  <2>1. UNCHANGED <<activeConnectionId, playerChannels, indeterminate>>
    BY <1>8 DEF ReceivePlayerMessageFromNorth, activeVars, channelVars
  <2>2. acceptedPlayers' = acceptedPlayers
    BY <2>1 DEF acceptedPlayers
  <2>3. CASE Forwards(ch, action) /\ ch \notin indeterminate
    <3>1. outgoing' = {Msg(activeConnectionId, ch, "PlayerMessage")}
      BY <1>8, <2>3 DEF ReceivePlayerMessageFromNorth
    <3>2. carriedMessages' = {<<activeConnectionId, ch>>}
      <4> DEFINE passed == Msg(activeConnectionId, ch, "PlayerMessage")
      <4>1. passed.connection = activeConnectionId /\ passed.channel = ch
        BY DEF Msg
      <4>2. {n \in outgoing' : n.command = "PlayerMessage" /\ n.channel \notin indeterminate'}
                = {passed}
        BY <2>1, <2>3, <3>1 DEF Msg
      <4> HIDE DEF passed
      <4>3. {<<m.connection, m.channel>> : m \in {passed}} = {<<activeConnectionId, ch>>}
        BY <4>1
      <4> QED BY <4>2, <4>3 DEF carriedMessages
    <3>3. ch \in acceptedPlayers /\ activeConnectionId # NoConnection
      BY <2>3 DEF Forwards, acceptedPlayers, hasActiveConnection
    <3>4. Exclusive!Carry(ch)
      BY <2>1, <2>2, <3>2, <3>3 DEF Exclusive!Carry
    <3> QED BY <3>4 DEF Exclusive!Next
  <2>4. CASE ~Forwards(ch, action)
    BY <1>8, <2>1, <2>2, <2>4, NothingCarried, WithdrawStep DEF ReceivePlayerMessageFromNorth
  <2>5. CASE Forwards(ch, action) /\ ch \in indeterminate
    <3>1. outgoing' = {Msg(activeConnectionId, ch, "PlayerMessage")}
      BY <1>8, <2>5 DEF ReceivePlayerMessageFromNorth
    <3>2. carriedMessages' = {}
      BY <2>1, <2>5, <3>1 DEF carriedMessages, Msg
    <3> QED BY <2>1, <2>2, <3>2, WithdrawStep
  <2> QED BY <2>3, <2>4, <2>5
<1> QED BY <1>1, <1>2, <1>3, <1>4, <1>5, <1>6, <1>7, <1>8 DEF Next

\* At any time one application at most owns the players, and what a player says
\* reaches it only after it accepted that player in its present turn.
THEOREM ImplementsExclusiveApp == Spec => ExclusiveAppSpec
<1>1. Init => Exclusive!Init
  BY DEF Init, Exclusive!Init, acceptedPlayers, carriedMessages
<1>2. UNCHANGED vars => UNCHANGED Exclusive!vars
  BY DEF vars, Exclusive!vars, acceptedPlayers, carriedMessages
<1>3. IInv /\ IInv' /\ [Next]_vars => [Exclusive!Next]_Exclusive!vars
  BY <1>2, NextMaps
<1> QED BY <1>1, <1>3, InductiveInvariant, PTL DEF Spec, ExclusiveAppSpec, Exclusive!Spec

=============================================================================
