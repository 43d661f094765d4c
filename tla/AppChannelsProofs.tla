-------------------------- MODULE AppChannelsProofs --------------------------
(***************************************************************************)
(* Proofs about the channel manager composed with the client library, for  *)
(* any connections, channels and lengths of the streams.                   *)
(*                                                                         *)
(* What an application knows is what it has read, so SettledActivation and *)
(* NoOrphanPlayerMessage are about the streams: AppInv says of every       *)
(* stream what the application will hold once it has read all of it, and   *)
(* PlayerInv that a player's message is never sent to an application       *)
(* before it knows the player, nor read after it forgot him.               *)
(***************************************************************************)
EXTENDS AppChannels, ChannelManagerProofs, FiniteSetTheorems

(***************************************************************************)
(* The inductive invariant.                                                *)

ClientMessages == [channel : ChannelIds \cup {CONTROL_CHANNEL_ID}, command : ServerCommands]

ServerMessages == [channel : ChannelIds, command : {"OpenChannelAccepted", "PlayerMessage"}]

AppStates == {"down", "reconnecting", "up", "discarded", "exited"}

\* States of a connection for which there never was a control channel.
NotYetConnected == {"down", "reconnecting", "discarded"}

StreamsOK ==
    /\ appState \in [Connections -> AppStates]
    /\ southbound \in [Connections -> Seq(ClientMessages)]
    /\ northbound \in [Connections -> Seq(ServerMessages)]
    /\ clientChannels \in [Connections -> SUBSET ChannelIds]
    /\ activated \in [Connections -> BOOLEAN]

\* A connection is known to the server only after it came up, and as long as
\* its application is there the server has not forgotten it.
LifeCycle ==
    \A conn \in Connections :
        /\ appState[conn] = "up" => controlChannels[conn] = "OPEN"
        /\ appState[conn] # "up" => southbound[conn] = <<>> /\ clientChannels[conn] = {}
        /\ appState[conn] \in NotYetConnected =>
            /\ controlChannels[conn] = "NONE"
            /\ northbound[conn] = <<>>
            /\ \A ch \in ChannelIds : acceptedBy[ch] # conn

IsSwitch(m) == m.channel = CONTROL_CHANNEL_ID /\ m.command \in {"Activate", "Deactivate"}

IsLastSwitch(s, i) ==
    IsSwitch(s[i]) /\ \A j \in DOMAIN s : j > i => ~IsSwitch(s[j])

\* What a stream leads to: the last Activate or Deactivate in it, or else what
\* the application knows already, says what the server holds.
LeadsTo(s, knows, active) ==
    /\ \A i \in DOMAIN s : IsLastSwitch(s, i) => (s[i].command = "Activate" <=> active)
    /\ (\A i \in DOMAIN s : ~IsSwitch(s[i])) => (knows <=> active)

StreamsTell ==
    \A conn \in Connections :
        appState[conn] = "up" =>
            LeadsTo(southbound[conn], activated[conn], activeConnectionId = conn)

AppInv == StreamsOK /\ LifeCycle /\ StreamsTell

\* Nothing is known anywhere of a channel that was not opened yet; players'
\* messages are sent on players' channels.
FreshChannels ==
    \A conn \in Connections :
        /\ \A i \in DOMAIN southbound[conn] :
            /\ southbound[conn][i].channel < channelIdCount
            /\ southbound[conn][i].command = "PlayerMessage" =>
                    southbound[conn][i].channel \in ChannelIds
        /\ \A i \in DOMAIN northbound[conn] : northbound[conn][i].channel < channelIdCount
        /\ \A ch \in ChannelIds :
                acceptedBy[ch] = conn \/ ch \in clientChannels[conn] => ch < channelIdCount

\* The channel is not closed by a message before position i of the stream.
NotClosedBefore(s, i, ch) ==
    \A j \in DOMAIN s : j < i => s[j] # ClientMsg(ch, "CloseChannel")

\* An application knows the players it accepted until it is told that they left.
AcceptedIsKnown ==
    \A conn \in Connections, ch \in ChannelIds :
        appState[conn] = "up" =>
            /\ \A i \in DOMAIN southbound[conn] :
                /\ southbound[conn][i] = ClientMsg(ch, "CloseChannel") =>
                        playerChannels[ch] = "ABSENT"
                /\ southbound[conn][i] = ClientMsg(ch, "PlayerMessage") =>
                        ch \in clientChannels[conn] /\ NotClosedBefore(southbound[conn], i, ch)
            /\ playerChannels[ch] # "ABSENT" =>
                /\ acceptedBy[ch] = conn => ch \in clientChannels[conn]
                /\ \A i \in DOMAIN northbound[conn] :
                        northbound[conn][i] = ClientMsg(ch, "OpenChannelAccepted") =>
                            ch \in clientChannels[conn]

\* If an uninitialised _state never reads as open, no channel counts as open
\* before it was accepted.
NeverOpenUnwritten ==
    \A ch \in indeterminate : playerChannels[ch] = "CHANNEL_OPEN_ONGOING"

PlayerInv == FreshChannels /\ AcceptedIsKnown /\ NeverOpenUnwritten

-----------------------------------------------------------------------------
(* The order of emission.                                                  *)

\* Messages of different rank can be put in order, and the order that is chosen
\* holds each of them.  A message's place is the number of those before it.
LEMMA EmissionOrder ==
    ASSUME NEW msgs, IsFiniteSet(msgs),
           \A m \in msgs : EmissionRank(m) \in Int,
           \A m, n \in msgs : EmissionRank(m) = EmissionRank(n) => m = n
    PROVE  LET s == InEmissionOrder(msgs)
           IN  /\ s \in [1..Cardinality(msgs) -> msgs]
               /\ \A i, j \in 1..Cardinality(msgs) :
                        i < j => EmissionRank(s[i]) < EmissionRank(s[j])
               /\ \A m \in msgs : \E i \in 1..Cardinality(msgs) : s[i] = m
<1> DEFINE N == Cardinality(msgs)
           before(m) == {n \in msgs : EmissionRank(n) < EmissionRank(m)}
           place == [m \in msgs |-> Cardinality(before(m)) + 1]
           Ordered(s) == \A i, j \in DOMAIN s : i < j => EmissionRank(s[i]) < EmissionRank(s[j])
<1>1. /\ N \in Nat
      /\ N = Cardinality(msgs)
      /\ IsFiniteSet(1..N) /\ Cardinality(1..N) = N
  BY FS_CardinalityType, FS_Interval
<1>2. ASSUME NEW m \in msgs
      PROVE  /\ IsFiniteSet(before(m)) /\ Cardinality(before(m)) \in Nat
             /\ Cardinality(before(m)) + 1 <= N
  <2>1. IsFiniteSet(msgs \ {m}) /\ Cardinality(msgs \ {m}) = N - 1
    BY FS_RemoveElement
  <2>2. before(m) \subseteq msgs \ {m}
    OBVIOUS
  <2> QED
    BY <1>1, <2>1, <2>2, FS_Subset, FS_CardinalityType
<1> HIDE DEF N, before
<1>3. place \in [msgs -> 1..N]
  BY <1>1, <1>2
<1>4. ASSUME NEW m \in msgs, NEW n \in msgs, EmissionRank(m) < EmissionRank(n)
      PROVE  place[m] < place[n]
  <2>1. before(m) \cup {m} \subseteq before(n) /\ m \notin before(m)
    BY <1>4 DEF before
  <2>2. /\ IsFiniteSet(before(m) \cup {m})
        /\ Cardinality(before(m) \cup {m}) = Cardinality(before(m)) + 1
    BY <1>2, <2>1, FS_AddElement
  <2>3. Cardinality(before(m) \cup {m}) <= Cardinality(before(n))
    BY <1>2, <2>1, FS_Subset
  <2> QED
    BY <1>2, <2>2, <2>3
<1> HIDE DEF place
<1>5. place \in Injection(msgs, 1..N)
  <2> SUFFICES ASSUME NEW m \in msgs, NEW n \in msgs, m # n PROVE place[m] # place[n]
    BY <1>3 DEF Injection, IsInjective
  <2>1. EmissionRank(m) < EmissionRank(n) \/ EmissionRank(n) < EmissionRank(m)
    OBVIOUS
  <2>2. place[m] \in Nat /\ place[n] \in Nat
    BY <1>3
  <2> QED
    BY <1>4, <2>1, <2>2
<1>6. place \in Surjection(msgs, 1..N)
  BY <1>1, <1>5, FS_Injection
<1>7. \E s \in [1..N -> msgs] : Ordered(s)
  <2> DEFINE s == [i \in 1..N |-> CHOOSE m \in msgs : place[m] = i]
  <2>1. \A i \in 1..N : s[i] \in msgs /\ place[s[i]] = i
    BY <1>6 DEF Surjection
  <2>2. s \in [1..N -> msgs]
    BY <2>1
  <2> HIDE DEF s
  <2>3. ASSUME NEW i \in 1..N, NEW j \in 1..N, i < j
        PROVE  EmissionRank(s[i]) < EmissionRank(s[j])
    <3>1. s[i] \in msgs /\ s[j] \in msgs /\ place[s[i]] = i /\ place[s[j]] = j
      BY <2>1
    <3>2. EmissionRank(s[i]) # EmissionRank(s[j])
      BY <2>3, <3>1
    <3>3. ~(EmissionRank(s[j]) < EmissionRank(s[i]))
      BY <1>4, <2>3, <3>1
    <3> QED
      BY <3>1, <3>2, <3>3
  <2> QED
    BY <2>2, <2>3
<1> DEFINE s == InEmissionOrder(msgs)
<1>8. s \in [1..N -> msgs] /\ Ordered(s)
  BY <1>1, <1>7 DEF InEmissionOrder
<1> HIDE DEF s
<1>9. \A i, j \in 1..N : i < j => EmissionRank(s[i]) < EmissionRank(s[j])
  BY <1>8
<1>10. \A m \in msgs : \E i \in 1..N : s[i] = m
  <2>1. s \in Injection(1..N, msgs)
    <3> SUFFICES ASSUME NEW i \in 1..N, NEW j \in 1..N, i # j PROVE s[i] # s[j]
      BY <1>8 DEF Injection, IsInjective
    <3>1. i < j \/ j < i
      OBVIOUS
    <3>2. s[i] \in msgs /\ s[j] \in msgs
      BY <1>8
    <3> QED
      BY <1>9, <3>1, <3>2
  <2>2. s \in Surjection(1..N, msgs)
    BY <1>1, <2>1, FS_Injection
  <2> QED
    BY <2>2 DEF Surjection
<1> QED
  BY <1>8, <1>9, <1>10 DEF s, N

\* No two messages of one operation to one connection have the same rank.
SentApart ==
    \A m, n \in outgoing' :
        m.connection = n.connection /\ EmissionRank(m) = EmissionRank(n) => m = n

\* What a connection is sent is what the operation emitted for it, in order.
LEMMA SentFacts ==
    ASSUME outgoing' \subseteq Messages, SentApart, NEW conn \in Connections
    PROVE  LET s == SentTo(conn)
           IN  /\ s \in Seq(ClientMessages)
               /\ \A i \in DOMAIN s : Msg(conn, s[i].channel, s[i].command) \in outgoing'
               /\ \A ch, cmd : Msg(conn, ch, cmd) \in outgoing' =>
                        \E i \in DOMAIN s : s[i] = ClientMsg(ch, cmd)
               /\ \A i, j \in DOMAIN s : i < j => EmissionRank(s[i]) < EmissionRank(s[j])
<1> DEFINE mine == {m \in outgoing' : m.connection = conn}
           N == Cardinality(mine)
           order == InEmissionOrder(mine)
           s == SentTo(conn)
<1>1. \A m \in Messages : EmissionRank(m) \in -1..MaxChannelId
  BY MaxChannelIdAssumption DEF Messages, EmissionRank, ChannelIds, CONTROL_CHANNEL_ID
<1>2. IsFiniteSet(mine)
  <2> DEFINE rank == [m \in mine |-> EmissionRank(m)]
  <2>1. rank \in Injection(mine, -1..MaxChannelId)
    BY <1>1 DEF Injection, IsInjective, SentApart
  <2>2. IsFiniteSet(-1..MaxChannelId)
    BY MaxChannelIdAssumption, FS_Interval
  <2> HIDE DEF rank
  <2> QED
    BY <2>1, <2>2, FS_Injection
<1>3. /\ order \in [1..N -> mine]
      /\ \A i, j \in 1..N : i < j => EmissionRank(order[i]) < EmissionRank(order[j])
      /\ \A m \in mine : \E i \in 1..N : order[i] = m
  <2>1. \A m \in mine : EmissionRank(m) \in Int
    BY <1>1
  <2>2. \A m, n \in mine : EmissionRank(m) = EmissionRank(n) => m = n
    BY DEF SentApart
  <2> HIDE DEF mine
  <2> QED
    BY <1>2, <2>1, <2>2, EmissionOrder
<1>4. N \in Nat
  BY <1>2, FS_CardinalityType
<1>5. s = [i \in 1..N |-> ClientMsg(order[i].channel, order[i].command)]
  BY <1>3 DEF SentTo
<1> HIDE DEF order, s, N
<1>6. ASSUME NEW i \in 1..N
      PROVE  /\ order[i] \in outgoing' /\ order[i] = Msg(conn, s[i].channel, s[i].command)
             /\ s[i] \in ClientMessages
             /\ EmissionRank(s[i]) = EmissionRank(order[i])
  BY <1>3, <1>5 DEF Messages, Msg, ClientMsg, ClientMessages, EmissionRank
<1>7. s \in Seq(ClientMessages) /\ DOMAIN s = 1..N
  BY <1>4, <1>5, <1>6
<1>8. ASSUME NEW ch, NEW cmd, Msg(conn, ch, cmd) \in outgoing'
      PROVE  \E i \in DOMAIN s : s[i] = ClientMsg(ch, cmd)
  <2>1. Msg(conn, ch, cmd) \in mine
    BY <1>8 DEF Msg
  <2>2. PICK i \in 1..N : order[i] = Msg(conn, ch, cmd)
    BY <1>3, <2>1
  <2> QED
    BY <1>5, <1>7, <2>2 DEF Msg, ClientMsg
<1> QED
  BY <1>3, <1>6, <1>7, <1>8 DEF s

-----------------------------------------------------------------------------
(* What one operation of the manager does.                                 *)

\* Who is sent Activate has the turn, who is sent Deactivate and no Activate
\* does not have it, and for all others that are there nothing changed.
TurnStep ==
    \A conn \in Connections :
        LET gains == Msg(conn, CONTROL_CHANNEL_ID, "Activate") \in outgoing'
            loses == Msg(conn, CONTROL_CHANNEL_ID, "Deactivate") \in outgoing'
        IN  /\ gains => activeConnectionId' = conn
            /\ loses /\ ~gains => activeConnectionId' # conn
            /\ ~gains /\ ~loses /\ controlChannels'[conn] = "OPEN" =>
                    (activeConnectionId' = conn <=> activeConnectionId = conn)

\* Messages are about channels that were opened already; a player is never
\* opened again, CloseChannel is sent of those who left and PlayerMessage of
\* those who are open, to the active application.
PlayerStep ==
    /\ channelIdCount' \in Int /\ channelIdCount' >= channelIdCount
    /\ \A m \in outgoing' : /\ m.channel < channelIdCount'
                            /\ m.command = "PlayerMessage" => m.channel \in ChannelIds
    /\ \A ch \in ChannelIds :
        /\ playerChannels[ch] = "ABSENT" /\ playerChannels'[ch] # "ABSENT" =>
                ch >= channelIdCount
        /\ \A conn \in Connections :
            /\ Msg(conn, ch, "CloseChannel") \in outgoing' => playerChannels'[ch] = "ABSENT"
            /\ Msg(conn, ch, "PlayerMessage") \in outgoing' =>
                /\ playerChannels[ch] = "CHANNEL_OPEN" /\ playerChannels'[ch] = "CHANNEL_OPEN"
                /\ activeConnectionId = conn

StepFacts == SentApart /\ TurnStep /\ PlayerStep

LEMMA OpenBelowCount ==
    ASSUME IInv, NEW ch \in ChannelIds, playerChannels[ch] # "ABSENT"
    PROVE  ch < channelIdCount
BY MaxChannelIdAssumption DEF IInv, TypeOK, ChannelIds

\* An operation that sends nothing and gives nobody the turn.
LEMMA SilentFacts ==
    ASSUME IInv, outgoing' = {}, channelIdCount' = channelIdCount,
           \A conn \in Connections : controlChannels'[conn] = "OPEN" =>
                (activeConnectionId' = conn <=> activeConnectionId = conn),
           \A ch \in ChannelIds : playerChannels[ch] = "ABSENT" => playerChannels'[ch] = "ABSENT"
    PROVE  StepFacts
<1>1. SentApart
  BY DEF SentApart
<1>2. TurnStep
  BY DEF TurnStep
<1>3. PlayerStep
  BY DEF PlayerStep, IInv, TypeOK
<1> QED
  BY <1>1, <1>2, <1>3 DEF StepFacts

LEMMA IgnoredFacts == IInv /\ Ignored => StepFacts
BY SilentFacts DEF Ignored, activeVars, channelVars

LEMMA ActivationFacts ==
    ASSUME IInv, NEW conn \in Connections, Activation(conn)
    PROVE  StepFacts
<1> DEFINE chs == IF hasActiveConnection THEN Closed(playerChannels) ELSE playerChannels
<1>1. playerChannels \in ChannelMap
  BY DEF IInv, TypeOK, ChannelMap
<1>2. /\ chs \in ChannelMap
      /\ \A ch \in ChannelIds : chs[ch] = "ABSENT" <=> playerChannels[ch] = "ABSENT"
  BY <1>1, ClosedFacts
<1>3. /\ playerChannels' = Opened(chs)
      /\ activeConnectionId' = conn /\ channelIdCount' = channelIdCount
      /\ outgoing' = Farewell \cup {Msg(conn, CONTROL_CHANNEL_ID, "Activate")}
                              \cup OpenRequests(chs, conn)
  BY DEF Activation
<1>4. \A ch \in ChannelIds : Opened(chs)[ch] = "ABSENT" <=> playerChannels[ch] = "ABSENT"
  BY <1>2, OpenedFacts
<1>5. \A m \in OpenRequests(chs, conn) :
            /\ m = Msg(conn, m.channel, "OpenChannel")
            /\ m.channel \in ChannelIds /\ playerChannels[m.channel] # "ABSENT"
  BY <1>2 DEF OpenRequests, Msg
<1>6. \A m \in Farewell : /\ hasActiveConnection
                          /\ m = Msg(activeConnectionId, CONTROL_CHANNEL_ID, "Deactivate")
  BY DEF Farewell
<1> HIDE DEF chs
<1>7. \A m \in outgoing' :
        \/ hasActiveConnection /\ m = Msg(activeConnectionId, CONTROL_CHANNEL_ID, "Deactivate")
        \/ m = Msg(conn, CONTROL_CHANNEL_ID, "Activate")
        \/ /\ m = Msg(conn, m.channel, "OpenChannel")
           /\ m.channel \in ChannelIds /\ playerChannels[m.channel] # "ABSENT"
  BY <1>3, <1>5, <1>6
<1>8. SentApart
  BY <1>7, MaxChannelIdAssumption DEF SentApart, EmissionRank, Msg, CONTROL_CHANNEL_ID, ChannelIds
<1>9. TurnStep
  <2> SUFFICES ASSUME NEW other \in Connections
               PROVE  LET gains == Msg(other, CONTROL_CHANNEL_ID, "Activate") \in outgoing'
                          loses == Msg(other, CONTROL_CHANNEL_ID, "Deactivate") \in outgoing'
                      IN  /\ gains => other = conn
                          /\ loses /\ ~gains => conn # other
                          /\ ~gains /\ ~loses => conn # other /\ activeConnectionId # other
      BY <1>3 DEF TurnStep
  <2>1. Msg(conn, CONTROL_CHANNEL_ID, "Activate") \in outgoing'
    BY <1>3
  <2>2. hasActiveConnection =>
            Msg(activeConnectionId, CONTROL_CHANNEL_ID, "Deactivate") \in outgoing'
    BY <1>3 DEF Farewell
  <2>3. activeConnectionId = other => hasActiveConnection
    BY ConnectionIsSome DEF hasActiveConnection
  <2>4. Msg(other, CONTROL_CHANNEL_ID, "Activate") \in outgoing' => other = conn
    BY <1>7 DEF Msg
  <2> QED
    BY <2>1, <2>2, <2>3, <2>4
<1>10. PlayerStep
  <2>1. \A m \in outgoing' : m.channel < channelIdCount
    <3> SUFFICES ASSUME NEW m \in outgoing' PROVE m.channel < channelIdCount
        OBVIOUS
    <3>1. CASE m.channel = CONTROL_CHANNEL_ID
      BY <3>1, MaxChannelIdAssumption DEF IInv, TypeOK, CONTROL_CHANNEL_ID
    <3>2. CASE m.channel # CONTROL_CHANNEL_ID
      BY <1>7, <3>2, OpenBelowCount DEF Msg
    <3> QED
      BY <3>1, <3>2
  <2>2. \A other, ch : /\ Msg(other, ch, "CloseChannel") \notin outgoing'
                       /\ Msg(other, ch, "PlayerMessage") \notin outgoing'
    BY <1>7 DEF Msg
  <2>3. \A m \in outgoing' : m.command # "PlayerMessage"
    BY <1>7 DEF Msg
  <2> QED
    BY <1>3, <1>4, <2>1, <2>2, <2>3, MaxChannelIdAssumption DEF PlayerStep, IInv, TypeOK
<1> QED
  BY <1>8, <1>9, <1>10 DEF StepFacts

LEMMA DeactivateFacts ==
    ASSUME IInv, NEW conn \in Connections, DeactivateConnection(conn)
    PROVE  StepFacts
<1>1. CASE controlChannels[conn] # "OPEN" \/ activeConnectionId # conn
  BY <1>1, IgnoredFacts DEF DeactivateConnection
<1>2. CASE ~(controlChannels[conn] # "OPEN" \/ activeConnectionId # conn)
  <2>1. Tail(activeConnectionIdsStack) = <<>>
    BY <1>2, ConnectionIsSome, SingletonStack DEF IInv, StackFollowsActive
  <2>2. /\ activeConnectionId' = NoConnection
        /\ outgoing' = {Msg(conn, CONTROL_CHANNEL_ID, "Deactivate")}
        /\ playerChannels' = Closed(playerChannels)
        /\ channelIdCount' = channelIdCount
    BY <1>2, <2>1 DEF DeactivateConnection
  <2>3. SentApart
    BY <2>2 DEF SentApart
  <2>4. TurnStep
    BY <1>2, <2>2, ConnectionIsSome DEF TurnStep, Msg
  <2>5. PlayerStep
    <3>1. \A ch \in ChannelIds : playerChannels[ch] = "ABSENT" => playerChannels'[ch] = "ABSENT"
      BY <2>2, ClosedFacts DEF IInv, TypeOK, ChannelMap
    <3>2. \A m \in outgoing' : m.channel < channelIdCount'
      BY <2>2, MaxChannelIdAssumption DEF IInv, TypeOK, Msg, CONTROL_CHANNEL_ID
    <3>3. /\ \A m \in outgoing' : m.command # "PlayerMessage"
          /\ \A other, ch : Msg(other, ch, "CloseChannel") \notin outgoing'
          /\ \A other, ch : Msg(other, ch, "PlayerMessage") \notin outgoing'
      BY <2>2 DEF Msg
    <3> QED
      BY <2>2, <3>1, <3>2, <3>3, MaxChannelIdAssumption DEF PlayerStep, IInv, TypeOK
  <2> QED
    BY <2>3, <2>4, <2>5 DEF StepFacts
<1> QED
  BY <1>1, <1>2

LEMMA ApplicationClosedFacts ==
    ASSUME IInv, NEW conn \in Connections, ApplicationClosed(conn)
    PROVE  StepFacts
<1>1. CASE controlChannels[conn] # "OPEN"
  BY <1>1, IgnoredFacts DEF ApplicationClosed
<1>2. CASE controlChannels[conn] = "OPEN"
  <2>1. conn = activeConnectionId => Tail(activeConnectionIdsStack) = <<>>
    BY ConnectionIsSome, SingletonStack DEF IInv, StackFollowsActive
  <2>2. /\ controlChannels' = [controlChannels EXCEPT ![conn] = "GONE"]
        /\ activeConnectionId' = IF conn = activeConnectionId
                                 THEN NoConnection ELSE activeConnectionId
        /\ playerChannels' = Closed(playerChannels)
        /\ channelIdCount' = channelIdCount
        /\ outgoing' = {}
    BY <1>2, <2>1 DEF ApplicationClosed
  <2>3. \A ch \in ChannelIds : playerChannels[ch] = "ABSENT" => playerChannels'[ch] = "ABSENT"
    BY <2>2, ClosedFacts DEF IInv, TypeOK, ChannelMap
  <2>4. \A other \in Connections : controlChannels'[other] = "OPEN" =>
            (activeConnectionId' = other <=> activeConnectionId = other)
    BY <2>2, ConnectionIsSome DEF IInv, TypeOK
  <2> QED
    BY <2>2, <2>3, <2>4, SilentFacts
<1> QED
  BY <1>1, <1>2

\* An operation that sends at most one message, on a player channel, and leaves
\* the turn alone.
LEMMA OneMessageFacts ==
    ASSUME IInv, activeConnectionId' = activeConnectionId,
           NEW c, NEW ch \in ChannelIds, NEW cmd \in {"OpenChannel", "CloseChannel", "PlayerMessage"},
           outgoing' \subseteq {Msg(c, ch, cmd)}, PlayerStep
    PROVE  StepFacts
<1>1. ch # CONTROL_CHANNEL_ID
  BY MaxChannelIdAssumption DEF ChannelIds, CONTROL_CHANNEL_ID
<1>2. SentApart
  BY DEF SentApart
<1>3. TurnStep
  BY <1>1 DEF TurnStep, Msg
<1> QED
  BY <1>2, <1>3 DEF StepFacts

LEMMA OpenPlayerChannelFacts == IInv /\ OpenPlayerChannel => StepFacts
<1> SUFFICES ASSUME IInv, OpenPlayerChannel PROVE StepFacts
    OBVIOUS
<1>1. /\ channelIdCount \in ChannelIds
      /\ channelIdCount' = channelIdCount + 1
      /\ activeConnectionId' = activeConnectionId
      /\ outgoing' \subseteq {Msg(activeConnectionId, channelIdCount, "OpenChannel")}
      /\ \E state : playerChannels' = [playerChannels EXCEPT ![channelIdCount] = state]
  BY DEF OpenPlayerChannel, activeVars
<1>2. PlayerStep
  <2>1. \A ch \in ChannelIds :
            playerChannels[ch] = "ABSENT" /\ playerChannels'[ch] # "ABSENT" => ch >= channelIdCount
    BY <1>1, MaxChannelIdAssumption DEF IInv, TypeOK, ChannelIds
  <2>2. channelIdCount \in Int
    BY <1>1, MaxChannelIdAssumption DEF ChannelIds
  <2>3. \A m \in outgoing' : m = Msg(activeConnectionId, channelIdCount, "OpenChannel")
    BY <1>1
  <2>4. \A m \in outgoing' : m.channel = channelIdCount /\ m.command = "OpenChannel"
    BY <2>3 DEF Msg
  <2>5. \A conn, ch, cmd : Msg(conn, ch, cmd) \in outgoing' => cmd = "OpenChannel"
    BY <2>4 DEF Msg
  <2> QED
    BY <1>1, <2>1, <2>2, <2>4, <2>5 DEF PlayerStep
<1> QED
  BY <1>1, <1>2, OneMessageFacts

LEMMA ClosePlayerChannelFacts ==
    ASSUME IInv, NEW ch \in ChannelIds, ClosePlayerChannel(ch)
    PROVE  StepFacts
<1>1. /\ playerChannels[ch] # "ABSENT"
      /\ channelIdCount' = channelIdCount
      /\ activeConnectionId' = activeConnectionId
      /\ outgoing' \subseteq {Msg(activeConnectionId, ch, "CloseChannel")}
      /\ playerChannels' = [playerChannels EXCEPT ![ch] = "ABSENT"]
  BY DEF ClosePlayerChannel, activeVars
<1>2. PlayerStep
  <2>1. \A m \in outgoing' : m = Msg(activeConnectionId, ch, "CloseChannel")
    BY <1>1
  <2>2. \A m \in outgoing' : m.channel = ch /\ m.command = "CloseChannel"
    BY <2>1 DEF Msg
  <2>3. \A conn, c, cmd : Msg(conn, c, cmd) \in outgoing' => cmd = "CloseChannel" /\ c = ch
    BY <2>2 DEF Msg
  <2>4. ch < channelIdCount
    BY <1>1, OpenBelowCount
  <2>5. playerChannels'[ch] = "ABSENT" /\ (\A c \in ChannelIds :
            playerChannels[c] = "ABSENT" => playerChannels'[c] = "ABSENT")
    BY <1>1 DEF IInv, TypeOK
  <2>6. channelIdCount \in Int
    BY MaxChannelIdAssumption DEF IInv, TypeOK
  <2> QED
    BY <1>1, <2>2, <2>3, <2>4, <2>5, <2>6 DEF PlayerStep
<1> QED
  BY <1>1, <1>2, OneMessageFacts

LEMMA FromNorthFacts ==
    ASSUME IInv, NEW ch \in ChannelIds, NEW action, ReceivePlayerMessageFromNorth(ch, action)
    PROVE  StepFacts
<1>1. /\ playerChannels[ch] # "ABSENT"
      /\ UNCHANGED <<channelIdCount, activeConnectionId, playerChannels>>
      /\ outgoing' \subseteq {Msg(activeConnectionId, ch, "PlayerMessage")}
      /\ outgoing' # {} => playerChannels[ch] = "CHANNEL_OPEN"
  BY DEF ReceivePlayerMessageFromNorth, Forwards, activeVars, channelVars
<1>2. PlayerStep
  <2>1. \A m \in outgoing' : m = Msg(activeConnectionId, ch, "PlayerMessage")
    BY <1>1
  <2>2. \A m \in outgoing' : m.channel = ch
    BY <2>1 DEF Msg
  <2>3. \A conn, c, cmd : Msg(conn, c, cmd) \in outgoing' =>
            cmd = "PlayerMessage" /\ c = ch /\ conn = activeConnectionId
    BY <2>1 DEF Msg
  <2>4. ch < channelIdCount
    BY <1>1, OpenBelowCount
  <2>5. channelIdCount \in Int
    BY MaxChannelIdAssumption DEF IInv, TypeOK
  <2> QED
    BY <1>1, <2>2, <2>3, <2>4, <2>5 DEF PlayerStep
<1> QED
  BY <1>1, <1>2, OneMessageFacts

LEMMA FromSouthFacts ==
    ASSUME IInv, NEW conn \in Connections, NEW ch \in ChannelIds \cup {CONTROL_CHANNEL_ID},
           NEW cmd \in SouthCommands, ProcessMessageFromSouth(conn, ch, cmd)
    PROVE  StepFacts
<1>1. CASE ch = CONTROL_CHANNEL_ID
  <2>1. /\ outgoing' \subseteq {Msg(conn, CONTROL_CHANNEL_ID, "PingReply")}
        /\ UNCHANGED <<activeConnectionId, channelIdCount, playerChannels>>
    BY <1>1 DEF ProcessMessageFromSouth, ProcessControlMessage, activeVars, channelVars
  <2>2. SentApart
    BY <2>1 DEF SentApart
  <2>3. TurnStep
    BY <2>1 DEF TurnStep, Msg
  <2>4. PlayerStep
    <3>1. \A m \in outgoing' : m = Msg(conn, CONTROL_CHANNEL_ID, "PingReply")
      BY <2>1
    <3>2. \A m \in outgoing' : m.channel < channelIdCount'
      BY <2>1, <3>1, MaxChannelIdAssumption DEF IInv, TypeOK, Msg, CONTROL_CHANNEL_ID
    <3>3. /\ \A m \in outgoing' : m.command # "PlayerMessage"
          /\ \A other, c, k : Msg(other, c, k) \in outgoing' => k = "PingReply"
      BY <3>1 DEF Msg
    <3> QED
      BY <2>1, <3>2, <3>3, MaxChannelIdAssumption DEF PlayerStep, IInv, TypeOK
  <2> QED
    BY <2>2, <2>3, <2>4 DEF StepFacts
<1>2. CASE ch # CONTROL_CHANNEL_ID /\ ~ListenedTo(conn, ch)
  BY <1>2, IgnoredFacts DEF ProcessMessageFromSouth, ProcessPlayerChannelMessage
<1>3. CASE ch # CONTROL_CHANNEL_ID /\ ListenedTo(conn, ch)
  <2>1. /\ ch \in ChannelIds /\ playerChannels[ch] # "ABSENT"
        /\ outgoing' = {}
        /\ UNCHANGED <<activeConnectionId, channelIdCount>>
        /\ \/ playerChannels' = playerChannels
           \/ playerChannels' = [playerChannels EXCEPT ![ch] = "CHANNEL_OPEN"]
    BY <1>3 DEF ProcessMessageFromSouth, ProcessPlayerChannelMessage, ListenedTo, activeVars
  <2>2. \A c \in ChannelIds : playerChannels[c] = "ABSENT" => playerChannels'[c] = "ABSENT"
    BY <2>1 DEF IInv, TypeOK
  <2> QED
    BY <2>1, <2>2, SilentFacts
<1> QED
  BY <1>1, <1>2, <1>3

-----------------------------------------------------------------------------
(* The streams.                                                            *)

\* What an operation sends to a connection leads to what it did.
Tells(t, was, is) ==
    \/ (\A i \in DOMAIN t : ~IsSwitch(t[i])) /\ (was <=> is)
    \/ \E i \in DOMAIN t : IsLastSwitch(t, i) /\ (t[i].command = "Activate" <=> is)

LEMMA SentTells ==
    ASSUME outgoing' \subseteq Messages, SentApart, TurnStep,
           NEW conn \in Connections, controlChannels'[conn] = "OPEN"
    PROVE  Tells(SentTo(conn), activeConnectionId = conn, activeConnectionId' = conn)
<1> DEFINE t == SentTo(conn)
           gains == Msg(conn, CONTROL_CHANNEL_ID, "Activate") \in outgoing'
           loses == Msg(conn, CONTROL_CHANNEL_ID, "Deactivate") \in outgoing'
<1>1. /\ \A i \in DOMAIN t : Msg(conn, t[i].channel, t[i].command) \in outgoing'
      /\ \A ch, cmd : Msg(conn, ch, cmd) \in outgoing' =>
            \E i \in DOMAIN t : t[i] = ClientMsg(ch, cmd)
      /\ \A i, j \in DOMAIN t : i < j => EmissionRank(t[i]) < EmissionRank(t[j])
      /\ DOMAIN t \subseteq Int
  BY SentFacts
<1> SUFFICES Tells(t, activeConnectionId = conn, activeConnectionId' = conn)
    OBVIOUS
<1> HIDE DEF t
<1>2. CASE gains
  <2>1. PICK i \in DOMAIN t : t[i] = ClientMsg(CONTROL_CHANNEL_ID, "Activate")
    BY <1>1, <1>2
  <2>2. ASSUME NEW j \in DOMAIN t, j > i PROVE ~IsSwitch(t[j])
    BY <1>1, <2>1, <2>2 DEF EmissionRank, IsSwitch, ClientMsg, CONTROL_CHANNEL_ID
  <2>3. activeConnectionId' = conn
    BY <1>2 DEF TurnStep
  <2> QED
    BY <2>1, <2>2, <2>3 DEF Tells, IsLastSwitch, IsSwitch, ClientMsg
<1>3. CASE loses /\ ~gains
  <2>1. PICK i \in DOMAIN t : t[i] = ClientMsg(CONTROL_CHANNEL_ID, "Deactivate")
    BY <1>1, <1>3
  <2>2. ASSUME NEW j \in DOMAIN t, j > i PROVE ~IsSwitch(t[j])
    <3>1. t[j].command = "Activate" => t[j].channel # CONTROL_CHANNEL_ID
      BY <1>1, <1>3
    <3>2. t[j].command # "Deactivate"
      BY <1>1, <2>1, <2>2 DEF EmissionRank, ClientMsg
    <3> QED
      BY <3>1, <3>2 DEF IsSwitch
  <2>3. activeConnectionId' # conn
    BY <1>3 DEF TurnStep
  <2> QED
    BY <2>1, <2>2, <2>3 DEF Tells, IsLastSwitch, IsSwitch, ClientMsg
<1>4. CASE ~gains /\ ~loses
  <2>1. \A i \in DOMAIN t : ~IsSwitch(t[i])
    BY <1>1, <1>4 DEF IsSwitch
  <2>2. activeConnectionId' = conn <=> activeConnectionId = conn
    BY <1>4 DEF TurnStep
  <2> QED
    BY <2>1, <2>2 DEF Tells
<1> QED
  BY <1>2, <1>3, <1>4

\* Positions in a stream that was appended to.
LEMMA AppendedPositions ==
    ASSUME NEW S, NEW s \in Seq(S), NEW t \in Seq(S)
    PROVE  /\ s \o t \in Seq(S)
           /\ Len(s) \in Nat /\ Len(t) \in Nat
           /\ DOMAIN s = 1..Len(s) /\ DOMAIN t = 1..Len(t)
           /\ DOMAIN (s \o t) = 1..(Len(s) + Len(t))
           /\ \A i \in DOMAIN s : i \in DOMAIN (s \o t) /\ (s \o t)[i] = s[i]
           /\ \A i \in DOMAIN t : Len(s) + i \in DOMAIN (s \o t) /\ (s \o t)[Len(s) + i] = t[i]
           /\ \A i \in DOMAIN (s \o t) :
                \/ i \in DOMAIN s
                \/ i > Len(s) /\ i - Len(s) \in DOMAIN t /\ (s \o t)[i] = t[i - Len(s)]
OBVIOUS

\* Positions in a stream with one message more.
LEMMA AppendedOne ==
    ASSUME NEW S, NEW s \in Seq(S), NEW a \in S
    PROVE  \A i \in DOMAIN Append(s, a) :
                (i \in DOMAIN s /\ Append(s, a)[i] = s[i]) \/ Append(s, a)[i] = a
BY SMTT(30)

\* Positions in a stream whose first message was read.
LEMMA TailPositions ==
    ASSUME NEW S, NEW s \in Seq(S), s # <<>>
    PROVE  /\ Tail(s) \in Seq(S) /\ Head(s) \in S /\ Head(s) = s[1]
           /\ Len(s) \in Nat /\ DOMAIN s = 1..Len(s) /\ Len(s) >= 1
           /\ DOMAIN Tail(s) = 1..(Len(s) - 1)
           /\ \A i \in DOMAIN Tail(s) : i + 1 \in DOMAIN s /\ Tail(s)[i] = s[i + 1]
           /\ \A i \in DOMAIN s : i = 1 \/ (i - 1 \in DOMAIN Tail(s) /\ s[i] = Tail(s)[i - 1])
OBVIOUS

LEMMA LeadsOn ==
    ASSUME NEW s \in Seq(ClientMessages), NEW t \in Seq(ClientMessages),
           NEW knows \in BOOLEAN, NEW was \in BOOLEAN, NEW is \in BOOLEAN,
           Tells(t, was, is),
           LeadsTo(s, knows, was) \/ \E i \in DOMAIN t : IsSwitch(t[i])
    PROVE  LeadsTo(s \o t, knows, is)
<1> DEFINE u == s \o t
<1>1. /\ Len(s) \in Nat /\ Len(t) \in Nat
      /\ DOMAIN s = 1..Len(s) /\ DOMAIN t = 1..Len(t) /\ DOMAIN u = 1..(Len(s) + Len(t))
      /\ \A i \in DOMAIN s : i \in DOMAIN u /\ u[i] = s[i]
      /\ \A i \in DOMAIN t : Len(s) + i \in DOMAIN u /\ u[Len(s) + i] = t[i]
      /\ \A i \in DOMAIN u : i \in DOMAIN s \/ (i > Len(s) /\ i - Len(s) \in DOMAIN t /\ u[i] = t[i - Len(s)])
  BY AppendedPositions
<1> HIDE DEF u
<1>2. CASE /\ \A i \in DOMAIN t : ~IsSwitch(t[i])
           /\ was <=> is
  <2>1. LeadsTo(s, knows, was)
    BY <1>2
  <2>2. ASSUME NEW i \in DOMAIN u, IsLastSwitch(u, i)
        PROVE  u[i].command = "Activate" <=> is
    <3>1. i \in DOMAIN s /\ u[i] = s[i]
      BY <1>1, <1>2, <2>2 DEF IsLastSwitch
    <3>2. \A j \in DOMAIN s : j > i => ~IsSwitch(s[j])
      BY <1>1, <2>2 DEF IsLastSwitch
    <3>3. IsLastSwitch(s, i)
      BY <2>2, <3>1, <3>2 DEF IsLastSwitch
    <3> QED
      BY <1>2, <2>1, <3>1, <3>3 DEF LeadsTo
  <2>3. ASSUME \A i \in DOMAIN u : ~IsSwitch(u[i])
        PROVE  knows <=> is
    <3>1. \A i \in DOMAIN s : ~IsSwitch(s[i])
      BY <1>1, <2>3
    <3> QED
      BY <1>2, <2>1, <3>1 DEF LeadsTo
  <2> QED
    BY <2>2, <2>3 DEF LeadsTo, u
<1>3. ASSUME NEW k \in DOMAIN t, IsLastSwitch(t, k), t[k].command = "Activate" <=> is
      PROVE  LeadsTo(u, knows, is)
  <2>1. Len(s) + k \in DOMAIN u /\ u[Len(s) + k] = t[k] /\ IsSwitch(t[k])
    BY <1>1, <1>3 DEF IsLastSwitch
  <2>2. ASSUME NEW i \in DOMAIN u, IsLastSwitch(u, i)
        PROVE  u[i].command = "Activate" <=> is
    <3>1. i >= Len(s) + k
      BY <1>1, <2>1, <2>2 DEF IsLastSwitch
    <3>2. i - Len(s) \in DOMAIN t /\ u[i] = t[i - Len(s)]
      BY <1>1, <3>1
    <3>3. ~(i - Len(s) > k)
      BY <1>3, <2>2, <3>2 DEF IsLastSwitch
    <3>4. i - Len(s) = k
      BY <1>1, <3>1, <3>2, <3>3
    <3> QED
      BY <1>3, <3>2, <3>4
  <2> QED
    BY <2>1, <2>2 DEF LeadsTo
<1> QED
  BY <1>2, <1>3 DEF Tells, u

LEMMA LeadsAfterRead ==
    ASSUME NEW s \in Seq(ClientMessages), s # <<>>,
           NEW knows \in BOOLEAN, NEW is \in BOOLEAN, LeadsTo(s, knows, is)
    PROVE  LeadsTo(Tail(s),
                   IF IsSwitch(Head(s)) THEN Head(s).command = "Activate" ELSE knows, is)
<1> DEFINE r == Tail(s)
           learnt == IF IsSwitch(Head(s)) THEN Head(s).command = "Activate" ELSE knows
<1>1. /\ Head(s) = s[1]
      /\ Len(s) \in Nat /\ DOMAIN s = 1..Len(s) /\ Len(s) >= 1
      /\ DOMAIN r = 1..(Len(s) - 1)
      /\ \A i \in DOMAIN r : i + 1 \in DOMAIN s /\ r[i] = s[i + 1]
      /\ \A i \in DOMAIN s : i = 1 \/ (i - 1 \in DOMAIN r /\ s[i] = r[i - 1])
  BY TailPositions
<1> HIDE DEF r
<1>2. ASSUME NEW i \in DOMAIN r, IsLastSwitch(r, i)
      PROVE  r[i].command = "Activate" <=> is
  <2>1. i + 1 \in DOMAIN s /\ r[i] = s[i + 1]
    BY <1>1
  <2>2. \A j \in DOMAIN s : j > i + 1 => ~IsSwitch(s[j])
    BY <1>1, <1>2 DEF IsLastSwitch
  <2>3. IsLastSwitch(s, i + 1)
    BY <1>2, <2>1, <2>2 DEF IsLastSwitch
  <2> QED
    BY <2>1, <2>3 DEF LeadsTo
<1>3. ASSUME \A i \in DOMAIN r : ~IsSwitch(r[i])
      PROVE  learnt <=> is
  <2>1. \A j \in DOMAIN s : j > 1 => ~IsSwitch(s[j])
    BY <1>1, <1>3
  <2>2. 1 \in DOMAIN s
    BY <1>1
  <2>3. CASE IsSwitch(s[1])
    <3>1. IsLastSwitch(s, 1)
      BY <2>1, <2>3 DEF IsLastSwitch
    <3>2. s[1].command = "Activate" <=> is
      BY <2>2, <3>1 DEF LeadsTo
    <3> QED
      BY <1>1, <2>3, <3>2
  <2>4. CASE ~IsSwitch(s[1])
    <3>1. \A j \in DOMAIN s : ~IsSwitch(s[j])
      BY <1>1, <2>1, <2>4
    <3>2. knows <=> is
      BY <3>1 DEF LeadsTo
    <3> QED
      BY <1>1, <2>4, <3>2
  <2> QED
    BY <2>3, <2>4
<1> QED
  BY <1>2, <1>3 DEF LeadsTo, r

-----------------------------------------------------------------------------
(* What the applications know.                                             *)

LEMMA InitAppInv == AppInit => IInv /\ AppInv
<1> SUFFICES ASSUME AppInit PROVE IInv /\ AppInv
    OBVIOUS
<1>1. IInv
  BY InitIInv DEF AppInit
<1>2. /\ appState = [conn \in Connections |-> "down"]
      /\ southbound = [conn \in Connections |-> <<>>]
      /\ northbound = [conn \in Connections |-> <<>>]
      /\ clientChannels = [conn \in Connections |-> {}]
      /\ activated = [conn \in Connections |-> FALSE]
      /\ controlChannels = [conn \in Connections |-> "NONE"]
      /\ acceptedBy = [ch \in ChannelIds |-> NoConnection]
  BY DEF AppInit, Init
<1>3. StreamsOK
  BY <1>2 DEF StreamsOK, AppStates
<1>4. LifeCycle
  BY <1>2, ConnectionIsSome DEF LifeCycle
<1>5. StreamsTell
  BY <1>2 DEF StreamsTell
<1> QED
  BY <1>1, <1>3, <1>4, <1>5 DEF AppInv

\* An operation of the server leaves every stream leading to what the server
\* holds, if only applications that are sent Activate appear.
LEMMA TransmitAppInv ==
    ASSUME IInv', AppInv, StepFacts, Transmit, UNCHANGED clientVars,
           appState' \in [Connections -> AppStates],
           northbound' \in [Connections -> Seq(ServerMessages)],
           \A conn \in Connections :
                /\ appState'[conn] = "up" =>
                    /\ controlChannels'[conn] = "OPEN"
                    /\ \/ appState[conn] = "up"
                       \/ Msg(conn, CONTROL_CHANNEL_ID, "Activate") \in outgoing'
                /\ appState'[conn] # "up" => appState[conn] # "up"
                /\ appState'[conn] \in NotYetConnected =>
                    /\ controlChannels'[conn] = "NONE"
                    /\ northbound'[conn] = <<>>
                    /\ \A ch \in ChannelIds : acceptedBy'[ch] # conn
    PROVE  AppInv'
<1> USE DEF AppStates, NotYetConnected
<1>1. ASSUME NEW conn \in Connections
      PROVE  SentTo(conn) \in Seq(ClientMessages) /\ southbound[conn] \in Seq(ClientMessages)
  BY SentFacts DEF IInv, TypeOK, StepFacts, AppInv, StreamsOK
<1>2. ASSUME NEW conn \in Connections
      PROVE  southbound'[conn] = IF appState'[conn] = "up"
                                 THEN southbound[conn] \o SentTo(conn) ELSE <<>>
  BY DEF Transmit
<1>3. StreamsOK'
  <2>1. southbound' = [conn \in Connections |-> southbound'[conn]]
    BY DEF Transmit
  <2>2. ASSUME NEW conn \in Connections PROVE southbound'[conn] \in Seq(ClientMessages)
    <3>1. southbound[conn] \o SentTo(conn) \in Seq(ClientMessages)
      BY <1>1, AppendedPositions
    <3>2. <<>> \in Seq(ClientMessages)
      OBVIOUS
    <3>3. CASE appState'[conn] = "up"
      BY <1>2, <3>1, <3>3
    <3>4. CASE appState'[conn] # "up"
      BY <1>2, <3>2, <3>4
    <3> QED
      BY <3>3, <3>4
  <2>3. southbound' \in [Connections -> Seq(ClientMessages)]
    BY <2>1, <2>2
  <2> QED
    BY <2>3 DEF StreamsOK, AppInv, clientVars
<1>4. LifeCycle'
  BY <1>2 DEF LifeCycle, AppInv, clientVars
<1>5. StreamsTell'
  <2> SUFFICES ASSUME NEW conn \in Connections, appState'[conn] = "up"
               PROVE  LeadsTo(southbound'[conn], activated[conn], activeConnectionId' = conn)
      BY DEF StreamsTell, clientVars
  <2> DEFINE t == SentTo(conn)
             was == activeConnectionId = conn
             is == activeConnectionId' = conn
  <2>1. Tells(t, was, is)
    BY SentTells DEF IInv, TypeOK, StepFacts
  <2>2. /\ southbound[conn] \in Seq(ClientMessages) /\ t \in Seq(ClientMessages)
        /\ southbound'[conn] = southbound[conn] \o t
    BY <1>1, <1>2
  <2>3. \A ch, cmd : Msg(conn, ch, cmd) \in outgoing' =>
            \E i \in DOMAIN t : t[i] = ClientMsg(ch, cmd)
    BY SentFacts DEF IInv, TypeOK, StepFacts
  <2> HIDE DEF t
  <2>4. \/ LeadsTo(southbound[conn], activated[conn], was)
        \/ \E i \in DOMAIN t : IsSwitch(t[i])
    <3>1. CASE appState[conn] = "up"
      BY <3>1 DEF AppInv, StreamsTell
    <3>2. CASE Msg(conn, CONTROL_CHANNEL_ID, "Activate") \in outgoing'
      BY <2>3, <3>2 DEF IsSwitch, ClientMsg
    <3> QED
      BY <3>1, <3>2
  <2>5. /\ activated[conn] \in BOOLEAN
        /\ was \in BOOLEAN
        /\ is \in BOOLEAN
    BY DEF AppInv, StreamsOK
  <2> HIDE DEF was, is
  <2>6. LeadsTo(southbound[conn] \o t, activated[conn], is)
    BY <2>1, <2>2, <2>4, <2>5, LeadsOn
  <2> QED
    BY <2>2, <2>6 DEF is
<1> QED
  BY <1>3, <1>4, <1>5 DEF AppInv

\* Which manager operation each step of the composition is.
LEMMA NextIsNext == StreamsOK /\ AppNext => [Next]_vars
<1> SUFFICES ASSUME StreamsOK, AppNext PROVE [Next]_vars
    OBVIOUS
<1>1. ASSUME NEW conn \in Connections, ServerReceives(conn) PROVE Next
  <2>1. Head(northbound[conn]) \in ServerMessages
    BY <1>1 DEF ServerReceives, StreamsOK
  <2>2. /\ Head(northbound[conn]).channel \in ChannelIds
        /\ Head(northbound[conn]).command \in SouthCommands
    BY <2>1 DEF ServerMessages, SouthCommands
  <2> QED
    BY <1>1, <2>2 DEF ServerReceives, Next
<1>2. ASSUME ServerOperates PROVE Next
  BY <1>2, WaitAppsAssumption DEF ServerOperates, Next
<1> QED
  BY <1>1, <1>2 DEF AppNext, Next, AppConnects, ServerNoticesExit, AppReceives,
                    ReconnectDiscarded, AppSendsPlayerMessage, AppExits, ConnectionBreaks

\* A stutter of the manager.
LEMMA AppStepIInv == IInv /\ StreamsOK /\ [AppNext]_allVars => IInv'
<1>1. UNCHANGED allVars => UNCHANGED vars
  BY DEF allVars
<1> QED
  BY <1>1, NextIsNext, NextIInv

LEMMA ConnectsAppInv ==
    ASSUME IInv, IInv', AppInv, NEW conn \in Connections, AppConnects(conn)
    PROVE  StepFacts /\ AppInv'
<1> USE DEF AppStates, NotYetConnected
<1>1. /\ ConnectionValidated(conn) /\ Transmit /\ UNCHANGED clientVars
      /\ appState[conn] \in NotYetConnected
      /\ appState' = [appState EXCEPT ![conn] = "up"]
      /\ northbound' = northbound
  BY DEF AppConnects
<1>2. /\ Activation(conn)
      /\ controlChannels' = [controlChannels EXCEPT ![conn] = "OPEN"]
  BY <1>1 DEF ConnectionValidated
<1>3. acceptedBy' = acceptedBy /\ Msg(conn, CONTROL_CHANNEL_ID, "Activate") \in outgoing'
  BY <1>2 DEF Activation
<1>4. StepFacts
  BY <1>2, ActivationFacts
<1>5. /\ controlChannels \in [Connections -> {"NONE", "OPEN", "GONE"}]
      /\ appState \in [Connections -> AppStates]
      /\ northbound \in [Connections -> Seq(ServerMessages)]
  BY DEF IInv, TypeOK, AppInv, StreamsOK
<1>6. ASSUME NEW other \in Connections
      PROVE  /\ appState'[other] = "up" =>
                /\ controlChannels'[other] = "OPEN"
                /\ \/ appState[other] = "up"
                   \/ Msg(other, CONTROL_CHANNEL_ID, "Activate") \in outgoing'
             /\ appState'[other] # "up" => appState[other] # "up"
             /\ appState'[other] \in NotYetConnected =>
                /\ controlChannels'[other] = "NONE"
                /\ northbound'[other] = <<>>
                /\ \A ch \in ChannelIds : acceptedBy'[ch] # other
  BY <1>1, <1>2, <1>3, <1>5 DEF AppInv, LifeCycle
<1> QED
  BY <1>1, <1>4, <1>5, <1>6, TransmitAppInv

LEMMA OperatesAppInv ==
    ASSUME IInv, IInv', AppInv, ServerOperates
    PROVE  StepFacts /\ AppInv'
<1>1. /\ Transmit /\ UNCHANGED clientVars
      /\ appState' = appState /\ northbound' = northbound
  BY DEF ServerOperates
<1>2. StepFacts /\ controlChannels' = controlChannels /\ acceptedBy' = acceptedBy
  <2>1. ASSUME NEW conn \in WaitApps, ActivateConnection(conn)
        PROVE  StepFacts /\ controlChannels' = controlChannels /\ acceptedBy' = acceptedBy
    BY <2>1, WaitAppsAssumption, ActivationFacts, IgnoredFacts
    DEF ActivateConnection, Activation, Ignored, channelVars
  <2>2. ASSUME NEW conn \in WaitApps, DeactivateConnection(conn)
        PROVE  StepFacts /\ controlChannels' = controlChannels /\ acceptedBy' = acceptedBy
    BY <2>2, WaitAppsAssumption, DeactivateFacts DEF DeactivateConnection, Ignored, channelVars
  <2>3. ASSUME OpenPlayerChannel
        PROVE  StepFacts /\ controlChannels' = controlChannels /\ acceptedBy' = acceptedBy
    BY <2>3, OpenPlayerChannelFacts DEF OpenPlayerChannel
  <2>4. ASSUME NEW ch \in ChannelIds, ClosePlayerChannel(ch)
        PROVE  StepFacts /\ controlChannels' = controlChannels /\ acceptedBy' = acceptedBy
    BY <2>4, ClosePlayerChannelFacts DEF ClosePlayerChannel
  <2>5. ASSUME NEW ch \in ChannelIds, ReceivePlayerMessageFromNorth(ch, "other")
        PROVE  StepFacts /\ controlChannels' = controlChannels /\ acceptedBy' = acceptedBy
    BY <2>5, FromNorthFacts DEF ReceivePlayerMessageFromNorth, channelVars
  <2> QED
    BY <2>1, <2>2, <2>3, <2>4, <2>5 DEF ServerOperates
<1> QED
  BY <1>1, <1>2, TransmitAppInv DEF AppInv, StreamsOK, LifeCycle

LEMMA ReceivesAppInv ==
    ASSUME IInv, IInv', AppInv, NEW conn \in Connections, ServerReceives(conn)
    PROVE  StepFacts /\ AppInv'
<1> USE DEF AppStates, NotYetConnected
<1> DEFINE m == Head(northbound[conn])
<1>1. /\ northbound[conn] # <<>>
      /\ ProcessMessageFromSouth(conn, m.channel, m.command)
      /\ northbound' = [northbound EXCEPT ![conn] = Tail(@)]
      /\ appState' = appState /\ Transmit /\ UNCHANGED clientVars
  BY DEF ServerReceives
<1>2. northbound \in [Connections -> Seq(ServerMessages)]
  BY DEF AppInv, StreamsOK
<1>3. m \in ServerMessages /\ Tail(northbound[conn]) \in Seq(ServerMessages)
  BY <1>1, <1>2
<1>4. m.channel \in ChannelIds /\ m.command \in SouthCommands
  BY <1>3 DEF ServerMessages, SouthCommands
<1> HIDE DEF m
<1>5. StepFacts
  BY <1>1, <1>4, FromSouthFacts
<1>6. /\ controlChannels' = controlChannels
      /\ \A ch \in ChannelIds : acceptedBy'[ch] = acceptedBy[ch] \/ acceptedBy'[ch] = conn
  <2>1. m.channel # CONTROL_CHANNEL_ID
    BY <1>4, MaxChannelIdAssumption DEF ChannelIds, CONTROL_CHANNEL_ID
  <2> QED
    BY <1>1, <2>1 DEF ProcessMessageFromSouth, ProcessPlayerChannelMessage, Ignored, channelVars,
                      IInv, TypeOK
<1>7. /\ northbound' \in [Connections -> Seq(ServerMessages)]
      /\ \A other \in Connections : northbound[other] = <<>> => northbound'[other] = <<>>
  BY <1>1, <1>2, <1>3
<1>8. appState[conn] \notin NotYetConnected
  BY <1>1 DEF AppInv, LifeCycle
<1> QED
  BY <1>1, <1>5, <1>6, <1>7, <1>8, TransmitAppInv, ZenonT(40) DEF AppInv, StreamsOK, LifeCycle

LEMMA NoticesAppInv ==
    ASSUME IInv, IInv', AppInv, NEW conn \in Connections, ServerNoticesExit(conn)
    PROVE  StepFacts /\ AppInv'
<1> USE DEF AppStates, NotYetConnected
<1>1. /\ appState[conn] = "exited" /\ controlChannels[conn] = "OPEN"
      /\ ApplicationClosed(conn)
      /\ northbound' = [northbound EXCEPT ![conn] = <<>>]
      /\ appState' = appState /\ Transmit /\ UNCHANGED clientVars
  BY DEF ServerNoticesExit
<1>2. StepFacts
  BY <1>1, ApplicationClosedFacts
<1>3. controlChannels' = [controlChannels EXCEPT ![conn] = "GONE"] /\ acceptedBy' = acceptedBy
  BY <1>1 DEF ApplicationClosed
<1>4. /\ controlChannels \in [Connections -> {"NONE", "OPEN", "GONE"}]
      /\ appState \in [Connections -> AppStates]
      /\ northbound \in [Connections -> Seq(ServerMessages)]
  BY DEF IInv, TypeOK, AppInv, StreamsOK
<1>5. /\ northbound' \in [Connections -> Seq(ServerMessages)]
      /\ \A other \in Connections : northbound[other] = <<>> => northbound'[other] = <<>>
  BY <1>1, <1>4
<1> QED
  BY <1>1, <1>2, <1>3, <1>4, <1>5, TransmitAppInv DEF AppInv, LifeCycle

LEMMA AppReceivesAppInv ==
    ASSUME AppInv, NEW conn \in Connections, AppReceives(conn)
    PROVE  AppInv'
<1> DEFINE s == southbound[conn]
           m == Head(s)
<1>1. /\ appState[conn] = "up" /\ s # <<>>
      /\ southbound' = [southbound EXCEPT ![conn] = Tail(s)]
      /\ UNCHANGED <<vars, appState>>
  BY DEF AppReceives
<1>2. /\ s \in Seq(ClientMessages) /\ m \in ClientMessages /\ Tail(s) \in Seq(ClientMessages)
      /\ northbound \in [Connections -> Seq(ServerMessages)]
      /\ clientChannels \in [Connections -> SUBSET ChannelIds]
      /\ activated \in [Connections -> BOOLEAN]
  BY <1>1 DEF AppInv, StreamsOK
<1>3. activated' = [activated EXCEPT ![conn] =
                        IF IsSwitch(m) THEN m.command = "Activate" ELSE @]
  BY <1>2 DEF AppReceives, ReceiveControlMessage, ReceiveOnKnownChannel,
              ReceiveOnUnknownChannel, IsSwitch
<1>4. /\ clientChannels' \in [Connections -> SUBSET ChannelIds]
      /\ northbound' \in [Connections -> Seq(ServerMessages)]
      /\ \A other \in Connections : other # conn =>
            clientChannels'[other] = clientChannels[other] /\ northbound'[other] = northbound[other]
  <2>1. CASE m.channel = CONTROL_CHANNEL_ID
    BY <1>2, <2>1 DEF AppReceives, ReceiveControlMessage
  <2>2. CASE m.channel # CONTROL_CHANNEL_ID /\ m.channel \in clientChannels[conn]
    BY <1>2, <2>2 DEF AppReceives, ReceiveOnKnownChannel
  <2>3. CASE m.channel # CONTROL_CHANNEL_ID /\ m.channel \notin clientChannels[conn]
    <3>1. m.channel \in ChannelIds
      BY <1>2, <2>3 DEF ClientMessages
    <3>2. Append(northbound[conn], AcceptReply(m.channel)) \in Seq(ServerMessages)
      <4>1. AcceptReply(m.channel) \in ServerMessages
        BY <3>1 DEF AcceptReply, ClientMsg, ServerMessages
      <4>2. northbound[conn] \in Seq(ServerMessages)
        BY <1>2
      <4> QED
        BY <4>1, <4>2
    <3>3. ReceiveOnUnknownChannel(conn, m.channel, m.command)
      BY <2>3 DEF AppReceives
    <3> HIDE DEF m
    <3>4. CASE m.command = "OpenChannel"
      <4>1. /\ clientChannels' = [clientChannels EXCEPT ![conn] = @ \cup {m.channel}]
            /\ northbound' = [northbound EXCEPT ![conn] = Append(@, AcceptReply(m.channel))]
        BY <3>3, <3>4 DEF ReceiveOnUnknownChannel, AcceptsUnknown
      <4> QED
        BY <1>2, <3>1, <3>2, <4>1
    <3>5. CASE m.command # "OpenChannel"
      BY <1>2, <3>3, <3>5 DEF ReceiveOnUnknownChannel
    <3> QED
      BY <3>4, <3>5
  <2> QED
    BY <2>1, <2>2, <2>3
<1>5. UNCHANGED <<controlChannels, acceptedBy, activeConnectionId, appState>>
  BY <1>1 DEF vars
<1>6. StreamsOK'
  BY <1>1, <1>2, <1>3, <1>4 DEF AppInv, StreamsOK
<1>7. LifeCycle'
  BY <1>1, <1>4, <1>5 DEF AppInv, StreamsOK, LifeCycle
<1>8. StreamsTell'
  <2> SUFFICES ASSUME NEW other \in Connections, appState[other] = "up"
               PROVE  LeadsTo(southbound'[other], activated'[other], activeConnectionId = other)
      BY <1>5 DEF StreamsTell
  <2>1. LeadsTo(southbound[other], activated[other], activeConnectionId = other)
    BY DEF AppInv, StreamsTell
  <2>2. CASE other # conn
    BY <1>1, <1>3, <2>1, <2>2 DEF AppInv, StreamsOK
  <2>3. CASE other = conn
    <3> DEFINE is == activeConnectionId = conn
    <3>1. /\ is \in BOOLEAN /\ activated[conn] \in BOOLEAN
          /\ LeadsTo(s, activated[conn], is)
      BY <1>2, <2>1, <2>3
    <3>2. /\ southbound'[conn] = Tail(s)
          /\ activated'[conn] = IF IsSwitch(m) THEN m.command = "Activate" ELSE activated[conn]
      BY <1>1, <1>2, <1>3 DEF AppInv, StreamsOK
    <3> HIDE DEF s, is
    <3>3. LeadsTo(Tail(s), IF IsSwitch(m) THEN m.command = "Activate" ELSE activated[conn], is)
      BY <1>1, <1>2, <3>1, LeadsAfterRead
    <3> QED
      BY <2>3, <3>2, <3>3 DEF is
  <2> QED
    BY <2>2, <2>3
<1> QED
  BY <1>6, <1>7, <1>8 DEF AppInv

LEMMA AppSendsAppInv ==
    ASSUME AppInv, NEW conn \in Connections, NEW ch \in ChannelIds, AppSendsPlayerMessage(conn, ch)
    PROVE  AppInv'
<1>1. /\ appState[conn] = "up"
      /\ northbound' = [northbound EXCEPT ![conn] = Append(@, ClientMsg(ch, "PlayerMessage"))]
      /\ UNCHANGED <<controlChannels, acceptedBy, activeConnectionId,
                     appState, southbound, clientChannels, activated>>
  BY DEF AppSendsPlayerMessage, vars, clientVars
<1>2. ClientMsg(ch, "PlayerMessage") \in ServerMessages
  BY DEF ClientMsg, ServerMessages
<1>3. northbound' \in [Connections -> Seq(ServerMessages)]
  BY <1>1, <1>2 DEF AppInv, StreamsOK
<1>4. StreamsOK' /\ LifeCycle' /\ StreamsTell'
  BY <1>1, <1>3 DEF AppInv, StreamsOK, LifeCycle, StreamsTell
<1> QED
  BY <1>4 DEF AppInv

LEMMA AppExitsAppInv ==
    ASSUME AppInv, NEW conn \in Connections, AppExits(conn)
    PROVE  AppInv'
<1> USE DEF AppStates, NotYetConnected
<1>1. /\ appState' = [appState EXCEPT ![conn] = "exited"]
      /\ southbound' = [southbound EXCEPT ![conn] = <<>>]
      /\ clientChannels' = [clientChannels EXCEPT ![conn] = {}]
      /\ activated' = [activated EXCEPT ![conn] = FALSE]
      /\ UNCHANGED <<controlChannels, acceptedBy, activeConnectionId, northbound>>
  BY DEF AppExits, vars
<1>2. StreamsOK'
  BY <1>1 DEF AppInv, StreamsOK
<1>3. LifeCycle'
  BY <1>1 DEF AppInv, StreamsOK, LifeCycle
<1>4. StreamsTell'
  BY <1>1 DEF AppInv, StreamsOK, StreamsTell
<1> QED
  BY <1>2, <1>3, <1>4 DEF AppInv

LEMMA BreaksAppInv ==
    ASSUME AppInv, NEW conn \in Connections, NEW next \in Connections, ConnectionBreaks(conn, next)
    PROVE  AppInv'
<1> USE DEF AppStates, NotYetConnected
<1>1. /\ appState[conn] \in {"up", "discarded"} /\ appState[next] = "down" /\ conn # next
      /\ appState' = [appState EXCEPT ![conn] = "exited", ![next] = "reconnecting"]
      /\ southbound' = [southbound EXCEPT ![conn] = <<>>]
      /\ clientChannels' = [clientChannels EXCEPT ![conn] = {}]
      /\ activated' = [activated EXCEPT ![conn] = FALSE, ![next] = activated[conn]]
      /\ UNCHANGED <<controlChannels, acceptedBy, activeConnectionId, northbound>>
  BY DEF ConnectionBreaks, vars
<1>2. StreamsOK'
  <2>1. /\ appState' \in [Connections -> AppStates]
        /\ northbound' \in [Connections -> Seq(ServerMessages)]
    BY <1>1 DEF AppInv, StreamsOK
  <2>2. southbound' \in [Connections -> Seq(ClientMessages)]
    BY <1>1 DEF AppInv, StreamsOK
  <2>3. /\ clientChannels' \in [Connections -> SUBSET ChannelIds]
        /\ activated' \in [Connections -> BOOLEAN]
    BY <1>1 DEF AppInv, StreamsOK
  <2> QED
    BY <2>1, <2>2, <2>3 DEF StreamsOK
<1>3. LifeCycle'
  BY <1>1 DEF AppInv, StreamsOK, LifeCycle
<1>4. StreamsTell'
  BY <1>1 DEF AppInv, StreamsOK, StreamsTell
<1> QED
  BY <1>2, <1>3, <1>4 DEF AppInv

LEMMA ReconnectDiscardedAppInv ==
    ASSUME AppInv, NEW conn \in Connections, ReconnectDiscarded(conn)
    PROVE  AppInv'
<1> USE DEF AppStates, NotYetConnected
<1>1. /\ appState[conn] = "reconnecting"
      /\ appState' = [appState EXCEPT ![conn] = "discarded"]
      /\ UNCHANGED <<controlChannels, acceptedBy, activeConnectionId, northbound, southbound,
                     clientVars>>
  BY DEF ReconnectDiscarded, vars
<1>2. StreamsOK'
  BY <1>1 DEF AppInv, StreamsOK, clientVars
<1>3. LifeCycle'
  BY <1>1 DEF AppInv, StreamsOK, LifeCycle, clientVars
<1>4. StreamsTell'
  BY <1>1 DEF AppInv, StreamsOK, StreamsTell, clientVars
<1> QED
  BY <1>2, <1>3, <1>4 DEF AppInv

LEMMA AppNextAppInv == IInv /\ AppInv /\ [AppNext]_allVars => IInv' /\ AppInv'
<1> SUFFICES ASSUME IInv, AppInv, [AppNext]_allVars PROVE IInv' /\ AppInv'
    OBVIOUS
<1>1. IInv'
  BY AppStepIInv DEF AppInv
<1>2. ASSUME NEW conn \in Connections, AppConnects(conn) PROVE AppInv'
  BY <1>1, <1>2, ConnectsAppInv
<1>3. ASSUME NEW conn \in Connections, ServerReceives(conn) PROVE AppInv'
  BY <1>1, <1>3, ReceivesAppInv
<1>4. ASSUME NEW conn \in Connections, ServerNoticesExit(conn) PROVE AppInv'
  BY <1>1, <1>4, NoticesAppInv
<1>5. ASSUME NEW conn \in Connections, AppReceives(conn) PROVE AppInv'
  BY <1>5, AppReceivesAppInv
<1>6. ASSUME NEW conn \in Connections, AppExits(conn) PROVE AppInv'
  BY <1>6, AppExitsAppInv
<1>7. ASSUME NEW conn \in Connections, NEW next \in Connections, ConnectionBreaks(conn, next)
      PROVE  AppInv'
  BY <1>7, BreaksAppInv
<1>8. ASSUME NEW conn \in Connections, NEW ch \in ChannelIds, AppSendsPlayerMessage(conn, ch)
      PROVE  AppInv'
  BY <1>8, AppSendsAppInv
<1>9. ASSUME ServerOperates PROVE AppInv'
  BY <1>1, <1>9, OperatesAppInv
<1>10. ASSUME NEW conn \in Connections, ReconnectDiscarded(conn) PROVE AppInv'
  BY <1>10, ReconnectDiscardedAppInv
<1>11. ASSUME UNCHANGED allVars PROVE AppInv'
  BY <1>11 DEF allVars, appVars, vars, AppInv, StreamsOK, LifeCycle, StreamsTell
<1> QED
  BY <1>1, <1>2, <1>3, <1>4, <1>5, <1>6, <1>7, <1>8, <1>9, <1>10, <1>11 DEF AppNext

\* Every stream leads the application at its end to what the server holds.
THEOREM StreamsLeadToTheServer == AppSpec => [](IInv /\ AppInv)
BY InitAppInv, AppNextAppInv, PTL DEF AppSpec

\* An application that has read all that was sent to it is activated exactly if
\* the server holds it for the active one, for every number of applications.
THEOREM SettledCorrect == AppSpec => []SettledActivation
<1>1. AppInv => SettledActivation
  BY DEF AppInv, StreamsTell, LeadsTo, SettledActivation
<1> QED
  BY <1>1, StreamsLeadToTheServer, PTL

-----------------------------------------------------------------------------
(* No message for a player the application does not know.                  *)

LEMMA InitPlayerInv == AppInit => PlayerInv
<1> SUFFICES ASSUME AppInit PROVE PlayerInv
    OBVIOUS
<1>1. /\ appState = [conn \in Connections |-> "down"]
      /\ southbound = [conn \in Connections |-> <<>>]
      /\ northbound = [conn \in Connections |-> <<>>]
      /\ acceptedBy = [ch \in ChannelIds |-> NoConnection]
      /\ indeterminate = {}
      /\ clientChannels = [conn \in Connections |-> {}]
  BY DEF AppInit, Init
<1>2. FreshChannels
  <2>1. \A conn \in Connections : southbound[conn] = <<>> /\ northbound[conn] = <<>>
    BY <1>1
  <2>2. \A i \in DOMAIN <<>> : FALSE
    OBVIOUS
  <2>3. \A conn \in Connections, ch \in ChannelIds :
            acceptedBy[ch] # conn /\ ch \notin clientChannels[conn]
    BY <1>1, ConnectionIsSome
  <2> QED
    BY <2>1, <2>2, <2>3 DEF FreshChannels
<1>3. AcceptedIsKnown
  BY <1>1 DEF AcceptedIsKnown
<1>4. NeverOpenUnwritten
  BY <1>1 DEF NeverOpenUnwritten
<1> QED
  BY <1>2, <1>3, <1>4 DEF PlayerInv

LEMMA NextUnwritten ==
    ASSUME "CHANNEL_OPEN" \notin GarbageStates, IInv, NeverOpenUnwritten, [Next]_vars
    PROVE  NeverOpenUnwritten'
<1>0. playerChannels \in ChannelMap /\ indeterminate \subseteq ChannelIds
  BY DEF IInv, TypeOK, ChannelMap
<1>1. ASSUME UNCHANGED <<playerChannels, indeterminate>> PROVE NeverOpenUnwritten'
  BY <1>1 DEF NeverOpenUnwritten
<1>2. ASSUME indeterminate' = {} PROVE NeverOpenUnwritten'
  BY <1>2 DEF NeverOpenUnwritten
<1>3. ASSUME NEW conn \in Connections, Activation(conn) PROVE NeverOpenUnwritten'
  <2>1. CASE hasActiveConnection
    BY <1>2, <1>3, <2>1 DEF Activation
  <2>2. CASE ~hasActiveConnection
    <3>1. playerChannels' = Opened(playerChannels) /\ indeterminate' = indeterminate
      BY <1>3, <2>2 DEF Activation
    <3> QED
      BY <1>0, <3>1 DEF Opened, NeverOpenUnwritten
  <2> QED
    BY <2>1, <2>2
<1>4. ASSUME NEW conn \in Connections, DeactivateConnection(conn) PROVE NeverOpenUnwritten'
  BY <1>1, <1>2, <1>4 DEF DeactivateConnection, Ignored, channelVars
<1>5. ASSUME NEW conn \in Connections, ApplicationClosed(conn) PROVE NeverOpenUnwritten'
  BY <1>1, <1>2, <1>5 DEF ApplicationClosed, Ignored, channelVars
<1>6. ASSUME NEW conn \in Connections, NEW ch \in ChannelIds \cup {CONTROL_CHANNEL_ID},
             NEW cmd \in SouthCommands, ProcessMessageFromSouth(conn, ch, cmd)
      PROVE  NeverOpenUnwritten'
  <2>1. \/ UNCHANGED <<playerChannels, indeterminate>>
        \/ /\ playerChannels' = [playerChannels EXCEPT ![ch] = "CHANNEL_OPEN"]
           /\ indeterminate' = indeterminate \ {ch}
    BY <1>6 DEF ProcessMessageFromSouth, ProcessControlMessage, ProcessPlayerChannelMessage,
                Ignored, channelVars
  <2> QED
    BY <1>0, <1>1, <2>1 DEF NeverOpenUnwritten, ChannelMap
<1>7. ASSUME OpenPlayerChannel PROVE NeverOpenUnwritten'
  <2>1. PICK found \in GarbageStates \cup {"CHANNEL_CLOSED"} :
        /\ playerChannels' = [playerChannels EXCEPT
                ![channelIdCount] =
                    IF found = "CHANNEL_CLOSED" THEN "CHANNEL_OPEN_ONGOING" ELSE found]
        /\ indeterminate' \subseteq indeterminate \cup {channelIdCount}
        /\ channelIdCount \in ChannelIds
    BY <1>7 DEF OpenPlayerChannel
  <2>2. found \in {"CHANNEL_CLOSED", "CHANNEL_OPEN_ONGOING"}
    BY GarbageStatesAssumption
  <2>3. playerChannels' = [playerChannels EXCEPT ![channelIdCount] = "CHANNEL_OPEN_ONGOING"]
    BY <2>1, <2>2
  <2> QED
    BY <1>0, <2>1, <2>3 DEF NeverOpenUnwritten, ChannelMap
<1>8. ASSUME NEW ch \in ChannelIds, ClosePlayerChannel(ch) PROVE NeverOpenUnwritten'
  BY <1>0, <1>8 DEF ClosePlayerChannel, NeverOpenUnwritten, ChannelMap
<1>9. ASSUME NEW ch \in ChannelIds, NEW action, ReceivePlayerMessageFromNorth(ch, action)
      PROVE  NeverOpenUnwritten'
  BY <1>1, <1>9 DEF ReceivePlayerMessageFromNorth, channelVars
<1>10. ASSUME NEW conn \in Connections, ConnectionValidated(conn) PROVE NeverOpenUnwritten'
  BY <1>3, <1>10 DEF ConnectionValidated
<1>11. ASSUME NEW conn \in Connections, ActivateConnection(conn) PROVE NeverOpenUnwritten'
  BY <1>1, <1>3, <1>11 DEF ActivateConnection, Ignored, channelVars
<1>12. ASSUME UNCHANGED vars PROVE NeverOpenUnwritten'
  BY <1>1, <1>12 DEF vars
<1> QED
  BY <1>4, <1>5, <1>6, <1>7, <1>8, <1>9, <1>10, <1>11, <1>12 DEF Next

\* What the messages on their way to and from an application say of a channel;
\* AcceptedIsKnown says it of every application that is up.
StreamsKnow(s, n, known, ch) ==
    /\ \A i \in DOMAIN s :
        /\ s[i] = ClientMsg(ch, "CloseChannel") => playerChannels[ch] = "ABSENT"
        /\ s[i] = ClientMsg(ch, "PlayerMessage") => ch \in known /\ NotClosedBefore(s, i, ch)
    /\ playerChannels[ch] # "ABSENT" =>
        \A i \in DOMAIN n : n[i] = ClientMsg(ch, "OpenChannelAccepted") => ch \in known

\* An operation of the server keeps what is said of every channel, if it takes
\* acceptances from the streams only and no application that is gone comes back.
LEMMA TransmitPlayers ==
    ASSUME IInv, IInv', AppInv, AppInv', PlayerInv, StepFacts, Transmit, UNCHANGED clientVars,
           \A conn \in Connections :
                /\ appState[conn] = "exited" => appState'[conn] = "exited"
                /\ \A i \in DOMAIN northbound'[conn] :
                        \E j \in DOMAIN northbound[conn] :
                            northbound'[conn][i] = northbound[conn][j]
                /\ \A ch \in ChannelIds : acceptedBy'[ch] = conn =>
                        \/ acceptedBy[ch] = conn
                        \/ \E j \in DOMAIN northbound[conn] :
                                northbound[conn][j] = ClientMsg(ch, "OpenChannelAccepted")
    PROVE  FreshChannels' /\ AcceptedIsKnown'
<1>1. /\ channelIdCount \in Int /\ channelIdCount' \in Int /\ channelIdCount' >= channelIdCount
      /\ ChannelIds \subseteq Int
  BY MaxChannelIdAssumption DEF StepFacts, PlayerStep, IInv, TypeOK, ChannelIds
<1>2. ASSUME NEW conn \in Connections
      PROVE  /\ southbound[conn] \in Seq(ClientMessages)
             /\ SentTo(conn) \in Seq(ClientMessages)
             /\ \A i \in DOMAIN SentTo(conn) :
                    Msg(conn, SentTo(conn)[i].channel, SentTo(conn)[i].command) \in outgoing'
             /\ southbound'[conn] = IF appState'[conn] = "up"
                                    THEN southbound[conn] \o SentTo(conn) ELSE <<>>
             /\ appState[conn] # "up" => southbound[conn] = <<>>
  BY SentFacts DEF IInv, TypeOK, StepFacts, AppInv, StreamsOK, LifeCycle, Transmit
<1>3. ASSUME NEW conn \in Connections, NEW i \in DOMAIN southbound'[conn]
      PROVE  \/ i \in DOMAIN southbound[conn] /\ southbound'[conn][i] = southbound[conn][i]
             \/ \E k \in DOMAIN SentTo(conn) : southbound'[conn][i] = SentTo(conn)[k]
  <2> DEFINE t == SentTo(conn)
  <2>1. southbound'[conn] # <<>>
    BY <1>3
  <2>2. /\ southbound[conn] \in Seq(ClientMessages) /\ t \in Seq(ClientMessages)
        /\ southbound'[conn] = southbound[conn] \o t
    BY <1>2, <2>1
  <2> HIDE DEF t
  <2>3. \/ i \in DOMAIN southbound[conn] /\ southbound'[conn][i] = southbound[conn][i]
        \/ \E k \in DOMAIN t : southbound'[conn][i] = t[k]
    BY <1>3, <2>2, AppendedPositions
  <2> QED
    BY <2>3 DEF t
<1>4. FreshChannels'
  <2> SUFFICES ASSUME NEW conn \in Connections
      PROVE  /\ \A i \in DOMAIN southbound'[conn] :
                    /\ southbound'[conn][i].channel < channelIdCount'
                    /\ southbound'[conn][i].command = "PlayerMessage" =>
                            southbound'[conn][i].channel \in ChannelIds
             /\ \A i \in DOMAIN northbound'[conn] : northbound'[conn][i].channel < channelIdCount'
             /\ \A ch \in ChannelIds :
                    acceptedBy'[ch] = conn \/ ch \in clientChannels[conn] => ch < channelIdCount'
      BY DEF FreshChannels, clientVars
  <2>1. \A m \in outgoing' : /\ m.channel < channelIdCount'
                             /\ m.command = "PlayerMessage" => m.channel \in ChannelIds
    BY DEF StepFacts, PlayerStep
  <2>2. ASSUME NEW i \in DOMAIN southbound'[conn]
        PROVE  /\ southbound'[conn][i].channel < channelIdCount'
               /\ southbound'[conn][i].command = "PlayerMessage" =>
                        southbound'[conn][i].channel \in ChannelIds
    <3>1. CASE i \in DOMAIN southbound[conn] /\ southbound'[conn][i] = southbound[conn][i]
      <4>1. /\ southbound[conn][i].channel < channelIdCount
            /\ southbound[conn][i].command = "PlayerMessage" =>
                    southbound[conn][i].channel \in ChannelIds
        BY <3>1 DEF PlayerInv, FreshChannels
      <4>2. southbound[conn][i] \in ClientMessages
        BY <1>2, <3>1
      <4>3. southbound[conn][i].channel \in Int
        <5>1. \A m \in ClientMessages : m.channel \in Int
          BY MaxChannelIdAssumption DEF ClientMessages, ChannelIds, CONTROL_CHANNEL_ID
        <5> QED
          BY <4>2, <5>1
      <4> QED
        BY <1>1, <3>1, <4>1, <4>3
    <3>2. ASSUME NEW k \in DOMAIN SentTo(conn), southbound'[conn][i] = SentTo(conn)[k]
          PROVE  /\ southbound'[conn][i].channel < channelIdCount'
                 /\ southbound'[conn][i].command = "PlayerMessage" =>
                        southbound'[conn][i].channel \in ChannelIds
      BY <1>2, <2>1, <3>2, ZenonT(40) DEF Msg
    <3> QED
      BY <1>3, <3>1, <3>2
  <2>3. ASSUME NEW i \in DOMAIN northbound'[conn]
        PROVE  northbound'[conn][i].channel < channelIdCount'
    <3>1. PICK j \in DOMAIN northbound[conn] : northbound'[conn][i] = northbound[conn][j]
      BY <2>3
    <3>2. northbound[conn][j].channel < channelIdCount
      BY DEF PlayerInv, FreshChannels
    <3>3. northbound[conn] \in Seq(ServerMessages)
      BY DEF AppInv, StreamsOK
    <3>4. northbound[conn][j] \in ServerMessages
      BY <3>3
    <3>5. northbound[conn][j].channel \in Int
      BY <1>1, <3>4 DEF ServerMessages
    <3> QED
      BY <1>1, <3>1, <3>2, <3>5
  <2>4. ASSUME NEW ch \in ChannelIds, acceptedBy'[ch] = conn
        PROVE  ch < channelIdCount'
    <3>1. CASE acceptedBy[ch] = conn
      BY <1>1, <3>1 DEF PlayerInv, FreshChannels
    <3>2. ASSUME NEW j \in DOMAIN northbound[conn],
                 northbound[conn][j] = ClientMsg(ch, "OpenChannelAccepted")
          PROVE  ch < channelIdCount'
      <4>1. northbound[conn][j].channel = ch
        BY <3>2 DEF ClientMsg
      <4>2. northbound[conn][j].channel < channelIdCount
        BY DEF PlayerInv, FreshChannels
      <4> QED
        BY <1>1, <4>1, <4>2
    <3> QED
      BY <2>4, <3>1, <3>2
  <2>5. ASSUME NEW ch \in ChannelIds, ch \in clientChannels[conn]
        PROVE  ch < channelIdCount'
    <3>1. ch < channelIdCount
      BY <2>5 DEF PlayerInv, FreshChannels
    <3> QED
      BY <1>1, <3>1
  <2> QED
    BY <2>2, <2>3, <2>4, <2>5
<1>5. ASSUME NEW conn \in Connections, NEW ch \in ChannelIds, appState'[conn] = "up"
      PROVE  /\ StreamsKnow(southbound[conn], northbound[conn], clientChannels[conn], ch)'
             /\ playerChannels'[ch] # "ABSENT" /\ acceptedBy'[ch] = conn =>
                    ch \in clientChannels'[conn]
  <2> DEFINE u == southbound'[conn]
  <2>1. clientChannels'[conn] = clientChannels[conn]
    BY DEF clientVars
  <2>2. ASSUME ch < channelIdCount, playerChannels'[ch] # "ABSENT"
        PROVE  playerChannels[ch] # "ABSENT"
    BY <1>1, <2>2 DEF StepFacts, PlayerStep
  <2>3. ASSUME NEW i \in DOMAIN u, u[i] = ClientMsg(ch, "CloseChannel")
        PROVE  playerChannels'[ch] = "ABSENT"
    <3>1. CASE i \in DOMAIN southbound[conn] /\ u[i] = southbound[conn][i]
      <4>1. appState[conn] = "up"
        BY <1>2, <3>1
      <4>2. southbound[conn][i] = ClientMsg(ch, "CloseChannel")
        BY <2>3, <3>1
      <4>3. playerChannels[ch] = "ABSENT"
        BY <3>1, <4>1, <4>2 DEF PlayerInv, AcceptedIsKnown
      <4>4. southbound[conn][i].channel < channelIdCount /\ southbound[conn][i].channel = ch
        BY <3>1, <4>2 DEF PlayerInv, FreshChannels, ClientMsg
      <4> QED
        BY <2>2, <4>3, <4>4
    <3>2. ASSUME NEW k \in DOMAIN SentTo(conn), u[i] = SentTo(conn)[k]
          PROVE  playerChannels'[ch] = "ABSENT"
      <4>1. Msg(conn, ch, "CloseChannel") \in outgoing'
        BY <1>2, <2>3, <3>2 DEF ClientMsg
      <4> QED
        BY <4>1 DEF StepFacts, PlayerStep
    <3> QED
      BY <1>3, <3>1, <3>2
  <2>4. ASSUME NEW i \in DOMAIN u, u[i] = ClientMsg(ch, "PlayerMessage")
        PROVE  ch \in clientChannels[conn] /\ NotClosedBefore(u, i, ch)
    <3>1. CASE i \in DOMAIN southbound[conn] /\ u[i] = southbound[conn][i]
      <4>1. appState[conn] = "up"
        BY <1>2, <3>1
      <4>2. ch \in clientChannels[conn] /\ NotClosedBefore(southbound[conn], i, ch)
        BY <2>4, <3>1, <4>1 DEF PlayerInv, AcceptedIsKnown
      <4>3. ASSUME NEW j \in DOMAIN u, j < i
            PROVE  j \in DOMAIN southbound[conn] /\ u[j] = southbound[conn][j]
        <5> DEFINE t == SentTo(conn)
        <5>1. /\ southbound[conn] \in Seq(ClientMessages) /\ t \in Seq(ClientMessages)
              /\ u = southbound[conn] \o t
          BY <1>2, <1>5
        <5> HIDE DEF t, u
        <5> QED
          BY <3>1, <4>3, <5>1, AppendedPositions
      <4> QED
        BY <4>2, <4>3 DEF NotClosedBefore
    <3>2. ASSUME NEW k \in DOMAIN SentTo(conn), u[i] = SentTo(conn)[k]
          PROVE  ch \in clientChannels[conn] /\ NotClosedBefore(u, i, ch)
      <4>1. Msg(conn, ch, "PlayerMessage") \in outgoing'
        BY <1>2, <2>4, <3>2 DEF ClientMsg
      <4>2. /\ playerChannels[ch] = "CHANNEL_OPEN" /\ playerChannels'[ch] = "CHANNEL_OPEN"
            /\ activeConnectionId = conn
        BY <4>1 DEF StepFacts, PlayerStep
      <4>3. ch \notin indeterminate
        BY <4>2 DEF PlayerInv, NeverOpenUnwritten
      <4>4. acceptedBy[ch] = conn
        BY <4>2, <4>3 DEF IInv, OpenMeansAccepted
      <4>5. controlChannels[conn] = "OPEN"
        BY <4>2, ConnectionIsSome DEF IInv, StackFollowsActive
      <4>6. appState[conn] = "up"
        BY <1>5, <4>5 DEF AppInv, StreamsOK, LifeCycle, AppStates, NotYetConnected
      <4>7. ch \in clientChannels[conn]
        BY <4>2, <4>4, <4>6 DEF PlayerInv, AcceptedIsKnown
      <4>8. NotClosedBefore(u, i, ch)
        BY <2>3, <4>2 DEF NotClosedBefore
      <4> QED
        BY <4>7, <4>8
    <3> QED
      BY <1>3, <3>1, <3>2
  <2>5. ASSUME playerChannels'[ch] # "ABSENT",
               NEW j \in DOMAIN northbound[conn],
               northbound[conn][j] = ClientMsg(ch, "OpenChannelAccepted")
        PROVE  ch \in clientChannels[conn]
    <3>1. playerChannels[ch] # "ABSENT"
      BY <2>2, <2>5 DEF PlayerInv, FreshChannels, ClientMsg
    <3>2. appState[conn] = "up"
      BY <1>5, <2>5 DEF AppInv, StreamsOK, LifeCycle, AppStates, NotYetConnected
    <3> QED
      BY <2>5, <3>1, <3>2 DEF PlayerInv, AcceptedIsKnown
  <2>6. ASSUME playerChannels'[ch] # "ABSENT", acceptedBy'[ch] = conn
        PROVE  ch \in clientChannels[conn]
    <3>1. CASE acceptedBy[ch] = conn
      <4>1. playerChannels[ch] # "ABSENT"
        BY <2>2, <2>6, <3>1 DEF PlayerInv, FreshChannels
      <4>2. appState[conn] = "up"
        BY <1>5, <3>1 DEF AppInv, StreamsOK, LifeCycle, AppStates, NotYetConnected
      <4> QED
        BY <3>1, <4>1, <4>2 DEF PlayerInv, AcceptedIsKnown
    <3>2. CASE \E j \in DOMAIN northbound[conn] :
                    northbound[conn][j] = ClientMsg(ch, "OpenChannelAccepted")
      BY <2>5, <2>6, <3>2
    <3> QED
      BY <2>6, <3>1, <3>2
  <2>7. ASSUME playerChannels'[ch] # "ABSENT", NEW i \in DOMAIN northbound'[conn],
               northbound'[conn][i] = ClientMsg(ch, "OpenChannelAccepted")
        PROVE  ch \in clientChannels[conn]
    BY <2>5, <2>7
  <2> QED
    BY <2>1, <2>3, <2>4, <2>6, <2>7 DEF StreamsKnow
<1>6. AcceptedIsKnown'
  BY <1>5 DEF AcceptedIsKnown, StreamsKnow
<1> QED
  BY <1>4, <1>6

\* The server's operations as they occur in the composition.
LEMMA ConnectsPlayers ==
    ASSUME IInv, IInv', AppInv, AppInv', PlayerInv, NEW conn \in Connections, AppConnects(conn)
    PROVE  FreshChannels' /\ AcceptedIsKnown'
<1> USE DEF AppStates, NotYetConnected
<1>1. /\ Transmit /\ UNCHANGED clientVars /\ Activation(conn)
      /\ appState[conn] \in NotYetConnected
      /\ appState' = [appState EXCEPT ![conn] = "up"]
      /\ northbound' = northbound
  BY DEF AppConnects, ConnectionValidated
<1>2. StepFacts /\ acceptedBy' = acceptedBy
  BY <1>1, ActivationFacts DEF Activation
<1>3. \A other \in Connections : appState[other] = "exited" => appState'[other] = "exited"
  BY <1>1 DEF AppInv, StreamsOK
<1> QED
  BY <1>1, <1>2, <1>3, TransmitPlayers

LEMMA OperatesPlayers ==
    ASSUME IInv, IInv', AppInv, AppInv', PlayerInv, ServerOperates
    PROVE  FreshChannels' /\ AcceptedIsKnown'
<1>1. /\ Transmit /\ UNCHANGED clientVars
      /\ appState' = appState /\ northbound' = northbound
  BY DEF ServerOperates
<1>2. StepFacts
  BY OperatesAppInv
<1>3. acceptedBy' = acceptedBy
  BY DEF ServerOperates, ActivateConnection, DeactivateConnection, OpenPlayerChannel,
         ClosePlayerChannel, ReceivePlayerMessageFromNorth, Activation, Ignored, channelVars
<1> QED
  BY <1>1, <1>2, <1>3, TransmitPlayers

LEMMA ReceivesPlayers ==
    ASSUME IInv, IInv', AppInv, AppInv', PlayerInv, NEW conn \in Connections, ServerReceives(conn)
    PROVE  FreshChannels' /\ AcceptedIsKnown'
<1> DEFINE n == northbound[conn]
           m == Head(n)
<1>1. /\ n # <<>>
      /\ ProcessMessageFromSouth(conn, m.channel, m.command)
      /\ northbound' = [northbound EXCEPT ![conn] = Tail(n)]
      /\ appState' = appState /\ Transmit /\ UNCHANGED clientVars
  BY DEF ServerReceives
<1>2. northbound \in [Connections -> Seq(ServerMessages)] /\ n \in Seq(ServerMessages)
  BY DEF AppInv, StreamsOK
<1>3. /\ m \in ServerMessages /\ m = n[1] /\ 1 \in DOMAIN n
      /\ \A i \in DOMAIN Tail(n) : i + 1 \in DOMAIN n /\ Tail(n)[i] = n[i + 1]
  <2> HIDE DEF n
  <2> QED
    BY <1>1, <1>2, TailPositions
<1>4. StepFacts
  BY ReceivesAppInv
<1>5. ASSUME NEW other \in Connections, NEW i \in DOMAIN northbound'[other]
      PROVE  \E j \in DOMAIN northbound[other] : northbound'[other][i] = northbound[other][j]
  <2>1. CASE other = conn
    <3>1. northbound'[conn] = Tail(n)
      BY <1>1, <1>2
    <3> QED
      BY <1>3, <1>5, <2>1, <3>1
  <2>2. CASE other # conn
    BY <1>1, <1>2, <1>5, <2>2
  <2> QED
    BY <2>1, <2>2
<1> HIDE DEF m
<1>6. ASSUME NEW other \in Connections, NEW ch \in ChannelIds, acceptedBy'[ch] = other
      PROVE  \/ acceptedBy[ch] = other
             \/ \E j \in DOMAIN northbound[other] :
                    northbound[other][j] = ClientMsg(ch, "OpenChannelAccepted")
  <2>1. m.channel # CONTROL_CHANNEL_ID
    BY <1>3, MaxChannelIdAssumption DEF ServerMessages, ChannelIds, CONTROL_CHANNEL_ID
  <2>2. \/ acceptedBy' = acceptedBy
        \/ /\ m.command = "OpenChannelAccepted"
           /\ acceptedBy' = [acceptedBy EXCEPT ![m.channel] = conn]
    BY <1>1, <2>1 DEF ProcessMessageFromSouth, ProcessPlayerChannelMessage, Ignored, channelVars
  <2>3. CASE acceptedBy' = acceptedBy
    BY <1>6, <2>3
  <2>4. CASE /\ m.command = "OpenChannelAccepted"
             /\ acceptedBy' = [acceptedBy EXCEPT ![m.channel] = conn]
    <3>1. acceptedBy[ch] = other \/ (ch = m.channel /\ other = conn)
      BY <1>6, <2>4 DEF IInv, TypeOK
    <3>2. m = ClientMsg(m.channel, "OpenChannelAccepted")
      BY <1>3, <2>4 DEF ServerMessages, ClientMsg
    <3> QED
      BY <1>3, <3>1, <3>2
  <2> QED
    BY <2>2, <2>3, <2>4
<1> QED
  BY <1>1, <1>4, <1>5, <1>6, TransmitPlayers

LEMMA NoticesPlayers ==
    ASSUME IInv, IInv', AppInv, AppInv', PlayerInv, NEW conn \in Connections, ServerNoticesExit(conn)
    PROVE  FreshChannels' /\ AcceptedIsKnown'
<1>1. /\ controlChannels[conn] = "OPEN"
      /\ ApplicationClosed(conn)
      /\ northbound' = [northbound EXCEPT ![conn] = <<>>]
      /\ appState' = appState /\ Transmit /\ UNCHANGED clientVars
  BY DEF ServerNoticesExit
<1>2. StepFacts /\ acceptedBy' = acceptedBy
  BY <1>1, ApplicationClosedFacts DEF ApplicationClosed
<1>3. ASSUME NEW other \in Connections, NEW i \in DOMAIN northbound'[other]
      PROVE  \E j \in DOMAIN northbound[other] : northbound'[other][i] = northbound[other][j]
  <2>1. northbound \in [Connections -> Seq(ServerMessages)]
    BY DEF AppInv, StreamsOK
  <2>2. northbound'[other] = <<>> \/ northbound'[other] = northbound[other]
    BY <1>1, <2>1
  <2>3. \A k \in DOMAIN <<>> : FALSE
    OBVIOUS
  <2> QED
    BY <1>3, <2>2, <2>3
<1> QED
  BY <1>1, <1>2, <1>3, TransmitPlayers

\* The application reads a message: who it forgets has left, and no message for
\* him follows.
LEMMA AppReceivesPlayers ==
    ASSUME AppInv, AppInv', PlayerInv, NEW conn \in Connections, AppReceives(conn)
    PROVE  FreshChannels' /\ AcceptedIsKnown'
<1> DEFINE s == southbound[conn]
           m == Head(s)
           n == northbound[conn]
           known == clientChannels[conn]
<1>1. /\ appState[conn] = "up" /\ s # <<>>
      /\ southbound' = [southbound EXCEPT ![conn] = Tail(s)]
      /\ UNCHANGED <<channelIdCount, playerChannels, acceptedBy, appState>>
  BY DEF AppReceives, vars
<1>2. /\ southbound \in [Connections -> Seq(ClientMessages)] /\ s \in Seq(ClientMessages)
      /\ northbound \in [Connections -> Seq(ServerMessages)] /\ n \in Seq(ServerMessages)
      /\ clientChannels \in [Connections -> SUBSET ChannelIds]
  BY DEF AppInv, StreamsOK
<1>3. /\ m \in ClientMessages /\ m = s[1] /\ 1 \in DOMAIN s /\ DOMAIN Tail(s) \subseteq Nat
      /\ \A i \in DOMAIN Tail(s) : i + 1 \in DOMAIN s /\ Tail(s)[i] = s[i + 1]
  <2> HIDE DEF s
  <2> QED
    BY <1>1, <1>2, TailPositions
<1>4. m.channel < channelIdCount
  BY <1>3 DEF PlayerInv, FreshChannels
<1>5. southbound'[conn] = Tail(s)
  BY <1>1, <1>2
<1>6. \/ /\ northbound' = northbound
         /\ clientChannels' = clientChannels
      \/ /\ northbound' = northbound
         /\ m.channel \in ChannelIds /\ m = ClientMsg(m.channel, "CloseChannel")
         /\ clientChannels' = [clientChannels EXCEPT ![conn] = @ \ {m.channel}]
      \/ /\ m.channel \in ChannelIds
         /\ northbound' = [northbound EXCEPT
                ![conn] = Append(@, ClientMsg(m.channel, "OpenChannelAccepted"))]
         /\ clientChannels' = [clientChannels EXCEPT ![conn] = @ \cup {m.channel}]
  <2>1. m.channel # CONTROL_CHANNEL_ID => m.channel \in ChannelIds
    BY <1>3 DEF ClientMessages
  <2>2. m = ClientMsg(m.channel, m.command)
    BY <1>3 DEF ClientMessages, ClientMsg
  <2>3. CASE m.channel = CONTROL_CHANNEL_ID
    BY <2>3 DEF AppReceives, ReceiveControlMessage
  <2>4. CASE m.channel # CONTROL_CHANNEL_ID /\ m.channel \in known
    BY <2>1, <2>2, <2>4 DEF AppReceives, ReceiveOnKnownChannel
  <2>5. CASE m.channel # CONTROL_CHANNEL_ID /\ m.channel \notin known
    BY <2>1, <2>5 DEF AppReceives, ReceiveOnUnknownChannel, AcceptsUnknown, AcceptReply
  <2> QED
    BY <2>3, <2>4, <2>5
<1>7. ASSUME NEW other \in Connections, other # conn
      PROVE  /\ southbound'[other] = southbound[other]
             /\ northbound'[other] = northbound[other]
             /\ clientChannels'[other] = clientChannels[other]
  BY <1>1, <1>2, <1>6, <1>7
<1>8. \A i \in DOMAIN northbound'[conn] :
        \/ i \in DOMAIN n /\ northbound'[conn][i] = n[i]
        \/ /\ northbound'[conn][i] = ClientMsg(m.channel, "OpenChannelAccepted")
           /\ m.channel \in clientChannels'[conn]
  <2>1. CASE northbound' = northbound
    BY <2>1
  <2>2. CASE /\ m.channel \in ChannelIds
             /\ northbound' = [northbound EXCEPT
                    ![conn] = Append(@, ClientMsg(m.channel, "OpenChannelAccepted"))]
             /\ clientChannels' = [clientChannels EXCEPT ![conn] = @ \cup {m.channel}]
    <3> DEFINE a == ClientMsg(m.channel, "OpenChannelAccepted")
    <3>1. a \in ServerMessages
      BY <2>2 DEF ServerMessages, ClientMsg
    <3>2. northbound'[conn] = Append(n, a) /\ m.channel \in clientChannels'[conn]
      BY <1>2, <2>2
    <3> HIDE DEF a, n, m
    <3>3. \A i \in DOMAIN Append(n, a) : (i \in DOMAIN n /\ Append(n, a)[i] = n[i])
                                         \/ Append(n, a)[i] = a
      BY <1>2, <3>1, AppendedOne
    <3> QED
      BY <3>2, <3>3 DEF a
  <2> QED
    BY <1>6, <2>1, <2>2
<1> HIDE DEF m, n
<1>9. FreshChannels'
  <2> SUFFICES ASSUME NEW other \in Connections
      PROVE  /\ \A i \in DOMAIN southbound'[other] :
                    /\ southbound'[other][i].channel < channelIdCount
                    /\ southbound'[other][i].command = "PlayerMessage" =>
                            southbound'[other][i].channel \in ChannelIds
             /\ \A i \in DOMAIN northbound'[other] : northbound'[other][i].channel < channelIdCount
             /\ \A ch \in ChannelIds :
                    acceptedBy[ch] = other \/ ch \in clientChannels'[other] => ch < channelIdCount
      BY <1>1 DEF FreshChannels
  <2>1. CASE other # conn
    BY <1>7, <2>1 DEF PlayerInv, FreshChannels
  <2>2. CASE other = conn
    <3>1. \A i \in DOMAIN Tail(s) : /\ Tail(s)[i].channel < channelIdCount
                                    /\ Tail(s)[i].command = "PlayerMessage" =>
                                            Tail(s)[i].channel \in ChannelIds
      BY <1>3 DEF PlayerInv, FreshChannels
    <3>2. \A i \in DOMAIN northbound'[conn] : northbound'[conn][i].channel < channelIdCount
      <4>1. ClientMsg(m.channel, "OpenChannelAccepted").channel < channelIdCount
        BY <1>4 DEF ClientMsg
      <4>2. \A i \in DOMAIN n : n[i].channel < channelIdCount
        BY DEF PlayerInv, FreshChannels, n
      <4> QED
        BY <1>8, <4>1, <4>2
    <3>3. \A ch \in ChannelIds :
                acceptedBy[ch] = conn \/ ch \in clientChannels'[conn] => ch < channelIdCount
      <4>1. clientChannels'[conn] \subseteq known \cup {m.channel}
        BY <1>2, <1>6
      <4> QED
        BY <1>4, <4>1 DEF PlayerInv, FreshChannels
    <3> QED
      BY <1>5, <2>2, <3>1, <3>2, <3>3
  <2> QED
    BY <2>1, <2>2
<1>10. ASSUME NEW ch \in ChannelIds
       PROVE  /\ \A i \in DOMAIN s :
                   /\ s[i] = ClientMsg(ch, "CloseChannel") => playerChannels[ch] = "ABSENT"
                   /\ s[i] = ClientMsg(ch, "PlayerMessage") =>
                            ch \in known /\ NotClosedBefore(s, i, ch)
              /\ playerChannels[ch] # "ABSENT" =>
                   /\ acceptedBy[ch] = conn => ch \in known
                   /\ \A i \in DOMAIN n : n[i] = ClientMsg(ch, "OpenChannelAccepted") => ch \in known
  BY <1>1 DEF PlayerInv, AcceptedIsKnown, n
<1>11. ASSUME NEW ch \in ChannelIds, ch \in known, ch \notin clientChannels'[conn]
       PROVE  m = ClientMsg(ch, "CloseChannel") /\ playerChannels[ch] = "ABSENT"
  <2>1. m = ClientMsg(ch, "CloseChannel")
    BY <1>2, <1>6, <1>11
  <2> QED
    BY <1>3, <1>10, <2>1
<1>12. ASSUME NEW ch \in ChannelIds
       PROVE  /\ \A i \in DOMAIN Tail(s) :
                   /\ Tail(s)[i] = ClientMsg(ch, "CloseChannel") => playerChannels[ch] = "ABSENT"
                   /\ Tail(s)[i] = ClientMsg(ch, "PlayerMessage") =>
                        ch \in clientChannels'[conn] /\ NotClosedBefore(Tail(s), i, ch)
              /\ playerChannels[ch] # "ABSENT" =>
                   /\ acceptedBy[ch] = conn => ch \in clientChannels'[conn]
                   /\ \A i \in DOMAIN northbound'[conn] :
                        northbound'[conn][i] = ClientMsg(ch, "OpenChannelAccepted") =>
                            ch \in clientChannels'[conn]
  <2>1. ASSUME NEW i \in DOMAIN Tail(s), Tail(s)[i] = ClientMsg(ch, "CloseChannel")
        PROVE  playerChannels[ch] = "ABSENT"
    BY <1>3, <1>10, <2>1
  <2>2. ASSUME NEW i \in DOMAIN Tail(s), Tail(s)[i] = ClientMsg(ch, "PlayerMessage")
        PROVE  ch \in clientChannels'[conn] /\ NotClosedBefore(Tail(s), i, ch)
    <3>1. i + 1 \in DOMAIN s /\ s[i + 1] = ClientMsg(ch, "PlayerMessage") /\ 1 < i + 1
      <4>1. i \in Nat /\ i >= 1
        BY <1>2, <1>3 DEF s
      <4> QED
        BY <1>3, <2>2, <4>1
    <3>2. ch \in known /\ NotClosedBefore(s, i + 1, ch)
      BY <1>10, <3>1
    <3>3. m # ClientMsg(ch, "CloseChannel")
      BY <1>3, <3>1, <3>2 DEF NotClosedBefore
    <3>4. NotClosedBefore(Tail(s), i, ch)
      BY <1>3, <3>2 DEF NotClosedBefore
    <3> QED
      BY <1>11, <3>2, <3>3, <3>4
  <2>3. ASSUME playerChannels[ch] # "ABSENT", acceptedBy[ch] = conn
        PROVE  ch \in clientChannels'[conn]
    BY <1>10, <1>11, <2>3
  <2>4. ASSUME playerChannels[ch] # "ABSENT", NEW i \in DOMAIN northbound'[conn],
               northbound'[conn][i] = ClientMsg(ch, "OpenChannelAccepted")
        PROVE  ch \in clientChannels'[conn]
    <3>1. CASE i \in DOMAIN n /\ northbound'[conn][i] = n[i]
      BY <1>10, <1>11, <2>4, <3>1
    <3>2. CASE /\ northbound'[conn][i] = ClientMsg(m.channel, "OpenChannelAccepted")
               /\ m.channel \in clientChannels'[conn]
      BY <2>4, <3>2 DEF ClientMsg
    <3> QED
      BY <1>8, <3>1, <3>2
  <2> QED
    BY <2>1, <2>2, <2>3, <2>4
<1>13. AcceptedIsKnown'
  <2> SUFFICES ASSUME NEW other \in Connections, NEW ch \in ChannelIds, appState[other] = "up"
      PROVE  /\ \A i \in DOMAIN southbound'[other] :
                /\ southbound'[other][i] = ClientMsg(ch, "CloseChannel") =>
                        playerChannels[ch] = "ABSENT"
                /\ southbound'[other][i] = ClientMsg(ch, "PlayerMessage") =>
                        ch \in clientChannels'[other] /\ NotClosedBefore(southbound'[other], i, ch)
             /\ playerChannels[ch] # "ABSENT" =>
                /\ acceptedBy[ch] = other => ch \in clientChannels'[other]
                /\ \A i \in DOMAIN northbound'[other] :
                        northbound'[other][i] = ClientMsg(ch, "OpenChannelAccepted") =>
                            ch \in clientChannels'[other]
      BY <1>1 DEF AcceptedIsKnown, NotClosedBefore
  <2>1. CASE other # conn
    BY <1>7, <2>1 DEF PlayerInv, AcceptedIsKnown
  <2>2. CASE other = conn
    BY <1>5, <1>12, <2>2
  <2> QED
    BY <2>1, <2>2
<1> QED
  BY <1>9, <1>13


LEMMA AppSendsPlayers ==
    ASSUME AppInv, PlayerInv, NEW conn \in Connections, NEW ch \in ChannelIds,
           AppSendsPlayerMessage(conn, ch)
    PROVE  FreshChannels' /\ AcceptedIsKnown'
<1> DEFINE a == ClientMsg(ch, "PlayerMessage")
<1>1. /\ ch \in clientChannels[conn]
      /\ northbound' = [northbound EXCEPT ![conn] = Append(@, a)]
      /\ UNCHANGED <<channelIdCount, playerChannels, acceptedBy,
                     appState, southbound, clientChannels>>
  BY DEF AppSendsPlayerMessage, vars, clientVars
<1>2. /\ a \in ServerMessages /\ a.channel = ch
      /\ \A c : a # ClientMsg(c, "OpenChannelAccepted")
  BY DEF ServerMessages, ClientMsg
<1> HIDE DEF a
<1>3. ASSUME NEW other \in Connections, NEW i \in DOMAIN northbound'[other]
      PROVE  \/ i \in DOMAIN northbound[other] /\ northbound'[other][i] = northbound[other][i]
             \/ other = conn /\ northbound'[other][i] = a
  <2>1. northbound \in [Connections -> Seq(ServerMessages)]
    BY DEF AppInv, StreamsOK
  <2>2. northbound[conn] \in Seq(ServerMessages)
    BY <2>1
  <2>3. CASE other # conn
    BY <1>1, <1>3, <2>1, <2>3
  <2>4. CASE other = conn
    <3>1. northbound'[conn] = Append(northbound[conn], a)
      BY <1>1, <2>1
    <3> QED
      BY <1>2, <1>3, <2>2, <2>4, <3>1
  <2> QED
    BY <2>3, <2>4
<1>4. ch < channelIdCount
  BY <1>1 DEF PlayerInv, FreshChannels
<1>5. FreshChannels'
  BY <1>1, <1>2, <1>3, <1>4 DEF PlayerInv, FreshChannels
<1>6. AcceptedIsKnown'
  BY <1>1, <1>2, <1>3 DEF PlayerInv, AcceptedIsKnown, NotClosedBefore
<1> QED
  BY <1>5, <1>6

LEMMA AppExitsPlayers ==
    ASSUME AppInv, PlayerInv, NEW conn \in Connections, AppExits(conn)
    PROVE  FreshChannels' /\ AcceptedIsKnown'
<1>1. /\ appState' = [appState EXCEPT ![conn] = "exited"]
      /\ southbound' = [southbound EXCEPT ![conn] = <<>>]
      /\ clientChannels' = [clientChannels EXCEPT ![conn] = {}]
      /\ UNCHANGED <<channelIdCount, playerChannels, acceptedBy, northbound>>
  BY DEF AppExits, vars
<1>2. \A i \in DOMAIN <<>> : FALSE
  OBVIOUS
<1>3. /\ appState'[conn] = "exited" /\ southbound'[conn] = <<>> /\ clientChannels'[conn] = {}
      /\ \A other \in Connections : other # conn =>
            /\ appState'[other] = appState[other]
            /\ southbound'[other] = southbound[other]
            /\ clientChannels'[other] = clientChannels[other]
  BY <1>1 DEF AppInv, StreamsOK
<1>4. FreshChannels'
  BY <1>1, <1>2, <1>3 DEF PlayerInv, FreshChannels
<1>5. AcceptedIsKnown'
  BY <1>1, <1>3 DEF PlayerInv, AcceptedIsKnown, NotClosedBefore
<1> QED
  BY <1>4, <1>5

LEMMA BreaksPlayers ==
    ASSUME AppInv, PlayerInv, NEW conn \in Connections, NEW next \in Connections,
           ConnectionBreaks(conn, next)
    PROVE  FreshChannels' /\ AcceptedIsKnown'
<1> USE DEF AppStates, NotYetConnected
<1>1. /\ appState[conn] \in {"up", "discarded"} /\ appState[next] = "down"
      /\ appState' = [appState EXCEPT ![conn] = "exited", ![next] = "reconnecting"]
      /\ southbound' = [southbound EXCEPT ![conn] = <<>>]
      /\ clientChannels' = [clientChannels EXCEPT ![conn] = {}]
      /\ UNCHANGED <<channelIdCount, playerChannels, acceptedBy, northbound>>
  BY DEF ConnectionBreaks, vars
<1>2. \A i \in DOMAIN <<>> : FALSE
  OBVIOUS
<1>3. /\ southbound'[conn] = <<>> /\ clientChannels'[conn] = {}
      /\ \A other \in Connections :
            /\ appState'[other] = "up" => other # conn /\ appState[other] = "up"
            /\ other # conn => southbound'[other] = southbound[other]
                                /\ clientChannels'[other] = clientChannels[other]
  BY <1>1 DEF AppInv, StreamsOK
<1>4. FreshChannels'
  BY <1>1, <1>2, <1>3 DEF PlayerInv, FreshChannels
<1>5. AcceptedIsKnown'
  BY <1>1, <1>3 DEF PlayerInv, AcceptedIsKnown, NotClosedBefore
<1> QED
  BY <1>4, <1>5

\* The composition's invariant, if an uninitialised _state never reads as open.
ConversationInv == IInv /\ AppInv /\ PlayerInv

LEMMA AppNextPlayerInv ==
    ASSUME "CHANNEL_OPEN" \notin GarbageStates, ConversationInv, [AppNext]_allVars
    PROVE  ConversationInv'
<1> USE DEF ConversationInv
<1>1. IInv' /\ AppInv'
  BY AppNextAppInv
<1>2. NeverOpenUnwritten'
  <2>1. [Next]_vars
    <3>1. UNCHANGED allVars => UNCHANGED vars
      BY DEF allVars
    <3> QED
      BY <3>1, NextIsNext DEF AppInv
  <2> QED
    BY <2>1, NextUnwritten DEF PlayerInv
<1>3. ASSUME NEW conn \in Connections, AppConnects(conn) PROVE FreshChannels' /\ AcceptedIsKnown'
  BY <1>1, <1>3, ConnectsPlayers
<1>4. ASSUME NEW conn \in Connections, ServerReceives(conn)
      PROVE  FreshChannels' /\ AcceptedIsKnown'
  BY <1>1, <1>4, ReceivesPlayers
<1>5. ASSUME NEW conn \in Connections, ServerNoticesExit(conn)
      PROVE  FreshChannels' /\ AcceptedIsKnown'
  BY <1>1, <1>5, NoticesPlayers
<1>6. ASSUME NEW conn \in Connections, AppReceives(conn) PROVE FreshChannels' /\ AcceptedIsKnown'
  BY <1>1, <1>6, AppReceivesPlayers
<1>7. ASSUME NEW conn \in Connections, AppExits(conn) PROVE FreshChannels' /\ AcceptedIsKnown'
  BY <1>7, AppExitsPlayers
<1>8. ASSUME NEW conn \in Connections, NEW next \in Connections, ConnectionBreaks(conn, next)
      PROVE  FreshChannels' /\ AcceptedIsKnown'
  BY <1>8, BreaksPlayers
<1>9. ASSUME NEW conn \in Connections, NEW ch \in ChannelIds, AppSendsPlayerMessage(conn, ch)
      PROVE  FreshChannels' /\ AcceptedIsKnown'
  BY <1>9, AppSendsPlayers
<1>10. ASSUME ServerOperates PROVE FreshChannels' /\ AcceptedIsKnown'
  BY <1>1, <1>10, OperatesPlayers
<1>11. ASSUME NEW conn \in Connections, ReconnectDiscarded(conn)
       PROVE  FreshChannels' /\ AcceptedIsKnown'
  <2>1. /\ appState' = [appState EXCEPT ![conn] = "discarded"]
        /\ UNCHANGED <<channelIdCount, playerChannels, acceptedBy, southbound, northbound,
                       clientChannels>>
    BY <1>11 DEF ReconnectDiscarded, vars, clientVars
  <2>2. \A other \in Connections : appState'[other] = "up" => appState[other] = "up"
    BY <2>1 DEF AppInv, StreamsOK
  <2> QED
    BY <2>1, <2>2 DEF PlayerInv, FreshChannels, AcceptedIsKnown, NotClosedBefore
<1>12. ASSUME UNCHANGED allVars PROVE FreshChannels' /\ AcceptedIsKnown'
  BY <1>12 DEF allVars, appVars, vars, PlayerInv, FreshChannels, AcceptedIsKnown, NotClosedBefore
<1>13. FreshChannels' /\ AcceptedIsKnown'
  BY <1>3, <1>4, <1>5, <1>6, <1>7, <1>8, <1>9, <1>10, <1>11, <1>12 DEF AppNext
<1> QED
  BY <1>1, <1>2, <1>13 DEF PlayerInv

\* No application that was sent a player's message throws it away as one for a
\* player it does not know, whatever was switched, closed or reopened before.
\* An uninitialised _state that reads as open makes the server forward messages
\* for a channel that was never offered: the theorem is about builds where it
\* does not.
THEOREM NoOrphanCorrect ==
    ASSUME "CHANNEL_OPEN" \notin GarbageStates
    PROVE  AppSpec => []NoOrphanPlayerMessage
<1>1. AppInit => ConversationInv
  BY InitAppInv, InitPlayerInv DEF ConversationInv
<1>2. ConversationInv /\ [AppNext]_allVars => ConversationInv'
  BY AppNextPlayerInv
<1>3. ConversationInv => NoOrphanPlayerMessage
  <2> SUFFICES ASSUME ConversationInv, NEW conn \in Connections, southbound[conn] # <<>>,
                      Head(southbound[conn]).command = "PlayerMessage"
               PROVE  Head(southbound[conn]).channel \in clientChannels[conn]
      BY DEF NoOrphanPlayerMessage
  <2>1. southbound[conn] \in Seq(ClientMessages)
    BY DEF ConversationInv, AppInv, StreamsOK
  <2>2. /\ 1 \in DOMAIN southbound[conn] /\ Head(southbound[conn]) = southbound[conn][1]
        /\ southbound[conn][1] \in ClientMessages
    BY <2>1
  <2>3. southbound[conn][1].channel \in ChannelIds
    BY <2>2 DEF ConversationInv, PlayerInv, FreshChannels
  <2>4. southbound[conn][1] = ClientMsg(southbound[conn][1].channel, "PlayerMessage")
    BY <2>2 DEF ClientMessages, ClientMsg
  <2>5. appState[conn] = "up"
    BY DEF ConversationInv, AppInv, LifeCycle
  <2> QED
    BY <2>2, <2>3, <2>4, <2>5 DEF ConversationInv, PlayerInv, AcceptedIsKnown
<1> QED
  BY <1>1, <1>2, <1>3, PTL DEF AppSpec

=============================================================================
