------------------------ MODULE PlayerSessionsProofs ------------------------
(***************************************************************************)
(* Proofs about PlayerSessions, for any number of sessions, websockets and *)
(* channels.                                                               *)
(*                                                                         *)
(* The properties each follow a chain of tables, and a step that changes   *)
(* one table breaks them unless the others agree with it.  The inductive   *)
(* invariant is therefore that agreement: sessions have ids and names of   *)
(* their own (SessionsApart), and each table leads back to where another   *)
(* came from (TablesLink).                                                 *)
(***************************************************************************)
EXTENDS PlayerSessions, ChannelManagerProofs

\* The ids handed out lie between the two counters, which no more than
\* MaxSessions requests have moved.
SessionsApart ==
    /\ playerIdCounter <= tokenCounter + 1
    /\ guestIdCounter >= -(tokenCounter + 2)
    /\ \A token \in Tokens :
        /\ token >= tokenCounter => sessions[token] = NoSession
        /\ sessions[token].id < playerIdCounter
        /\ sessions[token].id > guestIdCounter
    /\ \A t1, t2 \in Tokens :
        /\ sessions[t1] # NoSession
        /\ sessions[t2] # NoSession
        /\ sessions[t1].id = sessions[t2].id \/ sessions[t1].name = sessions[t2].name
        => t1 = t2

\* What the tables hold of a websocket that is served.
Served(socket) ==
    LET pid == connectionPlayer[socket]
        ch == channelByPlayerId[pid]
    IN  /\ socketToken[socket] \in Tokens
        /\ sessions[socketToken[socket]].id = pid
        /\ connectionByPlayerId[pid] = socket
        /\ ch \in ChannelIds
        /\ playerChannels[ch] # "ABSENT"
        /\ playerIdByChannelId[ch] = pid
        /\ playerMeta[ch] = sessions[socketToken[socket]]

\* What they hold of a channel that exists.
Owned(ch) ==
    LET pid == playerIdByChannelId[ch]
    IN  /\ pid \in PlayerIds
        /\ channelByPlayerId[pid] = ch
        /\ connectionByPlayerId[pid] # NoSocket

TablesLink ==
    /\ \A socket \in Sockets : connectionPlayer[socket] # NoPlayer => Served(socket)
    /\ \A pid \in PlayerIds : connectionByPlayerId[pid] # NoSocket =>
            connectionPlayer[connectionByPlayerId[pid]] = pid
    /\ \A ch \in ChannelIds : playerChannels[ch] # "ABSENT" => Owned(ch)

NorthInv ==
    /\ IInv
    /\ NorthTypeOK
    /\ SessionsApart
    /\ TablesLink

-----------------------------------------------------------------------------
(* Lemmas.                                                                 *)

\* No player has the id 0.
LEMMA PlayerIdsFacts ==
    /\ PlayerIds \subseteq Int
    /\ NoPlayer \in Int \ PlayerIds
    /\ NoChannel \notin ChannelIds
    /\ ChannelIds \subseteq Nat
    /\ Tokens \subseteq Nat
    /\ NoToken \notin Tokens
BY MaxSessionsAssumption, MaxChannelIdAssumption
DEF PlayerIds, NoPlayer, NoChannel, ChannelIds, Tokens, NoToken

\* A session is one exactly if its id is a player's.
LEMMA SessionFacts ==
    /\ NoSession.id = NoPlayer
    /\ \A s \in Session : /\ s.id \in Int
                          /\ s # NoSession <=> s.id \in PlayerIds
<1>1. NoSession.id = NoPlayer
  BY DEF NoSession
<1>2. ASSUME NEW s \in Session, s # NoSession PROVE s.id \in PlayerIds
  BY <1>2 DEF Session
<1> QED
  BY <1>1, <1>2, PlayerIdsFacts

LEMMA NorthInitInv == NorthInit => NorthInv
<1> SUFFICES ASSUME NorthInit PROVE NorthInv
    OBVIOUS
<1>1. IInv
  BY InitIInv DEF NorthInit
<1>2. NorthTypeOK
  BY MaxSessionsAssumption DEF NorthInit, NorthTypeOK, Session
<1>3. SessionsApart
  BY SessionFacts, PlayerIdsFacts, MaxSessionsAssumption
  DEF NorthInit, SessionsApart, NoPlayer
<1>4. TablesLink
  BY DEF NorthInit, TablesLink, Init
<1> QED
  BY <1>1, <1>2, <1>3, <1>4 DEF NorthInv

\* Which channels exist is all that the tables depend on.
SameChannels ==
    \A ch \in ChannelIds : playerChannels'[ch] = "ABSENT" <=> playerChannels[ch] = "ABSENT"

LEMMA TablesFrame ==
    ASSUME TablesLink, SameChannels, UNCHANGED <<sessions, socketVars, tableVars>>
    PROVE  TablesLink'
<1> USE DEF socketVars, tableVars
<1>1. \A socket \in Sockets : Served(socket) => Served(socket)'
  BY DEF Served, SameChannels
<1>2. \A ch \in ChannelIds : Owned(ch) => Owned(ch)'
  BY DEF Owned
<1> QED
  BY <1>1, <1>2 DEF TablesLink, SameChannels

LEMMA IgnoredSame == Ignored => SameChannels
BY DEF Ignored, SameChannels, channelVars

\* The manager's switches close and open channels, and neither add nor remove
\* one.
LEMMA ActivationSame ==
    ASSUME IInv, NEW conn \in Connections, Activation(conn)
    PROVE  SameChannels
<1>1. playerChannels \in ChannelMap
  BY DEF IInv, TypeOK, ChannelMap
<1> QED
  BY <1>1, ClosedFacts, OpenedFacts DEF Activation, SameChannels

LEMMA ApplicationsChangeSame == IInv /\ ApplicationsChange => SameChannels
<1> SUFFICES ASSUME IInv, NEW conn \in Connections,
                    \/ ConnectionValidated(conn)
                    \/ ActivateConnection(conn)
                    \/ DeactivateConnection(conn)
                    \/ ApplicationClosed(conn)
             PROVE  SameChannels
    BY DEF ApplicationsChange
<1>1. playerChannels \in ChannelMap
  BY DEF IInv, TypeOK, ChannelMap
<1>2. CASE ConnectionValidated(conn)
  BY <1>2, ActivationSame DEF ConnectionValidated
<1>3. CASE ActivateConnection(conn)
  BY <1>3, ActivationSame, IgnoredSame DEF ActivateConnection
<1>4. CASE DeactivateConnection(conn)
  BY <1>1, <1>4, IgnoredSame, ClosedFacts, OpenedFacts DEF DeactivateConnection, SameChannels
<1>5. CASE ApplicationClosed(conn)
  BY <1>1, <1>5, IgnoredSame, ClosedFacts, OpenedFacts, SMTT(30) DEF ApplicationClosed, SameChannels
<1> QED
  BY <1>2, <1>3, <1>4, <1>5

LEMMA FromSouthSame ==
    ASSUME IInv, NEW conn \in Connections, NEW ch \in ChannelIds, NEW cmd \in SouthCommands,
           ProcessMessageFromSouth(conn, ch, cmd)
    PROVE  /\ SameChannels
           /\ toNorth' \subseteq ChannelIds
           /\ \A north \in toNorth' : playerChannels[north] # "ABSENT"
<1>1. ch # CONTROL_CHANNEL_ID
  BY PlayerIdsFacts DEF CONTROL_CHANNEL_ID, NoChannel
<1>2. playerChannels \in ChannelMap
  BY DEF IInv, TypeOK, ChannelMap
<1> QED
  BY <1>1, <1>2, IgnoredSame DEF ProcessMessageFromSouth, ProcessPlayerChannelMessage,
     ListenedTo, SameChannels, Ignored, ChannelMap

\* The channel manager's part of a step keeps its invariant.
LEMMA ManagerStepInv ==
    ASSUME NorthInv, NorthNext
    PROVE  IInv'
<1> USE DEF NorthInv
<1>1. ASSUME NEW socket \in Sockets, WebsocketDisconnects(socket) PROVE IInv'
  <2> DEFINE pid == connectionPlayer[socket]
  <2>1. pid \in PlayerIds /\ Served(socket)
    BY <1>1 DEF WebsocketDisconnects, NorthTypeOK, TablesLink
  <2>2. socket # NoSocket
    BY SocketsAssumption
  <2>3. ClosePlayerChannel(channelByPlayerId[pid])
    BY <1>1, <2>1, <2>2 DEF WebsocketDisconnects, Served, ClosesChannelOf
  <2> QED
    BY <2>1, <2>3, NextIInv DEF Served, Next
<1>2. ASSUME NEW socket \in Sockets, NEW action \in {"GoToMainMenu", "other"},
             PlayerMessageReceived(socket, action)
      PROVE  IInv'
  <2> DEFINE ch == channelByPlayerId[connectionPlayer[socket]]
  <2>1. ch \in ChannelIds
    BY <1>2 DEF PlayerMessageReceived, TablesLink, Served
  <2>2. ReceivePlayerMessageFromNorth(ch, action)
    BY <1>2, <2>1, PlayerIdsFacts DEF PlayerMessageReceived
  <2> QED
    BY <2>1, <2>2, FromNorthIInv
<1>3. ASSUME NEW conn \in Connections, NEW ch \in ChannelIds, NEW cmd \in SouthCommands,
             MessageFromApplication(conn, ch, cmd)
      PROVE  IInv'
  BY <1>3, FromSouthIInv DEF MessageFromApplication
<1>4. ASSUME ApplicationsChange PROVE IInv'
  BY <1>4, NextIInv DEF ApplicationsChange, Next
<1> QED
  BY <1>1, <1>2, <1>3, <1>4, IgnoredIInv, OpenPlayerChannelIInv
  DEF NorthNext, OpenConsoleSession, RefusedWebsocket, NewPlayerConnection

-----------------------------------------------------------------------------
(* Sessions.                                                               *)

\* What a request that is granted does to the sessions.
LEMMA OpenConsoleSessionApart ==
    ASSUME NorthTypeOK, SessionsApart, NEW name \in Names, NEW isGuest \in BOOLEAN,
           OpenConsoleSession(name, isGuest)
    PROVE  /\ sessions' \in [Tokens -> Session]
           /\ tokenCounter' \in 0..MaxSessions
           /\ playerIdCounter' \in 1..(MaxSessions + 1)
           /\ guestIdCounter' \in -(MaxSessions + 2)..-2
           /\ SessionsApart'
           /\ \A token \in Tokens : sessions[token] # NoSession => sessions'[token] = sessions[token]
<1> DEFINE new == [id |-> IF isGuest THEN guestIdCounter ELSE playerIdCounter, name |-> name]
<1>1. tokenCounter \in 0..(MaxSessions - 1)
  BY DEF OpenConsoleSession, Tokens
<1>2. /\ playerIdCounter \in 1..MaxSessions
      /\ guestIdCounter \in -(MaxSessions + 1)..-2
  BY <1>1, MaxSessionsAssumption DEF NorthTypeOK, SessionsApart
<1>3. new \in Session /\ new.id \in PlayerIds /\ new.name = name
  BY <1>2 DEF Session, PlayerIds
<1>4. sessions' = [sessions EXCEPT ![tokenCounter] = new]
  BY DEF OpenConsoleSession
<1>5. sessions[tokenCounter] = NoSession
  BY <1>1 DEF SessionsApart, Tokens
<1>6. sessions' \in [Tokens -> Session]
  BY <1>3, <1>4 DEF NorthTypeOK
<1>7. /\ tokenCounter' = tokenCounter + 1
      /\ playerIdCounter' = IF isGuest THEN playerIdCounter ELSE playerIdCounter + 1
      /\ guestIdCounter' = IF isGuest THEN guestIdCounter - 1 ELSE guestIdCounter
  BY DEF OpenConsoleSession, NextGuestId
<1>8. \A token \in Tokens : token # tokenCounter => sessions'[token] = sessions[token]
  BY <1>4 DEF NorthTypeOK
<1>9. sessions'[tokenCounter] = new
  BY <1>1, <1>4 DEF NorthTypeOK, Tokens
<1>10. ASSUME NEW token \in Tokens
       PROVE  /\ token >= tokenCounter' => sessions'[token] = NoSession
              /\ sessions'[token].id < playerIdCounter'
              /\ sessions'[token].id > guestIdCounter'
  <2>1. CASE token = tokenCounter
    BY <1>1, <1>2, <1>7, <1>9, <2>1, MaxSessionsAssumption DEF Tokens
  <2>2. CASE token # tokenCounter
    <3>1. sessions[token].id \in Int
      BY SessionFacts DEF NorthTypeOK
    <3> QED
      BY <1>1, <1>2, <1>7, <1>8, <2>2, <3>1, MaxSessionsAssumption DEF SessionsApart, Tokens
  <2> QED
    BY <2>1, <2>2
<1>11. \A token \in Tokens : token # tokenCounter =>
            sessions[token].id # new.id /\ sessions[token].name # name
  <2>1. \A token \in Tokens : sessions[token].name # name
    BY DEF OpenConsoleSession, IsPlayerNameReserved
  <2>2. ASSUME NEW token \in Tokens PROVE sessions[token].id # new.id
    <3>1. sessions[token].id \in Int
      BY SessionFacts DEF NorthTypeOK
    <3> QED
      BY <1>2, <3>1 DEF SessionsApart
  <2> QED
    BY <2>1, <2>2
<1>12. ASSUME NEW t1 \in Tokens, NEW t2 \in Tokens,
              sessions'[t1] # NoSession, sessions'[t2] # NoSession,
              \/ sessions'[t1].id = sessions'[t2].id
              \/ sessions'[t1].name = sessions'[t2].name
       PROVE  t1 = t2
  <2>1. CASE t1 = tokenCounter
    BY <1>3, <1>8, <1>9, <1>11, <1>12, <2>1
  <2>2. CASE t2 = tokenCounter
    BY <1>3, <1>8, <1>9, <1>11, <1>12, <2>2
  <2>3. CASE t1 # tokenCounter /\ t2 # tokenCounter
    BY <1>8, <1>12, <2>3 DEF SessionsApart
  <2> QED
    BY <2>1, <2>2, <2>3
<1>13. /\ playerIdCounter' <= tokenCounter' + 1
       /\ guestIdCounter' >= -(tokenCounter' + 2)
       /\ tokenCounter' \in 0..MaxSessions
       /\ playerIdCounter' \in 1..(MaxSessions + 1)
       /\ guestIdCounter' \in -(MaxSessions + 2)..-2
  BY <1>1, <1>2, <1>7, MaxSessionsAssumption DEF SessionsApart
<1>14. SessionsApart'
  BY <1>10, <1>12, <1>13 DEF SessionsApart
<1> QED
  BY <1>5, <1>6, <1>8, <1>13, <1>14

\* Removing a player's session leaves the others as they are.
LEMMA SessionRemovedApart ==
    ASSUME NorthTypeOK, SessionsApart, NEW pid \in PlayerIds,
           sessions' = SessionRemoved(pid),
           UNCHANGED <<tokenCounter, playerIdCounter, guestIdCounter>>
    PROVE  /\ sessions' \in [Tokens -> Session]
           /\ SessionsApart'
<1>1. sessions' \in [Tokens -> Session]
  BY DEF SessionRemoved, NorthTypeOK, Session
<1>2. \A token \in Tokens :
        sessions'[token] = IF sessions[token].id = pid THEN NoSession ELSE sessions[token]
  BY DEF SessionRemoved
<1>3. NoPlayer < playerIdCounter /\ NoPlayer > guestIdCounter
  BY MaxSessionsAssumption DEF NorthTypeOK, NoPlayer
<1>4. SessionsApart'
  BY <1>2, <1>3, SessionFacts DEF SessionsApart
<1> QED
  BY <1>1, <1>4

-----------------------------------------------------------------------------
(* One lemma per action: what it does to the north side.                   *)

NorthSideInv == NorthTypeOK /\ SessionsApart /\ TablesLink

LEMMA OpenConsoleSessionInv ==
    ASSUME NorthInv, NEW name \in Names, NEW isGuest \in BOOLEAN,
           OpenConsoleSession(name, isGuest)
    PROVE  NorthSideInv'
<1>1. NorthTypeOK /\ SessionsApart /\ TablesLink
  BY DEF NorthInv
<1>2. SessionsApart' /\ NorthTypeOK'
  BY <1>1, OpenConsoleSessionApart DEF OpenConsoleSession, NorthTypeOK, socketVars, tableVars
<1>3. ASSUME NEW socket \in Sockets, connectionPlayer[socket] # NoPlayer, Served(socket)
      PROVE  Served(socket)'
  <2>1. sessions[socketToken[socket]] # NoSession
    BY <1>3, SessionFacts DEF Served
  <2>2. sessions'[socketToken[socket]] = sessions[socketToken[socket]]
    BY <1>1, <1>3, <2>1, OpenConsoleSessionApart DEF Served
  <2> QED
    BY <1>3, <2>2 DEF OpenConsoleSession, Served, Ignored, socketVars, tableVars, channelVars
<1>4. TablesLink'
  BY <1>1, <1>3 DEF OpenConsoleSession, TablesLink, Owned, Ignored, socketVars, tableVars,
     channelVars
<1> QED
  BY <1>2, <1>4 DEF NorthSideInv

LEMMA RefusedWebsocketInv ==
    ASSUME NorthInv, NEW socket \in Sockets, NEW token \in Tokens,
           RefusedWebsocket(socket, token)
    PROVE  NorthSideInv'
<1> USE DEF NorthInv, RefusedWebsocket
<1>1. NorthTypeOK' /\ SessionsApart'
  BY DEF NorthTypeOK, SessionsApart, sessionVars, tableVars
<1>2. ASSUME NEW other \in Sockets, Served(other) PROVE Served(other)'
  <2>1. other # socket
    BY <1>2, PlayerIdsFacts DEF Served
  <2> QED
    BY <1>2, <2>1 DEF Served, NorthTypeOK, sessionVars, tableVars, Ignored, channelVars
<1>3. TablesLink'
  BY <1>2 DEF TablesLink, Owned, tableVars, Ignored, channelVars
<1> QED
  BY <1>1, <1>3 DEF NorthSideInv

LEMMA NewPlayerConnectionInv ==
    ASSUME NorthInv, NEW socket \in Sockets, NEW token \in Tokens,
           NewPlayerConnection(socket, token)
    PROVE  NorthSideInv'
<1> DEFINE pid == sessions[token].id
           ch == channelIdCount
<1>1. NorthTypeOK /\ SessionsApart /\ TablesLink /\ TypeOK
  BY DEF NorthInv, IInv
<1>2. pid \in PlayerIds
  BY <1>1, SessionFacts DEF NewPlayerConnection, NorthTypeOK
<1>3. /\ ch \in ChannelIds
      /\ playerChannels[ch] = "ABSENT"
      /\ playerChannels'[ch] # "ABSENT"
      /\ \A other \in ChannelIds : other # ch => playerChannels'[other] = playerChannels[other]
  <2>1. ch \in ChannelIds /\ playerChannels[ch] = "ABSENT"
    BY <1>1, MaxChannelIdAssumption DEF NewPlayerConnection, OpenPlayerChannel, TypeOK, ChannelIds
  <2>2. PICK found \in GarbageStates \cup {"CHANNEL_CLOSED"} :
            playerChannels' = [playerChannels EXCEPT
                ![ch] = IF found = "CHANNEL_CLOSED" THEN "CHANNEL_OPEN_ONGOING" ELSE found]
    BY DEF NewPlayerConnection, OpenPlayerChannel
  <2> QED
    BY <1>1, <2>1, <2>2, GarbageStatesAssumption DEF TypeOK
<1>4. /\ socketToken' = [socketToken EXCEPT ![socket] = token]
      /\ connectionPlayer' = [connectionPlayer EXCEPT ![socket] = pid]
      /\ connectionByPlayerId' = [connectionByPlayerId EXCEPT ![pid] = socket]
      /\ channelByPlayerId' = [channelByPlayerId EXCEPT ![pid] = ch]
      /\ playerIdByChannelId' = [playerIdByChannelId EXCEPT ![ch] = pid]
      /\ playerMeta' = [playerMeta EXCEPT ![ch] = sessions[token]]
      /\ delivered' = {}
      /\ UNCHANGED <<tokenCounter, playerIdCounter, guestIdCounter, sessions>>
  BY DEF NewPlayerConnection, sessionVars
<1>5. socketToken[socket] = NoToken /\ connectionByPlayerId[pid] = NoSocket
  <2>1. ASSUME connectionByPlayerId[pid] # NoSocket PROVE FALSE
    <3> DEFINE other == connectionByPlayerId[pid]
    <3>1. other \in Sockets /\ connectionPlayer[other] = pid
      BY <1>1, <1>2, <2>1 DEF NorthTypeOK, TablesLink
    <3>2. Served(other)
      BY <1>1, <1>2, <3>1, PlayerIdsFacts DEF TablesLink
    <3>3. sessions[socketToken[other]] # NoSession
      BY <1>2, <3>1, <3>2, SessionFacts, PlayerIdsFacts DEF Served
    <3>4. socketToken[other] = token
      BY <1>1, <3>1, <3>2, <3>3 DEF Served, SessionsApart, NewPlayerConnection
    <3> QED
      BY <1>2, <3>1, <3>4, PlayerIdsFacts DEF NewPlayerConnection
  <2> QED
    BY <2>1 DEF NewPlayerConnection
<1>6. NorthTypeOK' /\ SessionsApart'
  BY <1>1, <1>2, <1>3, <1>4 DEF NorthTypeOK, SessionsApart
<1>7. \A other \in Sockets : connectionPlayer[other] # NoPlayer =>
        /\ Served(other)
        /\ other # socket
        /\ connectionPlayer[other] # pid
        /\ channelByPlayerId[connectionPlayer[other]] # ch
  BY <1>1, <1>3, <1>5, PlayerIdsFacts, SocketsAssumption DEF TablesLink, Served
<1>8. ASSUME NEW other \in Sockets, connectionPlayer'[other] # NoPlayer PROVE Served(other)'
  <2>1. CASE other = socket
    BY <1>1, <1>2, <1>3, <1>4, <2>1 DEF Served, NorthTypeOK
  <2>2. CASE other # socket
    <3>1. connectionPlayer'[other] = connectionPlayer[other] /\ socketToken'[other] = socketToken[other]
      BY <1>1, <1>4, <2>2 DEF NorthTypeOK
    <3>2. /\ Served(other)
          /\ connectionPlayer[other] \in PlayerIds \ {pid}
          /\ channelByPlayerId[connectionPlayer[other]] # ch
      BY <1>1, <1>7, <1>8, <3>1 DEF NorthTypeOK
    <3> QED
      BY <1>1, <1>3, <1>4, <3>1, <3>2 DEF Served, NorthTypeOK
  <2> QED
    BY <2>1, <2>2
<1>9. ASSUME NEW p \in PlayerIds, connectionByPlayerId'[p] # NoSocket
      PROVE  connectionPlayer'[connectionByPlayerId'[p]] = p
  <2>1. CASE p = pid
    BY <1>1, <1>2, <1>4, <2>1 DEF NorthTypeOK
  <2>2. CASE p # pid
    <3>1. connectionByPlayerId'[p] = connectionByPlayerId[p] /\ connectionByPlayerId[p] \in Sockets
      BY <1>1, <1>4, <1>9, <2>2 DEF NorthTypeOK
    <3>2. connectionPlayer[connectionByPlayerId[p]] = p
      BY <1>1, <1>9, <3>1 DEF TablesLink
    <3>3. connectionByPlayerId[p] # socket
      BY <1>7, <3>1, <3>2, PlayerIdsFacts
    <3> QED
      BY <1>1, <1>4, <3>1, <3>2, <3>3 DEF NorthTypeOK
  <2> QED
    BY <2>1, <2>2
<1>10. ASSUME NEW c \in ChannelIds, playerChannels'[c] # "ABSENT" PROVE Owned(c)'
  <2>1. CASE c = ch
    BY <1>1, <1>2, <1>3, <1>4, <2>1, SocketsAssumption DEF Owned, NorthTypeOK
  <2>2. CASE c # ch
    <3>1. Owned(c) /\ playerIdByChannelId'[c] = playerIdByChannelId[c]
      BY <1>1, <1>3, <1>4, <1>10, <2>2 DEF TablesLink, NorthTypeOK
    <3>2. playerIdByChannelId[c] # pid
      BY <1>5, <3>1 DEF Owned
    <3> QED
      BY <1>1, <1>4, <3>1, <3>2 DEF Owned, NorthTypeOK
  <2> QED
    BY <2>1, <2>2
<1> QED
  BY <1>6, <1>8, <1>9, <1>10 DEF NorthSideInv, TablesLink

LEMMA WebsocketDisconnectsInv ==
    ASSUME NorthInv, NEW socket \in Sockets, WebsocketDisconnects(socket)
    PROVE  NorthSideInv'
<1> DEFINE pid == connectionPlayer[socket]
           ch == channelByPlayerId[pid]
<1>1. NorthTypeOK /\ SessionsApart /\ TablesLink /\ TypeOK
  BY DEF NorthInv, IInv
<1>2. pid \in PlayerIds /\ Served(socket)
  BY <1>1 DEF WebsocketDisconnects, NorthTypeOK, TablesLink
<1>3. connectionByPlayerId[pid] = socket /\ socket # NoSocket /\ ch \in ChannelIds
  BY <1>2, SocketsAssumption DEF Served
<1>4. /\ connectionPlayer' = [connectionPlayer EXCEPT ![socket] = NoPlayer]
      /\ connectionByPlayerId' = [connectionByPlayerId EXCEPT ![pid] = NoSocket]
      /\ sessions' = SessionRemoved(pid)
      /\ channelByPlayerId' = [channelByPlayerId EXCEPT ![pid] = NoChannel]
      /\ playerIdByChannelId' = [playerIdByChannelId EXCEPT ![ch] = NoPlayer]
      /\ ClosePlayerChannel(ch)
      /\ delivered' = {}
      /\ UNCHANGED <<playerMeta, tokenCounter, playerIdCounter, guestIdCounter, socketToken>>
  <2>1. [connectionPlayer EXCEPT ![socket] = NoPlayer, ![socket] = NoPlayer]
            = [connectionPlayer EXCEPT ![socket] = NoPlayer]
    BY <1>1 DEF NorthTypeOK
  <2> QED
    BY <1>3, <2>1 DEF WebsocketDisconnects, ClosesChannelOf
<1>5. playerChannels' = [playerChannels EXCEPT ![ch] = "ABSENT"]
  BY <1>4 DEF ClosePlayerChannel
<1>6. NorthTypeOK' /\ SessionsApart'
  BY <1>1, <1>2, <1>3, <1>4, SessionRemovedApart DEF NorthTypeOK
<1>7. ASSUME NEW other \in Sockets, connectionPlayer'[other] # NoPlayer PROVE Served(other)'
  <2>1. /\ other # socket
        /\ connectionPlayer'[other] = connectionPlayer[other]
        /\ connectionPlayer[other] \in PlayerIds
    BY <1>1, <1>4, <1>7 DEF NorthTypeOK
  <2>2. Served(other)
    BY <1>1, <1>7, <2>1 DEF TablesLink
  <2>3. connectionPlayer[other] # pid
    BY <1>3, <2>1, <2>2 DEF Served
  <2>4. channelByPlayerId[connectionPlayer[other]] # ch
    BY <1>2, <2>2, <2>3 DEF Served
  <2>5. sessions'[socketToken[other]] = sessions[socketToken[other]]
    BY <1>4, <2>2, <2>3 DEF Served, SessionRemoved
  <2> QED
    BY <1>1, <1>4, <1>5, <2>1, <2>2, <2>3, <2>4, <2>5 DEF Served, NorthTypeOK, TypeOK
<1>8. ASSUME NEW p \in PlayerIds, connectionByPlayerId'[p] # NoSocket
      PROVE  connectionPlayer'[connectionByPlayerId'[p]] = p
  <2>1. /\ p # pid
        /\ connectionByPlayerId'[p] = connectionByPlayerId[p]
        /\ connectionByPlayerId[p] \in Sockets
    BY <1>1, <1>4, <1>8 DEF NorthTypeOK
  <2>2. connectionPlayer[connectionByPlayerId[p]] = p
    BY <1>1, <1>8, <2>1 DEF TablesLink
  <2> QED
    BY <1>1, <1>4, <2>1, <2>2 DEF NorthTypeOK
<1>9. ASSUME NEW c \in ChannelIds, playerChannels'[c] # "ABSENT" PROVE Owned(c)'
  <2>1. c # ch /\ playerChannels[c] # "ABSENT"
    BY <1>1, <1>5, <1>9 DEF TypeOK
  <2>2. Owned(c) /\ playerIdByChannelId'[c] = playerIdByChannelId[c]
    BY <1>1, <1>4, <2>1 DEF TablesLink, NorthTypeOK
  <2>3. playerIdByChannelId[c] # pid
    BY <2>1, <2>2 DEF Owned
  <2> QED
    BY <1>1, <1>4, <2>2, <2>3 DEF Owned, NorthTypeOK
<1> QED
  BY <1>6, <1>7, <1>8, <1>9 DEF NorthSideInv, TablesLink

LEMMA PlayerMessageReceivedInv ==
    ASSUME NorthInv, NEW socket \in Sockets, NEW action \in {"GoToMainMenu", "other"},
           PlayerMessageReceived(socket, action)
    PROVE  NorthSideInv'
<1> USE DEF NorthInv, PlayerMessageReceived
<1>1. NorthTypeOK' /\ SessionsApart'
  BY DEF NorthTypeOK, SessionsApart, sessionVars, socketVars, tableVars
<1>2. SameChannels
  BY IgnoredSame DEF ReceivePlayerMessageFromNorth, SameChannels, channelVars
<1> QED
  BY <1>1, <1>2, TablesFrame DEF NorthSideInv, sessionVars

LEMMA ApplicationsChangeInv ==
    ASSUME NorthInv, ApplicationsChange
    PROVE  NorthSideInv'
<1> USE DEF NorthInv
<1>1. /\ delivered' = {}
      /\ UNCHANGED <<sessionVars, socketVars, tableVars>>
  BY DEF ApplicationsChange
<1>2. NorthTypeOK' /\ SessionsApart'
  BY <1>1 DEF NorthTypeOK, SessionsApart, sessionVars, socketVars, tableVars
<1> QED
  BY <1>1, <1>2, ApplicationsChangeSame, TablesFrame DEF NorthSideInv, sessionVars

\* Besides, what is passed north goes to a websocket of the channel's player.
LEMMA MessageFromApplicationInv ==
    ASSUME NorthInv, NEW conn \in Connections, NEW ch \in ChannelIds, NEW cmd \in SouthCommands,
           MessageFromApplication(conn, ch, cmd)
    PROVE  /\ NorthSideInv'
           /\ \A d \in delivered' : sessions[socketToken[d[2]]] = playerMeta[d[1]]
<1> USE DEF NorthInv
<1>1. UNCHANGED <<sessionVars, socketVars, tableVars>>
  BY DEF MessageFromApplication
<1>2. /\ SameChannels
      /\ toNorth' \subseteq ChannelIds
      /\ \A north \in toNorth' : playerChannels[north] # "ABSENT"
  BY FromSouthSame DEF MessageFromApplication
<1>3. ASSUME NEW north \in toNorth'
      PROVE  /\ WebsocketOf(north) \in Sockets
             /\ sessions[socketToken[WebsocketOf(north)]] = playerMeta[north]
  <2> DEFINE pid == playerIdByChannelId[north]
  <2>1. Owned(north)
    BY <1>2 DEF TablesLink
  <2>2. WebsocketOf(north) = connectionByPlayerId[pid] /\ WebsocketOf(north) \in Sockets
    BY <2>1, PlayerIdsFacts DEF WebsocketOf, Owned, NorthTypeOK
  <2>3. connectionPlayer[WebsocketOf(north)] = pid
    BY <2>1, <2>2 DEF Owned, TablesLink
  <2>4. Served(WebsocketOf(north))
    BY <2>1, <2>2, <2>3, PlayerIdsFacts DEF Owned, TablesLink
  <2> QED
    BY <2>1, <2>2, <2>3, <2>4 DEF Owned, Served
<1>4. ASSUME NEW d \in delivered'
      PROVE  \E north \in toNorth' : d = <<north, WebsocketOf(north)>>
  BY DEF MessageFromApplication
<1>5. delivered' \subseteq ChannelIds \X Sockets
  BY <1>2, <1>3, <1>4
<1>6. \A d \in delivered' : sessions[socketToken[d[2]]] = playerMeta[d[1]]
  BY <1>3, <1>4
<1>7. NorthTypeOK' /\ SessionsApart'
  BY <1>1, <1>5 DEF NorthTypeOK, SessionsApart, sessionVars, socketVars, tableVars
<1> QED
  BY <1>1, <1>2, <1>6, <1>7, TablesFrame DEF NorthSideInv, sessionVars

LEMMA NorthNextInv == NorthInv /\ [NorthNext]_allVars => NorthInv'
<1> SUFFICES ASSUME NorthInv, [NorthNext]_allVars PROVE NorthInv'
    OBVIOUS
<1>1. CASE NorthNext
  <2>1. NorthSideInv'
    BY <1>1, OpenConsoleSessionInv, RefusedWebsocketInv, NewPlayerConnectionInv,
       WebsocketDisconnectsInv, PlayerMessageReceivedInv, MessageFromApplicationInv,
       ApplicationsChangeInv
    DEF NorthNext
  <2> QED
    BY <1>1, <2>1, ManagerStepInv DEF NorthInv, NorthSideInv
<1>2. CASE UNCHANGED allVars
  <2>1. IInv'
    BY <1>2, NextIInv DEF NorthInv, allVars
  <2> USE <1>2 DEF NorthInv, allVars, vars, northVars, sessionVars, socketVars, tableVars
  <2>2. NorthTypeOK' /\ SessionsApart'
    BY DEF NorthTypeOK, SessionsApart
  <2>3. TablesLink'
    BY TablesFrame DEF SameChannels
  <2> QED
    BY <2>1, <2>2, <2>3
<1> QED
  BY <1>1, <1>2

-----------------------------------------------------------------------------
(* Theorems.                                                               *)

\* The tables of the north side always agree with each other.
THEOREM NorthInvariant == NorthSpec => []NorthInv
BY NorthInitInv, NorthNextInv, PTL DEF NorthSpec

\* The state keeps its shape; no id is handed out beyond those counted.
THEOREM NorthTypeCorrect == NorthSpec => []NorthTypeOK
<1>1. NorthInv => NorthTypeOK
  BY DEF NorthInv
<1> QED
  BY <1>1, NorthInvariant, PTL

\* Every player channel leads to a player who is there.
THEOREM ChannelsHavePlayers == NorthSpec => []EveryChannelHasItsPlayer
<1>1. NorthInv => EveryChannelHasItsPlayer
  <2> SUFFICES ASSUME NorthInv, NEW ch \in ChannelIds, playerChannels[ch] # "ABSENT"
               PROVE  LET pid == playerIdByChannelId[ch]
                      IN  /\ pid = playerMeta[ch].id
                          /\ channelByPlayerId[pid] = ch
                          /\ connectionByPlayerId[pid] # NoSocket
                          /\ connectionPlayer[connectionByPlayerId[pid]] = pid
      BY DEF EveryChannelHasItsPlayer
  <2> DEFINE pid == playerIdByChannelId[ch]
             socket == connectionByPlayerId[pid]
  <2>1. Owned(ch)
    BY DEF NorthInv, TablesLink
  <2>2. socket \in Sockets /\ connectionPlayer[socket] = pid /\ pid # NoPlayer
    BY <2>1, PlayerIdsFacts DEF NorthInv, NorthTypeOK, TablesLink, Owned
  <2>3. Served(socket)
    BY <2>2 DEF NorthInv, TablesLink
  <2> QED
    BY <2>1, <2>2, <2>3 DEF Owned, Served
<1> QED
  BY <1>1, NorthInvariant, PTL

\* Every websocket that is served has a channel, under its session's name.
THEOREM WebsocketsAreHeard == NorthSpec => []EveryWebsocketIsHeard
<1>1. NorthInv => EveryWebsocketIsHeard
  BY PlayerIdsFacts DEF NorthInv, TablesLink, Served, EveryWebsocketIsHeard
<1> QED
  BY <1>1, NorthInvariant, PTL

\* No two channels that exist carry one name.
THEOREM NamesStayUnique == NorthSpec => []NamesAreUnique
<1>1. ASSUME NorthInv, NEW ch \in ChannelIds, playerChannels[ch] # "ABSENT"
      PROVE  \E token \in Tokens :
                /\ sessions[token] # NoSession
                /\ playerMeta[ch] = sessions[token]
                /\ sessions[token].id = playerIdByChannelId[ch]
                /\ channelByPlayerId[playerIdByChannelId[ch]] = ch
  <2> DEFINE pid == playerIdByChannelId[ch]
             socket == connectionByPlayerId[pid]
  <2>1. Owned(ch)
    BY <1>1 DEF NorthInv, TablesLink
  <2>2. socket \in Sockets /\ connectionPlayer[socket] = pid /\ pid # NoPlayer
    BY <1>1, <2>1, PlayerIdsFacts, ZenonT(40) DEF NorthInv, NorthTypeOK, TablesLink, Owned
  <2>3. Served(socket)
    BY <1>1, <2>2 DEF NorthInv, TablesLink
  <2>4. sessions[socketToken[socket]] # NoSession
    BY <2>2, <2>3, SessionFacts DEF Served
  <2> QED
    BY <2>1, <2>2, <2>3, <2>4 DEF Owned, Served
<1>2. NorthInv => NamesAreUnique
  <2> SUFFICES ASSUME NorthInv, NEW ch1 \in ChannelIds, NEW ch2 \in ChannelIds,
                      playerChannels[ch1] # "ABSENT", playerChannels[ch2] # "ABSENT",
                      playerMeta[ch1].name = playerMeta[ch2].name
               PROVE  ch1 = ch2
      BY DEF NamesAreUnique
  <2>1. PICK t1 \in Tokens :
            /\ sessions[t1] # NoSession
            /\ playerMeta[ch1] = sessions[t1]
            /\ sessions[t1].id = playerIdByChannelId[ch1]
            /\ channelByPlayerId[playerIdByChannelId[ch1]] = ch1
    BY <1>1
  <2>2. PICK t2 \in Tokens :
            /\ sessions[t2] # NoSession
            /\ playerMeta[ch2] = sessions[t2]
            /\ sessions[t2].id = playerIdByChannelId[ch2]
            /\ channelByPlayerId[playerIdByChannelId[ch2]] = ch2
    BY <1>1
  <2>3. t1 = t2
    BY <2>1, <2>2 DEF NorthInv, SessionsApart
  <2> QED
    BY <2>1, <2>2, <2>3
<1> QED
  BY <1>2, NorthInvariant, PTL

\* A message for a player reaches the device of that player's session only.
THEOREM DeliveredCorrectly == NorthSpec => DeliveredToOwner
<1> DEFINE Delivers == \A d \in delivered' : sessions[socketToken[d[2]]] = playerMeta[d[1]]
<1>1. NorthInv /\ NorthNext => Delivers
  BY MessageFromApplicationInv
  DEF NorthNext, OpenConsoleSession, RefusedWebsocket, NewPlayerConnection,
      WebsocketDisconnects, PlayerMessageReceived, ApplicationsChange
<1>2. NorthInv /\ [NorthNext]_allVars => [Delivers]_allVars
  BY <1>1
<1> QED
  BY <1>2, NorthInvariant, PTL DEF NorthSpec, DeliveredToOwner

=============================================================================
