---------------------------- MODULE PlayerSessions ----------------------------
(***************************************************************************)
(* The north side of the console server: how a mobile device becomes a     *)
(* player.  The REST server opens a session for a name that is free and    *)
(* answers with a token (gberry-lib/lib/src/server), a websocket that      *)
(* presents the token is attached to the session's player id, and the      *)
(* PlayerConnectionManager (console-lib/src/server) opens a channel of the *)
(* channel manager for it and passes the messages both ways.               *)
(*                                                                         *)
(* Four tables keyed by token, player id and channel id describe one       *)
(* player.  They are changed together when a websocket comes or goes.      *)
(***************************************************************************)
EXTENDS ChannelManager

CONSTANTS
    Names,          \* player names
    MaxSessions,    \* bound on the sessions ever opened
    Sockets         \* websockets that connect

ASSUME MaxSessionsAssumption == MaxSessions \in Nat

VARIABLES
    tokenCounter,           \* ConsoleRESTServer::_tokenCounter
    playerIdCounter,        \* next id of a signed-in player
    guestIdCounter,         \* next id of a guest
    sessions,               \* of a token: its session, or NoSession
    socketToken,            \* the token a websocket presented
    connectionPlayer,       \* player id of a websocket's WebsocketConnection
    connectionByPlayerId,   \* WebsocketServer: the websocket of a player
    channelByPlayerId,      \* PlayerConnectionManager: the channel of a player
    playerIdByChannelId,
    playerMeta,             \* of a channel: the player it was opened for
    delivered               \* <<channel, websocket>> of what the last step passed north

sessionVars == <<tokenCounter, playerIdCounter, guestIdCounter, sessions>>
tableVars == <<connectionByPlayerId, channelByPlayerId, playerIdByChannelId, playerMeta>>
socketVars == <<socketToken, connectionPlayer>>
northVars == <<sessionVars, socketVars, tableVars, delivered>>
allVars == <<vars, northVars>>

Tokens == 0..(MaxSessions - 1)

\* 0 "means not defined"; -1, a player at the console itself, is not used here.
NoPlayer == 0
PlayerIds == (1..MaxSessions) \cup (-(MaxSessions + 1)..-2)

NoSession == [id |-> NoPlayer, name |-> ""]
Session == {NoSession} \cup [id : PlayerIds, name : Names]

NoToken == -1
NoSocket == "none"
ASSUME SocketsAssumption == NoSocket \notin Sockets
NoChannel == 0

NorthInit ==
    /\ Init
    /\ tokenCounter = 0
    /\ playerIdCounter = 1
    /\ guestIdCounter = -2
    /\ sessions = [token \in Tokens |-> NoSession]
    /\ socketToken = [socket \in Sockets |-> NoToken]
    /\ connectionPlayer = [socket \in Sockets |-> NoPlayer]
    /\ connectionByPlayerId = [pid \in PlayerIds |-> NoSocket]
    /\ channelByPlayerId = [pid \in PlayerIds |-> NoChannel]
    /\ playerIdByChannelId = [ch \in ChannelIds |-> NoPlayer]
    /\ playerMeta = [ch \in ChannelIds |-> NoSession]
    /\ delivered = {}

-----------------------------------------------------------------------------
(* PlayerSessionManager.                                                   *)

\* A name stays reserved from the request until the websocket has gone, for
\* ever if none comes.
IsPlayerNameReserved_IfConnected(name) ==
    \E token \in Tokens : /\ sessions[token].name = name
                          /\ connectionByPlayerId[sessions[token].id] # NoSocket
IsPlayerNameReserved(name) == \E token \in Tokens : sessions[token].name = name

SessionRemoved(pid) ==
    [token \in Tokens |->
        IF sessions[token].id = pid THEN NoSession ELSE sessions[token]]

NextGuestId_Same == guestIdCounter
NextGuestId_Upwards == guestIdCounter + 1
NextGuestId == guestIdCounter - 1

\* handlePostRequest(), action open_console_session; a reserved name is refused.
OpenConsoleSession(name, isGuest) ==
    /\ tokenCounter \in Tokens
    /\ ~IsPlayerNameReserved(name)
    /\ tokenCounter' = tokenCounter + 1
    /\ IF isGuest
       THEN guestIdCounter' = NextGuestId /\ UNCHANGED playerIdCounter
       ELSE playerIdCounter' = playerIdCounter + 1 /\ UNCHANGED guestIdCounter
    /\ sessions' = [sessions EXCEPT ![tokenCounter] =
            [id |-> IF isGuest THEN guestIdCounter ELSE playerIdCounter, name |-> name]]
    /\ delivered' = {}
    /\ Ignored
    /\ UNCHANGED <<socketVars, tableVars>>

-----------------------------------------------------------------------------
(* WebsocketServer with PlayerConnectionManager.                           *)

\* A websocket that presents a token without a session is closed.
RefusedWebsocket(socket, token) ==
    /\ socketToken[socket] = NoToken
    /\ sessions[token] = NoSession
    /\ socketToken' = [socketToken EXCEPT ![socket] = token]
    /\ delivered' = {}
    /\ Ignored
    /\ UNCHANGED <<sessionVars, connectionPlayer, tableVars>>

\* onNewConnection() and onNewPlayerConnection().  A device opens one websocket
\* for the token it was given (gberry-lib's ConsoleSessionManager); one that was
\* refused may have presented the same token before.
NewPlayerConnection(socket, token) ==
    /\ socketToken[socket] = NoToken
    /\ sessions[token] # NoSession
    /\ \A other \in Sockets : connectionPlayer[other] # NoPlayer => socketToken[other] # token
    /\ socketToken' = [socketToken EXCEPT ![socket] = token]
    /\ OpenPlayerChannel
    /\ LET pid == sessions[token].id
       IN  /\ connectionPlayer' = [connectionPlayer EXCEPT ![socket] = pid]
           /\ connectionByPlayerId' = [connectionByPlayerId EXCEPT ![pid] = socket]
           /\ channelByPlayerId' = [channelByPlayerId EXCEPT ![pid] = channelIdCount]
           /\ playerIdByChannelId' = [playerIdByChannelId EXCEPT ![channelIdCount] = pid]
           /\ playerMeta' = [playerMeta EXCEPT ![channelIdCount] = sessions[token]]
    /\ delivered' = {}
    /\ UNCHANGED sessionVars

\* onPlayerConnectionClosed(): what becomes of the channel.
ClosesChannelOf_LeavesIt(pid) == Ignored
ClosesChannelOf(pid) == ClosePlayerChannel(channelByPlayerId[pid])

\* onSocketDisconnected(): closePlayerConnection() deletes whatever connection
\* the player has now, which closes that one's websocket, and the session.
WebsocketDisconnects(socket) ==
    /\ connectionPlayer[socket] # NoPlayer
    /\ LET pid == connectionPlayer[socket]
           deleted == connectionByPlayerId[pid]
       IN  IF deleted = NoSocket
           THEN /\ connectionPlayer' = [connectionPlayer EXCEPT ![socket] = NoPlayer]
                /\ Ignored
                /\ UNCHANGED <<sessions, tableVars>>
           ELSE /\ connectionPlayer' = [connectionPlayer EXCEPT
                        ![socket] = NoPlayer, ![deleted] = NoPlayer]
                /\ connectionByPlayerId' = [connectionByPlayerId EXCEPT ![pid] = NoSocket]
                /\ sessions' = SessionRemoved(pid)
                /\ channelByPlayerId' = [channelByPlayerId EXCEPT ![pid] = NoChannel]
                /\ playerIdByChannelId' =
                        [playerIdByChannelId EXCEPT ![channelByPlayerId[pid]] = NoPlayer]
                /\ ClosesChannelOf(pid)
                /\ UNCHANGED playerMeta
    /\ delivered' = {}
    /\ UNCHANGED <<tokenCounter, playerIdCounter, guestIdCounter, socketToken>>

\* onPlayerMessageReceivedFromNorth()
PlayerMessageReceived(socket, action) ==
    /\ connectionPlayer[socket] # NoPlayer
    /\ LET ch == channelByPlayerId[connectionPlayer[socket]]
       IN  IF ch # NoChannel THEN ReceivePlayerMessageFromNorth(ch, action) ELSE Ignored
    /\ delivered' = {}
    /\ UNCHANGED <<sessionVars, socketVars, tableVars>>

\* playerMessageFromSouth(): the websocket a channel's message is passed to.
WebsocketOf(ch) ==
    LET pid == playerIdByChannelId[ch]
    IN  IF pid = NoPlayer THEN NoSocket ELSE connectionByPlayerId[pid]

MessageFromApplication(conn, ch, cmd) ==
    /\ ProcessMessageFromSouth(conn, ch, cmd)
    /\ delivered' = {<<north, WebsocketOf(north)>> :
                        north \in {c \in toNorth' : WebsocketOf(c) # NoSocket}}
    /\ UNCHANGED <<sessionVars, socketVars, tableVars>>

\* Applications come, go and are switched.
ApplicationsChange ==
    /\ \E conn \in Connections :
        \/ ConnectionValidated(conn)
        \/ ActivateConnection(conn)
        \/ DeactivateConnection(conn)
        \/ ApplicationClosed(conn)
    /\ delivered' = {}
    /\ UNCHANGED <<sessionVars, socketVars, tableVars>>

-----------------------------------------------------------------------------
NorthNext ==
    \/ \E name \in Names, isGuest \in BOOLEAN : OpenConsoleSession(name, isGuest)
    \/ \E socket \in Sockets :
        \/ \E token \in Tokens :
            \/ RefusedWebsocket(socket, token)
            \/ NewPlayerConnection(socket, token)
        \/ WebsocketDisconnects(socket)
        \/ \E action \in {"GoToMainMenu", "other"} : PlayerMessageReceived(socket, action)
    \/ \E conn \in Connections, ch \in ChannelIds, cmd \in SouthCommands :
        MessageFromApplication(conn, ch, cmd)
    \/ ApplicationsChange

NorthSpec == NorthInit /\ [][NorthNext]_allVars

-----------------------------------------------------------------------------
(* Properties.                                                             *)

NorthTypeOK ==
    /\ tokenCounter \in 0..MaxSessions
    /\ playerIdCounter \in 1..(MaxSessions + 1)
    /\ guestIdCounter \in -(MaxSessions + 2)..-2
    /\ sessions \in [Tokens -> Session]
    /\ socketToken \in [Sockets -> Tokens \cup {NoToken}]
    /\ connectionPlayer \in [Sockets -> PlayerIds \cup {NoPlayer}]
    /\ connectionByPlayerId \in [PlayerIds -> Sockets \cup {NoSocket}]
    /\ channelByPlayerId \in [PlayerIds -> ChannelIds \cup {NoChannel}]
    /\ playerIdByChannelId \in [ChannelIds -> PlayerIds \cup {NoPlayer}]
    /\ playerMeta \in [ChannelIds -> Session]
    /\ delivered \subseteq ChannelIds \X Sockets

\* Every channel of the channel manager belongs to a player who is there: the
\* tables lead from the channel to its player, from the player to a websocket
\* that is served, and back.  So applications see no player who has gone.
EveryChannelHasItsPlayer ==
    \A ch \in ChannelIds : playerChannels[ch] # "ABSENT" =>
        LET pid == playerIdByChannelId[ch]
        IN  /\ pid = playerMeta[ch].id
            /\ channelByPlayerId[pid] = ch
            /\ connectionByPlayerId[pid] # NoSocket
            /\ connectionPlayer[connectionByPlayerId[pid]] = pid

\* A served websocket is heard: its player has a channel and a session, and the
\* channel carries the name under which the session was opened.
EveryWebsocketIsHeard ==
    \A socket \in Sockets : connectionPlayer[socket] # NoPlayer =>
        LET ch == channelByPlayerId[connectionPlayer[socket]]
        IN  /\ ch # NoChannel
            /\ playerChannels[ch] # "ABSENT"
            /\ playerMeta[ch] = sessions[socketToken[socket]]

\* "identical names are not allow": applications never see two players of one
\* name, however requests, websockets and disconnects interleave.
NamesAreUnique ==
    \A ch1, ch2 \in ChannelIds :
        /\ playerChannels[ch1] # "ABSENT"
        /\ playerChannels[ch2] # "ABSENT"
        /\ playerMeta[ch1].name = playerMeta[ch2].name
        => ch1 = ch2

\* What an application sends to a player reaches the device that opened the
\* session of that player, and no other.
DeliveredToOwner ==
    [][\A d \in delivered' :
            sessions[socketToken[d[2]]] = playerMeta[d[1]]]_allVars

===============================================================================
