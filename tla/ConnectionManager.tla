-------------------------- MODULE ConnectionManager --------------------------
(***************************************************************************)
(* How the TCP connection of a local application becomes a connection of   *)
(* the channel manager (console-lib/src/server): CommTcpServer numbers and *)
(* lists it, a ConnectionGateKeeper pings it and waits a limited time for  *)
(* the reply, the ApplicationRegistry matches the identification code of   *)
(* the reply to the application the code was made for, and only then a     *)
(* control channel is opened.                                              *)
(*                                                                         *)
(* A connection is looked after by four tables (the server's list, the     *)
(* gatekeepers, the links of the registry, the control channels), each     *)
(* changed by other callbacks of one event loop.                           *)
(***************************************************************************)
EXTENDS ChannelManager

CONSTANTS
    ApplicationIds,     \* application ids that identification codes are made for
    Codes               \* the identification codes that occur; createIdentification-
                        \* Code() does not verify that a code is unique, and the
                        \* time it is made from has practically always the value 0

NoApplication == ""

ASSUME ApplicationIdsAssumption == NoApplication \notin ApplicationIds
ASSUME CodesAssumption == Codes # {}

VARIABLES
    connectionIdCount,      \* next connection id of CommTcpServer
    openSockets,            \* connections whose socket has not gone yet
    connections,            \* CommTcpServer::_connections
    gatekeepers,            \* connections that still wait for the PingReply
    appIdByCode,            \* of a code: the application, or NoApplication
    appIdByConnectionId,    \* of a connection: the linked application
    presents                \* the <<code, application>> of the connection's client

tcpVars == <<connectionIdCount, openSockets, connections>>
registryVars == <<appIdByCode, appIdByConnectionId>>
connectionVars == <<tcpVars, gatekeepers, registryVars, presents>>

ConnectionInit ==
    /\ Init
    /\ connectionIdCount = 0
    /\ openSockets = {}
    /\ connections = {}
    /\ gatekeepers = {}
    /\ appIdByCode = [code \in Codes |-> NoApplication]
    /\ appIdByConnectionId = [conn \in Connections |-> NoApplication]
    /\ presents = [conn \in Connections |-> <<>>]

-----------------------------------------------------------------------------
(* ApplicationRegistry.                                                    *)

\* createIdentificationCode(): an older entry of the same code is overwritten.
CodeCreated_KeepsOlder(codes, code, id) ==
    IF codes[code] = NoApplication THEN [codes EXCEPT ![code] = id] ELSE codes
CodeCreated(codes, code, id) == [codes EXCEPT ![code] = id]

\* matchCodeToApplication() uses a code up.
MatchedApplication(conn) == appIdByCode[presents[conn][1]]
CodeConsumed(conn) == [appIdByCode EXCEPT ![presents[conn][1]] = NoApplication]

\* connectionIdByApplicationId(): the first link by connection id, or -1.
ConnectionIdByApplicationId(id) ==
    LET linked == {conn \in Connections : appIdByConnectionId[conn] = id}
    IN  IF linked = {} THEN NoConnection
        ELSE CHOOSE conn \in linked : \A other \in linked : conn <= other

-----------------------------------------------------------------------------
NextConnectionId == connectionIdCount + 1

\* newConnection() and applicationConnected(): the gatekeeper sends a Ping and
\* starts its timer.
NewConnection(code, id) ==
    /\ connectionIdCount \in Connections
    /\ connectionIdCount' = NextConnectionId
    /\ openSockets' = openSockets \cup {connectionIdCount}
    /\ connections' = connections \cup {connectionIdCount}
    /\ gatekeepers' = gatekeepers \cup {connectionIdCount}
    /\ presents' = [presents EXCEPT ![connectionIdCount] = <<code, id>>]
    /\ Ignored
    /\ UNCHANGED registryVars

\* onConnectionValidationFailed(): the server forgets the connection, whose
\* socket stays open; the disconnected signal this emits finds neither a
\* control channel nor a link.
Discard(conn) ==
    /\ gatekeepers' = gatekeepers \ {conn}
    /\ connections' = connections \ {conn}
    /\ Ignored
    /\ UNCHANGED <<connectionIdCount, openSockets, appIdByConnectionId, presents>>

\* A PingReply with a code, read from the socket while the gatekeeper waits.
CanReply_AfterTimeout(conn) == conn \in openSockets /\ controlChannels[conn] = "NONE"
CanReply(conn) == conn \in openSockets /\ conn \in gatekeepers

\* onConnectionValidationOK().  What becomes of the codes is left to the caller,
\* because the signal it emits may launch an application with a new code.
ReplyValidated(conn) ==
    /\ CanReply(conn)
    /\ MatchedApplication(conn) # NoApplication
    /\ gatekeepers' = gatekeepers \ {conn}
    /\ appIdByConnectionId' =
            [appIdByConnectionId EXCEPT ![conn] = MatchedApplication(conn)]
    /\ ConnectionValidated(conn)
    /\ UNCHANGED <<tcpVars, presents>>

ReplyDiscarded(conn) ==
    /\ CanReply(conn)
    /\ MatchedApplication(conn) = NoApplication
    /\ Discard(conn)
    /\ UNCHANGED appIdByCode

\* waitTimeout(): nobody stops the timer of a connection that has gone.
GateTimeout(conn) ==
    /\ conn \in gatekeepers
    /\ Discard(conn)
    /\ UNCHANGED appIdByCode

\* socketDisconnect(): closeConnection() and, for a connection that is still
\* listed, applicationDisconnected().  A gatekeeper is left as it is.
SocketDisconnects(conn) ==
    /\ conn \in openSockets
    /\ openSockets' = openSockets \ {conn}
    /\ connections' = connections \ {conn}
    /\ IF conn \in connections
       THEN /\ ApplicationClosed(conn)
            /\ appIdByConnectionId' = [appIdByConnectionId EXCEPT ![conn] = NoApplication]
       ELSE /\ Ignored
            /\ UNCHANGED appIdByConnectionId
    /\ UNCHANGED <<connectionIdCount, gatekeepers, appIdByCode, presents>>

-----------------------------------------------------------------------------
(* Properties.                                                             *)

ConnectionTypeOK ==
    /\ connectionIdCount \in Nat
    /\ openSockets \subseteq Connections
    /\ connections \subseteq openSockets
    /\ gatekeepers \subseteq Connections
    /\ appIdByCode \in [Codes -> ApplicationIds \cup {NoApplication}]
    /\ appIdByConnectionId \in [Connections -> ApplicationIds \cup {NoApplication}]
    /\ \A conn \in Connections : conn >= connectionIdCount =>
            /\ conn \notin openSockets \cup gatekeepers
            /\ controlChannels[conn] = "NONE"

\* The tables agree: a connection has a control channel exactly if it is linked
\* to an application, and then the server lists it, and no gatekeeper waits for
\* it.  So no timer that fires late can take a validated connection away, and a
\* discarded connection, whose socket is still open, never gets a channel.
TablesAgree ==
    \A conn \in Connections :
        /\ controlChannels[conn] = "OPEN" <=> appIdByConnectionId[conn] # NoApplication
        /\ controlChannels[conn] = "OPEN" => conn \in connections \ gatekeepers

\* "This way `comms` knows that connected application was the one that was just
\* launched": a connection is linked to the application at its other end.
LinkedToItsApplication ==
    \A conn \in Connections :
        appIdByConnectionId[conn] # NoApplication =>
            appIdByConnectionId[conn] = presents[conn][2]

=============================================================================
