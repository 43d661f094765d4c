----------------------------- MODULE AppChannels -----------------------------
(***************************************************************************)
(* The channel manager of the console server together with the client      *)
(* library of the applications (console-lib/src/client): every application *)
(* has a TCP connection to the server, a FIFO stream of messages in each   *)
(* direction, and keeps its own idea of which players it serves and        *)
(* whether it is activated.  The two sides meet only through the streams,  *)
(* so each may act on a state the other has left.                          *)
(***************************************************************************)
EXTENDS ChannelManager, SequencesExt

CONSTANTS
    WaitApps,       \* connections the server may pause and resume (waitapp)
    MaxInFlight     \* bound: the server starts no operation, and an application
                    \* writes to no player, while a stream is this long

ASSUME WaitAppsAssumption == WaitApps \subseteq Connections
ASSUME MaxInFlightAssumption == MaxInFlight \in Nat \ {0}

VARIABLES
    appState,       \* of the application at a connection's other end: "down",
                    \* "reconnecting", "up", "discarded" or "exited"
    southbound,     \* messages on their way to the application
    northbound,     \* messages on their way to the server
    clientChannels, \* channels of the application's ClientChannelManager
    activated       \* `activated` of its ClientSideControlChannel

clientVars == <<clientChannels, activated>>
appVars == <<appState, southbound, northbound, clientChannels, activated>>
allVars == <<vars, appVars>>

ClientMsg(ch, cmd) == [channel |-> ch, command |-> cmd]

-----------------------------------------------------------------------------
(* The streams.                                                            *)

\* One operation emits Deactivate, then Activate, then the player channels'
\* messages by increasing channel id (QMap order).
EmissionRank_DeactivateLast(m) == IF m.command = "Deactivate" THEN MaxChannelId + 1 ELSE m.channel
EmissionRank(m) == CASE m.command = "Deactivate" -> -1
                     [] m.command = "Activate"   -> 0
                     [] OTHER                    -> m.channel

InEmissionOrder(msgs) ==
    CHOOSE s \in [1..Cardinality(msgs) -> msgs] :
        \A i, j \in DOMAIN s : i < j => EmissionRank(s[i]) < EmissionRank(s[j])

SentTo(conn) ==
    LET inOrder == InEmissionOrder({m \in outgoing' : m.connection = conn})
    IN  [i \in DOMAIN inOrder |-> ClientMsg(inOrder[i].channel, inOrder[i].command)]

\* CommTcpServer::write() of what the operation emitted; a peer that is gone
\* receives nothing.
Transmit ==
    southbound' = [conn \in Connections |->
        IF appState'[conn] = "up" THEN southbound[conn] \o SentTo(conn) ELSE <<>>]

Room == \A conn \in Connections : Len(southbound[conn]) < MaxInFlight

-----------------------------------------------------------------------------
(* The server's operations, each with the messages it sends.               *)

AppInit ==
    /\ Init
    /\ appState = [conn \in Connections |-> "down"]
    /\ southbound = [conn \in Connections |-> <<>>]
    /\ northbound = [conn \in Connections |-> <<>>]
    /\ clientChannels = [conn \in Connections |-> {}]
    /\ activated = [conn \in Connections |-> FALSE]

\* A reply without a code, or with one that is known (see ConnectionManager).
AppConnects(conn) ==
    /\ Room
    /\ appState[conn] \in {"down", "reconnecting"}
    /\ appState' = [appState EXCEPT ![conn] = "up"]
    /\ ConnectionValidated(conn)
    /\ Transmit
    /\ UNCHANGED <<northbound, clientVars>>

\* matchCodeToApplication() finds nothing: the code in the PingReply is the one
\* that was used up when the application first connected.  The server forgets
\* the connection, but its socket stays open, so the application, activated or
\* not, neither hears from the server again nor connects once more.
ReconnectDiscarded(conn) ==
    /\ appState[conn] = "reconnecting"
    /\ appState' = [appState EXCEPT ![conn] = "discarded"]
    /\ UNCHANGED <<vars, southbound, northbound, clientVars>>

ServerOperates ==
    /\ Room
    /\ \/ \E conn \in WaitApps : ActivateConnection(conn)
       \/ \E conn \in WaitApps : DeactivateConnection(conn)
       \/ OpenPlayerChannel
       \/ \E ch \in ChannelIds : ClosePlayerChannel(ch)
       \/ \E ch \in ChannelIds : ReceivePlayerMessageFromNorth(ch, "other")
    /\ UNCHANGED appState
    /\ Transmit
    /\ UNCHANGED <<northbound, clientVars>>

ServerReceives(conn) ==
    /\ northbound[conn] # <<>>
    /\ LET m == Head(northbound[conn])
       IN  ProcessMessageFromSouth(conn, m.channel, m.command)
    /\ northbound' = [northbound EXCEPT ![conn] = Tail(@)]
    /\ UNCHANGED appState
    /\ Transmit
    /\ UNCHANGED clientVars

\* The server's end of the socket reports the disconnect; bytes the application
\* wrote before it went may be lost with the connection.
ServerNoticesExit(conn) ==
    /\ appState[conn] = "exited"
    /\ controlChannels[conn] = "OPEN"
    /\ ApplicationClosed(conn)
    /\ northbound' = [northbound EXCEPT ![conn] = <<>>]
    /\ UNCHANGED appState
    /\ Transmit
    /\ UNCHANGED clientVars

-----------------------------------------------------------------------------
(* The application's operations.                                           *)

\* ClientSideControlChannel::receiveMessage().
ReceiveControlMessage(conn, cmd) ==
    /\ activated' = [activated EXCEPT ![conn] =
            IF cmd = "Activate" THEN TRUE ELSE IF cmd = "Deactivate" THEN FALSE ELSE @]
    /\ UNCHANGED <<northbound, clientChannels>>

\* ClientChannelManager::processMessage() for a channel it does not know: only
\* OpenChannel does something, and is always accepted.
AcceptReply_OnRootChannel(ch) == ClientMsg(CONTROL_CHANNEL_ID, "OpenChannelAccepted")
AcceptReply(ch) == ClientMsg(ch, "OpenChannelAccepted")

AcceptsUnknown_WithoutChannel(conn, ch) == clientChannels
AcceptsUnknown(conn, ch) == [clientChannels EXCEPT ![conn] = @ \cup {ch}]

ReceiveOnUnknownChannel(conn, ch, cmd) ==
    /\ IF cmd = "OpenChannel"
       THEN /\ clientChannels' = AcceptsUnknown(conn, ch)
            /\ northbound' = [northbound EXCEPT
                    ![conn] = Append(@, AcceptReply(ch))]
       ELSE UNCHANGED <<clientChannels, northbound>>
    /\ UNCHANGED activated

\* ClientSidePlayerChannel::receiveMessage(): CloseChannel removes the channel,
\* PlayerMessage goes to the application, OpenChannel is an unknown message.
ReceiveOnKnownChannel(conn, ch, cmd) ==
    /\ clientChannels' = IF cmd = "CloseChannel"
                         THEN [clientChannels EXCEPT ![conn] = @ \ {ch}]
                         ELSE clientChannels
    /\ UNCHANGED <<northbound, activated>>

AppReceives(conn) ==
    /\ appState[conn] = "up"
    /\ southbound[conn] # <<>>
    /\ LET m == Head(southbound[conn])
       IN  IF m.channel = CONTROL_CHANNEL_ID
           THEN ReceiveControlMessage(conn, m.command)
           ELSE IF m.channel \in clientChannels[conn]
           THEN ReceiveOnKnownChannel(conn, m.channel, m.command)
           ELSE ReceiveOnUnknownChannel(conn, m.channel, m.command)
    /\ southbound' = [southbound EXCEPT ![conn] = Tail(@)]
    /\ UNCHANGED <<vars, appState>>

\* ClientSidePlayerChannel::sendPlayerMessage(): an application may write to a
\* player it knows at any time, activated or not.
AppSendsPlayerMessage(conn, ch) ==
    /\ appState[conn] = "up"
    /\ ch \in clientChannels[conn]
    /\ Len(northbound[conn]) < MaxInFlight
    /\ northbound' = [northbound EXCEPT ![conn] = Append(@, ClientMsg(ch, "PlayerMessage"))]
    /\ UNCHANGED <<vars, appState, southbound, clientVars>>

\* The application's process ends, by itself or killed.
AppExits(conn) ==
    /\ appState[conn] \in {"up", "reconnecting", "discarded"}
    /\ appState' = [appState EXCEPT ![conn] = "exited"]
    /\ southbound' = [southbound EXCEPT ![conn] = <<>>]
    /\ clientChannels' = [clientChannels EXCEPT ![conn] = {}]
    /\ activated' = [activated EXCEPT ![conn] = FALSE]
    /\ UNCHANGED <<vars, northbound>>

\* The connection is lost and the application lives on: socketDisconnected()
\* reports it, which closes all player channels (ClientSetup::connectionBroken())
\* but leaves the application activated, and opens another connection.
ConnectionBreaks(conn, next) ==
    /\ appState[conn] \in {"up", "discarded"}
    /\ appState[next] = "down"
    /\ appState' = [appState EXCEPT ![conn] = "exited", ![next] = "reconnecting"]
    /\ southbound' = [southbound EXCEPT ![conn] = <<>>]
    /\ clientChannels' = [clientChannels EXCEPT ![conn] = {}]
    /\ activated' = [activated EXCEPT ![conn] = FALSE, ![next] = activated[conn]]
    /\ UNCHANGED <<vars, northbound>>

-----------------------------------------------------------------------------
AppNext ==
    \/ \E conn \in Connections :
        \/ AppConnects(conn)
        \/ ReconnectDiscarded(conn)
        \/ ServerReceives(conn)
        \/ ServerNoticesExit(conn)
        \/ AppReceives(conn)
        \/ AppExits(conn)
        \/ \E next \in Connections : ConnectionBreaks(conn, next)
        \/ \E ch \in ChannelIds : AppSendsPlayerMessage(conn, ch)
    \/ ServerOperates

\* Both event loops keep reading their sockets.
Fairness ==
    \A conn \in Connections :
        /\ WF_allVars(AppReceives(conn))
        /\ WF_allVars(ServerReceives(conn))
        /\ WF_allVars(ServerNoticesExit(conn))

AppSpec == AppInit /\ [][AppNext]_allVars /\ Fairness

-----------------------------------------------------------------------------
(* Properties.                                                             *)

Settled(conn) == appState[conn] = "up" /\ southbound[conn] = <<>> /\ northbound[conn] = <<>>

\* Once an application has read all that was sent to it, it is activated
\* exactly if the server holds it for the active one: no interleaving of
\* connects, pauses, resumes and exits leaves two applications activated.
SettledActivation ==
    \A conn \in Connections :
        appState[conn] = "up" /\ southbound[conn] = <<>> =>
            (activated[conn] <=> activeConnectionId = conn)

\* No message of a player is thrown away by the application as one for an
\* unhandled channel, whatever was switched, closed or reopened before it.
NoOrphanPlayerMessage ==
    \A conn \in Connections :
        LET next == southbound[conn]
        IN  next # <<>> /\ Head(next).command = "PlayerMessage" =>
                Head(next).channel \in clientChannels[conn]

\* The active application eventually knows that it is, unless it loses its turn
\* or exits first.
ActivationArrives ==
    \A conn \in Connections :
        activeConnectionId = conn ~>
            (activated[conn] \/ activeConnectionId # conn \/ appState[conn] # "up")

\* A player offered to an application that does not know it is eventually
\* open, unless the application loses its turn or exits or the player leaves.
OfferIsAccepted ==
    \A conn \in Connections, ch \in ChannelIds :
        (/\ ClientMsg(ch, "OpenChannel") \in ToSet(southbound[conn])
         /\ ch \notin clientChannels[conn])
        ~> (\/ playerChannels[ch] \in {"CHANNEL_OPEN", "ABSENT"}
            \/ activeConnectionId # conn
            \/ appState[conn] # "up")

\* "this is like pausing, do not delete, they can be reopened": when everything
\* sent has been read, the players the active application serves are open.
ReopenSucceeds ==
    \A ch \in ChannelIds :
        /\ hasActiveConnection
        /\ Settled(activeConnectionId)
        /\ ch \in clientChannels[activeConnectionId]
        /\ playerChannels[ch] # "ABSENT"
        => playerChannels[ch] = "CHANNEL_OPEN"

=============================================================================
