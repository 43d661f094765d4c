---------------------- MODULE ChannelManagerRefinement ----------------------
(***************************************************************************)
(* The refinement mapping under which ChannelManager implements            *)
(* ExclusiveApp.  Channels whose _state was never written are left out:    *)
(* they may read as open without having been accepted by anyone.           *)
(***************************************************************************)
EXTENDS ChannelManager

acceptedPlayers ==
    {ch \in ChannelIds : playerChannels[ch] = "CHANNEL_OPEN" /\ ch \notin indeterminate}

carriedMessages ==
    {<<m.connection, m.channel>> :
        m \in {n \in outgoing : n.command = "PlayerMessage" /\ n.channel \notin indeterminate}}

Exclusive == INSTANCE ExclusiveApp WITH
    Apps <- Connections, Players <- ChannelIds, Nobody <- NoConnection,
    owner <- activeConnectionId, accepted <- acceptedPlayers, carried <- carriedMessages

\* Every step of the channel manager is one of the exclusive-application
\* service: serverchannelmanager.cpp keeps its promise that only one connection
\* is active at a time, and that a player's message reaches only an application
\* that accepted the player since its turn began.
ExclusiveAppSpec == Exclusive!Spec

=============================================================================
