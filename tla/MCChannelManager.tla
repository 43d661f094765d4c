--------------------------- MODULE MCChannelManager ---------------------------
(* Instances of ChannelManager for TLC.                                      *)
EXTENDS ChannelManagerRefinement

MCConnections == {1, 2, 3}

===============================================================================
