---------------------------- MODULE MCAppChannels ----------------------------
(* Instances of AppChannels for TLC.                                         *)
EXTENDS AppChannels

MCTwoConnections == {1, 2}
MCWaitApps == {1}

===============================================================================
