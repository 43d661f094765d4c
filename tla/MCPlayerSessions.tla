--------------------------- MODULE MCPlayerSessions ---------------------------
(* Instances of PlayerSessions for TLC.                                      *)
EXTENDS PlayerSessions

MCConnections == {1}
MCNames == {"ann", "bob"}
MCSockets == {"w1", "w2", "w3"}

===============================================================================
