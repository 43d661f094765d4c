------------------------ MODULE MCHeadServerConnection ------------------------
(* Instances of HeadServerConnection for TLC.                                  *)
EXTENDS HeadServerConnection

CONSTANTS d1, q1, q2

MCRequests == {d1, q1, q2}
MCDownloads == {d1}

===============================================================================
