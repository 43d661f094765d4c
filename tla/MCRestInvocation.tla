--------------------------- MODULE MCRestInvocation ---------------------------
(* An instance of RestInvocation for TLC.                                    *)
EXTENDS RestInvocation
===============================================================================
