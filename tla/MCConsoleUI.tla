----------------------------- MODULE MCConsoleUI -----------------------------
(* Model checking ConsoleUI: an application beside the wait application and   *)
(* the main UI, with a connection more than they need.                        *)
EXTENDS ConsoleUI

MCConnections == 0..3
MCApplications == {"game"}
MCApplicationIds == {"waitapp", "mainui"} \cup MCApplications

=============================================================================
