--------------------------- MODULE RequestService ---------------------------
(***************************************************************************)
(* What the connection to the head server promises to the commands of the  *)
(* main UI: a request that was made gets at most one answer, and none at   *)
(* all once its command has given it up.                                   *)
(***************************************************************************)
CONSTANT Requests

VARIABLE status     \* of a request: "idle", "pending", "ok", "failed", "cancelled"

Pending == {r \in Requests : status[r] = "pending"}

Init == status = [r \in Requests |-> "idle"]

Make(r) ==
    /\ status[r] = "idle"
    /\ status' = [status EXCEPT ![r] = "pending"]

\* One response settles one request; a failed connection, or a command that is
\* destroyed, settles several at once.
Settle(settled, outcome) ==
    status' = [r \in Requests |-> IF r \in settled THEN outcome ELSE status[r]]

Next ==
    \/ \E r \in Requests : Make(r)
    \/ \E r \in Pending : Settle({r}, "ok")
    \/ \E settled \in SUBSET Pending, outcome \in {"failed", "cancelled"} :
            Settle(settled, outcome)

Spec == Init /\ [][Next]_status

=============================================================================
