---------------------------- MODULE ExclusiveApp ----------------------------
(***************************************************************************)
(* What the channel manager promises to the players and applications of a  *)
(* console: at most one application owns the players at a time, a player   *)
(* takes part in it only after the application accepted the player, and    *)
(* every acceptance is void as soon as the ownership changes.              *)
(***************************************************************************)
EXTENDS Integers

CONSTANTS Apps, Players, Nobody

VARIABLES
    owner,      \* the application whose turn it is, or Nobody
    accepted,   \* the players it has accepted
    carried     \* <<application, player>> whose message was just handed over

vars == <<owner, accepted, carried>>

Init ==
    /\ owner = Nobody
    /\ accepted = {}
    /\ carried = {}

Accept(p) ==
    /\ owner # Nobody
    /\ accepted' = accepted \cup {p}
    /\ carried' = {}
    /\ UNCHANGED owner

\* Players leave, or are paused for a while.
Withdraw ==
    /\ accepted' \in SUBSET accepted
    /\ carried' = {}
    /\ UNCHANGED owner

Carry(p) ==
    /\ owner # Nobody
    /\ p \in accepted
    /\ carried' = {<<owner, p>>}
    /\ UNCHANGED <<owner, accepted>>

Handover ==
    /\ owner' \in (Apps \cup {Nobody}) \ {owner}
    /\ accepted' = {}
    /\ carried' = {}

Next ==
    \/ \E p \in Players : Accept(p) \/ Carry(p)
    \/ Withdraw
    \/ Handover

Spec == Init /\ [][Next]_vars

=============================================================================
