---------------------------- MODULE MCMobileClient ----------------------------
(* An instance of MobileClient for TLC: two users who have one email or none,  *)
(* and two logins at once.                                                     *)
EXTENDS MobileClient, TLC

CONSTANTS ann, bob, mail, l1, l2

MCUsers == {ann, bob}
MCEmails == {mail}
MCSlots == {l1, l2}
MCSymmetry == Permutations(MCUsers) \cup Permutations(MCSlots)

===============================================================================
