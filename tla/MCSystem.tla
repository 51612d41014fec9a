------------------------------ MODULE MCSystem ------------------------------
(* The process with one configured door and two library threads; a68 is    *)
(* the door, which is the one the door thread has built in, too.           *)
EXTENDS System, TLC

CONSTANTS a68, alarm1, alarm2

MCAddrs == {a68}
MCUserIds == 0 .. 1
MCThreads == {alarm1, alarm2}
OneDoor == {[num |-> TRUE, total |-> 1, door |-> 0 :> a68]}
NoHandle == {-2}

Symmetry == Permutations(MCThreads)
=============================================================================
