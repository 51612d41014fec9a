----------------------------- MODULE MCGateway -----------------------------
(* Small instances of the process.  a68 is the door the door thread has     *)
(* built in; an address that occurs in no file is the unknown one.          *)
EXTENDS Gateway, TLC

CONSTANTS a68, a64, a69, a99

ThreeAddrs == {a68, a64, a99}
FourAddrs == {a68, a64, a69, a99}
Ids3 == 0 .. 2
Ids4 == 0 .. 3

(* The fill of the debug heap is no login handle; a release heap can hold  *)
(* anything, handles included.                                             *)
DebugFill == {-2}
ReleaseFill == Ids4 \cup {-2}

File(n, d) == [num |-> TRUE, total |-> n, door |-> d]
NoTotal == [num |-> FALSE, total |-> 0, door |-> 0 :> a64 @@ 1 :> a68]

(* The shipped file, its doors swapped, a door listed twice, one door, no  *)
(* door, a file whose second section is incomplete, and one with no total. *)
TwoDoorFiles ==
    {File(2, 0 :> a64 @@ 1 :> a68), File(2, 0 :> a68 @@ 1 :> a64),
     File(2, 0 :> a64 @@ 1 :> a64), File(1, 0 :> a64 @@ 1 :> Missing),
     File(0, 0 :> Missing @@ 1 :> Missing), File(2, 0 :> a64 @@ 1 :> Missing), NoTotal}

(* Three doors, where two logins can fail and one succeed. *)
ThreeDoorFiles ==
    {File(3, 0 :> a64 @@ 1 :> a68 @@ 2 :> a69),
     File(3, 0 :> a68 @@ 1 :> a64 @@ 2 :> a64)}
=============================================================================
