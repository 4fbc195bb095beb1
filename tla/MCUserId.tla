------------------------------ MODULE MCUserId ------------------------------
(* Instances of UserId for TLC. *)
EXTENDS UserId, TLC

CONSTANTS d1, d2, d3, d4

\* Two ranges of ids, over three positions; the second adds to two of them.
TwoRanges == {[first |-> 10, last |-> 14], [first |-> 20, last |-> 21]}
Ids == 10 .. 14 \cup 20 .. 21
Spread == [a \in Ids |-> a % 3]

\* No definition tells one device from another.
DeviceSymmetry == Permutations(Device)

=============================================================================
