------------------------------ MODULE WordQueue ------------------------------
(***************************************************************************)
(* What a ring buffer shared by two processors promises: the words put in  *)
(* come out in order, none twice, none lost, and a block for which there   *)
(* is no room is left out as a whole. The words are numbered as they are   *)
(* put in.                                                                 *)
(***************************************************************************)
EXTENDS Integers, Sequences

CONSTANT Size

VARIABLES queue,    \* the words that have not come out
          total     \* how many were put in

Init == queue = <<>> /\ total = 0

Put(n) == /\ Len(queue) + n <= Size
          /\ queue' = queue \o [k \in 1..n |-> total + k]
          /\ total' = total + n

Get(n) == /\ n <= Len(queue)
          /\ queue' = SubSeq(queue, n + 1, Len(queue))
          /\ UNCHANGED total

Next == \E n \in 1..Size : Put(n) \/ Get(n)

Spec == Init /\ [][Next]_<<queue, total>>
=============================================================================
