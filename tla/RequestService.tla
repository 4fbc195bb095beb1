--------------------------- MODULE RequestService ---------------------------
(***************************************************************************)
(* What the access point promises the server about a message for a device: *)
(* every page of it gets at most one final result, and as soon as the last *)
(* one has it the server is told SUCCESS if all pages got through and FAIL *)
(* otherwise; there is no second answer and none before. It may be that    *)
(* nothing is ever said.                                                   *)
(*                                                                         *)
(* The code keeps this promise with the shared counter of                  *)
(* manager_network_to_wiota_result; here there is no counter.              *)
(***************************************************************************)
EXTENDS Integers, Sequences

CONSTANTS Request, Page,
          Pages           \* Pages[r]: the pages of request r

VARIABLES outcome,        \* the final result of each page, or PENDING
          answers         \* the answers given to the server for a request

PENDING == 0
SUCCESS == 1
FAIL == 2

Init == /\ outcome = [p \in Page |-> PENDING]
        /\ answers = [r \in Request |-> <<>>]

Answer(r) == IF \A q \in Pages[r] : outcome'[q] = SUCCESS THEN SUCCESS ELSE FAIL

\* Page p of request r gets its final result v.
Settle(r, p, v) ==
    /\ outcome[p] = PENDING
    /\ outcome' = [outcome EXCEPT ![p] = v]
    /\ answers' =
          IF \A q \in Pages[r] : outcome'[q] # PENDING
          THEN [answers EXCEPT ![r] = Append(@, Answer(r))]
          ELSE answers

Next == \E r \in Request : \E p \in Pages[r], v \in {SUCCESS, FAIL} :
           Settle(r, p, v)

Spec == Init /\ [][Next]_<<outcome, answers>>
=============================================================================
