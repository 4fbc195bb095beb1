------------------------------ MODULE MCSlave ------------------------------
(* Instances of Slave for TLC. *)
EXTENDS Slave

MCMemCalls == {c \in (0..6) \X (1..6) : c[1] + c[2] <= MemSize}
MCFlashCalls == {c \in (0..Pages - 1) \X (1..3) : c[1] + c[2] <= Pages}
MCContents == {{}, {1}, {1, 2}}
=============================================================================
