--------------------------- MODULE MCPassthrough ---------------------------
(* Instances of Passthrough for TLC. *)
EXTENDS Passthrough
=============================================================================
