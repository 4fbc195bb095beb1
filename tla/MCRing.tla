------------------------------- MODULE MCRing -------------------------------
(* An instance of Ring for TLC. *)
EXTENDS Ring
=============================================================================
