------------------------------ MODULE MCUpdate ------------------------------
(* Instances of Update for TLC. *)
EXTENDS Update, TLC

CONSTANTS u1, u2, u3, u4, u5, u6

\* Files with and without a short last block, shorter than a block, and with a
\* last word that is not whole.
Sizes == u1 :> 14 @@ u2 :> 8 @@ u3 :> 8 @@ u4 :> 3 @@ u5 :> 3 @@ u6 :> 7
\* Updates of devices, of the access point and of one with another version; the
\* server has deactivated one.
Kinds == u1 :> "iote" @@ u2 :> "iote" @@ u3 :> "ap" @@ u4 :> "apOther" @@ u5 :> "iote"
         @@ u6 :> "iote"
Active == [u \in Update |-> u # u5]
=============================================================================
