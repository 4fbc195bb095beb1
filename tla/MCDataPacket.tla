---------------------------- MODULE MCDataPacket ----------------------------
(* Instances of DataPacket for TLC. *)
EXTENDS DataPacket, TLC

CONSTANTS d, e,                      \* devices
          m1, m2, m3                 \* messages

\* Device d sends a short and a long message, device e a short one.
ThreeSrc == m1 :> d @@ m2 :> d @@ m3 :> e
ThreeTotal == m1 :> 2 @@ m2 :> 3 @@ m3 :> 2
NoEmpty == {}
LastEmpty == {<<m3, 1>>}

=============================================================================
