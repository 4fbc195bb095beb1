----------------------------- MODULE MCSendPath -----------------------------
(* Instances of SendPath for TLC. *)
EXTENDS SendPath, TLC

CONSTANTS a, b,                      \* devices
          k1, k2,                    \* packets
          r1, r2, r3,                \* requests
          p1, p2, p3, p4,            \* pages of requests
          f1,                        \* page of a forwarded message
          o1, o2                     \* OTA pages

\* A split request and a single page, both for device a.
UnicastSegments == r1 :> <<p1, p2>> @@ r2 :> <<p3>>
UnicastDestinations == k1 :> <<r1>> @@ k2 :> <<r2>>
UnicastDest == [p \in {p1, p2, p3} |-> a]

\* Messages of one page for two devices, one of them shared.
PairSegments == r1 :> <<p1>> @@ r2 :> <<p2>> @@ r3 :> <<p3>>
PairDestinations == k1 :> <<r1, r2>> @@ k2 :> <<r3>>
PairDest == p1 :> a @@ p2 :> b @@ p3 :> a

\* A split packet for a broadcast address and one that addresses no device,
\* beside a message to forward and OTA broadcasts.
MixedSegments == r1 :> <<p1, p2>>
MixedDestinations == k1 :> <<r1>> @@ k2 :> <<>>
MixedDest == [p \in {p1, p2, f1, o1, o2} |-> a]

=============================================================================
