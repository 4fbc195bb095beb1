-------------------------- MODULE DataPacketProofs --------------------------
(***************************************************************************)
(* Proofs about DataPacket, for every number of devices, messages,         *)
(* segments, packet numbers and faults: PacketInv is an invariant, and the *)
(* properties of the list and of what is passed on follow from it.         *)
(***************************************************************************)
EXTENDS DataPacket, FiniteSetTheorems, WellFoundedInduction, TLAPS

-----------------------------------------------------------------------------
(* Lists by their index. *)

\* Appending a node.
LEMMA AppendFact ==
    ASSUME NEW S, NEW s \in Seq(S), NEW x \in S
    PROVE  /\ Append(s, x) \in Seq(S)
           /\ Len(Append(s, x)) = Len(s) + 1
           /\ \A j \in 1 .. Len(s) : Append(s, x)[j] = s[j]
           /\ Append(s, x)[Len(s) + 1] = x
    OBVIOUS

\* What a list holds after a node was appended.
LEMMA AppendRange ==
    ASSUME NEW S, NEW s \in Seq(S), NEW x \in S
    PROVE  Range(Append(s, x)) = Range(s) \cup {x}
<1>1. /\ Len(s) \in Nat /\ DOMAIN s = 1 .. Len(s)
      /\ DOMAIN Append(s, x) = 1 .. Len(s) + 1
      /\ \A j \in 1 .. Len(s) : Append(s, x)[j] = s[j]
      /\ Append(s, x)[Len(s) + 1] = x
  BY AppendFact
<1>2. QED
  BY <1>1 DEF Range

\* One list after another.
LEMMA ConcatFact ==
    ASSUME NEW S, NEW f \in Seq(S), NEW g \in Seq(S)
    PROVE  /\ f \o g \in Seq(S)
           /\ Len(f \o g) = Len(f) + Len(g)
           /\ \A j \in 1 .. Len(f) + Len(g) :
                 (f \o g)[j] = IF j <= Len(f) THEN f[j] ELSE g[j - Len(f)]
    OBVIOUS

\* Unlinking the node at position i.
LEMMA UnlinkFact ==
    ASSUME NEW S, NEW s \in Seq(S), NEW i \in 1 .. Len(s)
    PROVE  /\ Unlink(s, i) \in Seq(S)
           /\ Len(Unlink(s, i)) = Len(s) - 1
           /\ \A j \in 1 .. Len(s) - 1 :
                 Unlink(s, i)[j] = IF j < i THEN s[j] ELSE s[j + 1]
<1> DEFINE f == SubSeq(s, 1, i - 1)
           g == SubSeq(s, i + 1, Len(s))
<1>1. /\ f \in Seq(S) /\ Len(f) = i - 1
      /\ \A j \in 1 .. i - 1 : f[j] = s[j]
  OBVIOUS
<1>2. /\ g \in Seq(S) /\ Len(g) = Len(s) - i
      /\ \A j \in 1 .. Len(s) - i : g[j] = s[j + i]
  OBVIOUS
<1>3. Unlink(s, i) = f \o g
  BY DEF Unlink
<1> HIDE DEF f, g
<1>3a. Len(s) \in Nat /\ i \in Nat
  OBVIOUS
<1>4. /\ f \o g \in Seq(S)
      /\ Len(f \o g) = Len(f) + Len(g)
      /\ \A j \in 1 .. Len(f) + Len(g) :
            (f \o g)[j] = IF j <= Len(f) THEN f[j] ELSE g[j - Len(f)]
  BY Zenon, <1>1, <1>2, ConcatFact
<1>5. ASSUME NEW j \in 1 .. Len(s) - 1
      PROVE  (f \o g)[j] = IF j < i THEN s[j] ELSE s[j + 1]
  <2>1. j \in 1 .. Len(f) + Len(g)
    BY <1>1, <1>2, <1>3a
  <2>2. CASE j < i
    BY <1>1, <1>3a, <1>4, <2>1, <2>2
  <2>3. CASE ~(j < i)
    <3>1. /\ j - (i - 1) \in 1 .. Len(s) - i
          /\ (j - (i - 1)) + i = j + 1
          /\ ~(j <= Len(f))
      BY <1>1, <1>3a, <2>3
    <3>2. (f \o g)[j] = g[j - (i - 1)]
      BY <1>1, <1>4, <2>1, <3>1
    <3>3. QED
      BY Zenon, <1>2, <2>3, <3>1, <3>2
  <2>4. QED
    BY Zenon, <2>2, <2>3
<1>6. QED
  BY <1>1, <1>2, <1>3, <1>3a, <1>4, <1>5

-----------------------------------------------------------------------------
(* Nodes. *)

\* A node as its fields say; the number of its segments is the range of a
\* segment index.
LEMMA NodeFields ==
    ASSUME NEW p \in Node
    PROVE  /\ p.source_id \in Device /\ p.packet_id \in 0 .. PacketNums - 1
           /\ p.seg_total \in Nat \ {0} /\ p.seg_count \in 0 .. p.seg_total
           /\ p.segment \in [0 .. p.seg_total - 1 -> Segment \cup {None}]
           /\ p = [source_id |-> p.source_id, packet_id |-> p.packet_id,
                   seg_total |-> p.seg_total, seg_count |-> p.seg_count,
                   segment |-> p.segment]
           /\ \E m \in Message : p.seg_total = total[m]
<1>1. PICK m \in Message :
         p \in [source_id : Device, packet_id : 0 .. PacketNums - 1,
                seg_total : {total[m]}, seg_count : 0 .. total[m],
                segment : [0 .. total[m] - 1 -> Segment \cup {None}]]
  BY DEF Node
<1>2. total[m] \in Nat \ {0}
  BY MessageAssumption
<1>3. QED
  BY <1>1, <1>2

\* The converse: a record with such fields is a node.
LEMMA NodeBuild ==
    ASSUME NEW d \in Device, NEW n \in 0 .. PacketNums - 1, NEW m \in Message,
           NEW c \in 0 .. total[m],
           NEW f \in [0 .. total[m] - 1 -> Segment \cup {None}]
    PROVE  [source_id |-> d, packet_id |-> n, seg_total |-> total[m],
            seg_count |-> c, segment |-> f] \in Node
BY DEF Node

\* The places of a node with room for n segments.
LEMMA PlacesFinite ==
    ASSUME NEW n \in Nat \ {0}
    PROVE  IsFiniteSet(0 .. n - 1) /\ Cardinality(0 .. n - 1) = n
<1>1. PICK b \in Nat : b = n - 1 /\ b + 1 = n
  OBVIOUS
<1>2. IsFiniteSet(0 .. b) /\ Cardinality(0 .. b) = b + 1
  BY FS_Interval
<1>3. QED
  BY <1>1, <1>2

\* The segments that are there are finitely many, at most as many as there is
\* room for, and all of them when they are as many.
LEMMA FilledFinite ==
    ASSUME NEW p \in Node
    PROVE  /\ IsFiniteSet(Filled(p))
           /\ Cardinality(Filled(p)) \in 0 .. p.seg_total
           /\ Cardinality(Filled(p)) = p.seg_total =>
                 Filled(p) = 0 .. p.seg_total - 1
<1>1. p.seg_total \in Nat \ {0} /\ p.seg_total - 1 \in Int
  BY NodeFields
<1>2. /\ IsFiniteSet(0 .. p.seg_total - 1)
      /\ Cardinality(0 .. p.seg_total - 1) = p.seg_total
  BY <1>1, PlacesFinite
<1>3. Filled(p) \subseteq 0 .. p.seg_total - 1
  BY DEF Filled
<1>4. QED
  BY <1>1, <1>2, <1>3, FS_Subset, FS_CardinalityType

\* A new node is in order.
LEMMA NewNode ==
    ASSUME TypeOK, NEW m \in Message, number[m] # None
    PROVE  LET p == recv_data_packet_new(src[m], number[m], total[m])
           IN  NodeOK(p) /\ p.source_id = src[m] /\ p.packet_id = number[m]
<1> DEFINE p == recv_data_packet_new(src[m], number[m], total[m])
<1>1. /\ src[m] \in Device /\ number[m] \in 0 .. PacketNums - 1
      /\ total[m] \in Nat \ {0} /\ 0 \in 0 .. total[m]
  BY MessageAssumption DEF TypeOK
<1>2. p \in Node
  BY <1>1, NodeBuild DEF recv_data_packet_new
<1>3. Filled(p) = {} /\ p.seg_count = 0
  BY DEF Filled, recv_data_packet_new
<1>4. p.seg_count = Cardinality(Filled(p))
  BY <1>3, FS_EmptySet
<1>5. m \in Sent(src[m], number[m])
  BY DEF Sent
<1>6. /\ p.source_id = src[m] /\ p.packet_id = number[m]
      /\ p.seg_total = total[m]
  BY DEF recv_data_packet_new
<1>7. QED
  BY <1>2, <1>3, <1>4, <1>5, <1>6 DEF NodeOK

\* Adding a segment of a message with the node's number keeps it in order.
LEMMA AddSegment ==
    ASSUME NEW m \in Message, NEW k \in 0 .. total[m] - 1, NEW p, NodeOK(p),
           m \in Sent(p.source_id, p.packet_id)
    PROVE  LET q == recv_data_packet_add_segment(p, k, <<m, k>>)
           IN  /\ NodeOK(q) /\ SameIds(q, p)
               /\ Filled(p) \subseteq Filled(q)
<1> DEFINE q == recv_data_packet_add_segment(p, k, <<m, k>>)
           c == IF p.segment[k] = None THEN p.seg_count + 1 ELSE p.seg_count
           f == [p.segment EXCEPT ![k] = <<m, k>>]
<1>0. p \in Node
  BY DEF NodeOK
<1>1. CASE k >= p.seg_total \/ <<m, k>> \in Empty
  BY <1>1 DEF recv_data_packet_add_segment, SameIds
<1>2. CASE ~(k >= p.seg_total \/ <<m, k>> \in Empty)
  <2>1. /\ p.seg_total \in Nat \ {0} /\ k \in 0 .. p.seg_total - 1
        /\ p.seg_count \in 0 .. p.seg_total
        /\ p.segment \in [0 .. p.seg_total - 1 -> Segment \cup {None}]
        /\ p.source_id \in Device /\ p.packet_id \in 0 .. PacketNums - 1
    BY <1>0, <1>2, NodeFields, MessageAssumption
  <2>2. q = [source_id |-> p.source_id, packet_id |-> p.packet_id,
             seg_total |-> p.seg_total, seg_count |-> c, segment |-> f]
    <3>1. PICK l \in Message :
             p \in [source_id : Device, packet_id : 0 .. PacketNums - 1,
                    seg_total : {total[l]}, seg_count : 0 .. total[l],
                    segment : [0 .. total[l] - 1 -> Segment \cup {None}]]
      BY <1>0 DEF Node
    <3>2. q = [p EXCEPT !.segment[k] = <<m, k>>, !.seg_count = c]
      BY <1>2, <2>1, <3>1 DEF recv_data_packet_add_segment
    <3>3. QED
      BY Zenon, <3>1, <3>2
  <2> HIDE DEF q
  <2>3. <<m, k>> \in Segment /\ <<m, k>> # None
    BY MessageAssumption DEF Segment, SegmentsOf
  <2>4. Filled(q) = Filled(p) \cup {k}
    BY <2>1, <2>2, <2>3 DEF Filled
  <2>5. c = Cardinality(Filled(q))
    <3>1. p.seg_count = Cardinality(Filled(p)) /\ IsFiniteSet(Filled(p))
      BY <1>0, FilledFinite DEF NodeOK
    <3>2. k \in Filled(p) <=> p.segment[k] # None
      BY <2>1 DEF Filled
    <3>3. Cardinality(Filled(p) \cup {k}) =
             IF k \in Filled(p) THEN Cardinality(Filled(p))
                                ELSE Cardinality(Filled(p)) + 1
      BY Zenon, <3>1, FS_AddElement
    <3>4. QED
      BY <2>4, <3>1, <3>2, <3>3
  <2>6. c \in 0 .. p.seg_total
    <3>1. /\ IsFiniteSet(0 .. p.seg_total - 1)
          /\ Cardinality(0 .. p.seg_total - 1) = p.seg_total
      BY <2>1, PlacesFinite
    <3>2. Filled(q) \subseteq 0 .. p.seg_total - 1
      BY <2>1, <2>4 DEF Filled
    <3>3. QED
      BY <2>5, <3>1, <3>2, FS_Subset, FS_CardinalityType
  <2>7. q \in Node
    <3>1. PICK l \in Message : p.seg_total = total[l]
      BY <1>0, NodeFields
    <3>2. f \in [0 .. total[l] - 1 -> Segment \cup {None}]
      BY <2>1, <2>3, <3>1
    <3>3. QED
      BY Zenon, <2>1, <2>2, <2>6, <3>1, <3>2, NodeBuild
  <2>8. \A j \in Filled(q) :
           \E l \in Sent(q.source_id, q.packet_id) : q.segment[j] = <<l, j>>
    <3>1. \A j \in Filled(p) :
             \E l \in Sent(p.source_id, p.packet_id) : p.segment[j] = <<l, j>>
      BY DEF NodeOK
    <3>2. /\ \A j \in Filled(p) \ {k} : q.segment[j] = p.segment[j]
          /\ q.segment[k] = <<m, k>>
      BY <2>1, <2>2 DEF Filled
    <3>3. q.source_id = p.source_id /\ q.packet_id = p.packet_id
      BY <2>2
    <3>4. QED
      BY <2>4, <3>1, <3>2, <3>3
  <2>9. QED
    BY <2>2, <2>4, <2>5, <2>7, <2>8 DEF NodeOK, SameIds, q
<1>3. QED
  BY <1>1, <1>2

\* A non-empty set of naturals has a least element.
LEMMA LeastNatural ==
    ASSUME NEW T, T \subseteq Nat, T # {}
    PROVE  \E m \in T : \A n \in T : m <= n
<1> DEFINE R == {ss \in Nat \X Nat : ss[1] < ss[2]}
<1>1. R = OpToRel(<, Nat)
  BY DEF OpToRel
<1>2. IsWellFoundedOn(R, Nat)
  BY <1>1, NatLessThanWellFounded, Zenon
<1>3. \E m \in T : \A n \in T : ~(<<n, m>> \in R)
  <2> HIDE DEF R
  <2>1. QED
    BY Zenon, <1>2, WFMin
<1>4. PICK m \in T : \A n \in T : ~(<<n, m>> \in R)
  BY <1>3
<1>5. ASSUME NEW n \in T PROVE m <= n
  <2>1. n \in Nat /\ m \in Nat /\ ~(n < m)
    BY Zenon, <1>4
  <2>2. QED
    BY <2>1
<1>6. QED
  BY <1>5

\* recv_data_packet_find returns a node with the two numbers if there is one.
LEMMA FindFact ==
    ASSUME NEW E, NEW list \in Seq(E), NEW d, NEW n
    PROVE  LET f == recv_data_packet_find(list, d, n)
               Match(i) == list[i].source_id = d /\ list[i].packet_id = n
           IN  \/ f = 0 /\ \A i \in DOMAIN list : ~Match(i)
               \/ f # 0 /\ f \in DOMAIN list /\ Match(f)
<1> DEFINE f == recv_data_packet_find(list, d, n)
           S == {i \in DOMAIN list : /\ list[i].source_id = d
                                     /\ list[i].packet_id = n}
<1>1. f = IF S = {} THEN 0 ELSE CHOOSE i \in S : \A j \in S : i <= j
  BY DEF recv_data_packet_find
<1>2. DOMAIN list = 1 .. Len(list) /\ Len(list) \in Nat
  OBVIOUS
<1>3. CASE S = {}
  BY <1>1, <1>3
<1>4. CASE S # {}
  <2>1. S \subseteq Nat
    BY <1>2
  <2>2. \E i \in S : \A j \in S : i <= j
    <3> HIDE DEF S
    <3>1. QED
      BY Zenon, <1>4, <2>1, LeastNatural
  <2>3. f \in S
    <3> HIDE DEF S, f
    <3>1. QED
      BY <1>1, <1>4, <2>2
  <2>4. f \in DOMAIN list /\ list[f].source_id = d /\ list[f].packet_id = n
    <3> HIDE DEF f
    <3>1. QED
      BY <2>3
  <2>5. f # 0
    <3> HIDE DEF f
    <3>1. QED
      BY <1>2, <2>4
  <2>6. QED
    BY <2>4, <2>5
<1>5. QED
  BY <1>3, <1>4

\* A message keeps the number it was sent with.
LEMMA SentGrows ==
    ASSUME TypeOK, [Next]_vars
    PROVE  \A d, n : n # None => Sent(d, n) \subseteq Sent(d, n)'
<1>1. CASE number' = number
  BY <1>1 DEF Sent
<1>2. ASSUME NEW m \in Message, Send(m)
      PROVE  \A d, n : n # None => Sent(d, n) \subseteq Sent(d, n)'
  BY <1>2 DEF Send, Sent, TypeOK
<1>3. QED
  BY <1>1, <1>2 DEF Next, Lose, Receive, Waiting, vars

\* A node in order stays in order while devices number further messages.
LEMMA NodeKept ==
    ASSUME TypeOK, [Next]_vars
    PROVE  \A p : NodeOK(p) => NodeOK(p)'
<1> SUFFICES ASSUME NEW p, NodeOK(p) PROVE NodeOK(p)'
  OBVIOUS
<1>1. p.packet_id # None
  BY NodeFields, MessageAssumption, NumberAssumption DEF NodeOK
<1>2. Sent(p.source_id, p.packet_id) \subseteq Sent(p.source_id, p.packet_id)'
  BY <1>1, SentGrows
<1>3. QED
  BY <1>2 DEF NodeOK

\* So does a payload that was passed on.
LEMMA PayloadKept ==
    ASSUME TypeOK, [Next]_vars
    PROVE  \A d : PayloadOK(d) => PayloadOK(d)'
<1> SUFFICES ASSUME NEW d, PayloadOK(d) PROVE PayloadOK(d)'
  OBVIOUS
<1>1. d.packet_id # None
  BY MessageAssumption, NumberAssumption DEF PayloadOK
<1>2. Sent(d.source_id, d.packet_id) \subseteq Sent(d.source_id, d.packet_id)'
  BY <1>1, SentGrows
<1>3. QED
  BY Zenon, <1>2 DEF PayloadOK

\* A complete node is read as one segment of the right messages per place.
LEMMA ReadPayload ==
    ASSUME NEW p, NodeOK(p), IsComplete(p)
    PROVE  PayloadOK([source_id |-> p.source_id, packet_id |-> p.packet_id,
                      data |-> recv_data_packet_reader(p)])
<1> DEFINE D == recv_data_packet_reader(p)
<1>1. /\ p \in Node /\ p.seg_total \in Nat \ {0}
      /\ p.source_id \in Device /\ p.packet_id \in 0 .. PacketNums - 1
  BY NodeFields DEF NodeOK
<1>2. Filled(p) = 0 .. p.seg_total - 1
  BY Zenon, <1>1, FilledFinite DEF NodeOK, IsComplete
<1>3. D = [j \in 1 .. p.seg_total |-> p.segment[j - 1]]
  BY DEF recv_data_packet_reader
<1>4. PICK m \in Sent(p.source_id, p.packet_id) : p.seg_total = total[m]
  BY DEF NodeOK
<1>5. D = [j \in 1 .. total[m] |-> D[j]]
  BY <1>3, <1>4
<1>6. \A j \in DOMAIN D :
         \E l \in Sent(p.source_id, p.packet_id) : D[j] = <<l, j - 1>>
  <2> SUFFICES ASSUME NEW j \in 1 .. p.seg_total
               PROVE  \E l \in Sent(p.source_id, p.packet_id) : D[j] = <<l, j - 1>>
    BY Zenon, <1>3
  <2>1. j - 1 \in Filled(p) /\ D[j] = p.segment[j - 1]
    BY <1>1, <1>2, <1>3
  <2>2. QED
    BY <2>1 DEF NodeOK
<1> HIDE DEF D
<1>7. QED
  BY Zenon, <1>1, <1>4, <1>5, <1>6 DEF PayloadOK, D

\* The node a segment belongs to, found or appended.
Located(list, i, m) ==
    /\ list \in Seq(Node) /\ i \in 1 .. Len(list)
    /\ Distinct(list)
    /\ list[i].source_id = src[m] /\ list[i].packet_id = number[m]
    /\ \A j \in 1 .. Len(list) : NodeOK(list[j])
    /\ \A j \in 1 .. Len(list) : j # i => list[j].seg_count < list[j].seg_total

\* manager_recv_wiota_msg finds the node of an arriving segment, or appends
\* an empty one, and keeps the others.
LEMMA LocatedFact ==
    ASSUME PacketInv, NEW m \in Message, number[m] # None
    PROVE  LET found == recv_data_packet_find(packets, src[m], number[m])
               list == IF found # 0 THEN packets
                       ELSE recv_data_packet_append(packets,
                               recv_data_packet_new(src[m], number[m], total[m]))
               i == IF found # 0 THEN found ELSE Len(list)
           IN  /\ Located(list, i, m)
               /\ Range(packets) \subseteq Range(list)
<1> DEFINE found == recv_data_packet_find(packets, src[m], number[m])
           new == recv_data_packet_new(src[m], number[m], total[m])
           list == IF found # 0 THEN packets
                   ELSE recv_data_packet_append(packets, new)
           i == IF found # 0 THEN found ELSE Len(list)
<1> SUFFICES Located(list, i, m) /\ Range(packets) \subseteq Range(list)
  OBVIOUS
<1>1. /\ packets \in Seq(Node) /\ Len(packets) \in Nat
      /\ DOMAIN packets = 1 .. Len(packets)
      /\ Distinct(packets) /\ TypeOK
      /\ \A j \in 1 .. Len(packets) :
            NodeOK(packets[j]) /\ packets[j].seg_count < packets[j].seg_total
  BY DEF PacketInv, TypeOK, UniqueIds, CountAgrees, Range
<1>2. CASE found # 0
  <2>1. /\ found \in DOMAIN packets /\ packets[found].source_id = src[m]
        /\ packets[found].packet_id = number[m]
    BY <1>1, <1>2, FindFact
  <2>2. list = packets /\ i = found
    BY <1>2
  <2> HIDE DEF found, list, i
  <2>3. QED
    BY <1>1, <2>1, <2>2 DEF Located
<1>3. CASE found = 0
  <2>1. \A j \in 1 .. Len(packets) : ~(/\ packets[j].source_id = src[m]
                                       /\ packets[j].packet_id = number[m])
    BY <1>1, <1>3, FindFact
  <2>2. NodeOK(new) /\ new.source_id = src[m] /\ new.packet_id = number[m]
    BY <1>1, NewNode
  <2> HIDE DEF found, new
  <2>3. new \in Node
    BY <2>2 DEF NodeOK
  <2>4. list = Append(packets, new)
    BY <1>3 DEF recv_data_packet_append
  <2> HIDE DEF list
  <2>5. /\ list \in Seq(Node) /\ Len(list) = Len(packets) + 1
        /\ \A j \in 1 .. Len(packets) : list[j] = packets[j]
        /\ list[Len(packets) + 1] = new
        /\ DOMAIN list = 1 .. Len(list)
    BY <1>1, <2>3, <2>4, AppendFact
  <2>6. i = Len(packets) + 1
    BY <1>3, <2>5
  <2>7. Distinct(list)
    BY <1>1, <2>1, <2>2, <2>5 DEF Distinct, SameIds
  <2>8. Range(packets) \subseteq Range(list)
    BY <1>1, <2>5 DEF Range
  <2> HIDE DEF i
  <2>9. QED
    BY <1>1, <2>2, <2>5, <2>6, <2>7, <2>8 DEF Located
<1>4. QED
  BY <1>2, <1>3

\* Storing the node with the new segment, while it is incomplete.
LEMMA StoreFact ==
    ASSUME NEW m, NEW list, NEW i, Located(list, i, m),
           NEW q, NodeOK(q), SameIds(q, list[i]), ~IsComplete(q),
           Filled(list[i]) \subseteq Filled(q)
    PROVE  LET t == [list EXCEPT ![i] = q]
           IN  /\ t \in Seq(Node) /\ Distinct(t)
               /\ \A p \in Range(t) : NodeOK(p) /\ p.seg_count < p.seg_total
               /\ \A p \in Range(list) :
                     \E r \in Range(t) : SameIds(r, p) /\ Filled(p) \subseteq Filled(r)
<1> DEFINE t == [list EXCEPT ![i] = q]
<1> SUFFICES /\ t \in Seq(Node) /\ Distinct(t)
             /\ \A p \in Range(t) : NodeOK(p) /\ p.seg_count < p.seg_total
             /\ \A p \in Range(list) :
                   \E r \in Range(t) : SameIds(r, p) /\ Filled(p) \subseteq Filled(r)
  BY Zenon
<1>1. /\ list \in Seq(Node) /\ i \in 1 .. Len(list) /\ Len(list) \in Nat
      /\ DOMAIN list = 1 .. Len(list) /\ Distinct(list)
      /\ \A j \in 1 .. Len(list) : NodeOK(list[j])
      /\ \A j \in 1 .. Len(list) : j # i => list[j].seg_count < list[j].seg_total
  BY DEF Located
<1>2. q \in Node /\ q.seg_count < q.seg_total
  BY NodeFields DEF NodeOK, IsComplete
<1>3. /\ t \in Seq(Node) /\ DOMAIN t = 1 .. Len(list)
      /\ t[i] = q /\ \A j \in 1 .. Len(list) : j # i => t[j] = list[j]
  BY <1>1, <1>2
<1> HIDE DEF t
<1>4. \A j \in 1 .. Len(list) : SameIds(t[j], list[j])
  BY <1>1, <1>3 DEF SameIds
<1>5. Distinct(t)
  BY <1>1, <1>3, <1>4 DEF Distinct, SameIds
<1>6. \A p \in Range(t) : NodeOK(p) /\ p.seg_count < p.seg_total
  BY <1>1, <1>2, <1>3 DEF Range
<1>7. \A j \in 1 .. Len(list) : Filled(list[j]) \subseteq Filled(t[j])
  BY <1>1, <1>3
<1>8. \A p \in Range(list) :
         \E r \in Range(t) : SameIds(r, p) /\ Filled(p) \subseteq Filled(r)
  BY <1>1, <1>3, <1>4, <1>7 DEF Range
<1>9. QED
  BY <1>3, <1>5, <1>6, <1>8

\* Removing a node that has become complete.
LEMMA RemoveFact ==
    ASSUME NEW m, NEW list, NEW i, Located(list, i, m)
    PROVE  LET t == Unlink(list, i)
           IN  /\ t \in Seq(Node) /\ Distinct(t)
               /\ \A p \in Range(t) : NodeOK(p) /\ p.seg_count < p.seg_total
               /\ \A p \in Range(list) : p = list[i] \/ p \in Range(t)
<1> DEFINE t == Unlink(list, i)
<1> SUFFICES /\ t \in Seq(Node) /\ Distinct(t)
             /\ \A p \in Range(t) : NodeOK(p) /\ p.seg_count < p.seg_total
             /\ \A p \in Range(list) : p = list[i] \/ p \in Range(t)
  OBVIOUS
<1>1. /\ list \in Seq(Node) /\ i \in 1 .. Len(list) /\ Len(list) \in Nat
      /\ DOMAIN list = 1 .. Len(list) /\ Distinct(list)
      /\ \A j \in 1 .. Len(list) : NodeOK(list[j])
      /\ \A j \in 1 .. Len(list) : j # i => list[j].seg_count < list[j].seg_total
  BY DEF Located
<1>2. /\ t \in Seq(Node) /\ Len(t) = Len(list) - 1
      /\ \A j \in 1 .. Len(list) - 1 :
            t[j] = IF j < i THEN list[j] ELSE list[j + 1]
  BY Zenon, <1>1, UnlinkFact
<1> HIDE DEF t
<1>3. DOMAIN t = 1 .. Len(list) - 1
  BY <1>1, <1>2
<1>4. Distinct(t)
  <2> SUFFICES ASSUME NEW j \in DOMAIN t, NEW k \in DOMAIN t,
                      SameIds(t[j], t[k])
               PROVE  j = k
    BY DEF Distinct
  <2> DEFINE J == IF j < i THEN j ELSE j + 1
             K == IF k < i THEN k ELSE k + 1
  <2>1. /\ J \in 1 .. Len(list) /\ K \in 1 .. Len(list)
        /\ t[j] = list[J] /\ t[k] = list[K]
    BY <1>1, <1>2, <1>3
  <2>2. J = K
    <3> HIDE DEF J, K
    <3>1. QED
      BY <1>1, <2>1 DEF Distinct
  <2>3. QED
    BY <1>1, <1>3, <2>2
<1>5. \A p \in Range(t) : NodeOK(p) /\ p.seg_count < p.seg_total
  <2> SUFFICES ASSUME NEW j \in 1 .. Len(list) - 1
               PROVE  NodeOK(t[j]) /\ t[j].seg_count < t[j].seg_total
    BY <1>3 DEF Range
  <2> DEFINE J == IF j < i THEN j ELSE j + 1
  <2>1. J \in 1 .. Len(list) /\ J # i /\ t[j] = list[J]
    BY <1>1, <1>2
  <2> HIDE DEF J
  <2>2. QED
    BY <1>1, <2>1
<1>6. \A p \in Range(list) : p = list[i] \/ p \in Range(t)
  <2> SUFFICES ASSUME NEW j \in 1 .. Len(list), j # i
               PROVE  \E k \in DOMAIN t : t[k] = list[j]
    BY <1>1 DEF Range
  <2> DEFINE k == IF j < i THEN j ELSE j - 1
  <2>1. k \in DOMAIN t /\ t[k] = list[j]
    BY <1>1, <1>2, <1>3
  <2>2. QED
    BY <2>1
<1>7. QED
  BY <1>2, <1>4, <1>5, <1>6

\* What arrives is a numbered segment of a message.
LEMMA ArrivalFact ==
    ASSUME PacketInv, NEW s \in air
    PROVE  /\ s[1] \in Message /\ s[2] \in 0 .. total[s[1]] - 1
           /\ s = <<s[1], s[2]>> /\ number[s[1]] # None
           /\ s[1] \in Sent(src[s[1]], number[s[1]])
BY DEF PacketInv, TypeOK, Segment, SegmentsOf, Sent

\* manager_recv_wiota_msg keeps the list in order, passes on only complete
\* packets, and forgets no segment.
LEMMA RecvFact ==
    ASSUME PacketInv, NEW s \in air, manager_recv_wiota_msg(s)
    PROVE  /\ packets' \in Seq(Node) /\ Distinct(packets')
           /\ \A p \in Range(packets') : NodeOK(p) /\ p.seg_count < p.seg_total
           /\ \/ delivered' = delivered
              \/ \E d : PayloadOK(d) /\ delivered' = Append(delivered, d)
           /\ KeepStep
<1> DEFINE m == s[1]
           found == recv_data_packet_find(packets, src[m], number[m])
           list == IF found # 0 THEN packets
                   ELSE recv_data_packet_append(packets,
                           recv_data_packet_new(src[m], number[m], total[m]))
           i == IF found # 0 THEN found ELSE Len(list)
           q == recv_data_packet_add_segment(list[i], s[2], s)
           d == [source_id |-> q.source_id, packet_id |-> q.packet_id,
                 data |-> recv_data_packet_reader(q)]
<1>1. /\ m \in Message /\ s[2] \in 0 .. total[m] - 1
      /\ s = <<m, s[2]>> /\ number[m] # None
      /\ m \in Sent(src[m], number[m])
  BY ArrivalFact
<1>2. Located(list, i, m) /\ Range(packets) \subseteq Range(list)
  BY <1>1, LocatedFact
<1>3. IF IsComplete(q)
      THEN packets' = Unlink(list, i) /\ delivered' = Append(delivered, d)
      ELSE packets' = [list EXCEPT ![i] = q] /\ delivered' = delivered
  BY Zenon DEF manager_recv_wiota_msg, recv_data_packet_remove
<1>4. PICK k : k = s[2]
  OBVIOUS
<1>5. q = recv_data_packet_add_segment(list[i], k, <<m, k>>)
  BY <1>1, <1>4
<1> HIDE DEF q, i, list, found, m
<1>6. NodeOK(list[i]) /\ m \in Sent(list[i].source_id, list[i].packet_id)
  BY <1>1, <1>2 DEF Located
<1>7. NodeOK(q) /\ SameIds(q, list[i]) /\ Filled(list[i]) \subseteq Filled(q)
  BY <1>1, <1>4, <1>5, <1>6, AddSegment
<1>8. CASE ~IsComplete(q)
  <2>1. /\ packets' \in Seq(Node) /\ Distinct(packets')
        /\ \A p \in Range(packets') : NodeOK(p) /\ p.seg_count < p.seg_total
        /\ \A p \in Range(list) : \E r \in Range(packets') :
              SameIds(r, p) /\ Filled(p) \subseteq Filled(r)
    BY <1>2, <1>3, <1>7, <1>8, StoreFact
  <2>2. KeepStep
    BY <1>2, <2>1 DEF KeepStep
  <2>3. QED
    BY <1>3, <1>8, <2>1, <2>2
<1>9. CASE IsComplete(q)
  <2>1. /\ packets' \in Seq(Node) /\ Distinct(packets')
        /\ \A p \in Range(packets') : NodeOK(p) /\ p.seg_count < p.seg_total
        /\ \A p \in Range(list) : p = list[i] \/ p \in Range(packets')
    BY <1>2, <1>3, <1>9, RemoveFact
  <2>2. PayloadOK(d)
    BY <1>7, <1>9, ReadPayload
  <2>3. delivered' = Append(delivered, d) /\ SameIds(d, list[i])
    BY <1>3, <1>7, <1>9 DEF SameIds
  <2> HIDE DEF d
  <2>4. d \in Range(delivered')
    <3>1. delivered \in Seq(Range(delivered))
      BY DEF PacketInv
    <3>2. delivered \in Seq(Range(delivered) \cup {d})
      BY <3>1
    <3>3. Range(Append(delivered, d)) = Range(delivered) \cup {d}
      BY <3>2, AppendRange
    <3>4. QED
      BY <2>3, <3>3
  <2>5. KeepStep
    <3> SUFFICES ASSUME NEW p \in Range(packets)
                 PROVE  \/ \E r \in Range(packets') :
                              SameIds(r, p) /\ Filled(p) \subseteq Filled(r)
                        \/ \E e \in Range(delivered') :
                              delivered' = Append(delivered, e) /\ SameIds(e, p)
      BY DEF KeepStep
    <3>1. CASE p \in Range(packets')
      BY <3>1 DEF SameIds
    <3>2. CASE p = list[i]
      BY <2>3, <2>4, <3>2
    <3>3. QED
      BY <1>2, <2>1, <3>1, <3>2
  <2>6. QED
    BY <2>1, <2>2, <2>3, <2>5
<1>10. QED
  BY <1>8, <1>9

\* At start nothing was sent, stored or passed on.
LEMMA PacketInit == Init => PacketInv
<1> SUFFICES ASSUME Init PROVE PacketInv
  OBVIOUS
<1>1. TypeOK
  BY NumberAssumption DEF Init, TypeOK
<1>2. Range(packets) = {} /\ Range(delivered) = {} /\ UniqueIds
      /\ delivered \in Seq(Range(delivered))
  BY DEF Init, Range, UniqueIds, Distinct
<1>3. QED
  BY <1>1, <1>2 DEF Init, PacketInv, CountAgrees

\* app_packet_num gives a message a number in range, and only then are its
\* segments on the air.
LEMMA SendStep ==
    ASSUME PacketInv, NEW m \in Message, Send(m)
    PROVE  TypeOK' /\ (\A s \in air : number[s[1]] # None)'
<1>1. TypeOK
  BY DEF PacketInv
<1>2. src[m] \in Device /\ next \in [Device -> 0 .. PacketNums - 1]
      /\ number \in [Message -> (0 .. PacketNums - 1) \cup {None}]
  BY <1>1, MessageAssumption DEF TypeOK
<1>3. next[src[m]] \in 0 .. PacketNums - 1 /\ next[src[m]] # None
  BY <1>2, NumberAssumption, MessageAssumption
<1>4. (next[src[m]] + 1) % PacketNums \in 0 .. PacketNums - 1
  BY <1>3, NumberAssumption
<1>5. /\ next' \in [Device -> 0 .. PacketNums - 1]
      /\ number' \in [Message -> (0 .. PacketNums - 1) \cup {None}]
  BY <1>2, <1>3, <1>4 DEF Send
<1>6. air' \subseteq Segment
  BY <1>1 DEF Send, TypeOK, Segment
<1>7. \A s \in air : s[1] \in Message /\ number[s[1]] # None
  BY ArrivalFact
<1>8. \A s \in air' : number'[s[1]] # None
  BY <1>2, <1>3, <1>7 DEF Send, SegmentsOf
<1>9. QED
  BY <1>1, <1>5, <1>6, <1>8 DEF Send, TypeOK

\* Every step of a device, of the radio and of the receiver keeps the
\* invariant and loses no stored segment.
LEMMA PacketStep == PacketInv /\ [Next]_vars => PacketInv' /\ (KeepStep \/ UNCHANGED vars)
<1> SUFFICES ASSUME PacketInv, [Next]_vars
             PROVE  PacketInv' /\ (KeepStep \/ UNCHANGED vars)
  OBVIOUS
<1>0. TypeOK /\ delivered \in Seq(Range(delivered))
  BY DEF PacketInv
<1>1. ASSUME TypeOK', (\A s \in air : number[s[1]] # None)',
             UNCHANGED <<packets, delivered>>
      PROVE  PacketInv' /\ KeepStep
  <2>1. (\A p \in Range(packets) : NodeOK(p))'
    BY <1>0, <1>1, NodeKept DEF PacketInv
  <2>2. (\A d \in Range(delivered) : PayloadOK(d))'
    BY <1>0, <1>1, PayloadKept DEF PacketInv
  <2>3. UniqueIds' /\ CountAgrees' /\ (delivered \in Seq(Range(delivered)))'
    BY <1>1 DEF PacketInv, UniqueIds, CountAgrees
  <2>4. KeepStep
    BY <1>1 DEF KeepStep, SameIds
  <2>5. QED
    BY <1>1, <2>1, <2>2, <2>3, <2>4 DEF PacketInv
<1>2. ASSUME NEW m \in Message, Send(m)
      PROVE  PacketInv' /\ KeepStep
  BY Zenon, <1>1, <1>2, SendStep DEF Send
<1>3. ASSUME NEW s \in air, Lose(s)
      PROVE  PacketInv' /\ KeepStep
  <2>1. TypeOK' /\ (\A x \in air : number[x[1]] # None)'
    BY <1>0, <1>3, NumberAssumption DEF Lose, TypeOK, PacketInv
  <2>2. QED
    BY <1>1, <1>3, <2>1 DEF Lose
<1>4. ASSUME NEW s \in air, Receive(s)
      PROVE  PacketInv' /\ KeepStep
  <2>1. /\ packets' \in Seq(Node) /\ Distinct(packets')
        /\ \A p \in Range(packets') : NodeOK(p) /\ p.seg_count < p.seg_total
        /\ \/ delivered' = delivered
           \/ \E d : PayloadOK(d) /\ delivered' = Append(delivered, d)
        /\ KeepStep
    BY <1>4, RecvFact DEF Receive
  <2>2. TypeOK'
    BY <1>0, <1>4, <2>1, NumberAssumption DEF Receive, TypeOK
  <2>3. (\A x \in air : number[x[1]] # None)'
    BY <1>4 DEF Receive, PacketInv
  <2>4. (\A p \in Range(packets) : NodeOK(p))'
    BY <1>0, <2>1, NodeKept
  <2>5. UniqueIds' /\ CountAgrees'
    BY <2>1 DEF UniqueIds, CountAgrees, NodeOK
  <2>6. /\ delivered' \in Seq(Range(delivered'))
        /\ \A d \in Range(delivered') : PayloadOK(d)
    <3>1. CASE delivered' = delivered
      BY <1>0, <3>1 DEF PacketInv
    <3>2. ASSUME NEW d, PayloadOK(d), delivered' = Append(delivered, d)
          PROVE  /\ delivered' \in Seq(Range(delivered'))
                 /\ \A x \in Range(delivered') : PayloadOK(x)
      <4>1. delivered \in Seq(Range(delivered) \cup {d})
        BY <1>0
      <4>2. Range(delivered') = Range(delivered) \cup {d}
        BY <3>2, <4>1, AppendRange
      <4>3. delivered' \in Seq(Range(delivered) \cup {d})
        BY <3>2, <4>1, AppendFact
      <4>4. QED
        BY <3>2, <4>2, <4>3 DEF PacketInv
    <3>3. QED
      BY <2>1, <3>1, <3>2
  <2>7. (\A d \in Range(delivered) : PayloadOK(d))'
    BY <1>0, <2>6, PayloadKept
  <2>8. QED
    BY <2>1, <2>2, <2>3, <2>4, <2>5, <2>6, <2>7 DEF PacketInv
<1>5. CASE UNCHANGED vars
  <2>1. TypeOK' /\ (\A x \in air : number[x[1]] # None)'
    BY <1>0, <1>5 DEF vars, TypeOK, PacketInv
  <2>2. QED
    BY <1>1, <1>5, <2>1 DEF vars
<1>6. QED
  BY <1>2, <1>3, <1>4, <1>5 DEF Next, Waiting

-----------------------------------------------------------------------------
(* The theorems. *)

\* The list of incomplete packets and what was passed on are always in order.
THEOREM PacketInvariant == Spec => []PacketInv
<1>1. Init => PacketInv
  BY PacketInit
<1>2. PacketInv /\ [Next]_vars => PacketInv'
  BY PacketStep
<1>3. QED
  BY <1>1, <1>2, PTL DEF Spec

\* The list, the numbers and the segments on the air stay what the code takes
\* them for.
THEOREM PacketTypes == Spec => []TypeOK
<1>1. PacketInv => TypeOK
  BY DEF PacketInv
<1>2. QED
  BY <1>1, PacketInvariant, PTL

\* (source_id, packet_id) identifies a node of recv_data_packet.
THEOREM IdsUnique == Spec => []UniqueIds
<1>1. PacketInv => UniqueIds
  BY DEF PacketInv
<1>2. QED
  BY <1>1, PacketInvariant, PTL

\* seg_count is right, and no complete packet stays in the list.
THEOREM CountsAgree == Spec => []CountAgrees
<1>1. PacketInv => CountAgrees
  BY DEF PacketInv
<1>2. QED
  BY <1>1, PacketInvariant, PTL

\* What is passed on is the message that was sent, unless its number was used
\* twice, and even then every segment is in its place.
THEOREM Reassembles == Spec => []DeliveredSound
<1>1. PacketInv => DeliveredSound
  <2> SUFFICES ASSUME PacketInv, NEW d \in Range(delivered)
               PROVE  LET M == Sent(d.source_id, d.packet_id)
                      IN  /\ \A j \in DOMAIN d.data :
                                \E m \in M : d.data[j] = <<m, j - 1>>
                          /\ \A m \in M : M = {m} =>
                                d.data = [j \in 1 .. total[m] |-> <<m, j - 1>>]
    BY DEF DeliveredSound
  <2> DEFINE M == Sent(d.source_id, d.packet_id)
  <2>1. /\ \A j \in DOMAIN d.data : \E m \in M : d.data[j] = <<m, j - 1>>
        /\ \E m \in M : d.data = [j \in 1 .. total[m] |-> d.data[j]]
    BY DEF PacketInv, PayloadOK
  <2> HIDE DEF M
  <2>2. ASSUME NEW m \in M, M = {m}
        PROVE  d.data = [j \in 1 .. total[m] |-> <<m, j - 1>>]
    <3>1. d.data = [j \in 1 .. total[m] |-> d.data[j]]
      BY <2>1, <2>2
    <3>2. DOMAIN d.data = 1 .. total[m]
      BY <3>1
    <3>3. \A j \in 1 .. total[m] : d.data[j] = <<m, j - 1>>
      BY Zenon, <2>1, <2>2, <3>2
    <3>4. QED
      BY Zenon, <3>1, <3>3
  <2>3. QED
    BY <2>1, <2>2 DEF M
<1>2. QED
  BY <1>1, PacketInvariant, PTL

\* No step empties a place of an incomplete packet.
THEOREM SegmentsKept == Spec => KeepsSegments
<1>1. PacketInv /\ [Next]_vars => [KeepStep]_vars
  BY PacketStep
<1>2. QED
  BY <1>1, PacketInvariant, PTL DEF Spec, KeepsSegments
=============================================================================
