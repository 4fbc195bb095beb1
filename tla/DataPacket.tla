----------------------------- MODULE DataPacket -----------------------------
(***************************************************************************)
(* Uplink messages longer than one radio packet: a device cuts them into   *)
(* segments, manager_recv_wiota_msg stores these in recv_data_packet (a    *)
(* list of incomplete packets, manager_data_packet.c) and passes a message *)
(* on when its last segment arrives.                                       *)
(*                                                                         *)
(* The data of a segment is the pair <<message, index>>, so that what is   *)
(* passed on can be compared with what was sent.                           *)
(***************************************************************************)
EXTENDS Integers, Sequences, FiniteSets, Functions, LinkedList

CONSTANTS
    Device,      \* source_id
    Message,     \* the messages devices may send
    src,         \* src[m]: the device that sends m
    total,       \* total[m]: into how many segments it is cut
    Empty,       \* segments that carry no data
    PacketNums,  \* packet numbers are counted modulo this (256 in the code)
    MaxFault,    \* bound on lost and repeated segments
    None         \* RT_NULL

SegmentsOf(m) == {<<m, i>> : i \in 0 .. total[m] - 1}
Segment == UNION {SegmentsOf(m) : m \in Message}

ASSUME MessageAssumption ==
    /\ src \in [Message -> Device]
    /\ total \in [Message -> Nat \ {0}]
    /\ Empty \subseteq Segment
    /\ None \notin Segment /\ None \notin Nat
ASSUME NumberAssumption == PacketNums \in Nat \ {0} /\ MaxFault \in Nat

VARIABLES
    next,        \* the packet number a device uses next
    number,      \* the packet number a message was sent with, or None
    air,         \* segments that can still arrive
    faults,
    packets,     \* recv_data_packet, head first
    delivered    \* history: what was passed on, in order

vars == <<next, number, air, faults, packets, delivered>>

Init ==
    /\ next = [d \in Device |-> 0]
    /\ number = [m \in Message |-> None]
    /\ air = {}
    /\ faults = 0
    /\ packets = <<>>            \* recv_data_packet_init
    /\ delivered = <<>>

-----------------------------------------------------------------------------
(* The device and the radio. *)

\* A device numbers a message (app_packet_num) and sends its segments.
Send(m) ==
    /\ number[m] = None
    /\ number' = [number EXCEPT ![m] = next[src[m]]]
    /\ next' = [next EXCEPT ![src[m]] = (@ + 1) % PacketNums]
    /\ air' = air \cup SegmentsOf(m)
    /\ UNCHANGED <<faults, packets, delivered>>

Lose(s) ==
    /\ faults < MaxFault
    /\ faults' = faults + 1
    /\ air' = air \ {s}
    /\ UNCHANGED <<next, number, packets, delivered>>

-----------------------------------------------------------------------------
(* manager_data_packet.c *)

\* Variants: a packet that is there is not found; the source is not compared.
recv_data_packet_find_none(list, source_id, packet_id) == 0
recv_data_packet_find_number(list, source_id, packet_id) ==
    LET S == {i \in DOMAIN list : list[i].packet_id = packet_id}
    IN  IF S = {} THEN 0 ELSE CHOOSE i \in S : \A j \in S : i <= j

\* The node of the list for a source and a packet number, or 0.
recv_data_packet_find(list, source_id, packet_id) ==
    LET S == {i \in DOMAIN list : /\ list[i].source_id = source_id
                                  /\ list[i].packet_id = packet_id}
    IN  IF S = {} THEN 0 ELSE CHOOSE i \in S : \A j \in S : i <= j

\* Variant: room for one segment less.
recv_data_packet_new_short(source_id, packet_id, seg_total) ==
    [source_id |-> source_id, packet_id |-> packet_id,
     seg_total |-> seg_total - 1, seg_count |-> 0,
     segment |-> [i \in 0 .. seg_total - 2 |-> None]]

\* A node for a packet of seg_total segments, none of them there yet.
recv_data_packet_new(source_id, packet_id, seg_total) ==
    [source_id |-> source_id, packet_id |-> packet_id,
     seg_total |-> seg_total, seg_count |-> 0,
     segment |-> [i \in 0 .. seg_total - 1 |-> None]]
recv_data_packet_append(list, node) == Append(list, node)

\* Variant: the segment is counted again when it is replaced.
recv_data_packet_add_segment_twice(node, seg_id, data) ==
    IF seg_id >= node.seg_total \/ data \in Empty THEN node
    ELSE [node EXCEPT !.segment[seg_id] = data, !.seg_count = @ + 1]

\* A segment out of range or without data is ignored; one that is already
\* there is replaced.
recv_data_packet_add_segment(node, seg_id, data) ==
    IF seg_id >= node.seg_total \/ data \in Empty THEN node
    ELSE [node EXCEPT !.segment[seg_id] = data,
                      !.seg_count = IF node.segment[seg_id] = None
                                    THEN @ + 1 ELSE @]

\* recv_data_packet_reader: all segments are there; their data in order.
IsComplete(node) == node.seg_count = node.seg_total
recv_data_packet_reader(node) ==
    [i \in 1 .. node.seg_total |-> node.segment[i - 1]]

\* Variant: the head of the list is removed.
recv_data_packet_remove_head(list, i) == Tail(list)
recv_data_packet_remove(list, i) == Unlink(list, i)

-----------------------------------------------------------------------------
\* manager_recv_wiota_msg with a segment of a message.
manager_recv_wiota_msg(s) ==
    LET m == s[1]
        found == recv_data_packet_find(packets, src[m], number[m])
        list == IF found # 0 THEN packets
                ELSE recv_data_packet_append(packets,
                        recv_data_packet_new(src[m], number[m], total[m]))
        i == IF found # 0 THEN found ELSE Len(list)
        node == recv_data_packet_add_segment(list[i], s[2], s)
    IN  IF IsComplete(node)
        THEN /\ packets' = recv_data_packet_remove(list, i)
             /\ delivered' = Append(delivered,
                   [source_id |-> node.source_id, packet_id |-> node.packet_id,
                    data |-> recv_data_packet_reader(node)])
        ELSE /\ packets' = [list EXCEPT ![i] = node]
             /\ UNCHANGED delivered

\* A segment arrives, for the last time or (the device repeats what it had no
\* acknowledgement for) not.
Receive(s) ==
    /\ \/ /\ air' = air \ {s}
          /\ UNCHANGED faults
       \/ /\ faults < MaxFault
          /\ faults' = faults + 1
          /\ UNCHANGED air
    /\ manager_recv_wiota_msg(s)
    /\ UNCHANGED <<next, number>>

\* Nothing is under way and the logic task waits.
Waiting == air = {} /\ UNCHANGED vars

Next == \/ \E m \in Message : Send(m)
        \/ \E s \in air : Lose(s) \/ Receive(s)
        \/ Waiting

Spec == Init /\ [][Next]_vars

\* The logic task takes every message of its queue.
FairSpec == Spec /\ \A m \in Message : WF_vars(\E s \in air : s[1] = m /\ Receive(s))

-----------------------------------------------------------------------------
(* Properties. *)

Filled(node) == {i \in 0 .. node.seg_total - 1 : node.segment[i] # None}
Node == UNION {[source_id : Device, packet_id : 0 .. PacketNums - 1,
                seg_total : {n}, seg_count : 0 .. n,
                segment : [0 .. n - 1 -> Segment \cup {None}]]
               : n \in {total[m] : m \in Message}}

\* Every variable has its type.
TypeOK ==
    /\ next \in [Device -> 0 .. PacketNums - 1]
    /\ number \in [Message -> (0 .. PacketNums - 1) \cup {None}]
    /\ air \subseteq Segment
    /\ faults \in 0 .. MaxFault
    /\ packets \in Seq(Node)

SameIds(p, q) == p.source_id = q.source_id /\ p.packet_id = q.packet_id
Distinct(list) ==
    \A i, j \in DOMAIN list : SameIds(list[i], list[j]) => i = j

\* "source_id and packet_id are used as unique identifiers": no two nodes of
\* the list have the same pair, so that recv_data_packet_find is unambiguous.
UniqueIds == Distinct(packets)

\* seg_count is the number of segments that are there, whatever was repeated or
\* replaced, and a packet with all of them does not stay in the list.
CountAgrees ==
    \A p \in Range(packets) :
        /\ p.seg_count = Cardinality(Filled(p))
        /\ p.seg_count < p.seg_total

Sent(d, n) == {m \in Message : src[m] = d /\ number[m] = n}

\* What is passed on consists of segments of the device and packet number it is
\* passed on for, each in its place; and it is the message that was sent unless
\* the device has used the number twice.
DeliveredSound ==
    \A d \in Range(delivered) :
        LET M == Sent(d.source_id, d.packet_id)
        IN  /\ \A j \in DOMAIN d.data : \E m \in M : d.data[j] = <<m, j - 1>>
            /\ \A m \in M : M = {m} =>
                  d.data = [j \in 1 .. total[m] |-> <<m, j - 1>>]

KeepStep ==
    \A p \in Range(packets) :
        \/ \E q \in Range(packets') : SameIds(q, p) /\ Filled(p) \subseteq Filled(q)
        \/ \E d \in Range(delivered') :
              delivered' = Append(delivered, d) /\ SameIds(d, p)

\* A segment that was stored is kept until its packet is passed on: a step
\* never empties a place of an incomplete packet or drops the packet.
KeepsSegments == [][KeepStep]_vars

Whole(m) == [source_id |-> src[m], packet_id |-> number[m],
             data |-> [j \in 1 .. total[m] |-> <<m, j - 1>>]]

\* With packet numbers enough and nothing lost or repeated, manager_recv_wiota_msg
\* passes every message on whole.
EveryMessageDelivered ==
    \A m \in Message :
        (number[m] # None) ~> (Whole(m) \in Range(delivered) \/ faults > 0)

-----------------------------------------------------------------------------
(* The invariant that the steps preserve. *)

\* A node holds segments of messages sent with its number, each in its place,
\* has room for one of these messages, and its count is right.
NodeOK(p) ==
    /\ p \in Node
    /\ p.seg_count = Cardinality(Filled(p))
    /\ \E m \in Sent(p.source_id, p.packet_id) : p.seg_total = total[m]
    /\ \A j \in Filled(p) :
          \E m \in Sent(p.source_id, p.packet_id) : p.segment[j] = <<m, j>>

\* What was passed on has all the segments of the room it was collected in.
PayloadOK(d) ==
    /\ d.source_id \in Device /\ d.packet_id \in 0 .. PacketNums - 1
    /\ \E m \in Sent(d.source_id, d.packet_id) :
          d.data = [j \in 1 .. total[m] |-> d.data[j]]
    /\ \A j \in DOMAIN d.data :
          \E m \in Sent(d.source_id, d.packet_id) : d.data[j] = <<m, j - 1>>

PacketInv ==
    /\ TypeOK
    /\ UniqueIds
    /\ CountAgrees
    /\ \A s \in air : number[s[1]] # None
    /\ \A p \in Range(packets) : NodeOK(p)
    /\ delivered \in Seq(Range(delivered))
    /\ \A d \in Range(delivered) : PayloadOK(d)

=============================================================================
