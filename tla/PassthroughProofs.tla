-------------------------- MODULE PassthroughProofs --------------------------
(***************************************************************************)
(* For any requests, queue length and number of pages, drops and failures, *)
(* and however long a thread takes to close a connection: the memory of    *)
(* pages (PagesFreed), what reaches the server (WireTrue) and the pages a  *)
(* lost connection costs (OneLateLoss).                                    *)
(*                                                                         *)
(* The invariant has one part for the life of a connection, one for the    *)
(* order of the pages, one for their memory, one for the requests they     *)
(* carry and one for the numbers of the access point's own questions.      *)
(***************************************************************************)
EXTENDS Passthrough, TLAPS

Page == [n : Nat \ {0}, cmd : Command, number : Nat]

Block == Nat \X {"data", "inner"}

InHand == pc \in {"handle", "send"}

Types ==
    /\ uc_mqtt_state \in {CONNECT, DISCONNECT}
    /\ pc \in {"init", "connect", "handshake", "subscribe", "start", "loop", "take", "handle",
               "send", "free", "delay", "returned"}
    /\ (InHand => page \in Page) /\ (~InHand => page = None)
    /\ net_passthrough_handle \in Seq(Page)
    /\ s_nRequestId \in Nat
    /\ waiting \in BOOLEAN /\ closing \in Nat /\ freeing \in Nat /\ orphan \in BOOLEAN
    /\ bufs \in {"none", "live", "freed"} /\ link \in {"up", "silent", "closed"}
    /\ unacked \in BOOLEAN /\ subscribed \in BOOLEAN
    /\ asked \subseteq Nat /\ logic \subseteq Nat
    /\ heap \subseteq Block
    /\ made \in 0 .. MaxPage /\ refused \subseteq 1 .. made
    /\ drops \in 0 .. MaxDrop /\ faults \in 0 .. MaxFault
    /\ wire \in Seq(Page)
    /\ late \in Nat
    /\ halted \in BOOLEAN

\* A waiting thread belongs to a connection whose pages are handled; it is the
\* only one to end it, and a page that comes too late is the last before the
\* next connection.
Connection ==
    /\ waiting => pc \in {"loop", "take", "handle", "send"}
    /\ waiting \/ pc \in {"subscribe", "start"} => uc_mqtt_state = CONNECT
    /\ pc \in {"init", "connect", "handshake", "free", "delay"} => uc_mqtt_state = DISCONNECT
    /\ late <= 1
    /\ uc_mqtt_state = CONNECT \/ pc \in {"take", "handle", "send"} => late = 0

\* The pages on the wire, in hand and in the queue, in this order, rise.
Order ==
    /\ \A i, j \in DOMAIN wire : i < j => wire[i].n < wire[j].n
    /\ \A i \in DOMAIN wire :
          /\ wire[i].n <= made
          /\ InHand => wire[i].n < page.n
          /\ \A j \in DOMAIN net_passthrough_handle : wire[i].n < net_passthrough_handle[j].n
    /\ InHand =>
          /\ page.n <= made
          /\ \A j \in DOMAIN net_passthrough_handle : page.n < net_passthrough_handle[j].n
    /\ \A i, j \in DOMAIN net_passthrough_handle :
          i < j => net_passthrough_handle[i].n < net_passthrough_handle[j].n
    /\ \A i \in DOMAIN net_passthrough_handle : net_passthrough_handle[i].n <= made

\* The memory of a page, and no page in the queue or in hand was refused.
Memory ==
    /\ PagesFreed
    /\ \A i \in DOMAIN net_passthrough_handle : net_passthrough_handle[i].n \notin refused
    /\ InHand => page.n \notin refused

\* The logic task has requests of the server only, and a page carries no other
\* number, as a request or as an answer.
Carries(p) == p.cmd \in {"MQTT_REQUEST", "EXE_RESPONSE"}

Carried(p) == Carries(p) => p.number \in asked

Requested ==
    /\ logic \subseteq asked
    /\ \A i \in DOMAIN wire : Carried(wire[i])
    /\ InHand => Carried(page)
    /\ \A i \in DOMAIN net_passthrough_handle : Carried(net_passthrough_handle[i])

\* The numbers of the access point's own questions, and of answers.
Asks(p) == p.cmd \in {"IOTE_REQUEST", "RESERVE_ADDR"}

Numbers ==
    /\ \A i, j \in DOMAIN wire :
          i < j /\ Asks(wire[i]) /\ Asks(wire[j]) => wire[i].number < wire[j].number
    /\ \A i \in DOMAIN wire :
          /\ Asks(wire[i]) => wire[i].number < s_nRequestId
          /\ wire[i].cmd = "EXE_RESPONSE" => wire[i].number # 0
    /\ pc = "send" =>
          /\ page.cmd = "EXE_RESPONSE" => page.number # 0
          /\ Asks(page) => /\ page.number < s_nRequestId
                           /\ \A i \in DOMAIN wire :
                                 Asks(wire[i]) => wire[i].number < page.number

\* The inductive invariant.
PassInv == Types /\ Connection /\ Order /\ Memory /\ Requested /\ Numbers
-----------------------------------------------------------------------------
(* What the operators do. *)

\* The bounds are numbers.
LEMMA BoundFact ==
  /\ MaxPage \in Nat /\ MaxDrop \in Nat /\ MaxFault \in Nat
  /\ Number \subseteq Nat /\ Capacity \in Nat \ {0}
  BY PassthroughAssumption

\* Taking the first page of the queue.
LEMMA TakeFact ==
  ASSUME NEW S, NEW s \in Seq(S), s # <<>>
  PROVE  /\ Tail(s) \in Seq(S) /\ Head(s) = s[1] /\ s[1] \in S /\ 1 \in DOMAIN s
         /\ \A j \in DOMAIN Tail(s) : j + 1 \in DOMAIN s /\ Tail(s)[j] = s[j + 1]
         /\ \A j \in DOMAIN s : j # 1 => j - 1 \in DOMAIN Tail(s) /\ Tail(s)[j - 1] = s[j]
         /\ DOMAIN s \subseteq Nat /\ DOMAIN Tail(s) \subseteq Nat \ {0}
         /\ \A j \in DOMAIN s : j >= 1
  OBVIOUS

\* A page is put behind the others.
LEMMA PutFact ==
  ASSUME NEW S, NEW s \in Seq(S), NEW x \in S
  PROVE  /\ Append(s, x) \in Seq(S)
         /\ DOMAIN Append(s, x) = DOMAIN s \cup {Len(s) + 1}
         /\ Append(s, x)[Len(s) + 1] = x
         /\ \A j \in DOMAIN s : j < Len(s) + 1 /\ Append(s, x)[j] = s[j]
         /\ DOMAIN s \subseteq Nat /\ Len(s) + 1 \in Nat
  OBVIOUS

\* A page in hand is not the empty one.
LEMMA PageFact ==
  ASSUME Types
  PROVE  /\ InHand <=> page # None
         /\ InHand => page \in Page
  BY DEF Types, Page, None

\* The pages are numbered.
LEMMA NumberFact ==
  ASSUME Types
  PROVE  /\ \A i \in DOMAIN net_passthrough_handle : net_passthrough_handle[i].n \in Nat
         /\ \A i \in DOMAIN wire : wire[i].n \in Nat
         /\ InHand => page.n \in Nat
  <1>1. \A p \in Page : p.n \in Nat
    BY DEF Page
  <1>2. /\ \A i \in DOMAIN net_passthrough_handle : net_passthrough_handle[i] \in Page
        /\ \A i \in DOMAIN wire : wire[i] \in Page
        /\ InHand => page \in Page
    BY DEF Types
  <1> QED BY <1>1, <1>2

\* The blocks that are in use, by the places of the pages.
LEMMA LiveFact ==
  ASSUME Types
  PROVE  \A b : b \in Live <=>
           \/ \E i \in DOMAIN net_passthrough_handle :
                 b \in Blocks(net_passthrough_handle[i].cmd, net_passthrough_handle[i].n)
           \/ InHand /\ b \in Blocks(page.cmd, page.n)
  BY PageFact DEF Live, Range

\* The blocks of a page bear its number.
LEMMA BlocksFact ==
  ASSUME NEW cmd, NEW n \in Nat
  PROVE  /\ Blocks(cmd, n) \subseteq Block
         /\ \A b \in Blocks(cmd, n) : b[1] = n
         /\ \A b \in Blocks(cmd, n) \ FreedOnRefusal(cmd, n) : b[2] = "inner"
  BY DEF Blocks, Block, FreedOnRefusal

\* The page in hand has been given back: Release, and nothing else changes its
\* page.
LEMMA ReleaseFact ==
  ASSUME Types, Release
  PROVE  ~InHand' /\ page' = None /\ pc' = "loop"
  BY DEF Release, InHand
-----------------------------------------------------------------------------
(* Types. *)

\* A page that the queue is given.
LEMMA PutTypes ==
  ASSUME Types, NEW cmd \in Command, NEW r \in Nat, to_network_data(cmd, r)
  PROVE  /\ net_passthrough_handle' \in Seq(Page) /\ heap' \subseteq Block
         /\ made' = made + 1 /\ made' \in 0 .. MaxPage /\ refused' \subseteq 1 .. made'
  <1>1. made \in Nat /\ made + 1 \in 1 .. MaxPage
    BY BoundFact DEF Types, to_network_data
  <1>2. [n |-> made + 1, cmd |-> cmd, number |-> r] \in Page
    BY <1>1 DEF Page
  <1>3. net_passthrough_handle' \in Seq(Page)
    BY <1>2, PutFact DEF Types, to_network_data
  <1>4. heap' \subseteq Block
    BY <1>1, BlocksFact DEF Types, to_network_data
  <1>5. refused' \subseteq 1 .. made'
    BY <1>1 DEF Types, to_network_data
  <1> QED BY <1>1, <1>3, <1>4, <1>5 DEF to_network_data

\* The page is freed.
LEMMA ReleaseTypes ==
  ASSUME Types, Release
  PROVE  heap' \subseteq Block
  BY DEF Types, Release

\* Every variable keeps its type.
LEMMA TypesStep == Types /\ Next => Types'
  <1> SUFFICES ASSUME Types, Next PROVE Types'
    OBVIOUS
  <1> USE DEF conn, threads, server, memory, net
  <1>1. ASSUME NEW cmd \in Reports, Report(cmd)
        PROVE  Types'
    <2>1. cmd \in Command /\ 0 \in Nat /\ to_network_data(cmd, 0)
      BY <1>1, PassthroughAssumption DEF Command, Report
    <2> QED BY <1>1, <2>1, PutTypes DEF Types, Report, InHand
  <1>2. ASSUME NEW r \in Number, manager_response_message_result(r)
        PROVE  Types'
    <2>1. "EXE_RESPONSE" \in Command /\ r \in Nat /\ to_network_data("EXE_RESPONSE", r)
      BY <1>2, PassthroughAssumption DEF Command, manager_response_message_result
    <2> QED BY <1>2, <2>1, PutTypes DEF Types, manager_response_message_result, InHand
  <1>3. ASSUME NEW r \in Number, uc_mqtt_msg_process(r)
        PROVE  Types'
    <2>1. "MQTT_REQUEST" \in Command /\ r \in Nat /\ to_network_data("MQTT_REQUEST", r)
      BY <1>3, PassthroughAssumption DEF Command, uc_mqtt_msg_process
    <2> QED BY <1>3, <2>1, PutTypes DEF Types, uc_mqtt_msg_process, InHand
  <1>4. CASE WaitThread
    <2>1. CASE Ping
      BY <2>1 DEF Types, Ping, InHand
    <2>2. CASE WaitFails
      <3>1. drops' \in 0 .. MaxDrop /\ closing' \in Nat
        BY <2>2, BoundFact DEF Types, WaitFails
      <3> QED BY Zenon, <2>2, <3>1 DEF Types, WaitFails, InHand
    <2>3. CASE mqttclient_disconn
      BY <2>3 DEF Types, mqttclient_disconn, InHand
    <2>4. CASE NetDisconnect
      <3>1. halted' \in BOOLEAN /\ bufs' \in {"none", "live", "freed"}
        BY <2>4, Zenon DEF Types, NetDisconnect
      <3>2. freeing' \in Nat
        BY <2>4 DEF Types, NetDisconnect
      <3> QED BY Zenon, <2>4, <3>1, <3>2 DEF Types, NetDisconnect, InHand
    <2> QED BY <1>4, <2>1, <2>2, <2>3, <2>4 DEF WaitThread
  <1>5. CASE NetTask
    <2>a. CASE mqtt_init_ctx
      BY Zenon, <2>a DEF Types, mqtt_init_ctx, InHand
    <2>b. CASE mqttclient_conn
      BY Zenon, <2>b DEF Types, mqttclient_conn, InHand
    <2>1. CASE ConnectFails
      <3>1. halted' \in BOOLEAN /\ bufs' \in {"none", "live", "freed"}
        BY <2>1, Zenon DEF Types, ConnectFails
      <3> QED BY Zenon, <2>1, <3>1 DEF Types, ConnectFails, InHand
    <2>2. CASE uc_mqtt_connect
      <3>1. halted' \in BOOLEAN
        BY <2>2, Zenon DEF Types, uc_mqtt_connect
      <3>2. 0 \in Nat
        OBVIOUS
      <3> QED BY Zenon, <2>2, <3>1, <3>2 DEF Types, uc_mqtt_connect, InHand
    <2>3. CASE uc_mqtt_subscribe
      <3>1. subscribed' \in BOOLEAN
        BY <2>3, Zenon DEF Types, uc_mqtt_subscribe
      <3>2. faults' \in 0 .. MaxFault
        BY <2>3, BoundFact DEF Types, uc_mqtt_subscribe
      <3> QED BY <2>3, <3>1, <3>2 DEF Types, uc_mqtt_subscribe, InHand
    <2>4. CASE StartThread
      <3>1. faults' \in 0 .. MaxFault
        BY <2>4, BoundFact DEF Types, StartThread
      <3> QED BY Zenon, <2>4, <3>1 DEF Types, StartThread, InHand
    <2>5. CASE uc_mqtt_get_state
      BY <2>5 DEF Types, uc_mqtt_get_state, InHand
    <2>6. CASE Take
      <3>1. CASE net_passthrough_handle = <<>>
        BY <2>6, <3>1 DEF Types, Take, InHand
      <3>2. CASE net_passthrough_handle # <<>>
        <4>0. /\ Tail(net_passthrough_handle) \in Seq(Page)
              /\ Head(net_passthrough_handle) \in Page
          BY <3>2, TakeFact DEF Types
        <4>1. page' \in Page /\ net_passthrough_handle' \in Seq(Page) /\ pc' = "handle"
          BY <2>6, <3>2, <4>0 DEF Take
        <4> QED BY <2>6, <4>1 DEF Types, Take, InHand
      <3> QED BY <3>1, <3>2
    <2>7. CASE cmd_mqtt_request_or_response
      <3>1. Release /\ page \in Page
        BY <2>7 DEF cmd_mqtt_request_or_response, Types, InHand
      <3>2. faults' \in 0 .. MaxFault
        BY <2>7, BoundFact DEF Types, cmd_mqtt_request_or_response
      <3>3. logic' \subseteq Nat
        BY Zenon, <2>7, <3>1 DEF Types, cmd_mqtt_request_or_response, Page
      <3> QED BY <2>7, <3>1, <3>2, <3>3, ReleaseFact, ReleaseTypes
              DEF Types, cmd_mqtt_request_or_response
    <2>8. CASE Handle
      <3>1. page \in Page /\ s_nRequestId \in Nat /\ s_nRequestId' \in Nat
        BY <2>8 DEF Types, InHand, Handle
      <3>2. CASE Published /\ uc_mqtt_state = CONNECT
        <4>1. page' \in Page /\ pc' = "send"
          BY <2>8, <3>1, <3>2 DEF Handle, Page, Topic
        <4> QED BY <2>8, <3>1, <3>2, <4>1 DEF Types, Handle, InHand
      <3>3. CASE ~(Published /\ uc_mqtt_state = CONNECT)
        <4>1. Release
          BY <2>8, <3>3 DEF Handle
        <4> QED BY <2>8, <3>1, <3>3, <4>1, ReleaseFact, ReleaseTypes DEF Types, Handle
      <3> QED BY <3>2, <3>3
    <2>9. CASE mqttclient_publish
      <3>1. Release /\ page \in Page
        BY <2>9 DEF mqttclient_publish, Types, InHand
      <3>2. wire' \in Seq(Page)
        BY <2>9, <3>1, PutFact DEF Types, mqttclient_publish
      <3>3. unacked' \in BOOLEAN /\ halted' \in BOOLEAN
        BY <2>9, Zenon DEF Types, mqttclient_publish
      <3> QED BY <2>9, <3>1, <3>2, <3>3, ReleaseFact, ReleaseTypes
              DEF Types, mqttclient_publish
    <2>10. CASE FreeThread
      <3>1. orphan' \in BOOLEAN
        BY <2>10 DEF Types, FreeThread
      <3> QED BY Zenon, <2>10, <3>1 DEF Types, FreeThread, InHand
    <2>11. CASE Delay
      BY <2>11 DEF Types, Delay, InHand
    <2> QED BY <1>5, <2>a, <2>b, <2>1, <2>2, <2>3, <2>4, <2>5, <2>6, <2>7, <2>8, <2>9, <2>10,
               <2>11 DEF NetTask
  <1>6. CASE StackReused
    BY <1>6 DEF Types, StackReused, InHand
  <1>7. CASE LinkDrops
    BY <1>7, BoundFact DEF Types, LinkDrops, InHand
  <1>8. CASE GiveUp
    BY Zenon, <1>8 DEF Types, GiveUp, InHand
  <1> QED BY <1>1, <1>2, <1>3, <1>4, <1>5, <1>6, <1>7, <1>8 DEF Next
-----------------------------------------------------------------------------
(* The life of a connection. *)

\* The threads of the connections follow one another.
LEMMA ConnectionStep == Types /\ Connection /\ Next => Connection'
  <1> SUFFICES ASSUME Types, Connection, Next PROVE Connection'
    OBVIOUS
  <1> USE DEF conn, threads, server, memory, net, Connection, CONNECT, DISCONNECT
  <1>1. ASSUME NEW cmd, Report(cmd) PROVE Connection'
    BY <1>1 DEF Report
  <1>2. ASSUME NEW r, manager_response_message_result(r) PROVE Connection'
    BY <1>2 DEF manager_response_message_result
  <1>3. ASSUME NEW r, uc_mqtt_msg_process(r) PROVE Connection'
    BY <1>3 DEF uc_mqtt_msg_process
  <1>4. CASE WaitThread
    <2>1. CASE Ping \/ mqttclient_disconn \/ NetDisconnect
      <3>1. UNCHANGED <<uc_mqtt_state, pc, waiting, late>>
        BY Zenon, <2>1 DEF Ping, mqttclient_disconn, NetDisconnect
      <3> QED BY <3>1
    <2>2. CASE WaitFails
      BY <2>2 DEF WaitFails
    <2> QED BY <1>4, <2>1, <2>2 DEF WaitThread
  <1>5. CASE NetTask
    <2>a. CASE mqtt_init_ctx
      BY <2>a DEF mqtt_init_ctx
    <2>b. CASE mqttclient_conn
      BY <2>b DEF mqttclient_conn
    <2>1. CASE ConnectFails
      BY <2>1 DEF ConnectFails
    <2>2. CASE uc_mqtt_connect
      BY <2>2 DEF uc_mqtt_connect
    <2>3. CASE uc_mqtt_subscribe
      BY <2>3 DEF uc_mqtt_subscribe
    <2>4. CASE StartThread
      BY <2>4 DEF StartThread
    <2>5. CASE uc_mqtt_get_state
      BY <2>5 DEF Types, uc_mqtt_get_state
    <2>6. CASE Take
      BY <2>6 DEF Take
    <2>7. CASE cmd_mqtt_request_or_response
      BY <2>7 DEF cmd_mqtt_request_or_response, Release
    <2>8. CASE Handle
      BY <2>8 DEF Types, Handle, Release
    <2>9. CASE mqttclient_publish
      BY <2>9 DEF mqttclient_publish, Release
    <2>10. CASE FreeThread
      BY <2>10 DEF FreeThread
    <2>11. CASE Delay
      BY <2>11 DEF Delay
    <2> QED BY <1>5, <2>a, <2>b, <2>1, <2>2, <2>3, <2>4, <2>5, <2>6, <2>7, <2>8, <2>9, <2>10,
               <2>11 DEF NetTask
  <1>6. CASE StackReused
    BY <1>6 DEF StackReused
  <1>7. CASE LinkDrops
    BY <1>7 DEF LinkDrops
  <1>8. CASE GiveUp
    BY <1>8 DEF GiveUp
  <1> QED BY <1>1, <1>2, <1>3, <1>4, <1>5, <1>6, <1>7, <1>8 DEF Next
-----------------------------------------------------------------------------
(* The pages. *)

PageParts == Order /\ Memory /\ Requested /\ Numbers

\* The step leaves the pages, what they carry and their memory alone.
Quiet ==
    /\ UNCHANGED <<page, net_passthrough_handle, s_nRequestId, asked, logic, heap, made,
                   refused, wire>>
    /\ pc' = pc \/ (~InHand /\ ~InHand')

\* Every action of the waiting thread and of the network, and those of the network
\* task around its loop, are of that kind.
LEMMA QuietActions ==
  \/ WaitThread \/ StackReused \/ LinkDrops \/ GiveUp
  \/ mqtt_init_ctx \/ mqttclient_conn \/ ConnectFails \/ uc_mqtt_connect
  \/ uc_mqtt_subscribe \/ StartThread \/ uc_mqtt_get_state \/ FreeThread \/ Delay
  => Quiet
  BY DEF Quiet, InHand, conn, threads, server, memory, net, WaitThread, Ping, WaitFails,
         mqttclient_disconn, NetDisconnect, StackReused, LinkDrops, GiveUp, mqtt_init_ctx,
         mqttclient_conn, ConnectFails, uc_mqtt_connect, uc_mqtt_subscribe, StartThread, uc_mqtt_get_state, FreeThread, Delay

LEMMA QuietStep == PageParts /\ Quiet => PageParts'
  <1> SUFFICES ASSUME PageParts, Quiet PROVE PageParts'
    OBVIOUS
  <1>1. /\ page' = page /\ net_passthrough_handle' = net_passthrough_handle
        /\ s_nRequestId' = s_nRequestId /\ asked' = asked /\ logic' = logic /\ heap' = heap
        /\ made' = made /\ refused' = refused /\ wire' = wire
        /\ (InHand' <=> InHand) /\ (pc' = "send" <=> pc = "send")
    BY DEF Quiet, InHand
  <1>2. Order'
    BY <1>1 DEF PageParts, Order
  <1>3. Memory'
    BY Zenon, <1>1 DEF PageParts, Memory, PagesFreed, Live
  <1>4. Requested'
    BY <1>1 DEF PageParts, Requested, Carried, Carries
  <1>5. Numbers'
    BY <1>1 DEF PageParts, Numbers, Asks
  <1> QED BY <1>2, <1>3, <1>4, <1>5 DEF PageParts

\* A page is made, and the queue takes it or not.
LEMMA PutStep ==
  ASSUME Types, PageParts, NEW cmd \in Command, NEW r \in Nat, to_network_data(cmd, r),
         UNCHANGED <<pc, page, s_nRequestId, wire>>,
         asked \subseteq asked', logic' \subseteq asked',
         cmd \in {"MQTT_REQUEST", "EXE_RESPONSE"} => r \in asked'
  PROVE  PageParts'
  <1> DEFINE q == net_passthrough_handle
             q1 == net_passthrough_handle'
             new == [n |-> made + 1, cmd |-> cmd, number |-> r]
  <1>1. /\ made \in Nat /\ made' = made + 1 /\ refused \subseteq 1 .. made
        /\ pc' = pc /\ page' = page /\ s_nRequestId' = s_nRequestId /\ wire' = wire
        /\ (InHand' <=> InHand) /\ q \in Seq(Page) /\ new \in Page
        /\ new.n = made + 1 /\ new.cmd = cmd /\ new.number = r
        /\ wire \in Seq(Page) /\ (InHand => page \in Page)
    BY DEF to_network_data, Types, Page, InHand
  <1>2. \/ /\ q1 = q /\ refused' = refused \cup {made + 1}
           /\ heap' = heap \cup (Blocks(cmd, made + 1) \ FreedOnRefusal(cmd, made + 1))
        \/ /\ q1 = Append(q, new) /\ refused' = refused
           /\ heap' = heap \cup Blocks(cmd, made + 1)
    BY DEF to_network_data
  <1>3. ASSUME q1 = Append(q, new)
        PROVE  /\ DOMAIN q1 = DOMAIN q \cup {Len(q) + 1} /\ q1[Len(q) + 1] = new
               /\ \A j \in DOMAIN q : j < Len(q) + 1 /\ q1[j] = q[j]
               /\ DOMAIN q \subseteq Nat /\ Len(q) + 1 \in Nat
    BY <1>1, <1>3, PutFact
  <1>4. /\ \A i \in DOMAIN q : q[i].n \in Nat
        /\ \A i \in DOMAIN wire : wire[i].n \in Nat
        /\ InHand => page.n \in Nat
    BY NumberFact DEF q
  <1> HIDE DEF q, q1, new
  <1>5. Order'
    <2> USE DEF PageParts, Order
    <2>1. CASE q1 = q
      BY <1>1, <1>4, <2>1 DEF q, q1
    <2>2. CASE q1 = Append(q, new)
      <3>0. /\ \A i \in DOMAIN wire : wire[i].n < made + 1
            /\ InHand => page.n < made + 1
        BY <1>1, <1>4
      <3>1. \A j \in DOMAIN q1 : (j \in DOMAIN q /\ q1[j] = q[j]) \/ q1[j].n = made + 1
        BY <1>1, <1>3, <2>2
      <3>2. \A i, j \in DOMAIN q1 : i < j => q1[i].n < q1[j].n
        BY <1>1, <1>3, <1>4, <2>2 DEF q
      <3>3. \A i \in DOMAIN wire, j \in DOMAIN q1 : wire[i].n < q1[j].n
        BY <3>0, <3>1 DEF q
      <3>4. InHand => \A j \in DOMAIN q1 : page.n < q1[j].n
        BY <3>0, <3>1 DEF q
      <3>5. \A j \in DOMAIN q1 : q1[j].n <= made + 1
        BY <1>1, <1>4, <3>1 DEF q
      <3> QED BY <1>1, <1>4, <3>2, <3>3, <3>4, <3>5 DEF q1
    <2> QED BY <1>2, <2>1, <2>2
  <1>6. Memory'
    <2>1. /\ Blocks(cmd, made + 1) \subseteq Block
          /\ \A b \in Blocks(cmd, made + 1) : b[1] = made + 1
          /\ \A b \in Blocks(cmd, made + 1) \ FreedOnRefusal(cmd, made + 1) : b[2] = "inner"
      BY <1>1, BlocksFact
    <2>2. \A b : b \in Live <=>
             \/ \E i \in DOMAIN q : b \in Blocks(q[i].cmd, q[i].n)
             \/ InHand /\ b \in Blocks(page.cmd, page.n)
      BY LiveFact DEF q
    <2>3. \A b : b \in Live' <=>
             \/ \E i \in DOMAIN q1 : b \in Blocks(q1[i].cmd, q1[i].n)
             \/ InHand /\ b \in Blocks(page.cmd, page.n)
      BY <1>1, PageFact DEF Live, Range, q1
    <2>4. CASE q1 = q /\ refused' = refused \cup {made + 1}
               /\ heap' = heap \cup (Blocks(cmd, made + 1) \ FreedOnRefusal(cmd, made + 1))
      <3>1. \A b : b \in Live' <=> b \in Live
        BY <2>2, <2>3, <2>4
      <3>2. PagesFreed'
        BY <2>1, <2>4, <3>1 DEF PageParts, Memory, PagesFreed
      <3>3. /\ \A i \in DOMAIN q : q[i].n # made + 1
            /\ InHand => page.n # made + 1
        BY <1>1, <1>4 DEF PageParts, Order, Page, q
      <3> QED BY <1>1, <2>4, <3>2, <3>3 DEF PageParts, Memory, q, q1
    <2>5. CASE q1 = Append(q, new) /\ refused' = refused
               /\ heap' = heap \cup Blocks(cmd, made + 1)
      <3>1. \A b : b \in Live' <=> b \in Live \/ b \in Blocks(cmd, made + 1)
        BY <1>1, <1>3, <2>2, <2>3, <2>5
      <3>2. PagesFreed'
        BY <2>5, <3>1 DEF PageParts, Memory, PagesFreed
      <3>3. made + 1 \notin refused
        BY <1>1
      <3> QED BY <1>1, <1>3, <2>5, <3>2, <3>3 DEF PageParts, Memory, q, q1
    <2> QED BY <1>2, <2>4, <2>5
  <1>7. Requested'
    <2> USE DEF PageParts, Requested, Carried, Carries
    <2>1. CASE q1 = q
      BY <1>1, <2>1 DEF q, q1
    <2>2. CASE q1 = Append(q, new)
      BY <1>1, <1>3, <2>2 DEF q, q1
    <2> QED BY <1>2, <2>1, <2>2
  <1>8. Numbers'
    BY <1>1 DEF PageParts, Numbers, Asks
  <1> QED BY <1>5, <1>6, <1>7, <1>8 DEF PageParts

\* The network task takes the first page.
LEMMA TakeStep == Types /\ PageParts /\ Take => PageParts'
  <1> SUFFICES ASSUME Types, PageParts, Take PROVE PageParts'
    OBVIOUS
  <1>1. CASE net_passthrough_handle = <<>>
    BY <1>1, QuietStep DEF Take, Quiet, InHand, server
  <1>2. CASE net_passthrough_handle # <<>>
    <2> DEFINE q == net_passthrough_handle
               q1 == net_passthrough_handle'
    <2>1. /\ ~InHand /\ InHand' /\ pc' # "send"
          /\ page' = q[1] /\ q1 = Tail(q) /\ 1 \in DOMAIN q
          /\ UNCHANGED <<s_nRequestId, asked, logic, heap, made, refused, wire>>
      BY <1>2, TakeFact DEF Take, InHand, server, Types
    <2>2. /\ \A j \in DOMAIN q1 : j + 1 \in DOMAIN q /\ q1[j] = q[j + 1]
          /\ \A j \in DOMAIN q : j # 1 => j - 1 \in DOMAIN q1 /\ q1[j - 1] = q[j]
          /\ DOMAIN q \subseteq Nat /\ DOMAIN q1 \subseteq Nat \ {0}
      BY <1>2, <2>1, TakeFact DEF Types
    <2> HIDE DEF q, q1
    <2>3. Order'
      BY <2>1, <2>2 DEF PageParts, Order, q, q1
    <2>4. Memory'
      <3>1. \A b : b \in Live' <=> b \in Live
        <4>1. \A b : b \in Live <=> \E i \in DOMAIN q : b \in Blocks(q[i].cmd, q[i].n)
          BY <2>1, LiveFact DEF q
        <4>2. q[1] # None
          BY <2>1 DEF Types, Page, None, q
        <4>3. \A b : b \in Live' <=> \/ \E i \in DOMAIN q1 : b \in Blocks(q1[i].cmd, q1[i].n)
                                     \/ b \in Blocks(q[1].cmd, q[1].n)
          BY <2>1, <4>2 DEF Live, Range, q1
        <4>4. \A b : (\E i \in DOMAIN q : b \in Blocks(q[i].cmd, q[i].n)) <=>
                     \/ \E i \in DOMAIN q1 : b \in Blocks(q1[i].cmd, q1[i].n)
                     \/ b \in Blocks(q[1].cmd, q[1].n)
          BY Zenon, <2>1, <2>2
        <4> QED BY <4>1, <4>3, <4>4
      <3>2. PagesFreed'
        BY <2>1, <3>1 DEF PageParts, Memory, PagesFreed
      <3> QED BY <2>1, <2>2, <3>2 DEF PageParts, Memory, q, q1
    <2>5. Requested'
      BY <2>1, <2>2 DEF PageParts, Requested, Carried, Carries, q, q1
    <2>6. Numbers'
      BY <2>1 DEF PageParts, Numbers, Asks
    <2> QED BY <2>3, <2>4, <2>5, <2>6 DEF PageParts
  <1> QED BY <1>1, <1>2

\* The page in hand is given back, and no memory of another page goes with it.
LEMMA ReleaseMemory ==
  ASSUME Types, Order, Memory, InHand, Release,
         UNCHANGED <<net_passthrough_handle, made, refused>>
  PROVE  Memory'
  <1> DEFINE q == net_passthrough_handle
  <1>1. /\ ~InHand' /\ page' = None /\ heap' = heap \ Freed /\ net_passthrough_handle' = q
        /\ refused' = refused
    BY ReleaseFact DEF Release
  <1>2. \A b : b \in Live <=> (\E i \in DOMAIN q : b \in Blocks(q[i].cmd, q[i].n)) \/ b \in Freed
    BY LiveFact DEF Freed
  <1>3. \A b : b \in Live' <=> \E i \in DOMAIN q : b \in Blocks(q[i].cmd, q[i].n)
    BY <1>1 DEF Live, Range
  <1>4. \A i \in DOMAIN q : Blocks(q[i].cmd, q[i].n) \cap Freed = {}
    <2> SUFFICES ASSUME NEW i \in DOMAIN q, NEW b \in Blocks(q[i].cmd, q[i].n), b \in Freed
                 PROVE  FALSE
      OBVIOUS
    <2>1. q[i].n \in Nat /\ page.n \in Nat
      BY NumberFact
    <2>2. b[1] = q[i].n /\ b[1] = page.n
      BY <2>1, BlocksFact DEF Freed
    <2>3. page.n < q[i].n
      BY DEF Order
    <2> QED BY <2>1, <2>2, <2>3
  <1> HIDE DEF q
  <1>5. \A b : b \in Live' => b \in Live /\ b \notin Freed
    BY <1>2, <1>3, <1>4
  <1>6. \A b \in Live : b \in Freed \/ b \in Live'
    BY <1>2, <1>3
  <1>7. PagesFreed'
    BY <1>1, <1>5, <1>6 DEF Memory, PagesFreed
  <1> QED BY <1>1, <1>7 DEF Memory, q

\* A page that is not published: it goes to the logic task with the request it
\* carries, or no further.
LEMMA DropStep ==
  ASSUME Types, PageParts, InHand, Release,
         UNCHANGED <<net_passthrough_handle, made, refused, wire, asked>>,
         s_nRequestId' \in Nat, s_nRequestId <= s_nRequestId',
         logic' = logic \/ (Carries(page) /\ logic' = logic \cup {page.number})
  PROVE  PageParts'
  <1> DEFINE q == net_passthrough_handle
  <1>1. /\ ~InHand' /\ pc' # "send" /\ net_passthrough_handle' = q
        /\ made' = made /\ refused' = refused /\ wire' = wire /\ asked' = asked
    BY ReleaseFact
  <1>2. Order'
    BY <1>1 DEF PageParts, Order
  <1>3. Memory'
    BY ReleaseMemory DEF PageParts
  <1>4. Requested'
    <2>1. logic' \subseteq asked
      BY DEF PageParts, Requested, Carried
    <2>2. /\ \A i \in DOMAIN q : Carried(q[i])'
          /\ \A i \in DOMAIN wire : Carried(wire[i])'
      BY <1>1 DEF PageParts, Requested, Carried, Carries
    <2> QED BY <1>1, <2>1, <2>2 DEF PageParts, Requested, Carried, Carries
  <1>5. Numbers'
    <2>1. \A i \in DOMAIN wire : wire[i].number \in Nat
      <3>1. \A p \in Page : p.number \in Nat
        BY DEF Page
      <3> QED BY <3>1 DEF Types
    <2> QED BY <1>1, <2>1 DEF PageParts, Numbers, Asks, Types
  <1> QED BY <1>2, <1>3, <1>4, <1>5 DEF PageParts

\* A page of another kind than a request is published, or given up.
LEMMA HandleStep == Types /\ PageParts /\ Handle => PageParts'
  <1> SUFFICES ASSUME Types, PageParts, Handle PROVE PageParts'
    OBVIOUS
  <1>1. /\ InHand /\ page \in Page /\ page.number \in Nat /\ s_nRequestId \in Nat
        /\ s_nRequestId' \in Nat /\ s_nRequestId <= s_nRequestId'
        /\ UNCHANGED <<net_passthrough_handle, made, refused, wire, asked, logic>>
        /\ page.cmd # "MQTT_REQUEST"
    BY DEF Handle, InHand, Types, Page, server
  <1>2. CASE ~(Published /\ uc_mqtt_state = CONNECT)
    BY <1>1, <1>2, DropStep DEF Handle
  <1>3. CASE Published /\ uc_mqtt_state = CONNECT
    <2> DEFINE q == net_passthrough_handle
    <2>1. /\ InHand' /\ pc' = "send" /\ heap' = heap /\ page' \in Page
          /\ page'.n = page.n /\ page'.cmd = page.cmd /\ page'.number = Topic
      BY <1>1, <1>3 DEF Handle, InHand, Page, Topic
    <2>2. Order'
      BY <1>1, <2>1 DEF PageParts, Order
    <2>3. Memory'
      <3>1. page # None /\ page' # None
        BY <1>1, <2>1 DEF Page, None
      <3>2. Live' = Live
        BY <1>1, <2>1, <3>1 DEF Live
      <3> QED BY <1>1, <2>1, <3>2 DEF PageParts, Memory, PagesFreed
    <2>4. Carries(page)' = Carries(page) /\ (Carries(page) => page'.number = page.number)
      BY <2>1 DEF Carries, Topic
    <2>5. Requested'
      BY <1>1, <2>1, <2>4 DEF PageParts, Requested, Carried, Carries
    <2>6. Numbers'
      <3>1. \A i \in DOMAIN wire : wire[i].number \in Nat
        <4>1. \A p \in Page : p.number \in Nat
          BY DEF Page
        <4> QED BY <4>1 DEF Types
      <3>2. page'.cmd = "EXE_RESPONSE" => page'.number # 0
        BY <1>3, <2>1 DEF Topic, Published
      <3>3. Asks(page)' => page'.number = s_nRequestId /\ s_nRequestId' = s_nRequestId + 1
        BY <2>1 DEF Asks, Topic, Handle
      <3> QED BY <1>1, <2>1, <3>1, <3>2, <3>3 DEF PageParts, Numbers, Asks
    <2> QED BY <2>2, <2>3, <2>5, <2>6 DEF PageParts
  <1> QED BY <1>2, <1>3

\* A page reaches the server, or is lost on the way.
LEMMA PublishStep == Types /\ PageParts /\ mqttclient_publish => PageParts'
  <1> SUFFICES ASSUME Types, PageParts, mqttclient_publish PROVE PageParts'
    OBVIOUS
  <1>1. /\ InHand /\ pc = "send" /\ page \in Page /\ s_nRequestId \in Nat /\ Release
        /\ UNCHANGED <<net_passthrough_handle, made, refused, asked, logic, s_nRequestId>>
    BY DEF mqttclient_publish, InHand, Types, server
  <1>2. CASE wire' = wire
    BY <1>1, <1>2, DropStep
  <1>3. CASE wire' = Append(wire, page)
    <2> DEFINE q == net_passthrough_handle
    <2>1. /\ ~InHand' /\ pc' # "send" /\ net_passthrough_handle' = q /\ made' = made
          /\ asked' = asked /\ logic' = logic /\ s_nRequestId' = s_nRequestId
      BY <1>1, ReleaseFact
    <2>2. /\ DOMAIN wire' = DOMAIN wire \cup {Len(wire) + 1} /\ wire'[Len(wire) + 1] = page
          /\ \A j \in DOMAIN wire : j < Len(wire) + 1 /\ wire'[j] = wire[j]
          /\ DOMAIN wire \subseteq Nat /\ Len(wire) + 1 \in Nat
      BY <1>1, <1>3, PutFact DEF Types
    <2>3. Order'
      BY <1>1, <2>1, <2>2 DEF PageParts, Order
    <2>4. Memory'
      BY <1>1, ReleaseMemory DEF PageParts
    <2>5. Requested'
      BY <1>1, <2>1, <2>2 DEF PageParts, Requested, Carried, Carries
    <2>6. Numbers'
      BY <1>1, <2>1, <2>2 DEF PageParts, Numbers, Asks
    <2> QED BY <2>3, <2>4, <2>5, <2>6 DEF PageParts
  <1> QED BY <1>2, <1>3 DEF mqttclient_publish

\* A request of the server goes to the logic task.
LEMMA RequestStep ==
  Types /\ PageParts /\ cmd_mqtt_request_or_response => PageParts'
  <1> SUFFICES ASSUME Types, PageParts, cmd_mqtt_request_or_response PROVE PageParts'
    OBVIOUS
  <1>1. /\ InHand /\ Release /\ s_nRequestId' = s_nRequestId /\ s_nRequestId \in Nat
        /\ UNCHANGED <<net_passthrough_handle, made, refused, wire, asked>>
        /\ Carries(page)
        /\ logic' = logic \/ logic' = logic \cup {page.number}
    BY DEF cmd_mqtt_request_or_response, InHand, Types, Carries
  <1> QED BY <1>1, DropStep

\* Every step keeps the order, the memory and the numbers of the pages.
LEMMA PagesStep == Types /\ PageParts /\ Next => PageParts'
  <1> SUFFICES ASSUME Types, PageParts, Next PROVE PageParts'
    OBVIOUS
  <1>0. logic \subseteq asked
    BY DEF PageParts, Requested
  <1>1. ASSUME NEW cmd \in Reports, Report(cmd)
        PROVE  PageParts'
    <2>1. /\ cmd \in Command /\ 0 \in Nat /\ to_network_data(cmd, 0)
          /\ cmd \notin {"MQTT_REQUEST", "EXE_RESPONSE"}
      BY <1>1, PassthroughAssumption DEF Command, Report
    <2>2. UNCHANGED <<pc, page, s_nRequestId, wire, asked, logic>>
      BY <1>1 DEF Report, server
    <2> QED BY <1>0, <2>1, <2>2, PutStep
  <1>2. ASSUME NEW r \in Number, manager_response_message_result(r)
        PROVE  PageParts'
    <2>1. "EXE_RESPONSE" \in Command /\ r \in Nat /\ to_network_data("EXE_RESPONSE", r)
      BY <1>2, BoundFact DEF Command, manager_response_message_result
    <2>2. /\ UNCHANGED <<pc, page, s_nRequestId, wire, asked>>
          /\ r \in logic /\ logic' \subseteq logic
      BY <1>2 DEF manager_response_message_result
    <2> QED BY <1>0, <2>1, <2>2, PutStep
  <1>3. ASSUME NEW r \in Number, uc_mqtt_msg_process(r)
        PROVE  PageParts'
    <2>1. "MQTT_REQUEST" \in Command /\ r \in Nat /\ to_network_data("MQTT_REQUEST", r)
      BY <1>3, BoundFact DEF Command, uc_mqtt_msg_process
    <2>2. /\ UNCHANGED <<pc, page, s_nRequestId, wire, logic>>
          /\ asked' = asked \cup {r}
      BY <1>3 DEF uc_mqtt_msg_process
    <2> QED BY <1>0, <2>1, <2>2, PutStep
  <1>4. CASE WaitThread \/ StackReused \/ LinkDrops \/ GiveUp
    BY <1>4, QuietActions, QuietStep
  <1>5. CASE NetTask
    BY <1>5, QuietActions, QuietStep, TakeStep, RequestStep, HandleStep, PublishStep
       DEF NetTask
  <1> QED BY <1>1, <1>2, <1>3, <1>4, <1>5 DEF Next
-----------------------------------------------------------------------------
(* The results. *)

\* The invariant holds at the start.
LEMMA PassInit == Init => PassInv
  <1> SUFFICES ASSUME Init PROVE PassInv
    OBVIOUS
  <1>1. Types
    <2>1. /\ 0 \in 0 .. MaxPage /\ 0 \in 0 .. MaxDrop /\ 0 \in 0 .. MaxFault
          /\ <<>> \in Seq(Page)
      BY BoundFact
    <2> QED BY Zenon, <2>1 DEF Init, Types, InHand, CONNECT, DISCONNECT
  <1>2. Connection
    BY DEF Init, Connection
  <1>3. Order /\ Requested /\ Numbers
    BY DEF Init, Order, Requested, Numbers, InHand
  <1>4. Live = {}
    BY DEF Init, Live, Range
  <1>5. Memory
    BY <1>4 DEF Init, Memory, PagesFreed, InHand
  <1> QED BY <1>1, <1>2, <1>3, <1>5 DEF PassInv

\* A step that changes nothing.
LEMMA PassStutter == PassInv /\ UNCHANGED vars => PassInv'
  <1> SUFFICES ASSUME PassInv, UNCHANGED vars PROVE PassInv'
    OBVIOUS
  <1> USE DEF vars, PassInv, InHand
  <1>1. Types'
    BY DEF Types
  <1>2. Connection'
    BY DEF Connection
  <1>3. Quiet
    BY DEF Quiet
  <1>4. PageParts'
    BY <1>3, QuietStep DEF PageParts
  <1> QED BY <1>1, <1>2, <1>4 DEF PageParts

\* The life of a connection, the memory, the order and the numbers of pages stay
\* as PassInv has them, whatever the two threads, the server and the link do.
THEOREM PassInvariant == Spec => []PassInv
  <1>1. ASSUME PassInv, Next PROVE PassInv'
    <2>1. Types /\ Connection /\ PageParts
      BY <1>1 DEF PassInv, PageParts
    <2>2. Types' /\ Connection' /\ PageParts'
      BY <1>1, <2>1, TypesStep, ConnectionStep, PagesStep
    <2> QED BY <2>2 DEF PassInv, PageParts
  <1> QED BY <1>1, PassInit, PassStutter, PTL DEF Spec

\* The memory of every page in the queue or in hand is there, and of a page the
\* queue took nothing is left behind, on every path of the network task.
THEOREM MemoryOfPages == Spec => []PagesFreed
  <1>1. PassInv => PagesFreed
    BY DEF PassInv, Memory
  <1> QED BY <1>1, PassInvariant, PTL

\* What reaches the server, over any number of connections, is in the order of the
\* queue, each page at most once; the numbers of questions rise, and every answer is
\* to a request the server made.
THEOREM WireInOrder == Spec => []WireTrue
  <1>1. ASSUME PassInv PROVE WireTrue
    <2>1. \A i, j \in DOMAIN wire : i < j =>
            /\ wire[i].n < wire[j].n
            /\ {wire[i].cmd, wire[j].cmd} \subseteq {"IOTE_REQUEST", "RESERVE_ADDR"} =>
                  wire[i].number < wire[j].number
      BY <1>1 DEF PassInv, Order, Numbers, Asks
    <2>2. \A i \in DOMAIN wire : wire[i].cmd = "EXE_RESPONSE" =>
            wire[i].number \in asked \ {0}
      BY <1>1 DEF PassInv, Requested, Numbers, Carried, Carries
    <2> QED BY <2>1, <2>2 DEF WireTrue
  <1> QED BY <1>1, PassInvariant, PTL

\* After the state says DISCONNECT at most one page more is given up until the next
\* connection, also when threads of older connections are still closing.
THEOREM LateLoss == Spec => []OneLateLoss
  <1>1. PassInv => OneLateLoss
    BY DEF PassInv, Connection, OneLateLoss
  <1> QED BY <1>1, PassInvariant, PTL
=============================================================================
