----------------------------- MODULE Passthrough -----------------------------
(***************************************************************************)
(* The network task (net_passthrough.c, wiota_mqtt.c). It keeps one MQTT   *)
(* connection to the server: it connects, subscribes, starts a thread that *)
(* waits for messages of the server, and while the state says CONNECT it   *)
(* takes pages off its queue and publishes or forwards them. The waiting   *)
(* thread hands requests of the server to the same queue, sends the pings, *)
(* and on an error of the connection sets the state to DISCONNECT and      *)
(* tears the connection down, while the network task frees the thread's    *)
(* memory, waits two seconds and connects again.                           *)
(*                                                                         *)
(* The sockets, the MQTT library and the server are external; messages are *)
(* sent with QoS 0, so the server gets one when the link is up and nothing *)
(* says so when it does not.                                               *)
(***************************************************************************)
EXTENDS Integers, Sequences, Functions

CONSTANTS Reports,        \* the reports and questions of the logic task
          Number,         \* request numbers of the server, 0 among them
          MaxPage,        \* how many pages are made (bound)
          MaxDrop,        \* how often the link drops or a wait fails (bound)
          MaxFault,       \* failed subscriptions, lost pages, no memory (bound)
          Capacity        \* messages the queue holds

ASSUME PassthroughAssumption ==
          /\ Reports \subseteq {"IOTE_REPORT", "AP_REPORT", "IOTE_REQUEST", "RESERVE_ADDR"}
          /\ Number \subseteq Nat
          /\ {MaxPage, MaxDrop, MaxFault} \subseteq Nat
          /\ Capacity \in Nat \ {0}

VARIABLES uc_mqtt_state, pc, page,
          net_passthrough_handle,   \* the queue
          s_nRequestId,
          waiting,        \* the thread of uc_mqtt_wait_msg is in its loop
          closing,        \* threads at the start of mqttclient_disconn
          freeing,        \* threads in it that have told the server
          orphan,         \* the stack of a thread in it has been freed
          bufs,           \* tx_buf and rx_buf: none, live, freed
          link,           \* up, silent (lost without a word), closed
          unacked,        \* something was sent into a silent link
          subscribed,
          asked,          \* numbers of the requests the server has made
          logic,          \* numbers of the requests the logic task has
          heap,           \* blocks of pages not yet freed
          made, refused,  \* pages made, and those the queue did not take
          drops, faults,
          wire,           \* what the server got, in order
          late,           \* pages given up since the state is DISCONNECT
          halted

vars == <<uc_mqtt_state, pc, page, net_passthrough_handle, s_nRequestId, waiting,
          closing, freeing, orphan, bufs, link, unacked, subscribed, asked, logic, heap,
          made, refused, drops, faults, wire, late, halted>>
threads == <<waiting, closing, freeing, orphan>>
conn == <<threads, bufs, link, unacked, subscribed, drops>>
server == <<asked, logic>>
memory == <<net_passthrough_handle, heap, made, refused>>

CONNECT == "STATE_CONNECT"
DISCONNECT == "STATE_DISCONNECT"
None == [n |-> 0, cmd |-> "none", number |-> 0]

\* A report of a device or of the access point, a question of a device, the question for ids, a
\* request of the server, an answer to one.
Command == {"IOTE_REPORT", "AP_REPORT", "IOTE_REQUEST", "RESERVE_ADDR",
            "MQTT_REQUEST", "EXE_RESPONSE"}
Tree == {"AP_REPORT", "RESERVE_ADDR"}

\* The blocks of a page: t_app_logic_to_net or t_app_mqtt_request with what it
\* points to, or one tree of JSON nodes.
Blocks(cmd, n) == IF cmd \in Tree THEN {<<n, "data">>}
                                 ELSE {<<n, "data">>, <<n, "inner">>}

Init == /\ uc_mqtt_state = DISCONNECT /\ pc = "init" /\ page = None
        /\ net_passthrough_handle = <<>> /\ s_nRequestId = 1
        /\ waiting = FALSE /\ closing = 0 /\ freeing = 0 /\ orphan = FALSE /\ bufs = "none"
        /\ link = "closed" /\ unacked = FALSE /\ subscribed = FALSE
        /\ asked = {} /\ logic = {} /\ heap = {}
        /\ made = 0 /\ refused = {} /\ drops = 0 /\ faults = 0
        /\ wire = <<>> /\ late = 0 /\ halted = FALSE

----------------------------------------------------------------------------
(* The queue *)

\* What a caller of to_network_data frees when the queue refuses its page:
\* manager_send_data_logic_to_net only its own block, everyone else all.
FreedOnRefusal(cmd, n) ==
    IF cmd \in Tree \cup {"MQTT_REQUEST"} THEN Blocks(cmd, n) ELSE {<<n, "data">>}

\* Variant: the page goes to the head (rt_mq_urgent).
to_network_data_urgent(cmd, r) ==
    /\ made < MaxPage /\ Len(net_passthrough_handle) < Capacity
    /\ made' = made + 1
    /\ net_passthrough_handle' =
          <<[n |-> made + 1, cmd |-> cmd, number |-> r]>> \o net_passthrough_handle
    /\ heap' = heap \cup Blocks(cmd, made + 1)
    /\ UNCHANGED refused

\* to_network_data: the message is the page; when the queue stays full for the
\* four ticks it is refused. r is the number it carries.
to_network_data(cmd, r) ==
    LET n == made + 1
        full == Len(net_passthrough_handle) = Capacity
    IN  /\ made < MaxPage
        /\ made' = n
        /\ net_passthrough_handle' =
              IF full THEN net_passthrough_handle
              ELSE Append(net_passthrough_handle, [n |-> n, cmd |-> cmd, number |-> r])
        /\ refused' = IF full THEN refused \cup {n} ELSE refused
        /\ heap' = heap \cup (IF full THEN Blocks(cmd, n) \ FreedOnRefusal(cmd, n)
                                      ELSE Blocks(cmd, n))

\* The logic task: manager_send_data_logic_to_net for a device,
\* manager_input_attribute and manager_request_reserve_addr.
Report(cmd) ==
    /\ ~halted
    /\ to_network_data(cmd, 0)
    /\ UNCHANGED <<uc_mqtt_state, pc, page, s_nRequestId, conn, server, faults,
                   wire, late, halted>>

\* manager_response_message_result: request r is answered once for each of its
\* destinations, and once for each packet of a broadcast; the logic task may
\* have more answers to it to come, or this is the last one.
manager_response_message_result(r) ==
    /\ ~halted /\ r \in logic
    /\ logic' \in {logic, logic \ {r}}
    /\ to_network_data("EXE_RESPONSE", r)
    /\ UNCHANGED <<uc_mqtt_state, pc, page, s_nRequestId, conn, asked, faults,
                   wire, late, halted>>

----------------------------------------------------------------------------
(* The waiting thread *)

\* The server sends request r; the library calls uc_mqtt_msg_process.
uc_mqtt_msg_process(r) ==
    /\ ~halted /\ waiting /\ link = "up" /\ subscribed
    /\ r \notin asked
    /\ asked' = asked \cup {r}
    /\ to_network_data("MQTT_REQUEST", r)
    /\ UNCHANGED <<uc_mqtt_state, pc, page, s_nRequestId, conn, logic, faults,
                   wire, late, halted>>

\* Variant: the ping is not sent.
Ping_never == FALSE /\ UNCHANGED vars

\* mqttclient_waitmessage: no message came and half the keep-alive time is
\* over; the result of the ping is not looked at.
Ping == /\ ~halted /\ waiting
        /\ link = "silent" /\ ~unacked
        /\ unacked' = TRUE
        /\ UNCHANGED <<uc_mqtt_state, pc, page, s_nRequestId, threads, bufs,
                       link, subscribed, drops, server, memory, faults, wire, late, halted>>

\* mqttclient_waitmessage returns an error, uc_mqtt_wait_msg leaves its loop and
\* uc_mqtt_disconnect sets the state. The error is a closed link or, with the
\* link up, a packet the library cannot take.
WaitFails ==
    /\ ~halted /\ waiting
    /\ \/ link = "closed" /\ UNCHANGED drops
       \/ link = "up" /\ drops < MaxDrop /\ drops' = drops + 1
    /\ waiting' = FALSE
    /\ closing' = IF uc_mqtt_state = DISCONNECT THEN closing ELSE closing + 1
    /\ uc_mqtt_state' = DISCONNECT
    /\ UNCHANGED <<pc, page, s_nRequestId, freeing, orphan, bufs, link, unacked, subscribed, server,
                   memory, faults, wire, late, halted>>

\* mqttclient_disconn works on the one context of the client: whose connection is
\* in it by now makes no difference. When the packet cannot be sent the rest is
\* left out and the thread ends.
mqttclient_disconn ==
    /\ ~halted /\ closing > 0
    /\ closing' = closing - 1
    /\ freeing' \in {freeing} \cup (IF link = "closed" THEN {} ELSE {freeing + 1})
    /\ UNCHANGED <<uc_mqtt_state, pc, page, s_nRequestId, waiting, orphan, bufs, link,
                   unacked, subscribed, drops, server, memory, faults, wire, late, halted>>

\* The rest: the socket is closed and the buffers are freed, if the pointers are
\* set. The pointers stay, so buffers may be freed that already are.
NetDisconnect ==
    /\ ~halted /\ freeing > 0
    /\ freeing' = freeing - 1
    /\ link' = "closed" /\ unacked' = FALSE /\ subscribed' = FALSE
    /\ bufs' = IF bufs = "none" THEN "none" ELSE "freed"
    /\ halted' \in {FALSE, bufs = "freed"}
    /\ UNCHANGED <<uc_mqtt_state, pc, page, s_nRequestId, waiting, closing, orphan, drops,
                   server, memory, faults, wire, late>>

----------------------------------------------------------------------------
(* The network task *)

net == <<memory, server>>

\* uc_mqtt_connect: mqtt_init_ctx clears the context, the pointers in it included.
mqtt_init_ctx ==
    /\ ~halted /\ pc = "init"
    /\ uc_mqtt_state' = DISCONNECT
    /\ bufs' = "none" /\ link' = "closed" /\ unacked' = FALSE /\ subscribed' = FALSE
    /\ pc' = "connect"
    /\ UNCHANGED <<page, s_nRequestId, threads, drops, net, faults, wire, late, halted>>

\* mqttclient_conn: new buffers, and the socket, if the server can be reached.
mqttclient_conn ==
    /\ ~halted /\ pc = "connect"
    /\ bufs' = "live"
    /\ link' \in {"up", "closed"} /\ unacked' = FALSE /\ subscribed' = FALSE
    /\ pc' = "handshake"
    /\ UNCHANGED <<uc_mqtt_state, page, s_nRequestId, threads, drops, net, faults, wire,
                   late, halted>>

\* It fails: the loop of uc_mqtt_connect calls mqttclient_disconn, which frees the
\* buffers if its packet can be sent, and tries again two seconds later.
ConnectFails ==
    /\ ~halted /\ pc = "handshake"
    /\ \/ bufs' = "freed" /\ halted' \in {FALSE, bufs = "freed"}
       \/ UNCHANGED <<bufs, halted>>
    /\ link' = "closed" /\ unacked' = FALSE
    /\ pc' = "connect"
    /\ UNCHANGED <<uc_mqtt_state, page, s_nRequestId, threads, subscribed, drops, net, faults,
                   wire, late>>

\* The server answers in time. When another thread has freed the buffers meanwhile,
\* anything may happen.
uc_mqtt_connect ==
    /\ ~halted /\ pc = "handshake" /\ link = "up"
    /\ uc_mqtt_state' = CONNECT
    /\ halted' \in {FALSE, bufs = "freed"}
    /\ pc' = "subscribe"
    /\ late' = 0
    /\ UNCHANGED <<page, s_nRequestId, conn, net, faults, wire>>

\* The result of the subscription is printed and not used.
uc_mqtt_subscribe ==
    /\ ~halted /\ pc = "subscribe"
    /\ pc' = "start"
    /\ \/ subscribed' = (link = "up") /\ UNCHANGED faults
       \/ faults < MaxFault /\ faults' = faults + 1 /\ UNCHANGED subscribed
    /\ UNCHANGED <<uc_mqtt_state, page, s_nRequestId, threads, bufs, link,
                   unacked, drops, net, wire, late, halted>>

\* manager_thread_create_task: without memory the network task returns.
StartThread ==
    /\ ~halted /\ pc = "start"
    /\ \/ pc' = "loop" /\ waiting' = TRUE /\ UNCHANGED faults
       \/ /\ faults < MaxFault /\ faults' = faults + 1
          /\ pc' = "returned" /\ UNCHANGED waiting
    /\ UNCHANGED <<uc_mqtt_state, page, s_nRequestId, closing, freeing, orphan, bufs, link,
                   unacked, subscribed, drops, net, wire, late, halted>>

\* Variant: the queue is emptied before the loop is left.
uc_mqtt_get_state_empty ==
    /\ ~halted /\ pc = "loop"
    /\ pc' = IF uc_mqtt_state = CONNECT \/ net_passthrough_handle # <<>> THEN "take" ELSE "free"
    /\ UNCHANGED <<uc_mqtt_state, page, s_nRequestId, conn, net, faults, wire, late, halted>>

uc_mqtt_get_state ==
    /\ ~halted /\ pc = "loop"
    /\ pc' = IF uc_mqtt_state = CONNECT THEN "take" ELSE "free"
    /\ UNCHANGED <<uc_mqtt_state, page, s_nRequestId, conn, net, faults, wire, late, halted>>

\* manager_recv_queue: a page, or nothing for 500 ticks.
Take ==
    /\ ~halted /\ pc = "take"
    /\ IF net_passthrough_handle = <<>>
       THEN pc' = "loop" /\ UNCHANGED <<page, net_passthrough_handle>>
       ELSE /\ pc' = "handle"
            /\ page' = Head(net_passthrough_handle)
            /\ net_passthrough_handle' = Tail(net_passthrough_handle)
    /\ UNCHANGED <<uc_mqtt_state, s_nRequestId, conn, server, heap, made, refused,
                   faults, wire, late, halted>>

\* Variant: only what the page points to is freed.
Freed_outer == {<<page.n, "data">>}

\* The blocks a handler and the loop after it free.
Freed == Blocks(page.cmd, page.n)

Release == /\ heap' = heap \ Freed
           /\ page' = None
           /\ pc' = "loop"

\* cmd_mqtt_request_or_response: the request goes to the logic task, unless its
\* queue is full.
cmd_mqtt_request_or_response ==
    /\ ~halted /\ pc = "handle" /\ page.cmd = "MQTT_REQUEST"
    /\ \/ logic' = logic \cup {page.number} /\ UNCHANGED faults
       \/ faults < MaxFault /\ faults' = faults + 1 /\ UNCHANGED logic
    /\ Release
    /\ UNCHANGED <<uc_mqtt_state, net_passthrough_handle, s_nRequestId, conn, asked,
                   made, refused, wire, late, halted>>

\* The other handlers, up to the check in uc_mqtt_publish. A question takes the
\* next number; an answer with number 0 is not published.
Topic == IF page.cmd \in {"IOTE_REQUEST", "RESERVE_ADDR"} THEN s_nRequestId ELSE page.number

Published == page.cmd # "EXE_RESPONSE" \/ page.number # 0

Handle ==
    /\ ~halted /\ pc = "handle" /\ page.cmd # "MQTT_REQUEST"
    /\ s_nRequestId' = IF page.cmd \in {"IOTE_REQUEST", "RESERVE_ADDR"}
                       THEN s_nRequestId + 1 ELSE s_nRequestId
    /\ IF Published /\ uc_mqtt_state = CONNECT
       THEN /\ pc' = "send"
            /\ page' = [page EXCEPT !.number = Topic]
            /\ UNCHANGED <<heap, late>>
       ELSE /\ late' = IF Published THEN late + 1 ELSE late
            /\ Release
    /\ UNCHANGED <<uc_mqtt_state, net_passthrough_handle, conn, server, made,
                   refused, faults, wire, halted>>

\* mqttclient_publish: the message reaches the server when the link is up. When
\* the waiting thread has freed the buffers meanwhile, it is lost or worse.
mqttclient_publish ==
    /\ ~halted /\ pc = "send"
    /\ wire' = IF link = "up" /\ bufs = "live" THEN Append(wire, page) ELSE wire
    /\ unacked' = (unacked \/ link = "silent")
    /\ halted' \in {FALSE, bufs = "freed"}
    /\ Release
    /\ UNCHANGED <<uc_mqtt_state, net_passthrough_handle, s_nRequestId, threads,
                   bufs, link, subscribed, drops, server, made,
                   refused, faults, late>>

\* The loop is left: the memory of the thread is freed, whether it has ended or is
\* still closing; uc_mqtt_disconnect finds the state already DISCONNECT.
FreeThread ==
    /\ ~halted /\ pc = "free"
    /\ orphan' = (closing + freeing > 0)
    /\ pc' = "delay"
    /\ UNCHANGED <<uc_mqtt_state, page, s_nRequestId, waiting, closing, freeing, bufs, link,
                   unacked, subscribed, drops, net, faults, wire, late, halted>>

\* rt_thread_mdelay(2000). Closing may take longer, up to the time-out of 30 s.
Delay ==
    /\ ~halted /\ pc = "delay"
    /\ pc' = "init"
    /\ UNCHANGED <<uc_mqtt_state, page, s_nRequestId, conn, net, faults, wire, late, halted>>

\* Someone else gets the memory of a stack on which a thread is still closing.
StackReused ==
    /\ ~halted
    /\ orphan /\ closing + freeing > 0
    /\ halted' = TRUE
    /\ UNCHANGED <<uc_mqtt_state, pc, page, s_nRequestId, conn, net, faults, wire, late>>
----------------------------------------------------------------------------
(* The network *)

LinkDrops ==
    /\ ~halted /\ link = "up" /\ drops < MaxDrop
    /\ drops' = drops + 1
    /\ link' \in {"silent", "closed"}
    /\ UNCHANGED <<uc_mqtt_state, pc, page, s_nRequestId, threads, bufs,
                   unacked, subscribed, net, faults, wire, late, halted>>

\* TCP gives up on a silent link when what was sent stays without an answer.
GiveUp ==
    /\ ~halted /\ link = "silent" /\ unacked
    /\ link' = "closed" /\ unacked' = FALSE
    /\ UNCHANGED <<uc_mqtt_state, pc, page, s_nRequestId, threads, bufs,
                   subscribed, drops, net, faults, wire, late, halted>>

NetTask == \/ mqtt_init_ctx \/ mqttclient_conn \/ ConnectFails \/ uc_mqtt_connect
           \/ uc_mqtt_subscribe \/ StartThread
           \/ uc_mqtt_get_state \/ Take \/ cmd_mqtt_request_or_response \/ Handle
           \/ mqttclient_publish \/ FreeThread \/ Delay

WaitThread == Ping \/ WaitFails \/ mqttclient_disconn \/ NetDisconnect

Next == \/ \E cmd \in Reports : Report(cmd)
        \/ \E r \in Number : manager_response_message_result(r) \/ uc_mqtt_msg_process(r)
        \/ WaitThread \/ NetTask \/ StackReused \/ LinkDrops \/ GiveUp

Spec == Init /\ [][Next]_vars

\* The two threads have the same priority and share the processor in turns; the
\* server can be reached again and again; TCP does give up.
FairSpec == /\ Spec
            /\ WF_vars(NetTask)
            /\ SF_vars(mqttclient_conn /\ link' = "up") /\ SF_vars(uc_mqtt_connect)
            /\ WF_vars(Ping)
            /\ WF_vars(WaitFails /\ link = "closed") /\ WF_vars(mqttclient_disconn)
            /\ WF_vars(NetDisconnect)
            /\ WF_vars(GiveUp)
----------------------------------------------------------------------------
(* Properties *)

Live == UNION {Blocks(p.cmd, p.n) :
                 p \in Range(net_passthrough_handle) \cup ({page} \ {None})}

\* Whatever way a page takes (published, forwarded, given up, refused), the
\* memory of a page in the queue or in hand is there, and nothing of a page the
\* queue took is left behind when it is done with. (The inner block of a
\* page the queue refused is the exception: manager_send_data_logic_to_net frees
\* its own block alone.)
PagesFreed ==
    /\ Live \subseteq heap
    /\ \A b \in heap \ Live : b[1] \in refused /\ b[2] = "inner"

\* What reaches the server, over any number of connections: the pages come in the
\* order in which they were put into the queue, each at most once; the numbers of
\* the access point's own questions rise, so no two of them share one; every answer,
\* of the several a request may have, goes to a request the server did make, and
\* none goes out with the number 0, which stands for "nobody asked".
WireTrue ==
    /\ \A i, j \in DOMAIN wire : i < j =>
          /\ wire[i].n < wire[j].n
          /\ {wire[i].cmd, wire[j].cmd} \subseteq {"IOTE_REQUEST", "RESERVE_ADDR"} =>
                wire[i].number < wire[j].number
    /\ \A i \in DOMAIN wire : wire[i].cmd = "EXE_RESPONSE" =>
          wire[i].number \in asked \ {0}

\* Once the state is DISCONNECT at most one page more is given up until the next
\* connection, the one already out of the queue; all others wait. (Pages published
\* into a link that is lost and not yet known to be are not counted.)
OneLateLoss == late <= 1

Stopped == halted \/ pc = "returned"

\* A lost link, also one lost without a word or closed under the new connection by
\* a thread that was still closing the old one, is noticed and a new connection is
\* made, unless damaged memory or the lack of it stops the network task.
Reconnects == (link # "up") ~> ((link = "up" /\ uc_mqtt_state = CONNECT) \/ Stopped)

=============================================================================
