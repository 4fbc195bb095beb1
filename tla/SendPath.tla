------------------------------ MODULE SendPath ------------------------------
(***************************************************************************)
(* The downlink path of the access point: a request of the server is cut   *)
(* into pages by the logic task, the operation task keeps the pages it has *)
(* given to the radio in wiota_send_manager_list, retries them, and hands  *)
(* every result back to the logic task, which answers the server.          *)
(*                                                                         *)
(* Actors: the logic task (manager_logic.c), the operation task            *)
(* (manager_wiota_frame.c), the radio with its callbacks, the soft timer   *)
(* that restarts a silent radio, and the network and downloader tasks,     *)
(* seen here only through the messages they post and take.                 *)
(*                                                                         *)
(* A page (t_app_operation_data) is one heap block; pages are distinct     *)
(* values, each allocated at most once, so that who holds a page, and      *)
(* whether it was freed, can be stated.                                    *)
(***************************************************************************)
EXTENDS Integers, Sequences, FiniteSets, Functions, LinkedList

CONSTANTS
    Iote,        \* the devices (head.id of a unicast page)
    Packet,      \* messages of the server
    Request,     \* the (packet, destination) pairs
    Destinations,\* Destinations[k]: the requests of packet k, in its order
    Page,        \* the pages the logic task may allocate
    Segments,    \* Segments[r]: the pages of request r, in sending order
    Broadcast,   \* the requests whose destination is a broadcast address
    Forward,     \* pages that forward a device's control message to a device
    Ota,         \* pages of the OTA broadcast (cmd GET_SPECIFIC_DATA_SPONSE)
    dest,        \* dest[p]: the device a unicast page is for
    None,        \* RT_NULL
    MANAGER_MAX_SEND_NUM,
    OperationCap, LogicCap, NetworkCap,  \* real capacities of the queues
    MaxFault,    \* bound on refused sends, failed mallocs and codings
    MaxRestart,  \* bound on restarts of the operation task
    MaxInput     \* bound on uplink messages and download results

Count(s, S) == Cardinality({i \in DOMAIN s : s[i] \in S})

PagesOf(r) == Range(Segments[r])
ServerPage == UNION {PagesOf(r) : r \in Request}
requestOf(p) == CHOOSE r \in Request : p \in PagesOf(r)
IsRadio(p) == p \in ServerPage /\ requestOf(p) \in Broadcast
Unicast == {p \in Page \ Ota : ~IsRadio(p)}

ASSUME PageAssumption ==
    /\ Segments \in [Request -> Seq(Page)]
    /\ \A r \in Request : Segments[r] # <<>> /\ IsInjective(Segments[r])
    /\ \A r, q \in Request : r # q => PagesOf(r) \cap PagesOf(q) = {}
    /\ Destinations \in [Packet -> Seq(Request)]
    /\ \A k \in Packet : IsInjective(Destinations[k])
    /\ \A k, l \in Packet :
          k # l => Range(Destinations[k]) \cap Range(Destinations[l]) = {}
    /\ Forward \subseteq Page /\ Ota \subseteq Page
    /\ Forward \cap Ota = {}
    /\ ServerPage \cap (Forward \cup Ota) = {}
    /\ Broadcast \subseteq Request
    /\ dest \in [Page -> Iote]
    /\ None \notin Page /\ None \notin Iote /\ None \notin Packet

ASSUME BoundAssumption ==
    /\ MANAGER_MAX_SEND_NUM \in Nat /\ MANAGER_MAX_SEND_NUM >= 2
    /\ OperationCap \in Nat \ {0}
    /\ LogicCap \in Nat \ {0}
    /\ NetworkCap \in Nat \ {0}
    /\ MaxFault \in Nat /\ MaxRestart \in Nat /\ MaxInput \in Nat

\* e_manager_operation_result; while a page is listed the same field counts
\* its retransmissions.
MANAGER_SEND_DEFAULT == 0
MANAGER_SEND_SUCCESS == 1
MANAGER_SEND_FAIL == 2

\* RT_NULL is no address of the counters that the pages of a request share.
ASSUME NullAssumption ==
    None \notin [result : {MANAGER_SEND_SUCCESS, MANAGER_SEND_FAIL}, left : Int]

VARIABLES
    operationQueue,  \* operation_queue_handle
    sendList,        \* wiota_send_manager_list, head first
    headState,       \* head.state of every page
    phase,           \* where manager_operation_task is
    heard,           \* recv_msg_count differs from old_recv_msg_count
    onAir,           \* unicast transmissions of the radio, per device
    otaAir,          \* OTA broadcasts of the radio
    logicQueue,      \* manager_queue_handle
    toServe,         \* destinations left of the packet in the logic task's hands
    toSend,          \* pages left of the destination in its hands
    segment,         \* the shared counter of a split request, or None
    networkQueue,    \* net_passthrough_handle
    holder,          \* who has the pointer to a page, see Place
    faults, restarts, inputs,
    requested,       \* packets the server has sent
    tries,           \* history: transmissions of each page
    acks,            \* history: successes the radio reported, per device
    reported,        \* history: the result the logic task took for a page
    answers,         \* history: answers given to the server, in order
    lossy,           \* history: a page or a result was dropped or discarded
    unsaid           \* history: a message to the network task was dropped

operationVars == <<sendList, headState, tries>>
radioVars == <<onAir, otaAir, acks>>
logicVars == <<toServe, toSend, segment, reported, answers>>
taskVars == <<phase, heard, restarts>>
inputVars == <<inputs, requested>>
logicSide == <<networkQueue, unsaid, logicVars>>
operationSide == <<operationVars, radioVars, taskVars>>
vars == <<operationQueue, logicQueue, networkQueue, holder, faults, lossy, unsaid,
          operationVars, radioVars, logicVars, taskVars, inputVars>>

-----------------------------------------------------------------------------
(* The queues: a send waits four ticks for room and then drops the message. *)

\* Variant: the radio's result is not copied into the message.
OperationEntryAlwaysOk(cmd, page, id, ok) ==
    [cmd |-> cmd, page |-> page, id |-> id, ok |-> TRUE]
OperationEntry(cmd, page, id, ok) ==
    [cmd |-> cmd, page |-> page, id |-> id, ok |-> ok]
LogicEntry(cmd, page, packet) ==
    [cmd |-> cmd, page |-> page, packet |-> packet]
NetworkEntry(req, result) == [req |-> req, result |-> result]

\* Variant: one message too many is let in.
OperationRoomOffByOne == Len(operationQueue) <= OperationCap
OperationRoom == Len(operationQueue) < OperationCap
LogicRoom == Len(logicQueue) < LogicCap
NetworkRoom == Len(networkQueue) < NetworkCap

\* A page is not allocated yet ("fresh"), in the loop of manager_send_packet
\* ("toSend"), in a queue or the list, given back to the heap ("freed"), or
\* no task points to it any more though it was not freed ("lost").
Place == {"fresh", "toSend", "operationQueue", "sendList", "logicQueue",
          "freed", "lost"}
Move(p, place) ==
    holder' = IF p = None THEN holder ELSE [holder EXCEPT ![p] = place]

\* Variant: rt_mq_urgent in the place of rt_mq_send.
to_operation_wiota_data_urgent(e) ==
    /\ OperationRoom
    /\ operationQueue' = <<e>> \o operationQueue
    /\ Move(e.page, "operationQueue")
    /\ UNCHANGED <<lossy, faults>>

\* to_operation_wiota_data with everything below it; what the message points
\* to is not freed when it is dropped.
to_operation_wiota_data(e) ==
    \/ /\ OperationRoom
       /\ operationQueue' = Append(operationQueue, e)
       /\ Move(e.page, "operationQueue")
       /\ UNCHANGED <<lossy, faults>>
    \/ /\ ~OperationRoom
       /\ Move(e.page, "lost")
       /\ lossy' = TRUE
       /\ UNCHANGED <<operationQueue, faults>>
    \/ /\ faults < MaxFault          \* rt_malloc of the message fails
       /\ faults' = faults + 1
       /\ Move(e.page, "lost")
       /\ lossy' = TRUE
       /\ UNCHANGED operationQueue

to_queue_logic_data(e) ==
    \/ /\ LogicRoom
       /\ logicQueue' = Append(logicQueue, e)
       /\ Move(e.page, "logicQueue")
       /\ UNCHANGED lossy
    \/ /\ ~LogicRoom
       /\ Move(e.page, "lost")
       /\ lossy' = TRUE
       /\ UNCHANGED logicQueue

to_network_data(e) ==
    \/ /\ NetworkRoom
       /\ networkQueue' = Append(networkQueue, e)
       /\ UNCHANGED unsaid
    \/ /\ ~NetworkRoom
       /\ unsaid' = TRUE
       /\ UNCHANGED networkQueue


-----------------------------------------------------------------------------
Init ==
    /\ operationQueue = <<>>
    /\ sendList = <<>>
    /\ headState = [p \in Page |-> MANAGER_SEND_DEFAULT]
    /\ phase = "scanning"
    /\ heard = FALSE
    /\ onAir = [i \in Iote |-> 0]
    /\ otaAir = 0
    /\ logicQueue = <<>>
    /\ toServe = <<>>
    /\ toSend = <<>>
    /\ segment = [r \in Request |-> None]
    /\ networkQueue = <<NetworkEntry(None, None)>>   \* manager_input_attribute
    /\ holder = [p \in Page |-> "fresh"]
    /\ faults = 0 /\ restarts = 0 /\ inputs = 0
    /\ requested = {}
    /\ tries = [p \in Page |-> 0]
    /\ acks = [i \in Iote |-> 0]
    /\ reported = [p \in Page |-> MANAGER_SEND_DEFAULT]
    /\ answers = [r \in Request |-> <<>>]
    /\ lossy = FALSE
    /\ unsaid = FALSE

Fresh == {p \in Page : holder[p] = "fresh"}

-----------------------------------------------------------------------------
(* What the other tasks post to the logic task. *)

\* The network task passes a message of the server on.
NetworkMessage(k) ==
    /\ k \notin requested
    /\ requested' = requested \cup {k}
    /\ to_queue_logic_data(LogicEntry("FROM_NETWORK", None, k))
    /\ UNCHANGED <<operationQueue, faults, operationSide, logicSide, inputs>>

\* The uplink callback of the radio: p is the page that the logic task will
\* need when the message is one to forward, None for every other message.
manager_recv_data(p) ==
    /\ phase \in {"running", "leaving"}
    /\ inputs < MaxInput
    /\ inputs' = inputs + 1
    /\ to_queue_logic_data(LogicEntry("RECV_WIOTA_DATA", p, None))
    /\ heard' = TRUE
    /\ UNCHANGED <<operationQueue, faults, operationVars, radioVars, logicSide,
                   phase, restarts, requested>>

\* The downloader task reports the end of a download.
HttpMessage ==
    /\ inputs < MaxInput
    /\ inputs' = inputs + 1
    /\ to_queue_logic_data(LogicEntry("FROM_HTTP", None, None))
    /\ UNCHANGED <<operationQueue, faults, operationSide, logicSide,
                   requested>>

-----------------------------------------------------------------------------
(* The logic task, manager_wiota_task: one message at a time. *)

LogicReady(cmd) ==
    /\ toServe = <<>> /\ toSend = <<>>
    /\ logicQueue # <<>>
    /\ Head(logicQueue).cmd = cmd
    /\ logicQueue' = Tail(logicQueue)

\* manager_wiotaid_start restarts the address timer: nothing of this module.
LogicStart ==
    /\ LogicReady("WIOTA_START")
    /\ UNCHANGED <<operationQueue, holder, faults, lossy, operationSide,
                   logicSide, inputVars>>

\* An OTA broadcast goes out: a state, or the first block of a transfer.
StartOta == \E q \in Ota \cap Fresh : toSend' = <<q>> /\ Move(q, "toSend")

\* manager_recv_wiota_msg: a control message for another device becomes a page,
\* a report goes to the server, a question about an update is answered by an
\* OTA broadcast or passed to the server, anything else ends here.
LogicRecv ==
    LET p == Head(logicQueue).page IN
    /\ LogicReady("RECV_WIOTA_DATA")
    /\ \/ /\ p # None
          /\ toSend' = <<p>>
          /\ Move(p, "toSend")
          /\ UNCHANGED <<networkQueue, unsaid>>
       \/ /\ p = None
          /\ StartOta
          /\ UNCHANGED <<networkQueue, unsaid>>
       \/ /\ p = None
          /\ \/ to_network_data(NetworkEntry(None, None))
             \/ UNCHANGED <<networkQueue, unsaid>>
          /\ UNCHANGED <<toSend, holder>>
    /\ UNCHANGED <<operationQueue, faults, lossy, operationSide, toServe,
                   segment, reported, answers, inputVars>>

\* manager_net_data_logic: a command for devices, or one that addresses none (a
\* configuration is acknowledged at once, the others are not answered).
LogicNetwork ==
    LET k == Head(logicQueue).packet IN
    /\ LogicReady("FROM_NETWORK")
    /\ toServe' = Destinations[k]
    /\ \/ /\ Destinations[k] = <<>>
          /\ to_network_data(NetworkEntry(None, MANAGER_SEND_SUCCESS))
       \/ UNCHANGED <<networkQueue, unsaid>>
    /\ UNCHANGED <<operationQueue, holder, faults, lossy, operationSide, toSend,
                   segment, reported, answers, inputVars>>

\* Variant: the counter of remaining pages starts one too low.
NewSegmentOneLess(r) ==
    IF Len(Segments[r]) > 1
    THEN [result |-> MANAGER_SEND_SUCCESS, left |-> Len(Segments[r]) - 1]
    ELSE None

\* The two counters that the pages of a message longer than one page share.
NewSegment(r) ==
    IF Len(Segments[r]) > 1
    THEN [result |-> MANAGER_SEND_SUCCESS, left |-> Len(Segments[r])]
    ELSE None

\* manager_send_msg_to_wiota, for the next destination of the packet.
manager_send_msg_to_wiota ==
    LET r == Head(toServe) IN
    /\ toSend = <<>> /\ toServe # <<>>
    /\ toServe' = Tail(toServe)
    /\ toSend' = Segments[r]
    /\ holder' = [p \in Page |-> IF p \in PagesOf(r)
                              THEN "toSend" ELSE holder[p]]
    /\ segment' = [segment EXCEPT ![r] = NewSegment(r)]
    /\ UNCHANGED <<operationQueue, logicQueue, networkQueue, faults, lossy,
                   unsaid, operationSide, reported, answers, inputVars>>

\* manager_start_update: a finished download starts the chain of OTA pages,
\* a failed one sends nothing.
LogicHttp ==
    /\ LogicReady("FROM_HTTP")
    /\ StartOta \/ UNCHANGED <<toSend, holder>>
    /\ UNCHANGED <<operationQueue, networkQueue, faults, lossy, unsaid,
                   operationSide, toServe, segment, reported, answers,
                   inputVars>>

manager_response_message_result(r, v) ==
    /\ answers' = [answers EXCEPT ![r] = Append(@, v)]
    /\ to_network_data(NetworkEntry(r, v))

\* The command a page is posted to the operation task with.
Command(p) == IF p \in Ota THEN "OTA_RADIO"
              ELSE IF IsRadio(p) THEN "RADIO" ELSE "MSG"

\* manager_send_packet and manager_logic_send_to_operater: the next page goes
\* to the operation task, or its coding fails and it is silently left out. A
\* broadcast page is answered SUCCESS at once, whatever became of it.
manager_send_packet ==
    LET p == Head(toSend) IN
    /\ toSend # <<>>
    /\ toSend' = Tail(toSend)
    /\ \/ /\ to_operation_wiota_data(
                OperationEntry(Command(p), p, None, FALSE))
          /\ IF IsRadio(p)
             THEN manager_response_message_result(requestOf(p),
                                                  MANAGER_SEND_SUCCESS)
             ELSE UNCHANGED <<answers, networkQueue, unsaid>>
       \/ /\ faults < MaxFault       \* app_data_coding fails
          /\ faults' = faults + 1
          /\ Move(p, "lost")
          /\ lossy' = TRUE
          /\ UNCHANGED <<operationQueue, answers, networkQueue, unsaid>>
    /\ UNCHANGED <<logicQueue, operationSide, toServe, segment, reported,
                   inputVars>>

\* Variant: the failure of a page is not noted.
CountSegmentNoFail(s, p) == [result |-> s.result, left |-> s.left - 1]

\* What the shared counters become with the result of page p.
CountSegment(s, p) ==
    [result |-> IF headState[p] = MANAGER_SEND_FAIL
                THEN MANAGER_SEND_FAIL ELSE s.result,
     left |-> s.left - 1]

manager_network_to_wiota_result(p) ==
    LET r == requestOf(p)
        s == CountSegment(segment[r], p)
    IN  IF segment[r] = None
        THEN /\ manager_response_message_result(r, headState[p])
             /\ UNCHANGED segment
        ELSE IF s.left = 0
        THEN /\ manager_response_message_result(r, s.result)
             /\ segment' = [segment EXCEPT ![r] = None]
        ELSE /\ segment' = [segment EXCEPT ![r] = s]
             /\ UNCHANGED <<answers, networkQueue, unsaid>>

\* A result from the operation task: the page's result_function, then rt_free.
LogicResult ==
    LET p == Head(logicQueue).page IN
    /\ LogicReady("SEND_RESULT")
    /\ reported' = [reported EXCEPT ![p] = headState[p]]
    /\ \/ /\ p \in ServerPage
          /\ manager_network_to_wiota_result(p)
          /\ Move(p, "freed")
          /\ UNCHANGED toSend
       \/ /\ p \in Forward           \* manager_control_message_result
          /\ Move(p, "freed")
          /\ UNCHANGED <<toSend, segment, answers, networkQueue, unsaid>>
       \/ /\ p \in Ota               \* manager_ota_msg_result: the next page
          /\ \/ Move(p, "freed") /\ UNCHANGED toSend
             \/ \E q \in Ota \cap Fresh :
                   /\ toSend' = <<q>>
                   /\ holder' = [holder EXCEPT ![p] = "freed", ![q] = "toSend"]
          /\ UNCHANGED <<segment, answers, networkQueue, unsaid>>
    /\ UNCHANGED <<operationQueue, faults, lossy, operationSide, toServe,
                   inputVars>>

-----------------------------------------------------------------------------
(* The operation task, manager_operation. *)

OperationReady(cmd) ==
    /\ phase = "running"
    /\ operationQueue # <<>>
    /\ Head(operationQueue).cmd = cmd
    /\ operationQueue' = Tail(operationQueue)

\* uc_wiota_send_data: accepted, with one callback to come, or refused, which
\* nobody looks at.
uc_wiota_send_data(p) ==
    /\ tries' = [tries EXCEPT ![p] = @ + 1]
    /\ \/ /\ onAir' = [onAir EXCEPT ![dest[p]] = @ + 1]
          /\ UNCHANGED <<faults, lossy>>
       \/ /\ faults < MaxFault
          /\ faults' = faults + 1
          /\ lossy' = TRUE
          /\ UNCHANGED onAir
    /\ UNCHANGED <<otaAir, acks>>

OperationMsg ==
    LET p == Head(operationQueue).page IN
    /\ OperationReady("MSG")
    /\ sendList' = insert_tail_manager_list(sendList, p)
    /\ Move(p, "sendList")
    /\ uc_wiota_send_data(p)
    /\ UNCHANGED <<logicQueue, headState, logicSide, taskVars, inputVars>>

\* Variant: the address is not compared.
ToAny(i) == Unicast
\* The pages a result for device i may be meant for.
To(i) == {p \in Unicast : dest[p] = i}

\* Variant: one transmission too many.
SentOftenLate(p) == headState[p] > MANAGER_MAX_SEND_NUM - 1
SentOften(p) == headState[p] > MANAGER_MAX_SEND_NUM - 2

\* The page at position i of the list is done.
Finish(i, state) ==
    LET p == sendList[i] IN
    /\ sendList' = remove_manager_node(sendList, i)
    /\ headState' = [headState EXCEPT ![p] = state]
    /\ to_queue_logic_data(LogicEntry("SEND_RESULT", p, None))
    /\ UNCHANGED <<tries, radioVars, faults>>

\* The page is sent again and its node moved to the head of the list, or
\* unlinked when there is no memory for the new node.
Resend(i) ==
    LET p == sendList[i] IN
    /\ headState' = [headState EXCEPT ![p] = @ + 1]
    /\ \/ /\ uc_wiota_send_data(p)
          /\ sendList' = remove_head_manager_node(sendList, i)
          /\ UNCHANGED holder
       \/ /\ faults < MaxFault
          /\ faults' = faults + 1
          /\ lossy' = TRUE
          /\ tries' = [tries EXCEPT ![p] = @ + 1]
          /\ onAir' = [onAir EXCEPT ![dest[p]] = @ + 1]
          /\ sendList' = remove_manager_node(sendList, i)
          /\ Move(p, "lost")
          /\ UNCHANGED <<otaAir, acks>>
    /\ UNCHANGED logicQueue

\* The first listed page for the device that the result names takes it,
\* whichever of the device's pages the radio meant.
manager_operate_result ==
    LET e == Head(operationQueue)
        found == query_head_list(sendList, To(e.id))
    IN  /\ OperationReady("MSG_RESULT")
        /\ \/ /\ found = {}
              /\ UNCHANGED <<operationVars, radioVars, logicQueue, holder,
                             lossy, faults>>
           \/ \E i \in found :
                 IF e.ok THEN Finish(i, MANAGER_SEND_SUCCESS)
                 ELSE IF SentOften(sendList[i]) THEN Finish(i, MANAGER_SEND_FAIL)
                 ELSE Resend(i)
        /\ UNCHANGED <<logicSide, taskVars, inputVars>>

\* A blocking broadcast; the page is freed whatever its result.
OperationRadio ==
    /\ OperationReady("RADIO")
    /\ Move(Head(operationQueue).page, "freed")
    /\ UNCHANGED <<logicQueue, faults, lossy, operationSide, logicSide,
                   inputVars>>

\* An OTA broadcast: listed, and given to the radio with a callback.
OperationOtaRadio ==
    LET p == Head(operationQueue).page IN
    /\ OperationReady("OTA_RADIO")
    /\ sendList' = insert_tail_manager_list(sendList, p)
    /\ Move(p, "sendList")
    /\ tries' = [tries EXCEPT ![p] = @ + 1]
    /\ \/ /\ otaAir' = otaAir + 1
          /\ UNCHANGED <<faults, lossy>>
       \/ /\ faults < MaxFault
          /\ faults' = faults + 1
          /\ lossy' = TRUE
          /\ UNCHANGED otaAir
    /\ UNCHANGED <<logicQueue, headState, onAir, acks, logicSide, taskVars,
                   inputVars>>

\* manager_ota_result_msg: the first listed OTA page is done.
manager_ota_result_msg ==
    LET found == query_head_list(sendList, Ota) IN
    /\ OperationReady("OTA_RADIO_RESULT")
    /\ \/ /\ found = {}
          /\ UNCHANGED <<sendList, logicQueue, holder, lossy>>
       \/ \E i \in found :
             /\ sendList' = remove_manager_node(sendList, i)
             /\ to_queue_logic_data(LogicEntry("SEND_RESULT", sendList[i], None))
    /\ UNCHANGED <<faults, headState, tries, radioVars, logicSide, taskVars,
                   inputVars>>

\* MANAGER_OPERATION_EXIT: the loop ends and clean_manager_list frees every
\* listed page; nobody is told.
OperationExit ==
    /\ OperationReady("EXIT")
    /\ phase' = "leaving"
    /\ holder' = [p \in Page |-> IF p \in Range(sendList)
                              THEN "freed" ELSE holder[p]]
    /\ sendList' = <<>>
    /\ lossy' = TRUE
    /\ UNCHANGED <<logicQueue, faults, headState, tries, radioVars, logicSide,
                   heard, restarts, inputVars>>

\* manager_wiota_exit: what the stopped radio still had to send may or may not
\* be reported later.
manager_wiota_exit ==
    /\ phase = "leaving"
    /\ phase' = "scanning"
    /\ \E left \in [Iote -> UNION {0 .. onAir[i] : i \in Iote}] :
          /\ \A i \in Iote : left[i] <= onAir[i]
          /\ onAir' = left
    /\ otaAir' \in 0 .. otaAir
    /\ UNCHANGED <<operationQueue, logicQueue, holder, faults, lossy,
                   operationVars, acks, logicSide, heard, restarts, inputVars>>

\* manager_wiota has found a frequency and started the radio, and
\* manager_operation begins: its list is empty, its timer is started.
OperationStart ==
    /\ phase = "scanning"
    /\ phase' = "running"
    /\ sendList' = <<>>
    /\ to_queue_logic_data(LogicEntry("WIOTA_START", None, None))
    /\ UNCHANGED <<operationQueue, faults, headState, tries, radioVars,
                   logicSide, heard, restarts, inputVars>>

-----------------------------------------------------------------------------
(* The radio's callbacks and the soft timer. *)

manager_send_result(i, ok) ==
    /\ onAir[i] > 0
    /\ onAir' = [onAir EXCEPT ![i] = @ - 1]
    /\ acks' = [acks EXCEPT ![i] = IF ok THEN @ + 1 ELSE @]
    /\ to_operation_wiota_data(OperationEntry("MSG_RESULT", None, i, ok))
    /\ UNCHANGED <<logicQueue, operationVars, otaAir, logicSide, taskVars,
                   inputVars>>

uc_send_radio_ota_callback ==
    /\ otaAir > 0
    /\ otaAir' = otaAir - 1
    /\ to_operation_wiota_data(
          OperationEntry("OTA_RADIO_RESULT", None, None, FALSE))
    /\ UNCHANGED <<logicQueue, operationVars, onAir, acks, logicSide, taskVars,
                   inputVars>>

\* No uplink since the last tick: leave. A tick comes every four minutes and a
\* full queue is worked off in less (four seconds for each broadcast), so the
\* exit of one tick is never still queued at the next.
manager_recv_timer_func ==
    /\ phase = "running"
    /\ \A e \in Range(operationQueue) : e.cmd # "EXIT"
    /\ \/ /\ heard
          /\ heard' = FALSE
          /\ UNCHANGED <<operationQueue, holder, lossy, faults, restarts>>
       \/ /\ ~heard
          /\ restarts < MaxRestart
          /\ restarts' = restarts + 1
          /\ to_operation_wiota_data(
                OperationEntry("EXIT", None, None, FALSE))
          /\ UNCHANGED heard
    /\ UNCHANGED <<logicQueue, operationVars, radioVars, logicSide, phase,
                   inputVars>>

\* passthrough_manager_task takes a message to publish.
NetworkTake ==
    /\ networkQueue # <<>>
    /\ networkQueue' = Tail(networkQueue)
    /\ UNCHANGED <<operationQueue, logicQueue, holder, faults, lossy, unsaid,
                   operationSide, logicVars, inputVars>>

-----------------------------------------------------------------------------
Logic == \/ LogicStart \/ LogicRecv \/ LogicNetwork \/ LogicHttp \/ LogicResult
         \/ manager_send_msg_to_wiota \/ manager_send_packet
Operation == \/ OperationMsg \/ manager_operate_result \/ OperationRadio
             \/ OperationOtaRadio \/ manager_ota_result_msg \/ OperationExit
             \/ manager_wiota_exit \/ OperationStart
Callbacks == \/ \E i \in Iote, ok \in BOOLEAN : manager_send_result(i, ok)
             \/ uc_send_radio_ota_callback
Inputs == \/ \E k \in Packet : NetworkMessage(k)
          \/ \E p \in (Forward \cap Fresh) \cup {None} : manager_recv_data(p)
          \/ HttpMessage

\* Every task waits in manager_recv_queue and the radio has nothing to report.
Waiting == /\ phase = "running"
           /\ operationQueue = <<>> /\ logicQueue = <<>> /\ networkQueue = <<>>
           /\ toServe = <<>> /\ toSend = <<>>
           /\ otaAir = 0 /\ \A i \in Iote : onAir[i] = 0
           /\ UNCHANGED vars

Next == Logic \/ Operation \/ Callbacks \/ Inputs
        \/ manager_recv_timer_func \/ NetworkTake \/ Waiting

Spec == Init /\ [][Next]_vars

\* The tasks run whenever they have work (equal priorities, round robin), and
\* every transmission the radio accepted is reported (its timeout is 10 s).
Fairness == /\ WF_vars(Logic) /\ WF_vars(Operation) /\ WF_vars(NetworkTake)
            /\ \A i \in Iote :
                  WF_vars(\E ok \in BOOLEAN : manager_send_result(i, ok))
            /\ WF_vars(uc_send_radio_ota_callback)
FairSpec == Spec /\ Fairness

-----------------------------------------------------------------------------
(* Properties. *)

OperationMessage ==
    [cmd : {"MSG", "MSG_RESULT", "RADIO", "OTA_RADIO", "OTA_RADIO_RESULT",
            "EXIT"},
     page : Page \cup {None}, id : Iote \cup {None}, ok : BOOLEAN]
LogicMessage ==
    [cmd : {"WIOTA_START", "SEND_RESULT", "RECV_WIOTA_DATA", "FROM_NETWORK",
            "FROM_HTTP"},
     page : Page \cup {None}, packet : Packet \cup {None}]
Verdict == {MANAGER_SEND_SUCCESS, MANAGER_SEND_FAIL}
State == {MANAGER_SEND_DEFAULT} \cup Verdict
Response == [req : Request \cup {None}, result : State \cup {None}]

\* Every variable has its type and no queue exceeds its capacity.
TypeOK ==
    /\ operationQueue \in Seq(OperationMessage)
    /\ Len(operationQueue) <= OperationCap
    /\ logicQueue \in Seq(LogicMessage)
    /\ Len(logicQueue) <= LogicCap
    /\ networkQueue \in Seq(Response)
    /\ Len(networkQueue) <= NetworkCap
    /\ sendList \in Seq(Page)
    /\ toSend \in Seq(Page)
    /\ toServe \in Seq(Request)
    /\ headState \in [Page -> 0 .. MANAGER_MAX_SEND_NUM]
    /\ phase \in {"scanning", "running", "leaving"}
    /\ heard \in BOOLEAN
    /\ onAir \in [Iote -> Nat]
    /\ otaAir \in Nat
    /\ segment \in [Request -> [result : Verdict, left : Int] \cup {None}]
    /\ holder \in [Page -> Place]
    /\ faults \in 0 .. MaxFault
    /\ restarts \in 0 .. MaxRestart
    /\ inputs \in 0 .. MaxInput
    /\ requested \subseteq Packet
    /\ tries \in [Page -> Nat]
    /\ acks \in [Iote -> Nat]
    /\ reported \in [Page -> State]
    /\ answers \in [Request -> Seq(State)]
    /\ lossy \in BOOLEAN /\ unsaid \in BOOLEAN

\* manager_operate_result gives a page to the radio at most
\* MANAGER_MAX_SEND_NUM times, although results of other pages to the same
\* device, late results included, move its counter.
SendBound == \A p \in Page : tries[p] <= MANAGER_MAX_SEND_NUM

\* Every page that an entry of queue s, or a node of list s, points to is held
\* at that place, according to h, and pointed to once.
EntriesOnce(s, h, place) ==
    \A i \in DOMAIN s :
        s[i].page # None =>
            /\ h[s[i].page] = place
            /\ \A j \in DOMAIN s : s[j].page = s[i].page => i = j
NodesOnce(s, h, place) ==
    \A i \in DOMAIN s : /\ h[s[i]] = place
                        /\ \A j \in DOMAIN s : s[j] = s[i] => i = j

\* A page is in one queue, list or task at a time, once, and in none after it
\* was freed: no double free and no use after free by the two tasks, whatever
\* the retries, drops and restarts.
OneHolder ==
    /\ EntriesOnce(operationQueue, holder, "operationQueue")
    /\ EntriesOnce(logicQueue, holder, "logicQueue")
    /\ NodesOnce(sendList, holder, "sendList")
    /\ NodesOnce(toSend, holder, "toSend")

UnicastRequest == Request \ Broadcast

\* The server gets one answer for each device it addressed, after the last of
\* the pages, and it is SUCCESS exactly when no page was reported FAIL.
AnswerSound ==
    \A r \in UnicastRequest :
        answers[r] # <<>> =>
            /\ Len(answers[r]) = 1
            /\ \A p \in PagesOf(r) : reported[p] \in Verdict
            /\ (answers[r][1] = MANAGER_SEND_SUCCESS) <=>
                  (\A p \in PagesOf(r) : reported[p] = MANAGER_SEND_SUCCESS)

\* The request service as the operation and logic tasks provide it.
UnicastServerPage == UNION {PagesOf(r) : r \in UnicastRequest}
Service == INSTANCE RequestService WITH
    Request <- UnicastRequest,
    Page <- UnicastServerPage,
    Pages <- [r \in UnicastRequest |-> PagesOf(r)],
    outcome <- [p \in UnicastServerPage |-> reported[p]],
    answers <- [r \in UnicastRequest |-> answers[r]]

\* The counter that the pages of a message share implements the answer the
\* server is promised, for unicast messages.
ImplementsService == Service!Spec

\* A result is matched by device only, so it may be credited to another page;
\* still no more pages are reported SUCCESS for a device than it acknowledged.
SuccessBacked ==
    \A i \in Iote :
        Cardinality({p \in Unicast : /\ dest[p] = i
                                     /\ reported[p] = MANAGER_SEND_SUCCESS})
            <= acks[i]

ResultsQueued(i) ==
    Cardinality({j \in DOMAIN operationQueue :
                    operationQueue[j].cmd = "MSG_RESULT"
                    /\ operationQueue[j].id = i})
OtaResultsQueued ==
    Cardinality({j \in DOMAIN operationQueue :
                    operationQueue[j].cmd = "OTA_RADIO_RESULT"})

\* As long as nothing was dropped or discarded, every listed page has its own
\* outstanding result: none waits for ever and no result finds the list empty.
ResultForEachListed ==
    ~lossy => /\ \A i \in Iote :
                    Count(sendList, To(i)) = onAir[i] + ResultsQueued(i)
              /\ Count(sendList, Ota) = otaAir + OtaResultsQueued

\* The pages of a request reach the radio in the order of the message: when
\* one has been transmitted, the earlier ones have been too, or were dropped.
FirstSendsInOrder ==
    \A r \in UnicastRequest :
        \A j \in DOMAIN Segments[r] : \A i \in 1 .. j - 1 :
            tries[Segments[r][j]] > 0 =>
                tries[Segments[r][i]] > 0 \/ holder[Segments[r][i]] = "lost"

\* A page is only ever given to the radio by the operation task, from its
\* queue or its list, and never after its result was reported.
TransmitsLivePages ==
    [][\A p \in Page :
          tries'[p] # tries[p] =>
              /\ holder[p] \in {"operationQueue", "sendList"}
              /\ reported[p] = MANAGER_SEND_DEFAULT]_vars

\* Unless something was dropped, refused or discarded by a restart, the server
\* gets its answer for every device it addressed.
EveryRequestAnswered ==
    \A k \in Packet : \A r \in Range(Destinations[k]) :
        (k \in requested) ~> (answers[r] # <<>> \/ lossy)

-----------------------------------------------------------------------------
(* The invariant that the steps preserve: the properties above need to know *)
(* what each queue may hold and what has happened to a page so far.         *)

\* The entries of the two queues are as their senders build them, and the list
\* holds no broadcast page.
OperationKind(e) ==
    /\ e.cmd \in {"MSG", "RADIO", "OTA_RADIO"} =>
          e.page \in Page /\ e.cmd = Command(e.page)
    /\ e.cmd \in {"MSG_RESULT", "OTA_RADIO_RESULT", "EXIT"} => e.page = None
    /\ e.cmd = "MSG_RESULT" => e.id \in Iote
LogicKind(e) ==
    /\ e.cmd = "SEND_RESULT" =>
          /\ e.page \in Page /\ ~IsRadio(e.page)
          /\ headState[e.page] \in State
          /\ e.page \in Unicast => headState[e.page] \in Verdict
    /\ e.cmd = "RECV_WIOTA_DATA" =>
          /\ e.page \in Forward \cup {None}
          /\ e.page # None => tries[e.page] = 0 /\ headState[e.page] = 0
    /\ e.cmd \in {"WIOTA_START", "FROM_NETWORK", "FROM_HTTP"} => e.page = None
    /\ e.cmd = "FROM_NETWORK" => e.packet \in Packet
QueueKinds ==
    /\ \A i \in DOMAIN operationQueue : OperationKind(operationQueue[i])
    /\ \A i \in DOMAIN logicQueue : LogicKind(logicQueue[i])
    /\ \A p \in Range(sendList) : ~IsRadio(p)

\* A page not yet given to the radio has its initial state; a listed one was
\* sent once more than its counter says.
Counter(p) ==
    /\ holder[p] \in {"fresh", "toSend", "operationQueue"} =>
          tries[p] = 0 /\ headState[p] = 0
    /\ holder[p] = "sendList" =>
          IF p \in Ota
          THEN headState[p] = 0 /\ tries[p] = 1
          ELSE /\ tries[p] = headState[p] + 1
               /\ headState[p] <= MANAGER_MAX_SEND_NUM - 1
    /\ tries[p] <= MANAGER_MAX_SEND_NUM
SendCounter == \A p \in Page : Counter(p)

\* The pages of a request that was not started are not allocated.
Unserved(r) == \A p \in PagesOf(r) : holder[p] = "fresh"

\* The packets in a queue of the logic task; each is there once.
Posted(s) == {s[i].packet : i \in {j \in DOMAIN s : s[j].cmd = "FROM_NETWORK"}}
PostedOnce(s) ==
    \A i, j \in DOMAIN s :
        /\ s[i].cmd = "FROM_NETWORK" /\ s[j].cmd = "FROM_NETWORK"
        /\ s[i].packet = s[j].packet
        => i = j

\* Every request is started at most once.
RequestsOnce ==
    /\ IsInjective(toServe)
    /\ \A r \in Range(toServe) : Unserved(r)
    /\ PostedOnce(logicQueue)
    /\ Posted(logicQueue) \subseteq requested
    /\ \A k \in Posted(logicQueue) \cup (Packet \ requested) :
          \A r \in Range(Destinations[k]) : Unserved(r) /\ r \notin Range(toServe)

\* The inductive invariant behind SendBound and OneHolder.
PageInv == TypeOK /\ QueueKinds /\ OneHolder /\ SendCounter /\ RequestsOnce

=============================================================================
