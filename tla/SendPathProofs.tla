--------------------------- MODULE SendPathProofs ---------------------------
(***************************************************************************)
(* Proofs about SendPath for every set of pages, requests and devices and  *)
(* every capacity and bound, on the step lemmas of SendPathPages.          *)
(*                                                                         *)
(* PageInv is inductive: no page is sent more than MANAGER_MAX_SEND_NUM    *)
(* times (SendBound), none is held twice or after it was freed (OneHolder).*)
(* OrderInv follows two pages of a message through the queues, so that     *)
(* the later one is never ahead (FirstSendsInOrder). AnswerInv ties the    *)
(* counters of a request to the results of its pages: every answer is the  *)
(* right one and given once (AnswerSound), the radio only gets live pages  *)
(* (TransmitsLivePages), and the send path implements RequestService.      *)
(* CountInv counts results and pages: every success is backed by an        *)
(* acknowledgement (SuccessBacked), and until something is lost every      *)
(* listed page has a result to come (ResultForEachListed).                 *)
(***************************************************************************)
EXTENDS SendPathPages, TLAPS

-----------------------------------------------------------------------------
(* Every request is started once. *)

\* The packets posted to the logic task.
LEMMA PostedFact ==
    ASSUME NEW E, NEW s \in Seq(E), PostedOnce(s)
    PROVE  /\ s # <<>> => PostedOnce(Tail(s)) /\ Posted(Tail(s)) \subseteq Posted(s)
           /\ s # <<>> /\ Head(s).cmd = "FROM_NETWORK" =>
                 Head(s).packet \in Posted(s) \ Posted(Tail(s))
           /\ \A e \in E : e.cmd # "FROM_NETWORK" =>
                 /\ PostedOnce(Append(s, e))
                 /\ Posted(Append(s, e)) = Posted(s)
           /\ \A e \in E : e.packet \notin Posted(s) =>
                 /\ PostedOnce(Append(s, e))
                 /\ Posted(Append(s, e)) \subseteq Posted(s) \cup {e.packet}
<1>1. ASSUME s # <<>>
      PROVE  /\ PostedOnce(Tail(s)) /\ Posted(Tail(s)) \subseteq Posted(s)
             /\ Head(s).cmd = "FROM_NETWORK" =>
                   Head(s).packet \in Posted(s) \ Posted(Tail(s))
  <2>1. /\ DOMAIN s = 1 .. Len(s) /\ Len(s) \in Nat \ {0}
        /\ DOMAIN Tail(s) = 1 .. Len(s) - 1 /\ Head(s) = s[1]
        /\ \A i \in 1 .. Len(s) - 1 : Tail(s)[i] = s[i + 1]
    BY <1>1, TailFact
  <2>2. PostedOnce(Tail(s))
    BY <2>1 DEF PostedOnce
  <2>3. Posted(Tail(s)) \subseteq Posted(s)
    BY <2>1 DEF Posted
  <2>4. Head(s).cmd = "FROM_NETWORK" =>
           Head(s).packet \in Posted(s) \ Posted(Tail(s))
    BY <2>1 DEF Posted, PostedOnce
  <2>5. QED
    BY Zenon, <2>2, <2>3, <2>4
<1>2. ASSUME NEW e \in E
      PROVE  /\ e.cmd # "FROM_NETWORK" =>
                   /\ PostedOnce(Append(s, e))
                   /\ Posted(Append(s, e)) = Posted(s)
             /\ e.packet \notin Posted(s) =>
                   /\ PostedOnce(Append(s, e))
                   /\ Posted(Append(s, e)) \subseteq Posted(s) \cup {e.packet}
  <2> DEFINE t == Append(s, e)
  <2>1. /\ DOMAIN s = 1 .. Len(s) /\ Len(s) \in Nat
        /\ DOMAIN t = 1 .. Len(s) + 1 /\ t[Len(s) + 1] = e
        /\ \A i \in 1 .. Len(s) : t[i] = s[i]
    BY AppendFact
  <2> HIDE DEF t
  <2>2. \A i \in DOMAIN t : (t[i] = e /\ i = Len(s) + 1)
                        \/ (i \in DOMAIN s /\ t[i] = s[i])
    BY <2>1
  <2>3. DOMAIN s \subseteq DOMAIN t /\ \A i \in DOMAIN s : t[i] = s[i]
    BY <2>1
  <2>4. e.cmd # "FROM_NETWORK" => PostedOnce(t)
    BY Zenon, <2>2 DEF PostedOnce
  <2>5. e.cmd # "FROM_NETWORK" => Posted(t) = Posted(s)
    BY Zenon, <2>2, <2>3 DEF Posted
  <2>6. e.packet \notin Posted(s) => PostedOnce(t)
    BY Zenon, <2>2 DEF PostedOnce, Posted
  <2>7. Posted(t) \subseteq Posted(s) \cup {e.packet}
    BY Zenon, <2>2 DEF Posted
  <2>8. QED
    BY Zenon, <2>4, <2>5, <2>6, <2>7 DEF t
<1>3. QED
  BY Zenon, <1>1, <1>2

\* Steps that start no request and post none.
LEMMA RequestsFrame ==
    ASSUME TypeOK, RequestsOnce, UNCHANGED <<toServe, requested>>,
           \A p \in Page : Stays(p),
           \/ logicQueue' = logicQueue
           \/ logicQueue # <<>> /\ logicQueue' = Tail(logicQueue)
           \/ \E e \in LogicMessage : /\ e.cmd # "FROM_NETWORK"
                                      /\ logicQueue' = Append(logicQueue, e)
    PROVE  RequestsOnce'
<1>0. ~manager_send_msg_to_wiota
  <2>1. toServe # <<>> => Tail(toServe) # toServe
    BY TailFact DEF TypeOK
  <2>2. QED
    BY Zenon, <2>1 DEF manager_send_msg_to_wiota
<1>1. ASSUME NEW r \in Request, Unserved(r) PROVE Unserved(r)'
  BY Zenon, <1>0, <1>1, PageKinds DEF Unserved, Stays
<1>2. /\ Range(toServe) \subseteq Request /\ logicQueue \in Seq(LogicMessage)
      /\ \A k \in Packet : Range(Destinations[k]) \subseteq Request
      /\ requested \subseteq Packet
  <2>1. /\ toServe \in Seq(Request) /\ logicQueue \in Seq(LogicMessage)
        /\ requested \subseteq Packet
    BY Zenon DEF TypeOK
  <2>2. Range(toServe) \subseteq Request
    BY Zenon, <2>1, RangeFact
  <2>3. QED
    BY Zenon, <2>1, <2>2, RequestKinds
<1>3. PostedOnce(logicQueue') /\ Posted(logicQueue') \subseteq Posted(logicQueue)
  <2>1. PostedOnce(logicQueue)
    BY Zenon DEF RequestsOnce
  <2>2. CASE logicQueue' = logicQueue
    BY Zenon, <2>1, <2>2
  <2>3. CASE logicQueue # <<>> /\ logicQueue' = Tail(logicQueue)
    BY Zenon, <1>2, <2>1, <2>3, PostedFact
  <2>4. CASE \E e \in LogicMessage : /\ e.cmd # "FROM_NETWORK"
                                     /\ logicQueue' = Append(logicQueue, e)
    <3>1. PICK e \in LogicMessage : /\ e.cmd # "FROM_NETWORK"
                                    /\ logicQueue' = Append(logicQueue, e)
      BY Zenon, <2>4
    <3>2. /\ PostedOnce(Append(logicQueue, e))
          /\ Posted(Append(logicQueue, e)) = Posted(logicQueue)
      BY <1>2, <2>1, <3>1, PostedFact
    <3>3. QED
      BY Zenon, <3>1, <3>2
  <2>5. QED
    BY Zenon, <2>2, <2>3, <2>4
<1>4. \A k \in Posted(logicQueue') \cup (Packet \ requested') :
          \A r \in Range(Destinations[k]) : Unserved(r)' /\ r \notin Range(toServe')
  BY Zenon, <1>1, <1>2, <1>3 DEF RequestsOnce
<1>5. (\A r \in Range(toServe) : Unserved(r))'
  BY Zenon, <1>1, <1>2 DEF RequestsOnce
<1>6. IsInjective(toServe') /\ Posted(logicQueue') \subseteq requested'
  BY Zenon, <1>3 DEF RequestsOnce
<1>7. QED
  BY Zenon, <1>3, <1>4, <1>5, <1>6 DEF RequestsOnce

\* manager_wiota_task starts a request only once.
LEMMA LogicRequests ==
    ASSUME TypeOK, QueueKinds, OneHolder, RequestsOnce, Logic
    PROVE  RequestsOnce'
<1> USE DEF operationVars, operationSide, inputVars, logicVars, logicSide
<1>0. requested' = requested
  BY Zenon DEF Logic, LogicStart, LogicRecv, LogicNetwork, LogicHttp, LogicResult,
         manager_send_msg_to_wiota, manager_send_packet
<1>1. CASE \/ LogicStart \/ LogicRecv \/ LogicHttp \/ LogicResult
  <2>1. /\ toServe' = toServe
        /\ logicQueue # <<>> /\ logicQueue' = Tail(logicQueue)
    BY Zenon, <1>1 DEF LogicStart, LogicRecv, LogicHttp, LogicResult, LogicReady
  <2>2. QED
    BY Zenon, <1>0, <2>1, LogicPath, PathStays, RequestsFrame
<1>2. CASE LogicNetwork
  <2>1. PICK k : k = Head(logicQueue).packet
    BY Zenon
  <2>2. /\ k \in Packet /\ logicQueue # <<>> /\ logicQueue' = Tail(logicQueue)
        /\ toServe' = Destinations[k] /\ holder' = holder
        /\ toServe = <<>> /\ Head(logicQueue).cmd = "FROM_NETWORK"
    BY Zenon, <1>2, <2>1, LogicTaken DEF LogicNetwork, LogicReady
  <2>3. logicQueue \in Seq(LogicMessage) /\ PostedOnce(logicQueue)
    BY Zenon DEF TypeOK, RequestsOnce
  <2>4. /\ PostedOnce(logicQueue') /\ Posted(logicQueue') \subseteq Posted(logicQueue)
        /\ k \in Posted(logicQueue) /\ k \notin Posted(logicQueue')
    BY Zenon, <2>1, <2>2, <2>3, PostedFact
  <2>5. /\ Posted(logicQueue) \subseteq requested /\ requested \subseteq Packet
        /\ \A l \in Posted(logicQueue) \cup (Packet \ requested) :
              \A r \in Range(Destinations[l]) : Unserved(r)
    BY Zenon DEF RequestsOnce, TypeOK
  <2>6. \A r : Unserved(r) => Unserved(r)'
    BY Zenon, <2>2 DEF Unserved
  <2>7. /\ IsInjective(toServe') /\ Posted(logicQueue') \subseteq requested'
        /\ (\A r \in Range(toServe) : Unserved(r))'
    BY Zenon, <1>0, <2>2, <2>4, <2>5, <2>6, RequestKinds
  <2>8. \A l \in Posted(logicQueue') \cup (Packet \ requested') :
           l # k /\ l \in Packet
    BY Zenon, <1>0, <2>4, <2>5
  <2>9. \A l \in Posted(logicQueue') \cup (Packet \ requested') :
           \A r \in Range(Destinations[l]) : Unserved(r)' /\ r \notin Range(toServe')
    BY Zenon, <1>0, <2>2, <2>4, <2>5, <2>6, <2>8, RequestKinds
  <2>10. QED
    BY Zenon, <2>4, <2>7, <2>9 DEF RequestsOnce
<1>3. CASE manager_send_msg_to_wiota
  <2>1. PICK r : r = Head(toServe)
    BY Zenon
  <2>2. /\ toServe # <<>> /\ toServe' = Tail(toServe) /\ logicQueue' = logicQueue
        /\ holder' = [p \in Page |-> IF p \in PagesOf(r)
                                     THEN "toSend" ELSE holder[p]]
    BY Zenon, <1>3, <2>1 DEF manager_send_msg_to_wiota
  <2>3. toServe \in Seq(Request) /\ IsInjective(toServe)
    BY Zenon DEF TypeOK, RequestsOnce
  <2>4. /\ DOMAIN toServe = 1 .. Len(toServe) /\ Len(toServe) \in Nat \ {0}
        /\ DOMAIN Tail(toServe) = 1 .. Len(toServe) - 1 /\ r = toServe[1]
        /\ \A i \in 1 .. Len(toServe) - 1 : Tail(toServe)[i] = toServe[i + 1]
        /\ r \in Request
    BY <2>1, <2>2, <2>3, TailFact
  <2>5. /\ IsInjective(Tail(toServe)) /\ r \notin Range(Tail(toServe))
        /\ Range(Tail(toServe)) \subseteq Range(toServe) /\ r \in Range(toServe)
        /\ Range(toServe) \subseteq Request
    BY <2>3, <2>4 DEF IsInjective, Range
  <2>6. ASSUME NEW q \in Request, q # r, Unserved(q) PROVE Unserved(q)'
    BY Zenon, <2>2, <2>4, <2>6, RequestKinds, PageKinds DEF Unserved
  <2>7. (\A q \in Range(toServe) : Unserved(q))'
    BY Zenon, <2>2, <2>5, <2>6 DEF RequestsOnce
  <2>8. /\ requested \subseteq Packet /\ Posted(logicQueue) \subseteq requested
        /\ \A k \in Packet : Range(Destinations[k]) \subseteq Request
    BY Zenon, RequestKinds DEF RequestsOnce, TypeOK
  <2>9. \A k \in Posted(logicQueue') \cup (Packet \ requested') :
           \A q \in Range(Destinations[k]) : Unserved(q)' /\ q \notin Range(toServe')
    BY Zenon, <1>0, <2>2, <2>5, <2>6, <2>8 DEF RequestsOnce
  <2>10. QED
    BY Zenon, <1>0, <2>2, <2>5, <2>7, <2>9 DEF RequestsOnce
<1>4. CASE manager_send_packet
  <2>1. toServe' = toServe /\ logicQueue' = logicQueue
    BY Zenon, <1>4 DEF manager_send_packet
  <2>2. QED
    BY Zenon, <1>0, <2>1, LogicPath, PathStays, RequestsFrame
<1>5. QED
  BY Zenon, <1>1, <1>2, <1>3, <1>4 DEF Logic

\* manager_operation starts no request.
LEMMA OperationRequests ==
    ASSUME TypeOK, QueueKinds, OneHolder, RequestsOnce, Operation
    PROVE  RequestsOnce'
<1> USE DEF operationVars, radioVars, logicVars, taskVars, inputVars, logicSide,
            operationSide
<1>0. UNCHANGED <<toServe, requested>>
  BY Zenon DEF Operation, OperationMsg, manager_operate_result, OperationRadio,
         OperationOtaRadio, manager_ota_result_msg, OperationExit,
         manager_wiota_exit, OperationStart
<1>1. \A p \in Page : Stays(p)
  BY Zenon, OperationPath, PathStays
<1>2. ASSUME NEW p \in Page \cup {None}, NEW cmd \in {"SEND_RESULT", "WIOTA_START"},
             to_queue_logic_data(LogicEntry(cmd, p, None))
      PROVE  RequestsOnce'
  <2> DEFINE e == LogicEntry(cmd, p, None)
  <2>1. e \in LogicMessage /\ e.cmd # "FROM_NETWORK"
    BY Zenon DEF LogicEntry, LogicMessage
  <2>2. logicQueue' = logicQueue \/ logicQueue' = Append(logicQueue, e)
    BY Zenon, <1>2 DEF to_queue_logic_data
  <2>3. QED
    BY Zenon, <1>0, <1>1, <2>1, <2>2, RequestsFrame
<1>3. CASE logicQueue' = logicQueue
  BY Zenon, <1>0, <1>1, <1>3, RequestsFrame
<1>4. CASE OperationMsg \/ OperationOtaRadio \/ OperationRadio \/ OperationExit
           \/ manager_wiota_exit
  BY Zenon, <1>3, <1>4 DEF OperationMsg, OperationOtaRadio, OperationRadio, OperationExit,
                    manager_wiota_exit
<1>5. CASE manager_operate_result
  <2>1. ASSUME NEW i \in 1 .. Len(sendList), TakesResult(i)
        PROVE  RequestsOnce'
    BY Zenon, <1>2, <1>3, <2>1 DEF TakesResult, Finish, Resend
  <2>2. QED
    BY Zenon, <1>3, <1>5, <2>1, ResultCases
<1>6. CASE manager_ota_result_msg
  <2>1. ASSUME NEW i \in 1 .. Len(sendList), TakesOtaResult(i)
        PROVE  RequestsOnce'
    BY Zenon, <1>2, <2>1 DEF TakesOtaResult
  <2>2. QED
    BY Zenon, <1>3, <1>6, <2>1, OtaResultCases
<1>7. CASE OperationStart
  BY Zenon, <1>2, <1>7 DEF OperationStart
<1>8. QED
  BY Zenon, <1>4, <1>5, <1>6, <1>7 DEF Operation

\* The callbacks, the timer and the network task start no request.
LEMMA OutsideRequests ==
    ASSUME TypeOK, RequestsOnce,
           Callbacks \/ Inputs \/ manager_recv_timer_func \/ NetworkTake
    PROVE  RequestsOnce'
<1> USE DEF operationVars, radioVars, logicVars, logicSide, operationSide,
            inputVars, taskVars
<1>1. CASE Callbacks \/ manager_recv_timer_func \/ NetworkTake
  <2>1. UNCHANGED <<logicQueue, toServe, requested>>
    BY Zenon, <1>1 DEF Callbacks, manager_send_result, uc_send_radio_ota_callback,
                manager_recv_timer_func, NetworkTake
  <2>2. QED
    BY Zenon, <2>1, OutsidePath, PathStays, RequestsFrame
<1>2. ASSUME NEW p \in Page \cup {None}, NEW cmd \in {"FROM_HTTP", "RECV_WIOTA_DATA"},
             to_queue_logic_data(LogicEntry(cmd, p, None)),
             UNCHANGED <<toServe, requested>>
      PROVE  RequestsOnce'
  <2> DEFINE e == LogicEntry(cmd, p, None)
  <2>1. e \in LogicMessage /\ e.cmd # "FROM_NETWORK"
    BY Zenon DEF LogicEntry, LogicMessage
  <2>2. logicQueue' = logicQueue \/ logicQueue' = Append(logicQueue, e)
    BY Zenon, <1>2 DEF to_queue_logic_data
  <2>3. QED
    BY Zenon, <1>2, <2>1, <2>2, OutsidePath, PathStays, RequestsFrame
<1>3. ASSUME HttpMessage \/ \E p \in (Forward \cap Fresh) \cup {None} : manager_recv_data(p)
      PROVE  RequestsOnce'
  BY Zenon, <1>2, <1>3 DEF HttpMessage, manager_recv_data, Fresh
<1>4. ASSUME NEW k \in Packet, NetworkMessage(k)
      PROVE  RequestsOnce'
  <2> DEFINE e == LogicEntry("FROM_NETWORK", None, k)
  <2>1. e \in LogicMessage /\ e.packet = k /\ e.page = None
    BY Zenon DEF LogicEntry, LogicMessage
  <2>2. /\ logicQueue' = logicQueue \/ logicQueue' = Append(logicQueue, e)
        /\ UNCHANGED <<toServe, holder>>
        /\ k \notin requested /\ requested' = requested \cup {k}
    BY Zenon, <1>4, <2>1 DEF NetworkMessage, to_queue_logic_data, Move
  <2>3. /\ logicQueue \in Seq(LogicMessage) /\ PostedOnce(logicQueue)
        /\ Posted(logicQueue) \subseteq requested /\ requested \subseteq Packet
    BY Zenon DEF TypeOK, RequestsOnce
  <2>4. /\ PostedOnce(logicQueue')
        /\ Posted(logicQueue') \subseteq Posted(logicQueue) \cup {k}
    <3>1. /\ PostedOnce(Append(logicQueue, e))
          /\ Posted(Append(logicQueue, e)) \subseteq Posted(logicQueue) \cup {k}
      <4>1. e.packet = k /\ k \notin Posted(logicQueue)
        BY Zenon, <2>1, <2>2, <2>3
      <4>2. QED
        BY <2>1, <2>3, <4>1, PostedFact
    <3>2. QED
      BY Zenon, <2>2, <2>3, <3>1
  <2>5. \A r : Unserved(r) => Unserved(r)'
    BY Zenon, <2>2 DEF Unserved
  <2>6. \A l \in Posted(logicQueue') \cup (Packet \ requested') :
           \A r \in Range(Destinations[l]) : Unserved(r)' /\ r \notin Range(toServe')
    BY Zenon, <2>2, <2>3, <2>4, <2>5 DEF RequestsOnce
  <2>7. /\ IsInjective(toServe') /\ Posted(logicQueue') \subseteq requested'
        /\ (\A r \in Range(toServe) : Unserved(r))'
    BY Zenon, <2>2, <2>3, <2>4, <2>5 DEF RequestsOnce
  <2>8. QED
    BY Zenon, <2>4, <2>6, <2>7 DEF RequestsOnce
<1>5. QED
  BY Zenon, <1>1, <1>2, <1>3, <1>4 DEF Inputs

\* No step starts a request twice.
LEMMA RequestsStep ==
    ASSUME TypeOK, QueueKinds, OneHolder, RequestsOnce, [Next]_vars
    PROVE  RequestsOnce'
<1>1. CASE UNCHANGED vars \/ Waiting
  <2>1. UNCHANGED <<logicQueue, holder, toServe, requested>>
    BY Zenon, <1>1 DEF Waiting, vars, logicVars, inputVars
  <2>2. QED
    BY Zenon, <2>1, PageMoves, RequestsFrame
<1>2. QED
  BY Zenon, <1>1, LogicRequests, OperationRequests, OutsideRequests DEF Next

-----------------------------------------------------------------------------
(* The theorems. *)

\* The invariant holds when the tasks start.
LEMMA PageInit == Init => PageInv
<1> SUFFICES ASSUME Init PROVE PageInv
  BY Zenon
<1>1. TypeOK
  BY Zenon, TypeInit
<1>2. QueueKinds /\ OneHolder
  <2>1. /\ operationQueue = <<>> /\ logicQueue = <<>> /\ sendList = <<>>
        /\ toSend = <<>>
    BY Zenon DEF Init
  <2>2. QueueKinds
    BY <2>1 DEF QueueKinds, Range
  <2>3. OneHolder
    BY <2>1 DEF OneHolder, EntriesOnce, NodesOnce
  <2>4. QED
    BY Zenon, <2>2, <2>3
<1>3. SendCounter
  BY BoundAssumption DEF Init, SendCounter, Counter, MANAGER_SEND_DEFAULT
<1>4. RequestsOnce
  <2>1. /\ toServe = <<>> /\ logicQueue = <<>> /\ requested = {}
        /\ \A p \in Page : holder[p] = "fresh"
    BY Zenon DEF Init
  <2>2. Range(toServe) = {} /\ Posted(logicQueue) = {} /\ PostedOnce(logicQueue)
        /\ IsInjective(toServe)
    BY <2>1 DEF Range, Posted, PostedOnce, IsInjective
  <2>3. \A r \in Request : Unserved(r)
    BY Zenon, <2>1, PageKinds DEF Unserved
  <2>4. QED
    BY Zenon, <2>1, <2>2, <2>3, RequestKinds DEF RequestsOnce
<1>5. QED
  BY Zenon, <1>1, <1>2, <1>3, <1>4 DEF PageInv

\* Every step preserves it.
LEMMA PageStep == PageInv /\ [Next]_vars => PageInv'
<1> SUFFICES ASSUME PageInv, [Next]_vars PROVE PageInv'
  BY Zenon
<1>1. TypeOK /\ QueueKinds /\ OneHolder /\ SendCounter /\ RequestsOnce
  BY Zenon DEF PageInv
<1>2. TypeOK'
  BY Zenon, <1>1, TypeStep
<1>3. QueueKinds'
  BY Zenon, <1>1, KindsStep
<1>4. OneHolder'
  BY Zenon, <1>1, HolderStep
<1>5. SendCounter'
  BY Zenon, <1>1, CounterStep
<1>6. RequestsOnce'
  BY Zenon, <1>1, RequestsStep
<1>7. QED
  BY Zenon, <1>2, <1>3, <1>4, <1>5, <1>6 DEF PageInv

\* The invariant of the send path: every queue and list holds what its senders
\* put there, every page is held once, its counter and the number of its
\* transmissions agree, and no request is started twice.
THEOREM PageInvariant == Spec => []PageInv
<1>1. Init => PageInv
  BY Zenon, PageInit
<1>2. PageInv /\ [Next]_vars => PageInv'
  BY Zenon, PageStep
<1>3. QED
  BY <1>1, <1>2, PTL DEF Spec

\* Every variable keeps its type and every queue its capacity.
THEOREM TypeCorrect == Spec => []TypeOK
<1>1. PageInv => TypeOK
  BY Zenon DEF PageInv
<1>2. QED
  BY <1>1, PageInvariant, PTL

\* No page is given to the radio more than MANAGER_MAX_SEND_NUM times.
THEOREM SendsBounded == Spec => []SendBound
<1>1. PageInv => SendBound
  BY Zenon DEF PageInv, SendCounter, Counter, SendBound
<1>2. QED
  BY <1>1, PageInvariant, PTL

\* No page is held twice, and none is held after it was freed.
THEOREM HeldOnce == Spec => []OneHolder
<1>1. PageInv => OneHolder
  BY Zenon DEF PageInv
<1>2. QED
  BY <1>1, PageInvariant, PTL

-----------------------------------------------------------------------------
(* The order of the pages of a message. *)

\* p is an earlier page than q of the same unicast message.
Before(p, q) ==
    \E r \in UnicastRequest : \E j \in DOMAIN Segments[r] : \E i \in 1 .. j - 1 :
        p = Segments[r][i] /\ q = Segments[r][j]

\* A page held by the loop of manager_send_packet or by the operation queue is
\* to be found there.
Found(p) ==
    /\ holder[p] = "toSend" => p \in Range(toSend)
    /\ holder[p] = "operationQueue" => InQueue(p)

\* A page of a unicast message was sent before it could get a result.
SentFirst(p) ==
    p \in UnicastServerPage /\ holder[p] \in {"sendList", "logicQueue", "freed"} =>
        tries[p] > 0

\* The later page q is never ahead of p.
InOrder(p, q) ==
    /\ holder[p] = "fresh" => holder[q] = "fresh"
    /\ holder[q] = "operationQueue" \/ tries[q] > 0 => holder[p] # "toSend"
    /\ \A i, j \in DOMAIN toSend : toSend[i] = p /\ toSend[j] = q => i < j
    /\ \A i, j \in DOMAIN operationQueue :
          operationQueue[i].page = p /\ operationQueue[j].page = q => i < j
    /\ tries[q] > 0 => tries[p] > 0 \/ holder[p] = "lost"

OrderInv ==
    /\ PageInv
    /\ \A p \in Page : Found(p) /\ SentFirst(p)
    /\ \A p, q \in Page : Before(p, q) => InOrder(p, q)

\* Two pages of a message differ, and no other message has either.
LEMMA BeforeFact ==
    ASSUME NEW p, NEW q, Before(p, q)
    PROVE  /\ p \in UnicastServerPage /\ q \in UnicastServerPage /\ p # q
           /\ p \in ServerPage \cap Page /\ q \in ServerPage \cap Page
           /\ p \notin Forward /\ q \notin Forward /\ ~IsRadio(p) /\ ~IsRadio(q)
           /\ \A r \in Request : q \in PagesOf(r) => p \in PagesOf(r)
           /\ \A r \in Request : \A i, j \in DOMAIN Segments[r] :
                 Segments[r][i] = p /\ Segments[r][j] = q => i < j
<1>1. PICK r \in UnicastRequest :
         \E j \in DOMAIN Segments[r] : \E i \in 1 .. j - 1 :
            p = Segments[r][i] /\ q = Segments[r][j]
  BY Zenon DEF Before
<1>2. /\ r \in Request /\ r \notin Broadcast /\ Segments[r] \in Seq(Page)
      /\ IsInjective(Segments[r])
  BY Zenon, PageAssumption DEF UnicastRequest
<1>3. PICK i, j \in DOMAIN Segments[r] :
         i < j /\ i \in Nat /\ j \in Nat /\ p = Segments[r][i] /\ q = Segments[r][j]
  BY <1>1, <1>2
<1>4. p \in PagesOf(r) /\ q \in PagesOf(r)
  BY Zenon, <1>3 DEF PagesOf, Range
<1>5. p # q
  BY <1>2, <1>3 DEF IsInjective
<1>6. \A x \in PagesOf(r) : /\ x \in UnicastServerPage /\ x \in ServerPage \cap Page
                            /\ x \notin Forward /\ requestOf(x) = r
  <2> SUFFICES ASSUME NEW x \in PagesOf(r)
               PROVE  /\ x \in UnicastServerPage /\ x \in ServerPage \cap Page
                      /\ x \notin Forward /\ requestOf(x) = r
    BY Zenon
  <2>1. x \in UnicastServerPage
    BY Zenon DEF UnicastServerPage
  <2>2. /\ x \in ServerPage \cap Page
        /\ requestOf(x) \in Request /\ x \in PagesOf(requestOf(x))
    BY Zenon, <1>2, PageKinds
  <2>3. QED
    BY Zenon, <1>2, <2>1, <2>2, PageAssumption
<1>7. \A s \in Request : s # r => p \notin PagesOf(s) /\ q \notin PagesOf(s)
  BY Zenon, <1>2, <1>4, PageAssumption
<1>8. \A k, l \in DOMAIN Segments[r] : Segments[r][k] = p /\ Segments[r][l] = q => k < l
  BY Zenon, <1>2, <1>3 DEF IsInjective
<1>9. \A s \in Request : \A k, l \in DOMAIN Segments[s] :
         Segments[s][k] = p /\ Segments[s][l] = q => k < l
  BY Zenon, <1>7, <1>8 DEF PagesOf, Range
<1>10. QED
  BY Zenon, <1>2, <1>4, <1>5, <1>6, <1>7, <1>9 DEF IsRadio

\* A page is found where it is held.
LEMMA FoundStep ==
    ASSUME PageInv, [Next]_vars, NEW p \in Page, Found(p)
    PROVE  Found(p)'
<1>1. /\ Path(p) /\ TypeOK /\ QueueKinds /\ OneHolder
      /\ toSend \in Seq(Page) /\ operationQueue \in Seq(OperationMessage)
  BY Zenon, PagePath DEF PageInv, TypeOK
<1>2. ASSUME holder'[p] = "toSend" PROVE p \in Range(toSend')
  <2>1. CASE holder[p] # "toSend"
    BY Zenon, <1>1, <1>2, <2>1 DEF Path, Rests, Passes, Sent, Resent, Done
  <2>2. CASE holder[p] = "toSend"
    <3>1. PICK i \in 1 .. Len(toSend) : toSend[i] = p
      BY <1>1, <2>2 DEF Found, Range
    <3>2. CASE /\ toSend # <<>> /\ toSend' = Tail(toSend)
               /\ holder'[Head(toSend)] # "toSend"
      <4>1. i # 1
        BY Zenon, <1>1, <1>2, <3>1, <3>2, TailFact
      <4>2. i - 1 \in DOMAIN toSend' /\ toSend'[i - 1] = p
        BY <1>1, <3>1, <3>2, <4>1
      <4>3. QED
        BY Zenon, <4>2 DEF Range
    <3>3. CASE toSend' = toSend
      BY Zenon, <2>2, <3>3 DEF Found
    <3>4. CASE toSend = <<>>
      BY <3>1, <3>4
    <3>5. QED
      BY Zenon, <1>1, <3>2, <3>3, <3>4, ToSendStep
  <2>3. QED
    BY Zenon, <2>1, <2>2
<1>3. ASSUME holder'[p] = "operationQueue" PROVE InQueue(p)'
  <2>1. CASE holder[p] # "operationQueue"
    BY Zenon, <1>1, <1>3, <2>1 DEF Path, Rests, Passes, Sent, Resent, Done
  <2>2. CASE holder[p] = "operationQueue"
    <3>1. PICK i \in 1 .. Len(operationQueue) : operationQueue[i].page = p
      BY <1>1, <2>2 DEF Found, InQueue
    <3>2. CASE operationQueue' = operationQueue
      BY Zenon, <2>2, <3>2 DEF Found, InQueue
    <3>3. CASE /\ operationQueue # <<>> /\ operationQueue' = Tail(operationQueue)
               /\ \A q \in Page : q = Head(operationQueue).page =>
                                      holder'[q] # "operationQueue"
      <4>1. i # 1
        BY Zenon, <1>1, <1>3, <3>1, <3>3, TailFact
      <4>2. i - 1 \in DOMAIN operationQueue' /\ operationQueue'[i - 1].page = p
        BY <1>1, <3>1, <3>3, <4>1
      <4>3. QED
        BY Zenon, <4>2 DEF InQueue
    <3>4. ASSUME NEW e \in OperationMessage, operationQueue' = Append(operationQueue, e)
          PROVE  InQueue(p)'
      <4>1. i \in DOMAIN operationQueue' /\ operationQueue'[i] = operationQueue[i]
        BY <1>1, <3>1, <3>4
      <4>2. QED
        BY Zenon, <3>1, <4>1 DEF InQueue
    <3>5. QED
      BY Zenon, <1>1, <3>2, <3>3, <3>4, OperationQueueStep
  <2>3. QED
    BY Zenon, <2>1, <2>2
<1>4. QED
  BY Zenon, <1>2, <1>3 DEF Found

\* A page of a unicast message that got its result had been sent.
LEMMA SentFirstStep ==
    ASSUME PageInv, [Next]_vars, NEW p \in Page, SentFirst(p)
    PROVE  SentFirst(p)'
<1> SUFFICES ASSUME p \in UnicastServerPage,
                    holder'[p] \in {"sendList", "logicQueue", "freed"}
             PROVE  tries'[p] > 0
  BY Zenon DEF SentFirst
<1>1. Path(p) /\ Counter(p) /\ tries[p] \in Nat /\ headState[p] \in Nat
  BY PagePath DEF PageInv, TypeOK, SendCounter
<1>2. p \in ServerPage /\ p \notin Forward /\ ~IsRadio(p)
  <2>1. PICK r \in UnicastRequest : p \in PagesOf(r)
    BY Zenon DEF UnicastServerPage
  <2>2. p \in ServerPage /\ requestOf(p) \in Request /\ p \in PagesOf(requestOf(p))
    BY Zenon, <2>1, PageKinds DEF UnicastRequest
  <2>3. QED
    BY Zenon, <2>1, <2>2, PageAssumption DEF IsRadio, UnicastRequest
<1>3. CASE Rests(p) \/ Done(p)
  BY Zenon, <1>1, <1>3 DEF Rests, Done, SentFirst
<1>4. CASE Passes(p)
  BY Zenon, <1>1, <1>2, <1>4 DEF Passes, SentFirst
<1>5. CASE Sent(p) \/ Resent(p)
  <2>1. tries[p] \in Nat /\ tries'[p] = tries[p] + 1
    BY Zenon, <1>1, <1>5 DEF Sent, Resent
  <2>2. QED
    BY <2>1
<1>6. QED
  BY Zenon, <1>1, <1>3, <1>4, <1>5 DEF Path

\* Where a page was before it was queued or sent.
LEMMA PathFacts ==
    ASSUME NEW p, Path(p)
    PROVE  /\ holder[p] = "fresh" => tries'[p] = tries[p] /\ holder'[p] # "operationQueue"
           /\ holder'[p] = "operationQueue" =>
                 holder[p] = "operationQueue" \/ (holder[p] = "toSend" /\ TakenToSend(p))
           /\ \/ tries'[p] = tries[p] \/ holder[p] = "sendList"
              \/ holder[p] = "operationQueue" /\ TakenFromOperation(p)
<1>1. CASE Rests(p)
  BY Zenon, <1>1 DEF Rests
<1>2. CASE Passes(p)
  BY Zenon, <1>2 DEF Passes
<1>3. CASE Sent(p) \/ Resent(p) \/ Done(p)
  BY Zenon, <1>3 DEF Sent, Resent, Done
<1>4. QED
  BY Zenon, <1>1, <1>2, <1>3 DEF Path

\* No step lets a later page overtake an earlier one.
LEMMA InOrderStep ==
    ASSUME OrderInv, PageInv', [Next]_vars, NEW p, NEW q, Before(p, q)
    PROVE  InOrder(p, q)'
<1>1. /\ p \in Page /\ q \in Page /\ p # q
      /\ p \in ServerPage /\ q \in ServerPage /\ p \notin Forward /\ q \notin Forward
      /\ ~IsRadio(p) /\ ~IsRadio(q) /\ p \in UnicastServerPage
      /\ \A r \in Request : q \in PagesOf(r) => p \in PagesOf(r)
  BY Zenon, BeforeFact
<1>2. /\ Path(p) /\ Path(q) /\ InOrder(p, q) /\ Found(p) /\ SentFirst(p)
      /\ Counter(p) /\ Counter(q) /\ Counter(q)'
      /\ tries[p] \in Nat /\ tries[q] \in Nat /\ headState[q] \in Nat
      /\ TypeOK /\ QueueKinds /\ OneHolder
      /\ toSend \in Seq(Page) /\ operationQueue \in Seq(OperationMessage)
  <2>1. PageInv /\ InOrder(p, q) /\ Found(p) /\ SentFirst(p)
    BY Zenon, <1>1 DEF OrderInv
  <2>2. /\ TypeOK /\ QueueKinds /\ OneHolder /\ RequestsOnce
        /\ Counter(p) /\ Counter(q) /\ Counter(q)'
    BY Zenon, <1>1, <2>1 DEF PageInv, SendCounter
  <2>3. Path(p) /\ Path(q)
    BY Zenon, <1>1, <2>2, PagePath
  <2>4. QED
    BY <1>1, <2>1, <2>2, <2>3 DEF TypeOK
<1>3. /\ holder[q] = "sendList" => tries[q] > 0
      /\ tries[p] \in Nat /\ tries[q] \in Nat
      /\ toSend \in Seq(Page) /\ NodesOnce(toSend, holder, "toSend")
      /\ operationQueue \in Seq(OperationMessage)
  <2>1. /\ tries[q] \in Nat /\ headState[q] \in Nat
        /\ holder[q] = "sendList" => IF q \in Ota THEN tries[q] = 1
                                                  ELSE tries[q] = headState[q] + 1
    BY Zenon, <1>2 DEF Counter
  <2>2. QED
    BY <1>2, <2>1 DEF OneHolder
<1>4. InOrder(p, q)
  BY Zenon, <1>2
<1>5. ASSUME holder'[p] = "fresh" PROVE holder'[q] = "fresh"
  <2>1. holder[p] = "fresh" /\ holder[q] = "fresh"
    BY Zenon, <1>2, <1>5 DEF Path, Rests, Passes, Sent, Resent, Done, InOrder
  <2>2. ASSUME manager_send_msg_to_wiota, q \in PagesOf(Head(toServe)) PROVE FALSE
    <3>1. Head(toServe) \in Request
      BY Zenon, <1>2, <2>2, TailFact DEF manager_send_msg_to_wiota, TypeOK
    <3>2. holder'[p] = "toSend"
      BY Zenon, <1>1, <2>2, <3>1 DEF manager_send_msg_to_wiota
    <3>3. QED
      BY Zenon, <1>5, <3>2
  <2>3. QED
    BY Zenon, <1>1, <1>2, <2>1, <2>2 DEF Path, Rests, Passes, Sent, Resent, Done
<1>6. ASSUME holder'[q] = "operationQueue" \/ tries'[q] > 0, holder'[p] = "toSend"
      PROVE  FALSE
  <2>1. CASE holder[p] = "fresh"
    <3>1. holder[q] = "fresh" /\ tries[q] = 0
      BY Zenon, <1>2, <2>1 DEF InOrder, Counter
    <3>2. tries'[q] = tries[q] /\ holder'[q] # "operationQueue"
      BY Zenon, <1>2, <3>1, PathFacts
    <3>3. QED
      BY <1>6, <3>1, <3>2
  <2>2. CASE holder[p] = "toSend"
    <3>1. holder[q] # "operationQueue" /\ ~(tries[q] > 0)
      BY Zenon, <1>2, <2>2 DEF InOrder
    <3>2. holder[q] # "sendList"
      BY Zenon, <1>3, <3>1
    <3>3. q = Head(toSend) /\ toSend # <<>>
      <4>1. tries'[q] = tries[q]
        BY Zenon, <1>2, <3>1, <3>2, PathFacts
      <4>2. holder'[q] = "operationQueue"
        BY Zenon, <1>6, <3>1, <4>1
      <4>3. QED
        BY Zenon, <1>2, <3>1, <4>2, PathFacts DEF TakenToSend
    <3>4. PICK i \in DOMAIN toSend : toSend[i] = p
      BY Zenon, <1>2, <2>2 DEF Found, Range
    <3>5. 1 \in DOMAIN toSend /\ toSend[1] = q /\ ~(i < 1)
      BY <1>3, <3>3, <3>4
    <3>6. QED
      BY Zenon, <1>2, <3>4, <3>5 DEF InOrder
  <2>3. QED
    BY Zenon, <1>1, <1>2, <1>6, <2>1, <2>2 DEF Path, Rests, Passes, Sent, Resent, Done
<1>7. ASSUME NEW i \in DOMAIN toSend', NEW j \in DOMAIN toSend',
             toSend'[i] = p, toSend'[j] = q
      PROVE  i < j
  <2>1. CASE toSend' = toSend
    BY Zenon, <1>4, <1>7, <2>1 DEF InOrder
  <2>2. CASE toSend # <<>> /\ toSend' = Tail(toSend)
    <3>1. /\ i \in Nat /\ j \in Nat /\ i + 1 \in DOMAIN toSend /\ j + 1 \in DOMAIN toSend
          /\ toSend[i + 1] = p /\ toSend[j + 1] = q
      BY <1>3, <1>7, <2>2
    <3>2. i + 1 < j + 1
      BY Zenon, <1>4, <3>1 DEF InOrder
    <3>3. QED
      BY <3>1, <3>2
  <2>3. ASSUME NEW m \in Page \ ServerPage, toSend' = <<m>> PROVE FALSE
    BY <1>1, <1>7, <2>3
  <2>4. ASSUME NEW r \in Request, toSend' = Segments[r] PROVE i < j
    BY Zenon, <1>7, <2>4, BeforeFact
  <2>5. QED
    BY Zenon, <1>2, <2>1, <2>2, <2>3, <2>4, ToSendStep
<1>8. ASSUME NEW i \in DOMAIN operationQueue', NEW j \in DOMAIN operationQueue',
             operationQueue'[i].page = p, operationQueue'[j].page = q
      PROVE  i < j
  <2>1. CASE operationQueue' = operationQueue
    BY Zenon, <1>4, <1>8, <2>1 DEF InOrder
  <2>2. CASE operationQueue # <<>> /\ operationQueue' = Tail(operationQueue)
    <3>1. /\ i \in Nat /\ j \in Nat
          /\ i + 1 \in DOMAIN operationQueue /\ j + 1 \in DOMAIN operationQueue
          /\ operationQueue[i + 1].page = p /\ operationQueue[j + 1].page = q
      BY <1>3, <1>8, <2>2
    <3>2. i + 1 < j + 1
      BY Zenon, <1>4, <3>1 DEF InOrder
    <3>3. QED
      BY <3>1, <3>2
  <2>3. ASSUME NEW e \in OperationMessage, operationQueue' = Append(operationQueue, e),
               e.page = None \/ (toSend # <<>> /\ e.page = Head(toSend))
        PROVE  i < j
    <3>1. PICK n \in Nat : n = Len(operationQueue)
      BY <1>3
    <3>2. /\ i \in 1 .. n + 1 /\ j \in 1 .. n + 1
          /\ operationQueue'[n + 1] = e
          /\ \A k \in 1 .. n : k \in DOMAIN operationQueue
                               /\ operationQueue'[k] = operationQueue[k]
      BY <1>3, <2>3, <3>1
    <3>3. CASE i \in 1 .. n /\ j \in 1 .. n
      BY Zenon, <1>4, <1>8, <3>2, <3>3 DEF InOrder
    <3>4. CASE i = n + 1 /\ j \in 1 .. n
      <4>1. e.page = p /\ operationQueue[j].page = q
        BY Zenon, <1>8, <3>2, <3>4
      <4>2. holder[q] = "operationQueue"
        BY Zenon, <1>1, <1>2, <3>2, <3>4, <4>1, PageAssumption DEF OneHolder, EntriesOnce
      <4>3. holder[p] = "toSend"
        <5>1. toSend # <<>> /\ p = Head(toSend)
          BY Zenon, <1>1, <2>3, <4>1, PageAssumption
        <5>2. QED
          BY Zenon, <1>3, <5>1, HeadHeld
      <4>4. QED
        BY Zenon, <1>4, <4>2, <4>3 DEF InOrder
    <3>5. CASE j = n + 1
      BY <1>1, <1>8, <3>1, <3>2, <3>5
    <3>6. QED
      BY <3>1, <3>2, <3>3, <3>4, <3>5
  <2>4. QED
    BY Zenon, <1>2, <2>1, <2>2, <2>3, OperationQueueStep
<1>9. ASSUME tries'[q] > 0 PROVE tries'[p] > 0 \/ holder'[p] = "lost"
  <2>1. ASSUME tries[p] > 0 \/ holder[p] = "lost"
        PROVE  tries'[p] > 0 \/ holder'[p] = "lost"
    <3>1. tries'[p] \in {tries[p], tries[p] + 1}
      BY Zenon, <1>2 DEF Path, Rests, Passes, Sent, Resent, Done
    <3>2. holder[p] = "lost" => holder'[p] = "lost"
      BY Zenon, <1>2 DEF Path, Rests, Passes, Sent, Resent, Done
    <3>3. QED
      BY <1>3, <2>1, <3>1, <3>2
  <2>2. CASE tries[q] > 0
    BY Zenon, <1>2, <2>1, <2>2 DEF InOrder
  <2>3. CASE tries[q] = 0
    <3>1. holder[q] # "sendList"
      BY <1>3, <2>3
    <3>2. /\ holder[q] = "operationQueue"
          /\ operationQueue # <<>> /\ q = Head(operationQueue).page
      <4>1. tries'[q] # tries[q]
        BY <1>9, <2>3
      <4>2. QED
        BY Zenon, <1>2, <3>1, <4>1, PathFacts DEF TakenFromOperation
    <3>3. holder[p] # "fresh" /\ holder[p] # "toSend"
      BY Zenon, <1>2, <3>2 DEF InOrder
    <3>4. holder[p] # "operationQueue"
      <4>1. SUFFICES ASSUME holder[p] = "operationQueue" PROVE FALSE
        BY Zenon
      <4>2. PICK i \in DOMAIN operationQueue : operationQueue[i].page = p
        BY Zenon, <1>2, <4>1 DEF Found, InQueue
      <4>3. 1 \in DOMAIN operationQueue /\ operationQueue[1].page = q /\ ~(i < 1)
        BY <1>3, <3>2, <4>2
      <4>4. QED
        BY Zenon, <1>4, <4>2, <4>3 DEF InOrder
    <3>5. tries[p] > 0 \/ holder[p] = "lost"
      BY Zenon, <1>1, <1>2, <3>3, <3>4 DEF SentFirst, TypeOK, Place
    <3>6. QED
      BY Zenon, <2>1, <3>5
  <2>4. QED
    BY <1>3, <2>2, <2>3
<1>10. QED
  BY Zenon, <1>5, <1>6, <1>7, <1>8, <1>9 DEF InOrder

\* OrderInv is inductive.
THEOREM OrderInvariant == Spec => []OrderInv
<1>1. Init => OrderInv
  <2> SUFFICES ASSUME Init PROVE OrderInv
    BY Zenon
  <2>1. PageInv
    BY Zenon, PageInit
  <2>2. \A p \in Page : /\ Found(p) /\ SentFirst(p) /\ holder[p] = "fresh"
                        /\ tries[p] = 0
    BY Zenon DEF Init, Found, SentFirst
  <2>3. DOMAIN toSend = {} /\ DOMAIN operationQueue = {}
    BY DEF Init
  <2>4. \A p, q \in Page : InOrder(p, q)
    BY Zenon, <2>2, <2>3 DEF InOrder
  <2>5. QED
    BY Zenon, <2>1, <2>2, <2>4 DEF OrderInv
<1>2. OrderInv /\ [Next]_vars => OrderInv'
  <2> SUFFICES ASSUME OrderInv, [Next]_vars PROVE OrderInv'
    BY Zenon
  <2>1. PageInv /\ PageInv'
    BY Zenon, PageStep DEF OrderInv
  <2>2. ASSUME NEW p \in Page PROVE Found(p)' /\ SentFirst(p)'
    BY Zenon, <2>1, FoundStep, SentFirstStep DEF OrderInv
  <2>3. ASSUME NEW p \in Page, NEW q \in Page, Before(p, q) PROVE InOrder(p, q)'
    BY Zenon, <2>1, <2>3, InOrderStep
  <2>4. QED
    BY Zenon, <2>1, <2>2, <2>3 DEF OrderInv, Before
<1>3. QED
  BY <1>1, <1>2, PTL DEF Spec

\* The pages of a message reach the radio in its order, whatever is dropped.
THEOREM SentInOrder == Spec => []FirstSendsInOrder
<1>1. OrderInv => FirstSendsInOrder
  <2> SUFFICES ASSUME OrderInv, NEW r \in UnicastRequest, NEW j \in DOMAIN Segments[r],
                      NEW i \in 1 .. j - 1, tries[Segments[r][j]] > 0
               PROVE  tries[Segments[r][i]] > 0 \/ holder[Segments[r][i]] = "lost"
    BY Zenon DEF FirstSendsInOrder
  <2>1. PICK p, q : p = Segments[r][i] /\ q = Segments[r][j]
    BY Zenon
  <2>2. Before(p, q)
    BY Zenon, <2>1 DEF Before
  <2>3. InOrder(p, q)
    BY Zenon, <2>2, BeforeFact DEF OrderInv
  <2>4. QED
    BY Zenon, <2>1, <2>3 DEF InOrder
<1>2. QED
  BY <1>1, OrderInvariant, PTL

-----------------------------------------------------------------------------
(* The answer to a request. *)

\* The segments of a request are different pages.
LEMMA SegmentPages ==
    ASSUME NEW r \in Request
    PROVE  /\ Segments[r] \in Seq(Page) /\ Segments[r] # <<>>
           /\ \A i, j \in DOMAIN Segments[r] : Segments[r][i] = Segments[r][j] => i = j
           /\ PagesOf(r) = {Segments[r][i] : i \in DOMAIN Segments[r]}
  BY Zenon, PageAssumption DEF PagesOf, Range, IsInjective

\* The next request to serve is not started.
LEMMA NextUnserved ==
    ASSUME PageInv, toServe # <<>>
    PROVE  Unserved(Head(toServe))
<1>1. toServe \in Seq(Request)
  BY Zenon DEF PageInv, TypeOK
<1>2. Head(toServe) \in Range(toServe)
  BY Zenon, <1>1, QueueRangeFact
<1>3. QED
  BY Zenon, <1>2 DEF PageInv, RequestsOnce

\* The pages of a request that have no result yet, and the answer that the
\* results so far call for.
Pending(r) == {p \in PagesOf(r) : reported[p] = MANAGER_SEND_DEFAULT}
Outcome(r) == IF \A p \in PagesOf(r) : reported[p] # MANAGER_SEND_FAIL
              THEN MANAGER_SEND_SUCCESS ELSE MANAGER_SEND_FAIL

\* A request is not started, under way, or answered; while it is under way the
\* counters that its pages share are the number of pages without a result and
\* the answer so far.
NotStarted(r) == Unserved(r) /\ segment[r] = None /\ answers[r] = <<>>
UnderWay(r) ==
    /\ Pending(r) # {} /\ answers[r] = <<>>
    /\ IF Len(Segments[r]) > 1
       THEN \E n \in Nat : /\ HasSize(Pending(r), n)
                           /\ segment[r] = [result |-> Outcome(r), left |-> n]
       ELSE segment[r] = None
Answered(r) == Pending(r) = {} /\ segment[r] = None /\ answers[r] = <<Outcome(r)>>

\* A page has no result as long as the access point has not freed it.
Unreported == \A p \in Page : holder[p] # "freed" => reported[p] = MANAGER_SEND_DEFAULT
Counted == \A r \in UnicastRequest : NotStarted(r) \/ UnderWay(r) \/ Answered(r)
AnswerInv == PageInv /\ Unreported /\ Counted

\* The segments of a request count its pages.
LEMMA PagesCounted ==
    ASSUME NEW r \in Request
    PROVE  /\ Len(Segments[r]) \in Nat \ {0} /\ PagesOf(r) # {}
           /\ HasSize(PagesOf(r), Len(Segments[r]))
           /\ ~(Len(Segments[r]) > 1) => \A p \in PagesOf(r) : PagesOf(r) = {p}
<1> DEFINE n == Len(Segments[r])
           f == Segments[r]
<1>1. /\ f \in Seq(Page) /\ n \in Nat \ {0} /\ DOMAIN f = 1 .. n
      /\ \A i, j \in 1 .. n : f[i] = f[j] => i = j
      /\ PagesOf(r) = {f[i] : i \in 1 .. n}
  BY SegmentPages
<1> HIDE DEF n, f
<1>2. f \in [1 .. n -> PagesOf(r)]
  BY <1>1
<1>3. HasSize(PagesOf(r), n)
  BY Zenon, <1>1, <1>2 DEF HasSize
<1>4. PagesOf(r) # {}
  BY Zenon, <1>1, <1>3, SizeZero
<1>5. ~(n > 1) => \A p \in PagesOf(r) : PagesOf(r) = {p}
  <2>1. n > 1 \/ n = 1
    BY <1>1
  <2>2. QED
    BY <1>1, <2>1
<1>6. QED
  BY Zenon, <1>1, <1>3, <1>4, <1>5 DEF n

\* Nothing is reported, answered or counted except by the logic task when it
\* starts a request, answers a broadcast or takes a result.
LEMMA ReportsFrame ==
    ASSUME AnswerInv, [Next]_vars, ~LogicResult
    PROVE  /\ reported' = reported
           /\ \A r \in UnicastRequest : answers'[r] = answers[r]
           /\ manager_send_msg_to_wiota \/ segment' = segment
<1> USE DEF logicSide, logicVars
<1>1. CASE manager_send_packet
  <2>1. reported' = reported /\ segment' = segment
    BY Zenon, <1>1 DEF manager_send_packet
  <2>2. PICK p \in Page : p = Head(toSend)
    <3>1. toSend # <<>> /\ toSend \in Seq(Page)
      BY Zenon, <1>1 DEF manager_send_packet, AnswerInv, PageInv, TypeOK
    <3>2. QED
      BY Zenon, <3>1, TailFact
  <2>3. CASE ~IsRadio(p)
    BY Zenon, <1>1, <2>1, <2>2, <2>3 DEF manager_send_packet
  <2>4. CASE IsRadio(p)
    <3>1. requestOf(p) \in Broadcast /\ answers \in [Request -> Seq(State)]
      BY Zenon, <2>4 DEF IsRadio, AnswerInv, PageInv, TypeOK
    <3>2. \/ answers' = answers
          \/ answers' = [answers EXCEPT ![requestOf(p)] = Append(@, MANAGER_SEND_SUCCESS)]
      BY Zenon, <1>1, <2>2, <2>4 DEF manager_send_packet, manager_response_message_result
    <3>3. QED
      BY Zenon, <2>1, <3>1, <3>2 DEF UnicastRequest
  <2>5. QED
    BY Zenon, <2>3, <2>4
<1>2. CASE manager_send_msg_to_wiota
  BY Zenon, <1>2 DEF manager_send_msg_to_wiota
<1>3. CASE LogicStart \/ LogicRecv \/ LogicNetwork \/ LogicHttp
  BY Zenon, <1>3 DEF LogicStart, LogicRecv, LogicNetwork, LogicHttp
<1>4. CASE Operation
  BY Zenon, <1>4 DEF Operation, OperationMsg, manager_operate_result, OperationRadio,
         OperationOtaRadio, manager_ota_result_msg, OperationExit,
         manager_wiota_exit, OperationStart
<1>5. CASE Callbacks \/ Inputs \/ manager_recv_timer_func \/ NetworkTake
  BY Zenon, <1>5 DEF Callbacks, Inputs, manager_recv_timer_func, NetworkTake,
         manager_send_result, uc_send_radio_ota_callback, NetworkMessage,
         manager_recv_data, HttpMessage
<1>6. CASE Waiting \/ UNCHANGED vars
  BY Zenon, <1>6 DEF Waiting, vars
<1>7. QED
  BY Zenon, <1>1, <1>2, <1>3, <1>4, <1>5, <1>6 DEF Next, Logic

\* What the logic task does with a result: the page had none, and the server is
\* answered for pages of unicast requests only.
LEMMA ResultTaken ==
    ASSUME AnswerInv, LogicResult, NEW p, p = Head(logicQueue).page
    PROVE  /\ p \in Page /\ holder[p] = "logicQueue"
           /\ reported[p] = MANAGER_SEND_DEFAULT
           /\ reported' = [reported EXCEPT ![p] = headState[p]]
           /\ holder'[p] = "freed"
           /\ p \in ServerPage =>
                 /\ requestOf(p) \in UnicastRequest /\ p \in PagesOf(requestOf(p))
                 /\ headState[p] \in Verdict
                 /\ manager_network_to_wiota_result(p)
           /\ p \notin ServerPage => UNCHANGED <<segment, answers>>
<1>1. TypeOK /\ QueueKinds /\ OneHolder /\ Unreported
  BY Zenon DEF AnswerInv, PageInv
<1>2. /\ p \in Page /\ ~IsRadio(p) /\ 1 \in DOMAIN logicQueue
      /\ p = logicQueue[1].page
      /\ p \in Unicast => headState[p] \in Verdict
  BY Zenon, <1>1, LogicTaken DEF LogicResult
<1>3. p # None /\ holder[p] = "logicQueue" /\ holder \in [Page -> Place]
  BY Zenon, <1>1, <1>2, LogicQueuedFact, PageAssumption DEF TypeOK
<1>4. reported[p] = MANAGER_SEND_DEFAULT
  BY Zenon, <1>1, <1>2, <1>3 DEF Unreported
<1>5. reported' = [reported EXCEPT ![p] = headState[p]]
  BY Zenon DEF LogicResult
<1>6. holder'[p] = "freed"
  <2>1. CASE Move(p, "freed")
    BY Zenon, <1>2, <1>3, <2>1 DEF Move
  <2>2. ASSUME NEW q \in Ota \cap Fresh,
               holder' = [holder EXCEPT ![p] = "freed", ![q] = "toSend"]
        PROVE  holder'[p] = "freed"
    BY Zenon, <1>2, <1>3, <2>2 DEF Fresh
  <2>3. QED
    BY Zenon, <2>1, <2>2 DEF LogicResult
<1>7. ASSUME p \in ServerPage
      PROVE  /\ requestOf(p) \in UnicastRequest /\ p \in PagesOf(requestOf(p))
             /\ headState[p] \in Verdict
             /\ manager_network_to_wiota_result(p)
  <2>1. p \notin Forward /\ p \notin Ota
    BY Zenon, <1>7, PageAssumption
  <2>2. requestOf(p) \in UnicastRequest /\ p \in PagesOf(requestOf(p)) /\ p \in Unicast
    BY Zenon, <1>2, <1>7, <2>1, PageKinds DEF IsRadio, UnicastRequest
  <2>3. QED
    BY Zenon, <1>2, <2>1, <2>2 DEF LogicResult
<1>8. p \notin ServerPage => UNCHANGED <<segment, answers>>
  BY Zenon DEF LogicResult
<1>9. QED
  BY Zenon, <1>2, <1>3, <1>4, <1>5, <1>6, <1>7, <1>8

\* No page gets a result before it is freed.
LEMMA UnreportedStep == ASSUME AnswerInv, [Next]_vars PROVE Unreported'
<1>1. /\ TypeOK /\ QueueKinds /\ OneHolder /\ RequestsOnce /\ Unreported
      /\ reported \in [Page -> State]
  BY Zenon DEF AnswerInv, PageInv, TypeOK
<1>2. \A p \in Page : holder'[p] # "freed" => holder[p] # "freed"
  BY Zenon, <1>1, PageMoves DEF Stays
<1>3. CASE LogicResult
  <2>1. PICK m : m = Head(logicQueue).page
    BY Zenon
  <2>2. /\ m \in Page /\ reported' = [reported EXCEPT ![m] = headState[m]]
        /\ holder'[m] = "freed"
    BY Zenon, <1>3, <2>1, ResultTaken
  <2>3. QED
    BY Zenon, <1>1, <1>2, <2>2 DEF Unreported
<1>4. CASE ~LogicResult
  <2>1. reported' = reported
    BY Zenon, <1>4, ReportsFrame
  <2>2. QED
    BY Zenon, <1>1, <1>2, <2>1 DEF Unreported
<1>5. QED
  BY Zenon, <1>3, <1>4

\* A step that touches neither the counters nor the results of a request and
\* does not start it.
LEMMA CountedFrame ==
    ASSUME AnswerInv, [Next]_vars, NEW r \in UnicastRequest,
           segment'[r] = segment[r], answers'[r] = answers[r],
           \A p \in PagesOf(r) : reported'[p] = reported[p],
           manager_send_msg_to_wiota => r # Head(toServe)
    PROVE  (NotStarted(r) \/ UnderWay(r) \/ Answered(r))'
<1>1. NotStarted(r) \/ UnderWay(r) \/ Answered(r)
  BY Zenon DEF AnswerInv, Counted
<1>2. Pending(r)' = Pending(r) /\ Outcome(r)' = Outcome(r)
  BY Zenon DEF Pending, Outcome
<1>3. ASSUME Unserved(r) PROVE Unserved(r)'
  <2>1. /\ \A p \in Page : Stays(p) /\ r \in Request
        /\ PagesOf(r) \subseteq Page /\ PagesOf(r) \subseteq ServerPage
    BY Zenon, PageMoves, PageKinds DEF AnswerInv, PageInv, UnicastRequest
  <2>2. ASSUME manager_send_msg_to_wiota
        PROVE  PagesOf(r) \cap PagesOf(Head(toServe)) = {}
    <3>1. toServe # <<>> /\ toServe \in Seq(Request)
      BY Zenon, <2>2 DEF manager_send_msg_to_wiota, AnswerInv, PageInv, TypeOK
    <3>2. Head(toServe) \in Request
      BY Zenon, <3>1, TailFact
    <3>3. QED
      BY Zenon, <2>1, <2>2, <3>2, RequestKinds
  <2>3. QED
    BY Zenon, <1>3, <2>1, <2>2 DEF Unserved, Stays
<1>4. QED
  BY Zenon, <1>1, <1>2, <1>3 DEF NotStarted, UnderWay, Answered

\* manager_send_msg_to_wiota sets the counters of the request it starts.
LEMMA Started ==
    ASSUME AnswerInv, manager_send_msg_to_wiota, NEW r \in UnicastRequest,
           r = Head(toServe)
    PROVE  UnderWay(r)'
<1>1. /\ r \in Request /\ toServe # <<>> /\ toServe \in Seq(Request)
      /\ segment \in [Request -> [result : Verdict, left : Int] \cup {None}]
      /\ segment' = [segment EXCEPT ![r] = NewSegment(r)]
      /\ reported' = reported /\ answers' = answers
  BY Zenon DEF manager_send_msg_to_wiota, AnswerInv, PageInv, TypeOK, UnicastRequest
<1>3. \A p \in PagesOf(r) : holder[p] = "fresh"
  BY Zenon, <1>1, NextUnserved DEF AnswerInv, Unserved
<1>4. \A p \in PagesOf(r) : reported[p] = MANAGER_SEND_DEFAULT
  BY Zenon, <1>1, <1>3, PageKinds DEF AnswerInv, Unreported
<1>5. /\ Pending(r) = PagesOf(r) /\ Pending(r)' = PagesOf(r)
      /\ Outcome(r)' = MANAGER_SEND_SUCCESS
  BY <1>1, <1>4 DEF Pending, Outcome, MANAGER_SEND_DEFAULT, MANAGER_SEND_FAIL
<1>6. /\ HasSize(PagesOf(r), Len(Segments[r]))
      /\ PagesOf(r) # {} /\ Len(Segments[r]) \in Nat \ {0}
  BY Zenon, <1>1, PagesCounted
<1>7. answers[r] = <<>>
  BY Zenon, <1>5, <1>6 DEF AnswerInv, Counted, NotStarted, UnderWay, Answered
<1>8. QED
  <2>1. segment'[r] = NewSegment(r)
    BY Zenon, <1>1
  <2>2. QED
    BY Zenon, <1>1, <1>5, <1>6, <1>7, <2>1 DEF UnderWay, NewSegment

\* A result is counted: the counters agree with it, and the last one brings the
\* answer.
LEMMA ResultCounted ==
    ASSUME AnswerInv, LogicResult, NEW p, p = Head(logicQueue).page, p \in ServerPage,
           NEW r, r = requestOf(p)
    PROVE  /\ r \in UnicastRequest /\ p \in PagesOf(r) /\ answers[r] = <<>>
           /\ (UnderWay(r) \/ Answered(r))'
           /\ \A q \in UnicastRequest \ {r} :
                 segment'[q] = segment[q] /\ answers'[q] = answers[q]
<1>1. /\ r \in UnicastRequest /\ r \in Request /\ p \in PagesOf(r)
      /\ p \in Page /\ holder[p] = "logicQueue"
      /\ reported[p] = MANAGER_SEND_DEFAULT /\ headState[p] \in Verdict
      /\ reported' = [reported EXCEPT ![p] = headState[p]]
      /\ manager_network_to_wiota_result(p)
  BY Zenon, ResultTaken DEF UnicastRequest
<1>2. /\ reported \in [Page -> State] /\ answers \in [Request -> Seq(State)]
      /\ segment \in [Request -> [result : Verdict, left : Int] \cup {None}]
      /\ PagesOf(r) \subseteq Page
  BY Zenon, <1>1, PageKinds DEF AnswerInv, PageInv, TypeOK
<1>3. UnderWay(r)
  <2>1. NotStarted(r) \/ UnderWay(r) \/ Answered(r)
    BY Zenon, <1>1 DEF AnswerInv, Counted
  <2>2. ~Unserved(r) /\ p \in Pending(r)
    BY Zenon, <1>1 DEF Unserved, Pending
  <2>3. QED
    BY Zenon, <2>1, <2>2 DEF NotStarted, Answered
<1>4. /\ headState[p] = MANAGER_SEND_SUCCESS \/ headState[p] = MANAGER_SEND_FAIL
      /\ reported'[p] = headState[p]
      /\ \A q \in PagesOf(r) \ {p} : reported'[q] = reported[q]
  BY Zenon, <1>1, <1>2 DEF Verdict
<1>5. Pending(r)' = Pending(r) \ {p} /\ p \in Pending(r)
  BY <1>1, <1>4
     DEF Pending, MANAGER_SEND_DEFAULT, MANAGER_SEND_SUCCESS, MANAGER_SEND_FAIL
<1>6. Outcome(r)' = IF headState[p] = MANAGER_SEND_FAIL
                    THEN MANAGER_SEND_FAIL ELSE Outcome(r)
  BY <1>1, <1>4 DEF Outcome, MANAGER_SEND_DEFAULT, MANAGER_SEND_SUCCESS, MANAGER_SEND_FAIL
<1>7. ~(Len(Segments[r]) > 1) => PagesOf(r) = {p}
  BY Zenon, <1>1, PagesCounted
<1>8. CASE ~(Len(Segments[r]) > 1)
  <2>1. segment[r] = None
    BY Zenon, <1>3, <1>8 DEF UnderWay
  <2>2. segment' = segment /\ answers' = [answers EXCEPT ![r] = Append(@, headState[p])]
    BY Zenon, <1>1, <2>1 DEF manager_network_to_wiota_result, manager_response_message_result
  <2>3. PagesOf(r) = {p}
    BY Zenon, <1>7, <1>8
  <2>4. Pending(r)' = {} /\ Outcome(r)' = headState[p]
    BY Zenon, <1>4, <1>5, <2>3 DEF Pending, Outcome, MANAGER_SEND_SUCCESS, MANAGER_SEND_FAIL
  <2>5. answers[r] = <<>> /\ answers'[r] = <<headState[p]>>
    <3>1. answers[r] = <<>> /\ answers'[r] = Append(answers[r], headState[p])
      BY Zenon, <1>1, <1>2, <1>3, <2>2 DEF UnderWay
    <3>2. QED
      BY <3>1
  <2>6. Answered(r)'
    BY Zenon, <2>1, <2>2, <2>4, <2>5 DEF Answered
  <2>7. QED
    BY Zenon, <1>1, <1>2, <2>2, <2>5, <2>6 DEF UnicastRequest
<1>9. CASE Len(Segments[r]) > 1
  <2>1. PICK n \in Nat : /\ HasSize(Pending(r), n) /\ answers[r] = <<>>
                         /\ segment[r] = [result |-> Outcome(r), left |-> n]
    BY Zenon, <1>3, <1>9 DEF UnderWay
  <2> DEFINE s == [result |-> Outcome(r)', left |-> n - 1]
  <2>2. segment[r] # None
    <3>1. segment[r] \in [result : {MANAGER_SEND_SUCCESS, MANAGER_SEND_FAIL}, left : Int]
      BY <2>1 DEF Outcome
    <3>2. QED
      BY Zenon, <3>1, NullAssumption
  <2>3. CountSegment(segment[r], p) = s
    BY <1>6, <2>1 DEF CountSegment
  <2>4. /\ n - 1 \in Nat /\ HasSize(Pending(r)', n - 1)
        /\ n - 1 = 0 <=> Pending(r)' = {}
    <3>1. n - 1 \in Nat /\ HasSize(Pending(r)', n - 1)
      <4>1. n - 1 \in Nat /\ HasSize(Pending(r) \ {p}, n - 1)
        BY Zenon, <1>5, <2>1, OneLess
      <4>2. QED
        BY Zenon, <1>5, <4>1
    <3>2. QED
      BY Zenon, <3>1, SizeZero
  <2>5. CASE Pending(r)' = {}
    <3>1. s.left = 0 /\ s.result = Outcome(r)'
      BY Zenon, <2>4, <2>5
    <3>2. /\ answers' = [answers EXCEPT ![r] = Append(@, Outcome(r)')]
          /\ segment' = [segment EXCEPT ![r] = None]
      BY Zenon, <1>1, <2>2, <2>3, <3>1
         DEF manager_network_to_wiota_result, manager_response_message_result
    <3>3. answers'[r] = <<Outcome(r)'>> /\ segment'[r] = None
      <4>1. answers'[r] = Append(answers[r], Outcome(r)') /\ segment'[r] = None
        BY Zenon, <1>1, <1>2, <3>2
      <4>2. PICK v : v = Outcome(r)'
        BY Zenon
      <4>3. Append(<<>>, v) = <<v>>
        OBVIOUS
      <4>4. QED
        BY Zenon, <2>1, <4>1, <4>2, <4>3
    <3>4. Answered(r)'
      BY Zenon, <2>5, <3>3 DEF Answered
    <3>5. QED
      BY Zenon, <1>1, <1>2, <2>1, <3>2, <3>4 DEF UnicastRequest
  <2>6. CASE Pending(r)' # {}
    <3>1. s.left # 0
      BY Zenon, <2>4, <2>6
    <3>2. answers' = answers /\ segment' = [segment EXCEPT ![r] = s]
      BY Zenon, <1>1, <2>2, <2>3, <3>1 DEF manager_network_to_wiota_result
    <3>3. segment'[r] = s
      BY Zenon, <1>1, <1>2, <3>2
    <3>4. UnderWay(r)'
      BY Zenon, <1>9, <2>1, <2>4, <2>6, <3>2, <3>3 DEF UnderWay
    <3>5. QED
      BY Zenon, <1>1, <1>2, <2>1, <3>2, <3>4 DEF UnicastRequest
  <2>7. QED
    BY Zenon, <2>5, <2>6
<1>10. QED
  BY Zenon, <1>8, <1>9

\* Every step keeps the counters of every request.
LEMMA CountedStep == ASSUME AnswerInv, [Next]_vars PROVE Counted'
<1> SUFFICES ASSUME NEW r \in UnicastRequest
             PROVE  (NotStarted(r) \/ UnderWay(r) \/ Answered(r))'
  BY Zenon DEF Counted
<1>0. /\ r \in Request /\ PagesOf(r) \subseteq Page /\ PagesOf(r) \subseteq ServerPage
      /\ reported \in [Page -> State]
      /\ segment \in [Request -> [result : Verdict, left : Int] \cup {None}]
  BY Zenon, PageKinds DEF UnicastRequest, AnswerInv, PageInv, TypeOK
<1>1. CASE LogicResult
  <2>1. PICK p : p = Head(logicQueue).page
    BY Zenon
  <2>2. p \in Page /\ reported' = [reported EXCEPT ![p] = headState[p]]
        /\ (p \notin ServerPage => UNCHANGED <<segment, answers>>)
    BY Zenon, <1>1, <2>1, ResultTaken
  <2>3. ~manager_send_msg_to_wiota
    BY Zenon, <1>1 DEF LogicResult, LogicReady, manager_send_msg_to_wiota
  <2>4. CASE p \in ServerPage /\ r = requestOf(p)
    BY Zenon, <1>1, <2>1, <2>4, ResultCounted
  <2>5. CASE p \in ServerPage /\ r # requestOf(p)
    <3>1. /\ requestOf(p) \in Request /\ p \in PagesOf(requestOf(p))
          /\ segment'[r] = segment[r] /\ answers'[r] = answers[r]
      BY Zenon, <1>1, <2>1, <2>5, ResultCounted, PageKinds
    <3>2. p \notin PagesOf(r)
      BY Zenon, <1>0, <2>5, <3>1, RequestKinds
    <3>3. \A q \in PagesOf(r) : reported'[q] = reported[q]
      BY Zenon, <1>0, <2>2, <3>2
    <3>4. QED
      BY Zenon, <2>3, <3>1, <3>3, CountedFrame
  <2>6. CASE p \notin ServerPage
    <3>1. \A q \in PagesOf(r) : reported'[q] = reported[q]
      BY Zenon, <1>0, <2>2, <2>6
    <3>2. QED
      BY Zenon, <2>2, <2>3, <2>6, <3>1, CountedFrame
  <2>7. QED
    BY Zenon, <2>4, <2>5, <2>6
<1>2. CASE manager_send_msg_to_wiota /\ r = Head(toServe)
  BY Zenon, <1>2, Started
<1>3. CASE ~LogicResult /\ ~(manager_send_msg_to_wiota /\ r = Head(toServe))
  <2>1. /\ reported' = reported /\ answers'[r] = answers[r]
        /\ manager_send_msg_to_wiota \/ segment' = segment
    BY Zenon, <1>3, ReportsFrame
  <2>2. segment'[r] = segment[r]
    BY Zenon, <1>0, <1>3, <2>1 DEF manager_send_msg_to_wiota
  <2>3. QED
    BY Zenon, <1>3, <2>1, <2>2, CountedFrame
<1>4. QED
  BY Zenon, <1>1, <1>2, <1>3

\* The counters agree with the results initially, and every step keeps them so.
LEMMA AnswerInit == Init => AnswerInv
<1> SUFFICES ASSUME Init PROVE AnswerInv
  BY Zenon
<1>1. PageInv
  BY Zenon, PageInit
<1>2. Unreported
  BY Zenon DEF Init, Unreported
<1>3. ASSUME NEW r \in UnicastRequest PROVE NotStarted(r)
  <2>1. r \in Request /\ PagesOf(r) \subseteq Page
    BY Zenon, PageKinds DEF UnicastRequest
  <2>2. QED
    BY Zenon, <2>1 DEF Init, NotStarted, Unserved
<1>4. QED
  BY Zenon, <1>1, <1>2, <1>3 DEF AnswerInv, Counted

\* Every step keeps the counters of the answers right.
LEMMA AnswerStep == ASSUME AnswerInv, [Next]_vars PROVE AnswerInv'
<1>1. PageInv'
  BY Zenon, PageStep DEF AnswerInv
<1>2. QED
  BY Zenon, <1>1, UnreportedStep, CountedStep DEF AnswerInv

\* An answer stands for the results of all the pages of its request.
LEMMA AnswerTrue == ASSUME AnswerInv PROVE AnswerSound
<1> SUFFICES ASSUME NEW r \in UnicastRequest, answers[r] # <<>>
             PROVE  /\ Len(answers[r]) = 1
                    /\ \A p \in PagesOf(r) : reported[p] \in Verdict
                    /\ (answers[r][1] = MANAGER_SEND_SUCCESS) <=>
                          (\A p \in PagesOf(r) : reported[p] = MANAGER_SEND_SUCCESS)
  BY Zenon DEF AnswerSound
<1>1. Answered(r)
  BY Zenon DEF AnswerInv, Counted, NotStarted, UnderWay
<1>2. /\ \A p \in PagesOf(r) : reported[p] \in State
      /\ \A p \in PagesOf(r) : reported[p] # MANAGER_SEND_DEFAULT
  BY Zenon, <1>1, PageKinds DEF AnswerInv, PageInv, TypeOK, UnicastRequest, Answered, Pending
<1>3. \A p \in PagesOf(r) : reported[p] \in {MANAGER_SEND_SUCCESS, MANAGER_SEND_FAIL}
  BY Zenon, <1>2 DEF State, Verdict
<1>4. Len(answers[r]) = 1 /\ answers[r][1] = Outcome(r)
  <2>1. answers[r] = <<Outcome(r)>>
    BY Zenon, <1>1 DEF Answered
  <2>2. PICK v : v = Outcome(r)
    BY Zenon
  <2>3. QED
    BY <2>1, <2>2
<1>5. Outcome(r) = MANAGER_SEND_SUCCESS <=>
         \A p \in PagesOf(r) : reported[p] = MANAGER_SEND_SUCCESS
  BY Zenon, <1>3 DEF Outcome, MANAGER_SEND_SUCCESS, MANAGER_SEND_FAIL
<1>6. QED
  BY Zenon, <1>3, <1>4, <1>5 DEF Verdict

\* Only the operation task gives a page to the radio: one that it holds.
LEMMA LiveStep ==
    ASSUME AnswerInv, [Next]_vars, NEW p \in Page, tries'[p] # tries[p]
    PROVE  /\ holder[p] \in {"operationQueue", "sendList"}
           /\ reported[p] = MANAGER_SEND_DEFAULT
<1> USE DEF operationVars, operationSide
<1>1. TypeOK /\ QueueKinds /\ OneHolder /\ Unreported /\ tries \in [Page -> Nat]
  BY Zenon DEF AnswerInv, PageInv, TypeOK
<1>2. Operation
  <2>1. ~Logic
    BY Zenon DEF Logic, LogicStart, LogicRecv, LogicNetwork, LogicHttp, LogicResult,
       manager_send_msg_to_wiota, manager_send_packet
  <2>2. ~(Callbacks \/ Inputs \/ manager_recv_timer_func \/ NetworkTake)
    BY Zenon DEF Callbacks, Inputs, manager_recv_timer_func, NetworkTake,
       manager_send_result, uc_send_radio_ota_callback, NetworkMessage,
       manager_recv_data, HttpMessage
  <2>3. ~(Waiting \/ UNCHANGED vars)
    BY Zenon DEF Waiting, vars
  <2>4. QED
    BY Zenon, <2>1, <2>2, <2>3 DEF Next
<1>3. CASE OperationMsg \/ OperationOtaRadio
  <2>1. PICK m : m = Head(operationQueue).page
    BY Zenon
  <2>2. /\ m \in Page /\ operationQueue # <<>>
        /\ tries' = [tries EXCEPT ![m] = @ + 1]
    BY Zenon, <1>1, <1>3, <2>1, OperationTaken
       DEF OperationMsg, OperationOtaRadio, uc_wiota_send_data
  <2>3. p = m
    BY Zenon, <1>1, <2>2
  <2>4. QED
    BY Zenon, <1>1, <2>1, <2>2, <2>3, QueuedFact DEF Unreported
<1>4. CASE manager_operate_result
  <2>1. PICK i \in 1 .. Len(sendList) : TakesResult(i)
    BY Zenon, <1>1, <1>4, ResultCases
  <2>2. tries' = [tries EXCEPT ![sendList[i]] = @ + 1]
    BY Zenon, <2>1 DEF TakesResult, Finish, Resend, uc_wiota_send_data
  <2>3. p = sendList[i]
    BY Zenon, <1>1, <2>2
  <2>4. QED
    BY Zenon, <1>1, <2>1, <2>3, ListedFact DEF Unreported
<1>5. QED
  BY Zenon, <1>2, <1>3, <1>4
     DEF Operation, OperationRadio, manager_ota_result_msg, OperationExit,
         manager_wiota_exit, OperationStart

\* A result that the logic task takes for a page of a unicast request is the
\* service's step for it.
LEMMA ResultSettles ==
    ASSUME AnswerInv, AnswerInv', LogicResult, NEW p, p = Head(logicQueue).page,
           p \in ServerPage, NEW r, r = requestOf(p), NEW v, v = headState[p]
    PROVE  Service!Settle(r, p, v)
<1> DEFINE out == [q \in UnicastServerPage |-> reported[q]]
           ans == [q \in UnicastRequest |-> answers[q]]
<1>1. /\ r \in UnicastRequest /\ p \in PagesOf(r) /\ answers[r] = <<>>
      /\ (UnderWay(r) \/ Answered(r))'
      /\ \A q \in UnicastRequest \ {r} : answers'[q] = answers[q]
  BY Zenon, ResultCounted
<1>2. /\ p \in Page /\ reported[p] = MANAGER_SEND_DEFAULT
      /\ reported' = [reported EXCEPT ![p] = headState[p]]
  BY Zenon, ResultTaken
<1>3. /\ PagesOf(r) \subseteq UnicastServerPage /\ p \in UnicastServerPage
      /\ UnicastServerPage \subseteq Page /\ PagesOf(r) \subseteq Page
  BY Zenon, <1>1, PageKinds DEF UnicastServerPage, UnicastRequest
<1>4. reported \in [Page -> State] /\ reported' \in [Page -> State]
  BY Zenon DEF AnswerInv, PageInv, TypeOK
<1>5. out[p] = 0 /\ out' = [out EXCEPT ![p] = headState[p]]
  BY Zenon, <1>2, <1>3, <1>4 DEF MANAGER_SEND_DEFAULT
<1>6. (\A q \in PagesOf(r) : out'[q] # 0) <=> Pending(r)' = {}
  BY Zenon, <1>3 DEF Pending, MANAGER_SEND_DEFAULT
<1>7. Pending(r)' = {} =>
         Outcome(r)' = IF \A q \in PagesOf(r) : out'[q] = 1 THEN 1 ELSE 2
  BY Zenon, <1>3, <1>4
     DEF Pending, Outcome, State, Verdict, MANAGER_SEND_DEFAULT, MANAGER_SEND_SUCCESS,
         MANAGER_SEND_FAIL
<1>8. answers'[r] = IF Pending(r)' = {} THEN <<Outcome(r)'>> ELSE <<>>
  BY Zenon, <1>1 DEF UnderWay, Answered
<1>9. ans' = IF \A q \in PagesOf(r) : out'[q] # 0
             THEN [ans EXCEPT ![r] = Append(@, IF \A q \in PagesOf(r) : out'[q] = 1
                                               THEN 1 ELSE 2)]
             ELSE ans
  <2>1. CASE Pending(r)' = {}
    <3>1. ans'[r] = <<Outcome(r)'>> /\ ans[r] = <<>>
      BY Zenon, <1>1, <1>8, <2>1
    <3>2. PICK e \in {1, 2} : e = IF \A q \in PagesOf(r) : out'[q] = 1 THEN 1 ELSE 2
      BY Zenon
    <3>3. Outcome(r)' = e
      BY Zenon, <1>7, <2>1, <3>2
    <3>4. ans'[r] = Append(ans[r], e)
      <4>1. Append(<<>>, e) = <<e>>
        OBVIOUS
      <4>2. QED
        BY Zenon, <3>1, <3>3, <4>1
    <3>5. QED
      BY Zenon, <1>1, <1>6, <2>1, <3>2, <3>4
  <2>2. CASE Pending(r)' # {}
    BY Zenon, <1>1, <1>6, <1>8, <2>2
  <2>3. QED
    BY Zenon, <2>1, <2>2
<1>10. [q \in UnicastRequest |-> PagesOf(q)][r] = PagesOf(r)
  BY Zenon, <1>1
<1>11. Service!Answer(r) = IF \A q \in PagesOf(r) : out'[q] = 1 THEN 1 ELSE 2
  BY Zenon, <1>10 DEF Service!Answer, Service!SUCCESS, Service!FAIL
<1>12. ans' = IF \A q \in [q \in UnicastRequest |-> PagesOf(q)][r] : out'[q] # 0
              THEN [ans EXCEPT ![r] = Append(ans[r], Service!Answer(r))]
              ELSE ans
  BY Zenon, <1>9, <1>10, <1>11
<1>13. QED
  BY Zenon, <1>5, <1>12 DEF Service!Settle, Service!PENDING

\* What the service sees: the result of every page and the answers to every
\* unicast request.
Results == [p \in UnicastServerPage |-> reported[p]]
Replies == [r \in UnicastRequest |-> answers[r]]

\* The initial states are initial states of the service, and every step is a step
\* of it or leaves what it sees alone.
LEMMA ServiceInit == Init => Service!Init
<1>1. UnicastServerPage \subseteq Page /\ UnicastRequest \subseteq Request
  BY Zenon, PageKinds DEF UnicastServerPage, UnicastRequest
<1>2. QED
  BY Zenon, <1>1 DEF Init, Service!Init, Service!PENDING, MANAGER_SEND_DEFAULT

\* Every step is a step of the service or leaves alone what it sees.
LEMMA ServiceStep ==
    ASSUME AnswerInv, AnswerInv', [Next]_vars
    PROVE  [Service!Next]_<<Results, Replies>>
<1> SUFFICES Service!Next \/ UNCHANGED <<Results, Replies>>
  BY Zenon
<1> USE DEF Results, Replies
<1>1. /\ UnicastServerPage \subseteq ServerPage /\ UnicastServerPage \subseteq Page
      /\ reported \in [Page -> State]
  <2>1. UnicastServerPage \subseteq ServerPage
    BY Zenon DEF UnicastServerPage, UnicastRequest, ServerPage
  <2>2. QED
    BY Zenon, <2>1, PageKinds DEF AnswerInv, PageInv, TypeOK
<1>2. CASE ~LogicResult
  BY Zenon, <1>2, ReportsFrame
<1>3. CASE LogicResult
  <2>1. PICK p : p = Head(logicQueue).page
    BY Zenon
  <2>2. CASE p \notin ServerPage
    <3>1. answers' = answers /\ reported' = [reported EXCEPT ![p] = headState[p]]
      BY Zenon, <1>3, <2>1, <2>2, ResultTaken
    <3>2. QED
      BY Zenon, <1>1, <2>2, <3>1
  <2>3. CASE p \in ServerPage
    <3>1. PICK r, v : r = requestOf(p) /\ v = headState[p]
      BY Zenon
    <3>2. Service!Settle(r, p, v)
      BY Zenon, <1>3, <2>1, <2>3, <3>1, ResultSettles
    <3>3. /\ r \in UnicastRequest /\ p \in PagesOf(r)
          /\ v \in {MANAGER_SEND_SUCCESS, MANAGER_SEND_FAIL}
      BY Zenon, <1>3, <2>1, <2>3, <3>1, ResultTaken DEF Verdict
    <3>4. /\ p \in [q \in UnicastRequest |-> PagesOf(q)][r]
          /\ v \in {Service!SUCCESS, Service!FAIL}
      BY Zenon, <3>3 DEF Service!SUCCESS, Service!FAIL, MANAGER_SEND_SUCCESS, MANAGER_SEND_FAIL
    <3>5. Service!Next
      BY Zenon, <3>2, <3>3, <3>4 DEF Service!Next
    <3>6. QED
      BY Zenon, <3>5
  <2>4. QED
    BY Zenon, <2>2, <2>3
<1>4. QED
  BY Zenon, <1>2, <1>3

\* The counters agree with the results in every state that is reached.
THEOREM AnswerInvariant == Spec => []AnswerInv
<1>1. AnswerInv /\ [Next]_vars => AnswerInv'
  BY Zenon, AnswerStep
<1>2. QED
  BY <1>1, AnswerInit, PTL DEF Spec

\* The server is answered at most once for a device, after the last page, and
\* told SUCCESS exactly when every page was reported SUCCESS.
THEOREM AnswersSound == Spec => []AnswerSound
<1>1. AnswerInv => AnswerSound
  BY Zenon, AnswerTrue
<1>2. QED
  BY <1>1, AnswerInvariant, PTL

\* The radio is only ever given a page that the operation task holds and that
\* has no result yet.
THEOREM LivePagesSent == Spec => TransmitsLivePages
<1>1. AnswerInv /\ [Next]_vars =>
         [\A p \in Page : tries'[p] # tries[p] =>
              /\ holder[p] \in {"operationQueue", "sendList"}
              /\ reported[p] = MANAGER_SEND_DEFAULT]_vars
  BY Zenon, LiveStep
<1>2. QED
  BY <1>1, AnswerInvariant, PTL DEF Spec, TransmitsLivePages

\* The shared counters of the pages implement the service that the server is
\* promised: a page gets one result, and the last one brings the one answer.
THEOREM ServiceImplemented == Spec => ImplementsService
<1>1. AnswerInv /\ AnswerInv' /\ [Next]_vars => [Service!Next]_<<Results, Replies>>
  BY Zenon, ServiceStep
<1>2. QED
  BY <1>1, ServiceInit, AnswerInvariant, PTL
     DEF Spec, ImplementsService, Service!Spec, Results, Replies

-----------------------------------------------------------------------------
(* The results are accounted for. *)

LEMMA CountInit == Init => CountInv
<1> SUFFICES ASSUME Init PROVE CountInv
  BY Zenon
<1>1. /\ operationQueue = <<>> /\ sendList = <<>> /\ phase = "scanning" /\ otaAir = 0
      /\ onAir = [i \in Iote |-> 0] /\ acks = [i \in Iote |-> 0]
      /\ \A p \in Page : /\ holder[p] = "fresh"
                         /\ reported[p] = MANAGER_SEND_DEFAULT
  BY Zenon DEF Init
<1>2. HasSize({}, 0) /\ AtMost({}, 0)
  <2>1. /\ <<>> \in [1 .. 0 -> {}] /\ [x \in {} |-> 0] \in [{} -> 1 .. 0]
    OBVIOUS
  <2>2. HasSize({}, 0)
    BY Zenon, <2>1 DEF HasSize
  <2>3. AtMost({}, 0)
    BY Zenon, <2>1 DEF AtMost
  <2>4. QED
    BY Zenon, <2>2, <2>3
<1>3. \A E : Positions(operationQueue, E) = {} /\ Positions(sendList, E) = {}
  BY <1>1 DEF Positions
<1>4. \A E, L : Balanced(operationQueue, sendList, E, L, 0)
  BY <1>2, <1>3 DEF Balanced
<1>5. ASSUME NEW i \in Iote PROVE Backed(i)
  <2>1. Credited(i) = {} /\ acks[i] = 0
    BY <1>1 DEF Credited, To, Unicast, MANAGER_SEND_DEFAULT, MANAGER_SEND_SUCCESS
  <2>2. 0 - 0 = 0 /\ 0 <= 0 /\ 0 \in Nat
    OBVIOUS
  <2>3. QED
    BY Zenon, <1>2, <1>3, <2>1, <2>2 DEF Backed, Covered
<1>6. Ledger
  BY Zenon, <1>1, <1>4 DEF Ledger
<1>7. QED
  BY Zenon, <1>5, <1>6 DEF CountInv

Finite == INSTANCE FiniteSetTheorems

\* A set of numbers has a least one.
LEMMA Least == ASSUME NEW T \in SUBSET Nat, T # {} PROVE \E x \in T : \A y \in T : ~(y < x)
<1> DEFINE R == Finite!OpToRel(<, Nat)
<1>1. Finite!IsWellFoundedOn(R, Nat)
  BY Zenon, Finite!NatLessThanWellFounded
<1>2. PICK x \in T : \A y \in T : ~(<<y, x>> \in R)
  BY Zenon, <1>1, Finite!WFMin
<1>3. \A y, z \in Nat : y < z => <<y, z>> \in R
  BY Zenon DEF Finite!OpToRel
<1> HIDE DEF R
<1>4. QED
  BY Zenon, <1>2, <1>3

\* A result that finds no page: none of the listed ones is meant.
LEMMA NoneFound ==
    ASSUME NEW M, NEW s \in Seq(M), NEW L, query_head_list(s, L) = {}
    PROVE  \A j \in DOMAIN s : s[j] \notin L
<1> SUFFICES ASSUME Positions(s, L) # {} PROVE FALSE
  BY Zenon DEF Positions
<1>1. DOMAIN s = 1 .. Len(s) /\ Len(s) \in Nat
  OBVIOUS
<1>2. Positions(s, L) \in SUBSET Nat
  BY <1>1 DEF Positions
<1>3. PICK x \in Positions(s, L) : \A y \in Positions(s, L) : ~(y < x)
  BY Zenon, <1>2, Least
<1>4. x \in query_head_list(s, L)
  BY <1>1, <1>3 DEF Positions, query_head_list
<1>5. QED
  BY Zenon, <1>4

\* Every step keeps the results accounted for.
LEMMA CountStep == ASSUME PageInv, CountInv, [Next]_vars PROVE CountInv'
<1>0. Findable
  <2>1. sendList \in Seq(Page)
    BY Zenon DEF PageInv, TypeOK
  <2>2. QED
    BY Zenon, <2>1, NoneFound DEF Findable
<1>1. \A i \in Iote : Backed(i)'
  BY Zenon, <1>0, BackedStep DEF CountInv
<1>2. ~lossy' => Ledger'
  <2>1. lossy => lossy'
    BY Zenon, LossyStays DEF PageInv
  <2>2. QED
    BY Zenon, <1>0, <2>1, LedgerStep DEF CountInv
<1>3. QED
  BY Zenon, <1>1, <1>2 DEF CountInv

\* The enumerations count what Cardinality counts.
LEMMA SizeCounts ==
    ASSUME NEW S, NEW n \in Nat
    PROVE  /\ HasSize(S, n) => Cardinality(S) = n
           /\ AtMost(S, n) => Cardinality(S) \in Nat /\ Cardinality(S) <= n
<1>1. \A T : Cardinality(T) = Finite!Cardinality(T)
  BY Zenon DEF Cardinality, Finite!Cardinality
<1>2. ASSUME HasSize(S, n) PROVE Cardinality(S) = n
  <2>1. Finite!ExistsBijection(1 .. n, S)
    BY Zenon, <1>2 DEF HasSize, Finite!ExistsBijection, Finite!Bijection, Finite!Injection,
       Finite!Surjection, Finite!IsInjective
  <2>2. QED
    BY Zenon, <1>1, <2>1, Finite!FS_CountingElements
<1>3. ASSUME AtMost(S, n) PROVE Cardinality(S) \in Nat /\ Cardinality(S) <= n
  <2>1. PICK f \in [S -> 1 .. n] : \A s, t \in S : f[s] = f[t] => s = t
    BY Zenon, <1>3 DEF AtMost
  <2>2. f \in Finite!Injection(S, 1 .. n)
    BY Zenon, <2>1 DEF Finite!Injection, Finite!IsInjective
  <2>3. Finite!IsFiniteSet(1 .. n) /\ Finite!Cardinality(1 .. n) = n
    BY Finite!FS_Interval
  <2>4. Finite!IsFiniteSet(S) /\ Finite!Cardinality(S) <= n
    BY <2>2, <2>3, Finite!FS_Injection
  <2>5. QED
    BY Zenon, <1>1, <2>4, Finite!FS_CardinalityType
<1>4. QED
  BY Zenon, <1>2, <1>3

\* What the invariant says of the cardinalities in the properties.
LEMMA CountTrue ==
    ASSUME PageInv, CountInv PROVE SuccessBacked /\ ResultForEachListed
<1>1. /\ operationQueue \in Seq(OperationMessage) /\ acks \in [Iote -> Nat]
      /\ onAir \in [Iote -> Nat] /\ otaAir \in Nat
  BY Zenon DEF PageInv, TypeOK
<1>2. ASSUME NEW i \in Iote
      PROVE  Cardinality({p \in Unicast : /\ dest[p] = i
                                          /\ reported[p] = MANAGER_SEND_SUCCESS})
                <= acks[i]
  <2> DEFINE S == {p \in Unicast : /\ dest[p] = i
                                   /\ reported[p] = MANAGER_SEND_SUCCESS}
  <2>1. PICK n \in Nat : n <= acks[i] /\ AtMost(Credited(i), acks[i] - n)
    BY Zenon DEF CountInv, Backed, Covered
  <2>2. acks[i] \in Nat /\ acks[i] - n \in Nat /\ acks[i] - n <= acks[i]
    BY <1>1, <2>1
  <2>3. S \in SUBSET Credited(i)
    BY Zenon DEF Credited, To
  <2> HIDE DEF S
  <2>4. AtMost(S, acks[i])
    BY Zenon, <2>1, <2>2, <2>3, Fewer
  <2>5. Cardinality(S) <= acks[i]
    BY Zenon, <2>2, <2>4, SizeCounts
  <2>6. QED
    BY Zenon, <2>5 DEF S
<1>3. \A E, L, air : air \in Nat /\ Balanced(operationQueue, sendList, E, L, air) =>
         Cardinality(Positions(sendList, L)) =
            air + Cardinality(Positions(operationQueue, E))
  <2> SUFFICES ASSUME NEW E, NEW L, NEW air \in Nat,
                      Balanced(operationQueue, sendList, E, L, air)
               PROVE  Cardinality(Positions(sendList, L)) =
                         air + Cardinality(Positions(operationQueue, E))
    BY Zenon
  <2>1. PICK n \in Nat : /\ HasSize(Positions(operationQueue, E), n)
                         /\ HasSize(Positions(sendList, L), n + air)
    BY Zenon DEF Balanced
  <2>2. /\ Cardinality(Positions(operationQueue, E)) = n
        /\ Cardinality(Positions(sendList, L)) = n + air
    BY <2>1, SizeCounts
  <2>3. QED
    BY <2>2
<1>4. /\ \A L : Count(sendList, L) = Cardinality(Positions(sendList, L))
      /\ \A i \in Iote :
            ResultsQueued(i) = Cardinality(Positions(operationQueue, ResultsFor(i)))
      /\ OtaResultsQueued = Cardinality(Positions(operationQueue, OtaResults))
  <2>1. \A L : Count(sendList, L) = Cardinality(Positions(sendList, L))
    BY Zenon DEF Count, Positions
  <2>2. \A j \in DOMAIN operationQueue : operationQueue[j] \in OperationMessage
    BY <1>1
  <2>3. ASSUME NEW i \in Iote
        PROVE  ResultsQueued(i) = Cardinality(Positions(operationQueue, ResultsFor(i)))
    <3>1. Positions(operationQueue, ResultsFor(i)) =
             {j \in DOMAIN operationQueue : /\ operationQueue[j].cmd = "MSG_RESULT"
                                            /\ operationQueue[j].id = i}
      BY Zenon, <2>2 DEF Positions, ResultsFor
    <3>2. QED
      BY Zenon, <3>1 DEF ResultsQueued
  <2>4. Positions(operationQueue, OtaResults) =
           {j \in DOMAIN operationQueue : operationQueue[j].cmd = "OTA_RADIO_RESULT"}
    BY Zenon, <2>2 DEF Positions, OtaResults
  <2>5. OtaResultsQueued = Cardinality(Positions(operationQueue, OtaResults))
    BY Zenon, <2>4 DEF OtaResultsQueued
  <2>6. QED
    BY Zenon, <2>1, <2>3, <2>5
<1>5. ASSUME ~lossy
      PROVE  /\ \A i \in Iote : Count(sendList, To(i)) = onAir[i] + ResultsQueued(i)
             /\ Count(sendList, Ota) = otaAir + OtaResultsQueued
  <2>1. /\ \A i \in Iote :
              Balanced(operationQueue, sendList, ResultsFor(i), To(i), onAir[i])
        /\ Balanced(operationQueue, sendList, OtaResults, Ota, otaAir)
    BY Zenon, <1>5 DEF CountInv, Ledger
  <2>2. \A i \in Iote : Count(sendList, To(i)) = onAir[i] + ResultsQueued(i)
    BY <1>1, <1>3, <1>4, <2>1
  <2>3. Count(sendList, Ota) = otaAir + OtaResultsQueued
    BY Zenon, <1>1, <1>3, <1>4, <2>1
  <2>4. QED
    BY Zenon, <2>2, <2>3
<1>6. QED
  BY Zenon, <1>2, <1>5 DEF SuccessBacked, ResultForEachListed

\* The results are accounted for in every state that is reached.
THEOREM CountInvariant == Spec => []CountInv
<1>1. PageInv /\ CountInv /\ [Next]_vars => CountInv'
  BY Zenon, CountStep
<1>2. QED
  BY <1>1, CountInit, PageInvariant, PTL DEF Spec

\* No more pages are reported SUCCESS for a device than it acknowledged.
THEOREM SuccessesBacked == Spec => []SuccessBacked
<1>1. PageInv /\ CountInv => SuccessBacked
  BY Zenon, CountTrue
<1>2. QED
  BY <1>1, CountInvariant, PageInvariant, PTL

\* Unless something was dropped or discarded, every listed page has a result
\* of its own to come, so none waits for ever for one.
THEOREM ListedAwaitResults == Spec => []ResultForEachListed
<1>1. PageInv /\ CountInv => ResultForEachListed
  BY Zenon, CountTrue
<1>2. QED
  BY <1>1, CountInvariant, PageInvariant, PTL

=============================================================================
