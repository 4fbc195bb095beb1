------------------------------- MODULE UserId -------------------------------
(***************************************************************************)
(* Replacing the ids of the devices (manager_userid.c). The server gives   *)
(* the access point ranges of ids; each id belongs to one position of the  *)
(* radio frame, and the logic task keeps one list of ids per position. A   *)
(* device that asks for an id is given one from the list at the position   *)
(* whose turn it is; messages to a device go to the id it was given.       *)
(*                                                                         *)
(* All of this runs in the logic task. The loop of                         *)
(* manager_get_reserved_address is one step per id; no other handler runs  *)
(* before it is over.                                                      *)
(***************************************************************************)
EXTENDS Integers, Sequences, FiniteSets, LinkedList

CONSTANTS
    Device,          \* the devices' own addresses (dev_mac)
    None,            \* dev_mac of an id that no device has
    Ranges,          \* the ranges of ids the server may give: [first, last]
    Address,         \* the ids, with the reserved bit that the logic task sets
    all_index,       \* the number of positions
    position,        \* position[a]: group and burst of id a
    MaxRequest,      \* bound on the requests of devices
    MaxFault         \* bound on lost messages and failed queries

Position == 0 .. all_index - 1

ASSUME UserIdAssumption ==
    /\ None \notin Device
    /\ Address \subseteq Nat /\ Address \cap Device = {}
    /\ \A r \in Ranges : r.first \in Nat /\ r.last \in Nat
    /\ \A r \in Ranges : \A a \in r.first .. r.last : a \in Address
    /\ \A r, s \in Ranges : r # s =>
          \A a \in r.first .. r.last : a \notin s.first .. s.last
    /\ all_index \in Nat \ {0}
    /\ position \in [Address -> Position]
    /\ MaxRequest \in Nat /\ MaxFault \in Nat

VARIABLES
    hash,                 \* manager_reserve_addr_hash
    id_reallocated_index,
    started,              \* manager_address_init was called
    requested,            \* the server heard that ids are needed
    given,                \* the ranges the server has sent
    next, last,           \* ids the loop has still to insert: next .. last
    requests, faults,
    told                  \* history: the ids that devices received

vars == <<hash, id_reallocated_index, started, requested, given, next, last,
          requests, faults, told>>

Node == [address : Address, dev_mac : Device \cup {None},
         allocate_flag : {"RESERVED", "PREALLOCATED"},
         current_com_count : 0 .. 255]

Init ==
    /\ hash = [p \in Position |-> <<>>]
    /\ id_reallocated_index = 0
    /\ started = FALSE /\ requested = FALSE
    /\ given = {} /\ next = 1 /\ last = 0
    /\ requests = 0 /\ faults = 0
    /\ told = {}

Fault == faults < MaxFault /\ faults' = faults + 1
Looping == next <= last
Ready == started /\ ~Looping

\* The ids are requested once; the request may be lost in a queue or outside.
manager_address_init ==
    /\ ~started
    /\ started' = TRUE
    /\ (requested' = TRUE /\ UNCHANGED faults) \/ (Fault /\ UNCHANGED requested)
    /\ UNCHANGED <<hash, id_reallocated_index, given, next, last, requests, told>>

\* A range arrives; the radio may fail to tell the positions of its ids.
manager_get_reserved_address(r) ==
    /\ Ready /\ requested /\ r \notin given
    /\ given' = given \cup {r}
    /\ \/ next' = r.first /\ last' = r.last /\ UNCHANGED faults
       \/ Fault /\ UNCHANGED <<next, last>>
    /\ UNCHANGED <<hash, id_reallocated_index, started, requested, requests, told>>

Reserved(a) == [address |-> a, dev_mac |-> None, allocate_flag |-> "RESERVED",
                current_com_count |-> 0]

InsertAddress ==
    /\ Looping
    /\ hash' = [hash EXCEPT ![position[next]] =
                   insert_head_manager_list(@, Reserved(next))]
    /\ next' = next + 1
    /\ UNCHANGED <<id_reallocated_index, started, requested, given, last, requests,
                   faults, told>>

query_element_allocate(d) ==
    {n \in Node : n.allocate_flag = "PREALLOCATED" /\ n.dev_mac = d}

\* Variant: every id can be given.
counter_element_reserved_all == Node

counter_element_reserved == {n \in Node : n.allocate_flag = "RESERVED"}

\* The positions at which device d has an id.
Held(d) == {p \in Position : \E i \in DOMAIN hash[p] :
                                  hash[p][i] \in query_element_allocate(d)}
First(d) == CHOOSE p \in Held(d) : \A q \in Held(d) : p <= q
The(S) == CHOOSE i \in S : TRUE

\* The id goes back to the device, or is lost on the way.
Answer(d, a) ==
    \/ told' = told \cup {[dev |-> d, address |-> a]} /\ UNCHANGED faults
    \/ Fault /\ UNCHANGED told

NextIndex == IF id_reallocated_index + 1 > all_index - 1 THEN 0
             ELSE id_reallocated_index + 1

\* A node that is given to device d, the first time or again.
GivenTo(n, d) ==
    [address |-> n.address, dev_mac |-> d, allocate_flag |-> "PREALLOCATED",
     current_com_count |-> (n.current_com_count + 1) % 256]

\* The lists after the node at place i of list p was given to device d.
Give(p, i, d) == [hash EXCEPT ![p][i] = GivenTo(hash[p][i], d)]

\* manager_reallocated_wiotaid for device d: the id it already has, or one of the
\* position whose turn it is, or nothing when that position has none left.
manager_reallocated_wiotaid(d) ==
    LET index == id_reallocated_index
        free == query_head_list(hash[index], counter_element_reserved)
    IN  /\ Ready /\ requests < MaxRequest
        /\ requests' = requests + 1
        /\ \/ /\ Held(d) # {}
              /\ \E i \in query_head_list(hash[First(d)], query_element_allocate(d)) :
                    /\ hash' = Give(First(d), i, d)
                    /\ Answer(d, hash[First(d)][i].address)
              /\ UNCHANGED id_reallocated_index
           \/ /\ Held(d) = {}
              /\ \E i \in free :
                    /\ hash' = Give(index, i, d)
                    /\ Answer(d, hash[index][i].address)
              /\ id_reallocated_index' = NextIndex
           \/ /\ Held(d) = {} /\ free = {}
              /\ UNCHANGED <<hash, id_reallocated_index, told, faults>>
        /\ UNCHANGED <<started, requested, given, next, last>>

\* Variant: the last position is not searched.
manager_query_wiotaid_short(d) ==
    IF Held(d) \ {all_index - 1} = {} THEN d
    ELSE LET p == First(d)
         IN  hash[p][The(query_head_list(hash[p], query_element_allocate(d)))].address

\* Where a message for device d is sent: to its id, or to its own address.
manager_query_wiotaid(d) ==
    IF Held(d) = {} THEN d
    ELSE LET p == First(d)
         IN  hash[p][The(query_head_list(hash[p], query_element_allocate(d)))].address

\* The logic task waits for messages.
Waiting == Ready /\ UNCHANGED vars

Next ==
    \/ manager_address_init
    \/ \E r \in Ranges : manager_get_reserved_address(r)
    \/ InsertAddress
    \/ \E d \in Device : manager_reallocated_wiotaid(d)
    \/ Waiting

Spec == Init /\ [][Next]_vars

-----------------------------------------------------------------------------
(* Properties. *)

\* Every variable has its type.
TypeOK ==
    /\ hash \in [Position -> Seq(Node)]
    /\ id_reallocated_index \in Position
    /\ started \in BOOLEAN /\ requested \in BOOLEAN
    /\ given \subseteq Ranges
    /\ next \in Nat /\ last \in Nat
    /\ requests \in 0 .. MaxRequest /\ faults \in 0 .. MaxFault
    /\ told \subseteq [dev : Device, address : Address]

\* However requests, lost answers and new ranges follow each other, no two
\* devices are ever told the same id and no device is told two ids.
OneOwner == \A t, u \in told : t.dev = u.dev <=> t.address = u.address

\* manager_send_packet sends a message for a device to the id that the device
\* was told, from the moment it was told.
RouteTrue == \A t \in told : manager_query_wiotaid(t.dev) = t.address

=============================================================================
