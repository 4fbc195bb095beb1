---------------------------- MODULE UserIdProofs ----------------------------
(***************************************************************************)
(* Proofs about UserId, for every set of devices, of ranges and every      *)
(* assignment of ids to positions.                                         *)
(***************************************************************************)
EXTENDS UserId, TLAPS

\* Place i of list p has an id of device d.
Has(p, i, d) ==
    hash[p][i].allocate_flag = "PREALLOCATED" /\ hash[p][i].dev_mac = d

\* The ids in the lists come from ranges that arrived, and those that the loop
\* has still to insert are in none of them.
InRange ==
    /\ \A p \in Position : \A i \in DOMAIN hash[p] :
          /\ \E r \in given : hash[p][i].address \in r.first .. r.last
          /\ hash[p][i].address \notin next .. last
    /\ Looping => \E r \in given : r.first <= next /\ last = r.last

\* No id is in the lists twice.
Unique ==
    \A p, q \in Position : \A i \in DOMAIN hash[p], j \in DOMAIN hash[q] :
        hash[p][i].address = hash[q][j].address => p = q /\ i = j

\* No device has two ids.
OneNode ==
    \A d \in Device, p, q \in Position :
        \A i \in DOMAIN hash[p], j \in DOMAIN hash[q] :
            Has(p, i, d) /\ Has(q, j, d) => p = q /\ i = j

\* A device has the id it was told.
ToldBacked ==
    \A t \in told : \E p \in Position : \E i \in DOMAIN hash[p] :
        Has(p, i, t.dev) /\ hash[p][i].address = t.address

\* The inductive invariant.
IdInv == TypeOK /\ InRange /\ Unique /\ OneNode /\ ToldBacked

-----------------------------------------------------------------------------
\* What giving an id to a device does to the lists, by place.
LEMMA GiveFact ==
    ASSUME TypeOK, NEW p \in Position, NEW i \in DOMAIN hash[p], NEW d \in Device
    PROVE  /\ Give(p, i, d) \in [Position -> Seq(Node)]
           /\ \A q \in Position : DOMAIN Give(p, i, d)[q] = DOMAIN hash[q]
           /\ \A q \in Position : \A j \in DOMAIN hash[q] :
                 /\ Give(p, i, d)[q][j].address = hash[q][j].address
                 /\ q # p \/ j # i => Give(p, i, d)[q][j] = hash[q][j]
           /\ Give(p, i, d)[p][i].allocate_flag = "PREALLOCATED"
           /\ Give(p, i, d)[p][i].dev_mac = d
<1> DEFINE n == GivenTo(hash[p][i], d)
           l == [hash[p] EXCEPT ![i] = n]
<1>1. hash[p] \in Seq(Node) /\ hash[p][i] \in Node
  BY DEF TypeOK
<1>2. /\ n \in Node /\ n.address = hash[p][i].address
      /\ n.allocate_flag = "PREALLOCATED" /\ n.dev_mac = d
  <2>1. hash[p][i].address \in Address /\ hash[p][i].current_com_count \in 0 .. 255
    BY <1>1 DEF Node
  <2>2. (hash[p][i].current_com_count + 1) % 256 \in 0 .. 255
    BY <2>1
  <2>3. QED
    BY Zenon, <2>1, <2>2 DEF GivenTo, Node
<1> HIDE DEF n
<1>3. /\ l \in Seq(Node) /\ DOMAIN l = DOMAIN hash[p] /\ l[i] = n
      /\ \A j \in DOMAIN hash[p] : j # i => l[j] = hash[p][j]
  BY <1>1, <1>2
<1> HIDE DEF l
<1>4. Give(p, i, d) = [hash EXCEPT ![p] = l]
  BY DEF Give, l, n, TypeOK
<1>5. hash \in [Position -> Seq(Node)]
  BY DEF TypeOK
<1>6. /\ Give(p, i, d) \in [Position -> Seq(Node)]
      /\ Give(p, i, d)[p] = l
      /\ \A q \in Position : q # p => Give(p, i, d)[q] = hash[q]
  BY <1>3, <1>4, <1>5
<1>7. QED
  BY Zenon, <1>2, <1>3, <1>6

\* What inserting an id at the head does to a list.
LEMMA HeadFact ==
    ASSUME NEW list \in Seq(Node), NEW n \in Node
    PROVE  LET new == insert_head_manager_list(list, n)
           IN  /\ new \in Seq(Node)
               /\ DOMAIN new = 1 .. Len(list) + 1
               /\ new[1] = n
               /\ \A j \in 2 .. Len(list) + 1 : new[j] = list[j - 1]
                                                /\ j - 1 \in DOMAIN list
  BY DEF insert_head_manager_list

-----------------------------------------------------------------------------
\* The steps that leave the lists, the loop and the ranges alone.
LEMMA QuietStep ==
    ASSUME IdInv, TypeOK', UNCHANGED <<hash, next, last, told>>, given \subseteq given'
    PROVE  IdInv'
<1>1. InRange'
  BY DEF IdInv, InRange, Looping
<1>2. Unique' /\ OneNode' /\ ToldBacked'
  BY DEF IdInv, Unique, OneNode, ToldBacked, Has
<1>3. QED
  BY <1>1, <1>2 DEF IdInv

\* A range arrives: its ids are in no list, because the ranges are disjoint.
LEMMA RangeStep ==
    ASSUME IdInv, NEW r \in Ranges, manager_get_reserved_address(r)
    PROVE  IdInv'
<1>1. /\ TypeOK' /\ given' = given \cup {r} /\ r \notin given
      /\ UNCHANGED <<hash, told>>
  BY UserIdAssumption DEF IdInv, TypeOK, manager_get_reserved_address, Fault
<1>2. CASE UNCHANGED <<next, last>>
  BY <1>1, <1>2, QuietStep
<1>3. CASE next' = r.first /\ last' = r.last
  <2>1. InRange'
    <3>1. ASSUME NEW p \in Position, NEW i \in DOMAIN hash[p]
          PROVE  /\ \E s \in given' : hash[p][i].address \in s.first .. s.last
                 /\ hash[p][i].address \notin r.first .. r.last
      <4>1. PICK s \in given : hash[p][i].address \in s.first .. s.last
        BY DEF IdInv, InRange
      <4>2. s \in Ranges /\ s # r
        BY <1>1, <4>1 DEF IdInv, TypeOK
      <4>3. QED
        BY <1>1, <4>1, <4>2, UserIdAssumption
    <3>2. r.first <= r.first
      BY UserIdAssumption
    <3>3. QED
      BY <1>1, <1>3, <3>1, <3>2 DEF InRange
  <2>2. Unique' /\ OneNode' /\ ToldBacked'
    BY <1>1 DEF IdInv, Unique, OneNode, ToldBacked, Has
  <2>3. QED
    BY <1>1, <2>1, <2>2 DEF IdInv
<1>4. QED
  BY <1>2, <1>3 DEF manager_get_reserved_address

\* The place at which the node of place k of list q is after an insertion into
\* list p.
Shift(p, q, k) == IF q = p THEN k + 1 ELSE k

\* What a step of the loop does to the lists, by place.
LEMMA InsertFact ==
    ASSUME IdInv, InsertAddress
    PROVE  LET p == position[next] IN
           /\ next \in Address /\ p \in Position
           /\ hash' \in [Position -> Seq(Node)]
           /\ 1 \in DOMAIN hash'[p] /\ hash'[p][1] = Reserved(next)
           /\ \A q \in Position : \A j \in DOMAIN hash'[q] :
                 \/ q = p /\ j = 1
                 \/ \E k \in DOMAIN hash[q] : j = Shift(p, q, k) /\ hash'[q][j] = hash[q][k]
           /\ \A q \in Position : \A k \in DOMAIN hash[q] :
                 /\ Shift(p, q, k) \in DOMAIN hash'[q]
                 /\ hash'[q][Shift(p, q, k)] = hash[q][k]
<1> DEFINE p == position[next]
           n == Reserved(next)
           l == insert_head_manager_list(hash[p], n)
<1>1. next \in Address
  <2>1. PICK r \in given : r.first <= next /\ last = r.last
    BY DEF IdInv, InRange, InsertAddress
  <2>2. next \in r.first .. r.last
    BY <2>1, UserIdAssumption DEF IdInv, TypeOK, InsertAddress, Looping
  <2>3. QED
    BY <2>1, <2>2, UserIdAssumption DEF IdInv, TypeOK
<1>2. p \in Position /\ n \in Node
  BY <1>1, UserIdAssumption DEF Reserved, Node
<1>3. hash \in [Position -> Seq(Node)] /\ hash[p] \in Seq(Node)
  BY <1>2 DEF IdInv, TypeOK
<1>4. hash' = [hash EXCEPT ![p] = l]
  BY <1>3 DEF InsertAddress
<1>5. /\ l \in Seq(Node) /\ DOMAIN l = 1 .. Len(hash[p]) + 1 /\ l[1] = n
      /\ \A j \in 2 .. Len(hash[p]) + 1 : l[j] = hash[p][j - 1] /\ j - 1 \in DOMAIN hash[p]
  BY Zenon, <1>2, <1>3, HeadFact
<1>6. DOMAIN hash[p] = 1 .. Len(hash[p]) /\ Len(hash[p]) \in Nat
  BY <1>3
<1> HIDE DEF p, n, l
<1>7. /\ hash' \in [Position -> Seq(Node)]
      /\ hash'[p] = l
      /\ \A q \in Position : q # p => hash'[q] = hash[q]
  BY <1>2, <1>3, <1>4, <1>5
<1>8. ASSUME NEW q \in Position, NEW j \in DOMAIN hash'[q]
      PROVE  \/ q = p /\ j = 1
             \/ \E k \in DOMAIN hash[q] : j = Shift(p, q, k) /\ hash'[q][j] = hash[q][k]
  <2>1. CASE q # p
    BY <1>7, <2>1 DEF Shift
  <2>2. CASE q = p /\ j # 1
    <3>1. j \in 2 .. Len(hash[p]) + 1
      BY <1>5, <1>6, <1>7, <2>2
    <3>2. j - 1 \in DOMAIN hash[q] /\ j = Shift(p, q, j - 1) /\ hash'[q][j] = hash[q][j - 1]
      BY <1>5, <1>6, <1>7, <2>2, <3>1 DEF Shift
    <3>3. QED
      BY <3>2
  <2>3. QED
    BY <2>1, <2>2
<1>9. ASSUME NEW q \in Position, NEW k \in DOMAIN hash[q]
      PROVE  /\ Shift(p, q, k) \in DOMAIN hash'[q]
             /\ hash'[q][Shift(p, q, k)] = hash[q][k]
  <2>1. CASE q # p
    BY <1>7, <2>1 DEF Shift
  <2>2. CASE q = p
    <3>1. k + 1 \in 2 .. Len(hash[p]) + 1 /\ (k + 1) - 1 = k
      BY <1>6, <2>2
    <3>2. l[k + 1] = hash[p][k] /\ k + 1 \in DOMAIN l
      BY <1>5, <1>6, <3>1
    <3>3. QED
      BY <1>7, <2>2, <3>2 DEF Shift
  <2>3. QED
    BY <2>1, <2>2
<1>10. 1 \in DOMAIN hash'[p] /\ hash'[p][1] = n
  BY <1>5, <1>6, <1>7
<1>11. QED
  BY <1>1, <1>2, <1>7, <1>8, <1>9, <1>10 DEF p, n

\* A step of the loop: the id it inserts is in no list yet.
LEMMA InsertStep ==
    ASSUME IdInv, InsertAddress
    PROVE  IdInv'
<1> DEFINE p == position[next]
<1>1. /\ next \in Address /\ p \in Position
      /\ hash' \in [Position -> Seq(Node)]
      /\ 1 \in DOMAIN hash'[p] /\ hash'[p][1] = Reserved(next)
  BY InsertFact
<1>2. \A q \in Position : \A j \in DOMAIN hash'[q] :
          \/ q = p /\ j = 1
          \/ \E k \in DOMAIN hash[q] : j = Shift(p, q, k) /\ hash'[q][j] = hash[q][k]
  BY InsertFact
<1>3. \A q \in Position : \A k \in DOMAIN hash[q] :
          /\ Shift(p, q, k) \in DOMAIN hash'[q]
          /\ hash'[q][Shift(p, q, k)] = hash[q][k]
  BY InsertFact
<1>4. /\ next' = next + 1 /\ next <= last /\ next \in Nat /\ last \in Nat
      /\ UNCHANGED <<id_reallocated_index, started, requested, given, last,
                     requests, faults, told>>
  BY DEF InsertAddress, Looping, IdInv, TypeOK
<1>5. TypeOK'
  BY <1>1, <1>4 DEF IdInv, TypeOK
<1>6. /\ Reserved(next).address = next
      /\ Reserved(next).allocate_flag = "RESERVED"
  BY DEF Reserved
<1> HIDE DEF p
<1>7. InRange'
  <2>1. PICK r \in given : r.first <= next /\ last = r.last
    BY DEF IdInv, InRange, InsertAddress
  <2>2. r.first \in Nat
    BY UserIdAssumption DEF IdInv, TypeOK
  <2>3. ASSUME NEW q \in Position, NEW j \in DOMAIN hash'[q]
        PROVE  /\ \E s \in given : hash'[q][j].address \in s.first .. s.last
               /\ hash'[q][j].address \notin next + 1 .. last
    <3>1. CASE q = p /\ j = 1
      <4>1. hash'[q][j].address = next
        BY <1>1, <1>6, <3>1
      <4>2. next \in r.first .. r.last /\ next \notin next + 1 .. last
        BY <1>4, <2>1, <2>2
      <4>3. QED
        BY <4>1, <4>2
    <3>2. CASE \E k \in DOMAIN hash[q] : hash'[q][j] = hash[q][k]
      <4>1. PICK k \in DOMAIN hash[q] : hash'[q][j] = hash[q][k]
        BY <3>2
      <4>2. /\ \E s \in given : hash[q][k].address \in s.first .. s.last
            /\ hash[q][k].address \notin next .. last
        BY DEF IdInv, InRange
      <4>3. QED
        BY <1>4, <4>1, <4>2
    <3>3. QED
      BY <1>2, <3>1, <3>2
  <2>4. r.first <= next + 1
    BY <1>4, <2>1, <2>2
  <2>5. QED
    BY <1>4, <2>1, <2>3, <2>4 DEF InRange
<1>8. \A q \in Position : \A k \in DOMAIN hash[q] : hash[q][k].address # next
  BY <1>4 DEF IdInv, InRange
<1>9. Unique'
  BY <1>1, <1>2, <1>6, <1>8 DEF IdInv, Unique
<1>10. OneNode'
  BY <1>1, <1>2, <1>6 DEF IdInv, OneNode, Has
<1>11. ToldBacked'
  BY <1>3, <1>4 DEF IdInv, ToldBacked, Has
<1>12. QED
  BY <1>5, <1>7, <1>9, <1>10, <1>11 DEF IdInv

\* An id is given to device d: one that the device has already, or one that no
\* device has while device d has none.
LEMMA GiveStep ==
    ASSUME IdInv, NEW d \in Device, NEW p \in Position, NEW i \in DOMAIN hash[p],
           \/ Has(p, i, d)
           \/ /\ hash[p][i].allocate_flag = "RESERVED"
              /\ \A q \in Position : \A j \in DOMAIN hash[q] : ~Has(q, j, d),
           TypeOK', hash' = Give(p, i, d), UNCHANGED <<given, next, last>>,
           told' \subseteq told \cup {[dev |-> d, address |-> hash[p][i].address]}
    PROVE  IdInv'
<1>1. /\ \A q \in Position : DOMAIN hash'[q] = DOMAIN hash[q]
      /\ \A q \in Position : \A j \in DOMAIN hash[q] :
            /\ hash'[q][j].address = hash[q][j].address
            /\ q # p \/ j # i => hash'[q][j] = hash[q][j]
      /\ hash'[p][i].allocate_flag = "PREALLOCATED"
      /\ hash'[p][i].dev_mac = d
  BY GiveFact DEF IdInv
<1>2. InRange'
  BY <1>1 DEF IdInv, InRange, Looping
<1>3. Unique'
  BY <1>1 DEF IdInv, Unique
<1>4. ASSUME NEW e \in Device, NEW q \in Position, NEW j \in DOMAIN hash[q], Has(q, j, e)'
      PROVE  (q = p /\ j = i /\ e = d) \/ ((q # p \/ j # i) /\ Has(q, j, e))
  BY <1>1, <1>4 DEF Has
<1>5. OneNode'
  <2>1. SUFFICES ASSUME NEW e \in Device, NEW q \in Position, NEW r \in Position,
                        NEW j \in DOMAIN hash[q], NEW k \in DOMAIN hash[r],
                        Has(q, j, e)', Has(r, k, e)'
                 PROVE  q = r /\ j = k
    BY <1>1 DEF OneNode
  <2>2. QED
    BY <1>4, <2>1 DEF IdInv, OneNode
<1>6. ToldBacked'
  <2>1. SUFFICES ASSUME NEW t \in told'
                 PROVE  \E q \in Position : \E j \in DOMAIN hash'[q] :
                           Has(q, j, t.dev)' /\ hash'[q][j].address = t.address
    BY DEF ToldBacked
  <2>2. CASE t = [dev |-> d, address |-> hash[p][i].address]
    BY <1>1, <2>2 DEF Has
  <2>3. CASE t \in told
    <3>0. PICK q \in Position : \E k \in DOMAIN hash[q] :
              Has(q, k, t.dev) /\ hash[q][k].address = t.address
      BY <2>3 DEF IdInv, ToldBacked
    <3>1. PICK j \in DOMAIN hash[q] :
              Has(q, j, t.dev) /\ hash[q][j].address = t.address
      BY <3>0
    <3>2. CASE q = p /\ j = i
      <4>1. t.dev = d
        BY <3>1, <3>2 DEF Has
      <4>2. QED
        BY <1>1, <3>1, <3>2, <4>1 DEF Has
    <3>3. CASE q # p \/ j # i
      BY <1>1, <3>1, <3>3 DEF Has
    <3>4. QED
      BY <3>2, <3>3
  <2>4. QED
    BY <2>1, <2>2, <2>3
<1>7. QED
  BY <1>2, <1>3, <1>5, <1>6 DEF IdInv

\* The positions at which a device has an id are the ones of its nodes.
LEMMA HeldFact ==
    ASSUME TypeOK, NEW d \in Device
    PROVE  /\ Held(d) = {p \in Position : \E i \in DOMAIN hash[p] : Has(p, i, d)}
           /\ \A p \in Position :
                 query_head_list(hash[p], query_element_allocate(d)) =
                    {i \in DOMAIN hash[p] :
                        Has(p, i, d) /\ \A j \in 1 .. i - 1 :
                                          hash[p][j] \notin query_element_allocate(d)}
<1>1. ASSUME NEW p \in Position, NEW i \in DOMAIN hash[p]
      PROVE  hash[p][i] \in query_element_allocate(d) <=> Has(p, i, d)
  <2>1. hash[p][i] \in Node
    BY DEF TypeOK
  <2>2. QED
    BY <2>1 DEF query_element_allocate, Has
<1>2. QED
  BY <1>1 DEF Held, query_head_list

\* A device asks for an id.
LEMMA RequestStep ==
    ASSUME IdInv, NEW d \in Device, manager_reallocated_wiotaid(d)
    PROVE  IdInv'
<1> DEFINE index == id_reallocated_index
           free == query_head_list(hash[index], counter_element_reserved)
<1>1. /\ requests' \in 0 .. MaxRequest
      /\ UNCHANGED <<started, requested, given, next, last>>
  BY UserIdAssumption DEF manager_reallocated_wiotaid, IdInv, TypeOK
<1>2. NextIndex \in Position /\ index \in Position
  BY UserIdAssumption DEF NextIndex, Position, IdInv, TypeOK
<1>3. ASSUME NEW p \in Position, NEW i \in DOMAIN hash[p],
             hash' = Give(p, i, d), Answer(d, hash[p][i].address),
             id_reallocated_index' \in Position
      PROVE  /\ TypeOK'
             /\ told' \subseteq told \cup {[dev |-> d, address |-> hash[p][i].address]}
  <2>0. hash[p][i] \in Node
    BY DEF IdInv, TypeOK
  <2>1. hash[p][i].address \in Address
    BY <2>0 DEF Node
  <2>2. hash' \in [Position -> Seq(Node)]
    BY <1>3, GiveFact DEF IdInv
  <2>3. /\ told' \subseteq told \cup {[dev |-> d, address |-> hash[p][i].address]}
        /\ faults' \in 0 .. MaxFault
    BY <1>3, UserIdAssumption DEF Answer, Fault, IdInv, TypeOK
  <2>4. told' \subseteq [dev : Device, address : Address]
    BY <2>1, <2>3 DEF IdInv, TypeOK
  <2>5. QED
    BY <1>1, <1>3, <2>2, <2>3, <2>4 DEF IdInv, TypeOK
<1>4. CASE /\ Held(d) # {}
           /\ \E i \in query_head_list(hash[First(d)], query_element_allocate(d)) :
                 hash' = Give(First(d), i, d) /\ Answer(d, hash[First(d)][i].address)
           /\ UNCHANGED id_reallocated_index
  <2>1. First(d) \in Position
    <3>1. PICK p \in Held(d) : TRUE
      BY <1>4
    <3>2. \A q \in Held(d) : q = p
      BY HeldFact DEF IdInv, OneNode
    <3>3. p \in Int
      BY UserIdAssumption DEF Held, Position
    <3>4. p <= p /\ \A q \in Held(d) : p <= q
      BY <3>2, <3>3
    <3>5. First(d) \in Held(d)
      BY <3>4 DEF First
    <3>6. QED
      BY <3>5 DEF Held
  <2>2. PICK i \in query_head_list(hash[First(d)], query_element_allocate(d)) :
            hash' = Give(First(d), i, d) /\ Answer(d, hash[First(d)][i].address)
    BY <1>4
  <2>3. i \in DOMAIN hash[First(d)] /\ Has(First(d), i, d)
    BY <2>1, HeldFact DEF IdInv
  <2>4. QED
    BY <1>1, <1>2, <1>3, <1>4, <2>1, <2>2, <2>3, GiveStep
<1>5. CASE /\ Held(d) = {}
           /\ \E i \in free : hash' = Give(index, i, d) /\ Answer(d, hash[index][i].address)
           /\ id_reallocated_index' = NextIndex
  <2>1. PICK i \in free : hash' = Give(index, i, d) /\ Answer(d, hash[index][i].address)
    BY <1>5
  <2>2. i \in DOMAIN hash[index] /\ hash[index][i].allocate_flag = "RESERVED"
    BY DEF query_head_list, counter_element_reserved
  <2>3. \A q \in Position : \A j \in DOMAIN hash[q] : ~Has(q, j, d)
    BY <1>5, HeldFact DEF IdInv
  <2>4. QED
    BY <1>1, <1>2, <1>3, <1>5, <2>1, <2>2, <2>3, GiveStep
<1>6. CASE UNCHANGED <<hash, id_reallocated_index, told, faults>>
  <2>1. TypeOK'
    BY <1>1, <1>6 DEF IdInv, TypeOK
  <2>2. QED
    BY <1>1, <1>6, <2>1, QuietStep
<1>7. QED
  BY <1>4, <1>5, <1>6 DEF manager_reallocated_wiotaid

-----------------------------------------------------------------------------
\* The invariant holds at the start.
LEMMA IdInit == Init => IdInv
<1> SUFFICES ASSUME Init PROVE IdInv
  OBVIOUS
<1>1. TypeOK
  BY UserIdAssumption DEF Init, TypeOK, Position
<1>2. \A p \in Position : DOMAIN hash[p] = {}
  BY DEF Init
<1>3. ~Looping /\ told = {}
  BY DEF Init, Looping
<1>4. QED
  BY <1>1, <1>2, <1>3 DEF IdInv, InRange, Unique, OneNode, ToldBacked

\* Every step keeps the invariant.
LEMMA IdStep == IdInv /\ [Next]_vars => IdInv'
<1> SUFFICES ASSUME IdInv, [Next]_vars PROVE IdInv'
  OBVIOUS
<1>1. CASE manager_address_init
  <2>1. TypeOK' /\ UNCHANGED <<hash, next, last, told>> /\ given' = given
    <3>1. faults' \in 0 .. MaxFault
      BY <1>1, UserIdAssumption DEF manager_address_init, Fault, IdInv, TypeOK
    <3>2. started' \in BOOLEAN /\ requested' \in BOOLEAN
      BY <1>1, Zenon DEF manager_address_init, IdInv, TypeOK
    <3>3. UNCHANGED <<hash, id_reallocated_index, given, next, last, requests, told>>
      BY <1>1 DEF manager_address_init
    <3>4. QED
      BY <3>1, <3>2, <3>3 DEF IdInv, TypeOK
  <2>2. QED
    BY <2>1, QuietStep
<1>2. CASE \E r \in Ranges : manager_get_reserved_address(r)
  BY <1>2, RangeStep
<1>3. CASE InsertAddress
  BY <1>3, InsertStep
<1>4. CASE \E d \in Device : manager_reallocated_wiotaid(d)
  BY <1>4, RequestStep
<1>5. CASE UNCHANGED vars
  <2>1. TypeOK' /\ UNCHANGED <<hash, next, last, told>> /\ given' = given
    BY <1>5 DEF vars, IdInv, TypeOK
  <2>2. QED
    BY <2>1, QuietStep
<1>6. QED
  BY <1>1, <1>2, <1>3, <1>4, <1>5 DEF Next, Waiting

\* Every variable keeps its type, whatever the ranges and the positions.
THEOREM UserIdTypes == Spec => []TypeOK
<1>1. IdInv => TypeOK
  BY DEF IdInv
<1>2. QED
  BY <1>1, IdInit, IdStep, PTL DEF Spec

\* No id that manager_reallocated_wiotaid answers has two owners and no device
\* is answered two ids, for any number of devices, ranges and lost answers.
THEOREM IdsHaveOneOwner == Spec => []OneOwner
<1>1. ASSUME IdInv PROVE OneOwner
  <2>1. SUFFICES ASSUME NEW t \in told, NEW u \in told
                 PROVE  t.dev = u.dev <=> t.address = u.address
    BY DEF OneOwner
  <2>2. PICK p \in Position : \E i \in DOMAIN hash[p] :
            Has(p, i, t.dev) /\ hash[p][i].address = t.address
    BY <1>1 DEF IdInv, ToldBacked
  <2>3. PICK i \in DOMAIN hash[p] : Has(p, i, t.dev) /\ hash[p][i].address = t.address
    BY <2>2
  <2>4. PICK q \in Position : \E j \in DOMAIN hash[q] :
            Has(q, j, u.dev) /\ hash[q][j].address = u.address
    BY <1>1 DEF IdInv, ToldBacked
  <2>5. PICK j \in DOMAIN hash[q] : Has(q, j, u.dev) /\ hash[q][j].address = u.address
    BY <2>4
  <2>6. t.dev \in Device
    BY <1>1 DEF IdInv, TypeOK
  <2>7. t.dev = u.dev => p = q /\ i = j
    BY <1>1, <2>3, <2>5, <2>6 DEF IdInv, OneNode
  <2>8. t.address = u.address => p = q /\ i = j
    BY <1>1, <2>3, <2>5 DEF IdInv, Unique
  <2>9. QED
    BY <2>3, <2>5, <2>7, <2>8 DEF Has
<1>2. QED
  BY <1>1, IdInit, IdStep, PTL DEF Spec

\* Messages for a device always go to the id it was told: the search over all
\* lists finds the one node of the device.
THEOREM MessagesFollowTheId == Spec => []RouteTrue
<1>1. ASSUME IdInv PROVE RouteTrue
  <2>1. SUFFICES ASSUME NEW t \in told
                 PROVE  manager_query_wiotaid(t.dev) = t.address
    BY DEF RouteTrue
  <2> DEFINE d == t.dev
  <2>2. d \in Device
    BY <1>1 DEF IdInv, TypeOK
  <2>3. PICK p \in Position : \E i \in DOMAIN hash[p] :
            Has(p, i, d) /\ hash[p][i].address = t.address
    BY <1>1 DEF IdInv, ToldBacked
  <2>4. PICK i \in DOMAIN hash[p] : Has(p, i, d) /\ hash[p][i].address = t.address
    BY <2>3
  <2> HIDE DEF d
  <2>5. Held(d) = {p}
    BY <1>1, <2>2, <2>4, HeldFact DEF IdInv, OneNode
  <2>6. p \in Int
    BY UserIdAssumption DEF Position
  <2>7. First(d) = p
    <3>1. p <= p
      BY <2>6
    <3>2. QED
      BY <2>5, <3>1 DEF First
  <2>8. query_head_list(hash[p], query_element_allocate(d)) = {i}
    <3>1. hash[p] \in Seq(Node) /\ DOMAIN hash[p] = 1 .. Len(hash[p])
      BY <1>1 DEF IdInv, TypeOK
    <3>2. ASSUME NEW j \in 1 .. i - 1 PROVE hash[p][j] \notin query_element_allocate(d)
      <4>1. j \in DOMAIN hash[p] /\ j # i
        BY <3>1, <3>2
      <4>2. ~Has(p, j, d)
        BY <1>1, <2>2, <2>4, <4>1 DEF IdInv, OneNode
      <4>3. QED
        BY <4>2 DEF query_element_allocate, Has
    <3>3. \A j \in DOMAIN hash[p] : Has(p, j, d) => j = i
      BY <1>1, <2>2, <2>4 DEF IdInv, OneNode
    <3>4. QED
      BY <1>1, <2>2, <2>4, <3>2, <3>3, HeldFact DEF IdInv
  <2>9. The({i}) = i
    BY DEF The
  <2>10. QED
    BY <2>4, <2>5, <2>7, <2>8, <2>9 DEF manager_query_wiotaid, d
<1>2. QED
  BY <1>1, IdInit, IdStep, PTL DEF Spec

=============================================================================
