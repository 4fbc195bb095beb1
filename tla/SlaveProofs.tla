---------------------------- MODULE SlaveProofs ----------------------------
(***************************************************************************)
(* Every call on a slave chip acts at once, and a verified write that      *)
(* reports success is in the flash, for any tasks, memory and flash.       *)
(***************************************************************************)
EXTENDS Slave, TLAPS

Op == [pc : {"idle", "take", "read", "write", "put", "erase", "program", "check", "done"},
       kind : {None, "read", "write", "erase", "program"},
       addr : Nat, len : Nat, index : Nat, word : [0..3 -> Byte], got : Seq(Byte),
       data : SUBSET Bits, verify : BOOLEAN, try_cnt : 0..4, ret : Int]

Types == /\ mutex \in Tasks \cup {None} /\ op \in [Tasks -> Op]
         /\ mem \in [0..MemSize - 1 -> Byte] /\ ref \in [0..MemSize - 1 -> Byte]
         /\ flash \in [0..Pages - 1 -> SUBSET Bits] /\ faults \in Nat

\* A task past rt_mutex_take holds the mutex.
Held == \A t \in Tasks : op[t].pc \notin {"idle", "take"} <=> mutex = t

\* Where an operation can be, and the bytes or pages it may touch.
Placed(o) ==
    /\ o.pc = "idle" \/ o.kind # None
    /\ o.pc \in {"read", "erase"} => o.kind = o.pc
    /\ o.pc \in {"write", "put"} => o.kind = "write"
    /\ o.pc \in {"program", "check"} => o.kind = "program"
    /\ o.pc = "take" => o.index = 0 /\ o.got = <<>> /\ o.ret = 0
    /\ o.kind \in {"read", "write"} => o.len > 0 /\ o.addr + o.len <= MemSize
    /\ o.kind \in {"erase", "program"} => o.len > 0 /\ o.addr + o.len <= Pages
    /\ o.kind # "erase" => o.index <= o.len
    /\ o.pc \in {"read", "write", "put", "program", "check"} => o.index < o.len
    /\ o.kind \in {"read", "write"} /\ Whole(o) => o.index = 0 /\ o.pc # "put"
    /\ o.kind \in {"read", "write"} /\ ~Whole(o) /\ o.pc = "done" => o.index = o.len

\* As long as no transfer failed: only the bytes a write has still to put differ.
Written(t, o) ==
    /\ \A a \in 0..MemSize - 1 :
         a \notin (o.addr + o.index)..(o.addr + o.len - 1) => mem[a] = ref[a]
    /\ \A a \in Span(o) : ref[a] = t
    /\ o.pc = "put" => \A b \in 0..3 : o.word[b] = mem[WordAddr(o) + b]
    /\ o.pc = "done" => mem = ref

Progress ==
    /\ mutex = None => mem = ref
    /\ \A t \in Tasks : mutex = t =>
         IF op[t].kind = "write" THEN Written(t, op[t]) ELSE mem = ref

\* The bytes read so far are those of the memory.
Reading(o) ==
    /\ o.pc = "read" => Len(o.got) = o.index
                        /\ \A i \in 1..o.index : o.got[i] = ref[o.addr + i - 1]
    /\ o.pc = "done" => Len(o.got) = o.len
                        /\ \A i \in 1..o.len : o.got[i] = ref[o.addr + i - 1]

\* The pages before the one at hand hold the data.
Programmed(o) ==
    /\ \A p \in o.addr..(o.addr + o.index - 1) : flash[p] = o.data
    /\ o.pc = "done" /\ o.ret = 0 => o.index = o.len

MemInv == faults = 0 =>
          Progress /\ \A t \in Tasks : mutex = t /\ op[t].kind = "read" => Reading(op[t])

FlashInv == \A t \in Tasks :
    mutex = t /\ op[t].kind = "program" /\ op[t].verify /\ op[t].data # {} => Programmed(op[t])

SlaveInv == Types /\ Held /\ (\A t \in Tasks : Placed(op[t])) /\ MemInv /\ FlashInv
----------------------------------------------------------------------------
\* A number lies in one word, and a memory of whole words has all of it.
LEMMA DivFact ==
    ASSUME NEW x \in Nat, NEW n \in Nat, n % 4 = 0, x < n
    PROVE  x % 4 \in 0..3 /\ x \div 4 \in Nat /\ (x \div 4) * 4 + (x % 4) = x
           /\ (x \div 4) * 4 + 3 <= n - 1
OBVIOUS

\* The cut of a transfer into words: order_len is positive, does not leave the word or
\* the call, and the word is inside the memory.
LEMMA WordFact ==
    ASSUME NEW o \in Op, o.index < o.len, o.addr + o.len <= MemSize
    PROVE  /\ OrderLen(o) \in 1..4 /\ o.index + OrderLen(o) <= o.len
           /\ Offset(o) \in 0..3 /\ Offset(o) + OrderLen(o) <= 4
           /\ WordAddr(o) \in Nat /\ WordAddr(o) + Offset(o) = o.addr + o.index
           /\ WordAddr(o) + 3 <= MemSize - 1
<1> DEFINE x == o.addr + o.index
<1>1. x \in Nat /\ x < MemSize /\ MemSize \in Nat /\ MemSize % 4 = 0
      /\ o.index \in Nat /\ o.len \in Nat /\ o.addr \in Nat
  BY SlaveAssumption DEF Op
<1>4. Offset(o) = x % 4 /\ WordAddr(o) = (x \div 4) * 4
  BY DEF Offset, WordAddr
<1> HIDE DEF x
<1>5. /\ Offset(o) \in 0..3 /\ WordAddr(o) \in Nat /\ WordAddr(o) + Offset(o) = x
      /\ WordAddr(o) + 3 <= MemSize - 1
  BY <1>1, <1>4, DivFact
<1>6. OrderLen(o) \in 1..4 /\ o.index + OrderLen(o) <= o.len /\ Offset(o) + OrderLen(o) <= 4
  BY <1>1, <1>5 DEF OrderLen
<1> QED
  BY <1>5, <1>6 DEF x

\* The initial state satisfies the invariant.
LEMMA SlaveInit == Init => SlaveInv
<1> SUFFICES ASSUME Init PROVE SlaveInv
  OBVIOUS
<1>1. Idle \in Op /\ None \notin Tasks
  BY SlaveAssumption DEF Idle, Op, Byte, None
<1>2. Types
  <2>1. mem \in [0..MemSize - 1 -> Byte] /\ ref \in [0..MemSize - 1 -> Byte]
    BY DEF Init, Byte
  <2>2. flash \in [0..Pages - 1 -> SUBSET Bits]
    <3>1. PICK c \in Contents : flash = [p \in 0..Pages - 1 |-> c]
      BY DEF Init
    <3> QED
      BY <3>1, SlaveAssumption DEF Bits
  <2> QED
    BY <1>1, <2>1, <2>2 DEF Types, Init
<1>3. Held
  BY <1>1 DEF Held, Init, Idle
<1>4. \A t \in Tasks : Placed(op[t])
  BY SlaveAssumption DEF Placed, Init, Idle, Whole, None
<1>5. MemInv /\ FlashInv
  BY <1>1 DEF MemInv, FlashInv, Progress, Init
<1> QED
  BY <1>2, <1>3, <1>4, <1>5 DEF SlaveInv

\* A step of the task that holds the mutex keeps the invariant if it does so for its
\* own operation: the others wait and have nothing to say about memory and flash.
LEMMA OwnStep ==
    ASSUME SlaveInv, NEW t \in Tasks, mutex = t, mutex' = mutex, ref' = ref,
           op' = [op EXCEPT ![t] = op'[t]], op'[t] \in Op, op'[t].pc \notin {"idle", "take"},
           Placed(op[t])', mem' \in [0..MemSize - 1 -> Byte],
           flash' \in [0..Pages - 1 -> SUBSET Bits], faults' \in Nat,
           faults' = 0 => /\ IF op'[t].kind = "write" THEN Written(t, op[t])' ELSE mem' = ref'
                          /\ op'[t].kind = "read" => Reading(op[t])',
           op'[t].kind = "program" /\ op'[t].verify /\ op'[t].data # {} => Programmed(op[t])'
    PROVE  SlaveInv'
<1>1. op \in [Tasks -> Op] /\ (\A u \in Tasks : u # t => op'[u] = op[u]) /\ None \notin Tasks
  BY SlaveAssumption DEF SlaveInv, Types, None
<1>2. Types'
  BY <1>1 DEF SlaveInv, Types
<1>3. Held'
  BY <1>1 DEF SlaveInv, Held
<1>4. (\A u \in Tasks : Placed(op[u]))'
  BY <1>1 DEF SlaveInv
<1>5. MemInv'
  BY <1>1 DEF MemInv, Progress
<1>6. FlashInv'
  BY <1>1 DEF FlashInv
<1> QED
  BY <1>2, <1>3, <1>4, <1>5, <1>6 DEF SlaveInv

\* What the invariant says of the operation of the task that holds the mutex.
LEMMA OwnFact ==
    ASSUME SlaveInv, NEW t \in Tasks, op[t].pc \notin {"idle", "take"}
    PROVE  /\ mutex = t /\ op[t] \in Op /\ Placed(op[t]) /\ faults \in Nat
           /\ mem \in [0..MemSize - 1 -> Byte] /\ ref \in [0..MemSize - 1 -> Byte]
           /\ flash \in [0..Pages - 1 -> SUBSET Bits]
           /\ faults = 0 => /\ IF op[t].kind = "write" THEN Written(t, op[t]) ELSE mem = ref
                            /\ op[t].kind = "read" => Reading(op[t])
           /\ op[t].kind = "program" /\ op[t].verify /\ op[t].data # {} => Programmed(op[t])
BY DEF SlaveInv, Types, Held, MemInv, Progress, FlashInv

\* A transfer fails or not, and a bound counts the failures.
LEMMA FaultFact ==
    ASSUME faults \in Nat, Fault \/ NoFault
    PROVE  faults' \in Nat /\ (faults' = 0 => faults = 0 /\ NoFault) /\ (Fault => faults' # 0)
BY DEF Fault, NoFault

\* A call, rt_mutex_take and rt_mutex_release keep the invariant.
LEMMA CallStep ==
    ASSUME SlaveInv, NEW t \in Tasks, NEW kind \in {"read", "write", "erase", "program"},
           NEW c \in Nat \X Nat, NEW data \in SUBSET Bits, NEW verify \in BOOLEAN,
           kind \in {"read", "write"} => c[2] > 0 /\ c[1] + c[2] <= MemSize,
           kind \in {"erase", "program"} => c[2] > 0 /\ c[1] + c[2] <= Pages,
           Call(t, kind, c, data, verify)
    PROVE  SlaveInv'
<1> DEFINE n == [Idle EXCEPT !.pc = "take", !.kind = kind, !.addr = c[1],
                             !.len = c[2], !.data = data, !.verify = verify]
<1>1. /\ op' = [op EXCEPT ![t] = n] /\ op[t].pc = "idle"
      /\ UNCHANGED <<mutex, mem, flash, ref, faults>>
  BY DEF Call
<1>2. op \in [Tasks -> Op] /\ mutex # t
  BY <1>1 DEF SlaveInv, Types, Held
<1>3. n \in Op /\ n.pc = "take"
  <2>1. Idle \in Op
    BY DEF Idle, Op, Byte, None
  <2> QED
    BY <2>1, Zenon DEF Op
<1>4. Placed(n)
  BY DEF Idle, Placed, None
<1> HIDE DEF n
<1>5. op'[t] = n /\ \A u \in Tasks : u # t => op'[u] = op[u]
  BY <1>1, <1>2
<1>6. Types'
  BY <1>1, <1>2, <1>3 DEF SlaveInv, Types
<1>7. Held'
  BY <1>1, <1>2, <1>3, <1>5 DEF SlaveInv, Held
<1>8. (\A u \in Tasks : Placed(op[u]))'
  BY <1>4, <1>5 DEF SlaveInv
<1>9. MemInv'
  <2> SUFFICES ASSUME faults' = 0, NEW u \in Tasks, mutex = u
               PROVE  /\ IF op[u].kind = "write" THEN Written(u, op[u])' ELSE mem = ref
                      /\ op[u].kind = "read" => Reading(op[u])'
    BY <1>1, <1>2, <1>5 DEF SlaveInv, MemInv, Progress
  <2> QED
    BY <1>1, <1>2, <1>5, SMTT(30) DEF SlaveInv, MemInv, Progress, Written, Reading
<1>10. FlashInv'
  BY <1>1, <1>2, <1>5 DEF SlaveInv, FlashInv, Programmed
<1> QED
  BY <1>6, <1>7, <1>8, <1>9, <1>10 DEF SlaveInv

\* rt_mutex_take: what a write is to leave is now in ref, and nothing of it in mem.
LEMMA TakeStep ==
    ASSUME SlaveInv, NEW t \in Tasks, Take(t)
    PROVE  SlaveInv'
<1> DEFINE n == op'[t]
<1>1. op \in [Tasks -> Op] /\ op[t] \in Op /\ Placed(op[t]) /\ None \notin Tasks /\ mutex = None
  BY SlaveAssumption DEF SlaveInv, Types, Take, None
<1>2. /\ op' = [op EXCEPT ![t].pc = op[t].kind] /\ op[t].pc = "take" /\ mutex' = t
      /\ UNCHANGED <<mem, flash, faults>>
  BY DEF Take
<1>3. op[t].kind \in {"read", "write", "erase", "program"} /\ op[t].index = 0 /\ op[t].got = <<>>
  BY <1>1, <1>2 DEF Placed, Op
<1>4. n = [op[t] EXCEPT !.pc = op[t].kind] /\ \A u \in Tasks : u # t => op'[u] = op[u]
  BY <1>1, <1>2
<1>5. n \in Op
  BY <1>1, <1>3, <1>4, Zenon DEF Op
<1>6. ref' \in [0..MemSize - 1 -> Byte]
  BY DEF Take, SlaveInv, Types, Byte
<1>7. Types'
  BY <1>1, <1>2, <1>3, <1>5, <1>6, Zenon DEF SlaveInv, Types, Op
<1>8. Held'
  BY <1>1, <1>2, <1>3, <1>4 DEF SlaveInv, Held, Op
<1>9. /\ n.kind = op[t].kind /\ n.pc = op[t].kind /\ n.index = 0 /\ n.got = <<>>
      /\ n.addr = op[t].addr /\ n.len = op[t].len /\ n.addr \in Nat /\ n.len \in Nat
      /\ n.data = op[t].data /\ n.verify = op[t].verify
  BY <1>1, <1>3, <1>4 DEF Op
<1> HIDE DEF n
<1>10. Placed(n)
  BY <1>1, <1>3, <1>9 DEF Placed, None
<1>11. (\A u \in Tasks : Placed(op[u]))'
  BY <1>4, <1>10 DEF SlaveInv, n
<1>12. MemInv'
  <2> SUFFICES ASSUME faults' = 0
               PROVE  /\ IF n.kind = "write" THEN Written(t, op[t])' ELSE mem' = ref'
                      /\ n.kind = "read" => Reading(op[t])'
    BY <1>1, <1>2 DEF MemInv, Progress, n
  <2>1. mem = ref /\ mem \in [0..MemSize - 1 -> Byte]
    BY <1>1, <1>2 DEF SlaveInv, MemInv, Progress, Types
  <2>2. CASE n.kind = "write"
    <3>1. Span(op[t]) = n.addr..(n.addr + n.len - 1) /\ n.addr + n.len <= MemSize
      BY <1>1, <1>9, <2>2 DEF Span, Placed
    <3>2. ref' = [a \in 0..MemSize - 1 |-> IF a \in Span(op[t]) THEN t ELSE ref[a]]
      BY <1>9, <2>1, <2>2 DEF Take
    <3>3. \A a \in 0..MemSize - 1 :
             a \notin (n.addr + n.index)..(n.addr + n.len - 1) => mem'[a] = ref'[a]
      BY <1>2, <1>9, <2>1, <3>1, <3>2
    <3>4. \A a \in n.addr..(n.addr + n.len - 1) : ref'[a] = t
      BY <1>9, <3>1, <3>2, SlaveAssumption
    <3> QED
      BY <1>9, <2>2, <3>3, <3>4 DEF Written, Span, n
  <2>3. CASE n.kind # "write"
    BY <1>2, <1>9, <2>1, <2>3 DEF Take, Reading, n
  <2> QED
    BY <2>2, <2>3
<1>13. FlashInv'
  BY <1>1, <1>2, <1>3, <1>9 DEF FlashInv, Programmed, n
<1> QED
  BY <1>7, <1>8, <1>11, <1>12, <1>13 DEF SlaveInv

\* rt_mutex_release: the operation is done, and memory is as promised.
LEMMA ReleaseStep ==
    ASSUME SlaveInv, NEW t \in Tasks, Release(t)
    PROVE  SlaveInv'
<1>1. /\ op[t].pc = "done" /\ mutex' = None /\ op' = [op EXCEPT ![t] = Idle]
      /\ UNCHANGED <<mem, flash, ref, faults>>
  BY DEF Release
<1>2. Idle \in Op /\ None \notin Tasks
  BY SlaveAssumption DEF Idle, Op, Byte, None
<1>3. Types'
  BY <1>1, <1>2 DEF SlaveInv, Types
<1>4. mutex = t /\ op \in [Tasks -> Op]
  BY <1>1 DEF SlaveInv, Held, Types
<1>5. Held'
  <2>1. op'[t].pc = "idle" /\ \A u \in Tasks : u # t => op'[u] = op[u]
    BY <1>1, <1>4 DEF Idle
  <2> QED
    BY <1>1, <1>2, <1>4, <2>1 DEF SlaveInv, Held
<1>6. Placed(Idle)
  BY SlaveAssumption DEF Placed, Idle, Whole, None
<1>7. (\A u \in Tasks : Placed(op[u]))'
  BY <1>1, <1>4, <1>6 DEF SlaveInv
<1>8. MemInv'
  BY <1>1, <1>2, <1>4 DEF SlaveInv, MemInv, Progress, Written
<1>9. FlashInv'
  BY <1>1, <1>2 DEF FlashInv
<1> QED
  BY <1>3, <1>5, <1>7, <1>8, <1>9 DEF SlaveInv

\* The fields of an operation after one pass of a loop over words.
LEMMA AdvanceFact ==
    ASSUME NEW o \in Op, NEW pc \in {"read", "write"}, Placed(o), o.kind = pc,
           o.pc \in {"read", "write", "put"}, ~Whole(o)
    PROVE  LET n == Advance(o, pc) IN
           /\ n \in Op /\ Placed(n) /\ n.index = o.index + OrderLen(o) /\ n.kind = o.kind
           /\ n.addr = o.addr /\ n.len = o.len /\ n.pc \in {pc, "done"} /\ n.got = o.got
           /\ n.pc = "done" => n.index = o.len
<1> DEFINE n == Advance(o, pc)  i == o.index + OrderLen(o)
<1>1. OrderLen(o) \in 1..4 /\ i <= o.len /\ o.index \in Nat /\ o.len \in Nat
  BY WordFact DEF Placed, Op
<1>2. Idle.word \in [0..3 -> Byte]
  BY DEF Idle, Byte
<1>3. n = [o EXCEPT !.index = i, !.pc = IF i < o.len THEN pc ELSE "done", !.word = Idle.word]
  BY DEF Advance
<1> HIDE DEF n
<1>4. i \in Nat
  BY <1>1
<1> HIDE DEF i
<1>5. n \in Op
  BY <1>2, <1>3, <1>4, Zenon DEF Op
<1>6. /\ n.index = i /\ n.kind = o.kind /\ n.addr = o.addr /\ n.len = o.len
      /\ n.pc = (IF i < o.len THEN pc ELSE "done") /\ n.got = o.got
  BY <1>3 DEF Op
<1>7. n.pc = "done" => n.index = o.len
  BY <1>1, <1>4, <1>6
<1>8. ~Whole(n)
  BY <1>6 DEF Whole
<1>9. Placed(n)
  BY <1>1, <1>4, <1>6, <1>7, <1>8 DEF Placed, None
<1> QED
  BY <1>5, <1>6, <1>7, <1>9 DEF n, i

\* The bytes of two buffers one behind the other.
LEMMA CatFact ==
    ASSUME NEW s \in Seq(Byte), NEW u \in Seq(Byte)
    PROVE  /\ Len(s \o u) = Len(s) + Len(u)
           /\ \A i \in 1..(Len(s) + Len(u)) :
                (s \o u)[i] = IF i <= Len(s) THEN s[i] ELSE u[i - Len(s)]
OBVIOUS

\* slave_uc8x88_mem_read_data keeps the invariant: a word brings the bytes that follow
\* those already read.
LEMMA ReadKeeps ==
    ASSUME SlaveInv, NEW t \in Tasks, ReadStep(t)
    PROVE  SlaveInv'
<1> DEFINE o == op[t]  n == op'[t]
<1>1. o.pc = "read" /\ UNCHANGED <<mutex, mem, flash, ref>>
  BY DEF ReadStep
<1>2. /\ mutex = t /\ o \in Op /\ Placed(o) /\ faults \in Nat /\ op \in [Tasks -> Op]
      /\ mem \in [0..MemSize - 1 -> Byte] /\ flash \in [0..Pages - 1 -> SUBSET Bits]
      /\ o.kind = "read" /\ (faults = 0 => mem = ref /\ Reading(o))
  BY <1>1, OwnFact DEF Placed, SlaveInv, Types
<1>3. PICK bytes : /\ op' = [op EXCEPT ![t] = Got(o, bytes)]
                   /\ \/ NoFault /\ bytes = [i \in 1..Count(o) |-> mem[From(o) + i - 1]]
                      \/ Fault /\ bytes = [i \in 1..Count(o) |-> IF Whole(o) THEN "old" ELSE "zero"]
  BY DEF ReadStep
<1>4. /\ n = Got(o, bytes) /\ op' = [op EXCEPT ![t] = n]
  BY <1>2, <1>3
<1>5. faults' \in Nat /\ (faults' = 0 => faults = 0 /\ NoFault) /\ (Fault => faults' # 0)
  BY <1>2, <1>3, FaultFact
<1>6. o.index \in Nat /\ o.len \in Nat /\ o.addr \in Nat /\ o.got \in Seq(Byte)
      /\ o.index < o.len /\ o.addr + o.len <= MemSize /\ MemSize \in Nat
  BY <1>1, <1>2, SlaveAssumption DEF Op, Placed
<1>7. Whole(o) => o.index = 0
  BY <1>2 DEF Placed
<1>8. Count(o) \in Nat /\ Count(o) > 0 /\ From(o) = o.addr + o.index /\ o.index + Count(o) <= o.len
      /\ (Whole(o) => Count(o) = o.len) /\ (~Whole(o) => Count(o) = OrderLen(o))
  <2>1. CASE Whole(o)
    BY <1>6, <1>7, <2>1 DEF Count, From
  <2>2. CASE ~Whole(o)
    <3>1. /\ OrderLen(o) \in 1..4 /\ o.index + OrderLen(o) <= o.len
          /\ WordAddr(o) + Offset(o) = o.addr + o.index
      BY <1>2, <1>6, WordFact
    <3> QED
      BY <2>2, <3>1 DEF Count, From
  <2> QED
    BY <2>1, <2>2
<1> HIDE DEF o, n
<1>9. bytes \in Seq(Byte) /\ Len(bytes) = Count(o) /\ DOMAIN bytes = 1..Count(o)
  <2>1. bytes \in [1..Count(o) -> Byte]
    <3>1. \A i \in 1..Count(o) : From(o) + i - 1 \in 0..MemSize - 1
      BY <1>6, <1>8, SMTT(30)
    <3>2. \A i \in 1..Count(o) : mem[From(o) + i - 1] \in Byte
      BY <1>2, <3>1
    <3> QED
      BY <1>3, <3>2 DEF Byte
  <2> QED
    BY <1>8, <2>1
<1>10. faults' = 0 => \A i \in 1..Count(o) : bytes[i] = ref[o.addr + o.index + i - 1]
  BY <1>2, <1>3, <1>5, <1>8
<1>11. CASE Whole(o)
  <2>1. n = [o EXCEPT !.got = bytes, !.pc = "done"]
    BY <1>4, <1>11 DEF Got
  <2>2. n \in Op /\ n.pc = "done" /\ n.kind = "read" /\ n.got = bytes /\ n.addr = o.addr
        /\ n.len = o.len /\ n.index = o.index
    BY <1>2, <1>9, <2>1, Zenon DEF Op
  <2>3. Whole(n)
    BY <1>11, <2>2 DEF Whole
  <2>4. Placed(n)
    BY <1>2, <1>6, <1>7, <1>11, <2>2, <2>3 DEF Placed, None
  <2>5. faults' = 0 => Reading(op[t])'
    BY <1>1, <1>6, <1>7, <1>8, <1>9, <1>10, <1>11, <2>2, SMTT(30) DEF Reading, n
  <2> QED
    BY <1>1, <1>2, <1>4, <1>5, <2>2, <2>4, <2>5, OwnStep DEF n
<1>12. CASE ~Whole(o)
  <2> DEFINE m == Advance(o, "read")
  <2>1. n = [m EXCEPT !.got = o.got \o bytes]
    BY <1>4, <1>12 DEF Got
  <2>2. /\ m \in Op /\ Placed(m) /\ m.index = o.index + OrderLen(o) /\ m.kind = o.kind
        /\ m.addr = o.addr /\ m.len = o.len /\ m.pc \in {"read", "done"} /\ m.got = o.got
        /\ m.pc = "done" => m.index = o.len
    BY <1>1, <1>2, <1>12, AdvanceFact DEF o
  <2> HIDE DEF m
  <2>3. o.got \o bytes \in Seq(Byte)
    BY <1>6, <1>9
  <2>4. /\ n \in Op /\ n.pc = m.pc /\ n.kind = "read" /\ n.got = o.got \o bytes
        /\ n.addr = o.addr /\ n.len = o.len /\ n.index = m.index
    BY <1>2, <2>1, <2>2, <2>3, Zenon DEF Op
  <2>5. Whole(n) = Whole(m)
    BY <2>2, <2>4 DEF Whole
  <2>6. Placed(n)
    BY <1>2, <2>2, <2>4, <2>5 DEF Placed, None
  <2>7. faults' = 0 => Reading(op[t])'
    <3> SUFFICES ASSUME faults' = 0 PROVE Reading(op[t])'
      OBVIOUS
    <3>1. Len(o.got) = o.index /\ \A i \in 1..o.index : o.got[i] = ref[o.addr + i - 1]
      BY <1>1, <1>2, <1>5 DEF Reading, o
    <3>2. /\ Len(o.got \o bytes) = o.index + Count(o)
          /\ \A i \in 1..(o.index + Count(o)) :
                (o.got \o bytes)[i] = IF i <= o.index THEN o.got[i] ELSE bytes[i - o.index]
      <4>1. /\ Len(o.got \o bytes) = Len(o.got) + Len(bytes)
            /\ \A i \in 1..(Len(o.got) + Len(bytes)) :
                 (o.got \o bytes)[i] = IF i <= Len(o.got) THEN o.got[i] ELSE bytes[i - Len(o.got)]
        BY <1>6, <1>9, CatFact, Zenon
      <4> QED
        BY <1>9, <3>1, <4>1, Zenon
    <3>4. n.index = o.index + Count(o)
      BY <1>8, <1>12, <2>2, <2>4
    <3>3. \A i \in 1..n.index : n.got[i] = ref[o.addr + i - 1]
      <4> SUFFICES ASSUME NEW i \in Nat, 1 <= i, i <= o.index + Count(o)
                   PROVE  n.got[i] = ref[o.addr + i - 1]
        BY <1>6, <1>8, <3>4
      <4>1. CASE i <= o.index
        BY <1>6, <2>4, <3>1, <3>2, <3>4, <4>1
      <4>2. CASE i > o.index
        <5>1. PICK j \in 1..Count(o) : i = o.index + j
          <6>1. i - o.index \in 1..Count(o) /\ i = o.index + (i - o.index)
            BY <1>6, <1>8, <4>2
          <6> QED
            BY <6>1, Zenon
        <5>2. i - o.index = j /\ o.addr + o.index + j - 1 = o.addr + i - 1
              /\ ~(i <= o.index) /\ i \in 1..(o.index + Count(o))
          <6>1. j \in Int /\ Count(o) \in Int /\ o.index \in Int /\ o.addr \in Int
            BY <1>6, <1>8
          <6>2. i - o.index = j /\ o.addr + o.index + j - 1 = o.addr + i - 1
            BY <5>1, <6>1
          <6>3. ~(i <= o.index) /\ i \in 1..(o.index + Count(o))
            BY <4>2, <6>1
          <6> QED
            BY <6>2, <6>3
        <5>3. n.got[i] = bytes[j]
          BY <2>4, <3>2, <5>2, Zenon
        <5> QED
          BY <1>10, <5>1, <5>2, <5>3, Zenon
      <4> QED
        BY <1>6, <1>8, <3>4, <4>1, <4>2
    <3> QED
      BY <1>1, <2>2, <2>4, <3>2, <3>3, <3>4, SMTT(30) DEF Reading, n
  <2> QED
    BY <1>1, <1>2, <1>4, <1>5, <2>2, <2>4, <2>6, <2>7, OwnStep DEF n
<1> QED
  BY <1>11, <1>12

\* The read before a write keeps the invariant: it brings the word as it is.
LEMMA FetchKeeps ==
    ASSUME SlaveInv, NEW t \in Tasks, FetchStep(t)
    PROVE  SlaveInv'
<1> DEFINE o == op[t]  n == op'[t]
<1>1. o.pc = "write" /\ ~Whole(o) /\ UNCHANGED <<mutex, mem, flash, ref>>
  BY DEF FetchStep
<1>2. /\ mutex = t /\ o \in Op /\ Placed(o) /\ faults \in Nat /\ op \in [Tasks -> Op]
      /\ mem \in [0..MemSize - 1 -> Byte] /\ flash \in [0..Pages - 1 -> SUBSET Bits]
      /\ o.kind = "write" /\ (faults = 0 => Written(t, o))
  BY Zenon, <1>1, OwnFact DEF Placed, SlaveInv, Types
<1>3. PICK word \in [0..3 -> Byte] :
         /\ op' = [op EXCEPT ![t] = [o EXCEPT !.pc = "put", !.word = word]]
         /\ Fault \/ (NoFault /\ word = [b \in 0..3 |-> mem[WordAddr(o) + b]])
  <2>1. WordAddr(o) \in Nat /\ WordAddr(o) + 3 <= MemSize - 1 /\ MemSize \in Nat
    BY <1>1, <1>2, WordFact, SlaveAssumption DEF Placed
  <2>2. [b \in 0..3 |-> mem[WordAddr(o) + b]] \in [0..3 -> Byte]
    <3>1. \A b \in 0..3 : WordAddr(o) + b \in 0..MemSize - 1
      BY <2>1
    <3> QED
      BY <1>2, <3>1
  <2>3. CASE Fault /\ op' = [op EXCEPT ![t].pc = "put"]
    <3>1. [o EXCEPT !.pc = "put"] = [o EXCEPT !.pc = "put", !.word = o.word] /\ o.word \in [0..3 -> Byte]
      BY <1>2, Zenon DEF Op
    <3> QED
      BY <2>3, <3>1, Zenon
  <2>4. CASE NoFault /\ op' = [op EXCEPT ![t].pc = "put",
                                        ![t].word = [b \in 0..3 |-> mem[WordAddr(o) + b]]]
    <3>1. op' = [op EXCEPT ![t] = [o EXCEPT !.pc = "put",
                                            !.word = [b \in 0..3 |-> mem[WordAddr(o) + b]]]]
      BY <1>2, <2>4, Zenon
    <3> QED
      BY <2>2, <2>4, <3>1, Zenon
  <2> QED
    BY <2>3, <2>4, Zenon DEF FetchStep
<1>4. n = [o EXCEPT !.pc = "put", !.word = word] /\ op' = [op EXCEPT ![t] = n]
  BY <1>2, <1>3
<1>5. faults' \in Nat /\ (faults' = 0 => faults = 0 /\ NoFault) /\ (Fault => faults' # 0)
  BY <1>2, <1>3, FaultFact
<1> HIDE DEF o, n
<1>6. /\ n \in Op /\ n.pc = "put" /\ n.kind = "write" /\ n.word = word /\ n.addr = o.addr
      /\ n.len = o.len /\ n.index = o.index
  BY <1>2, <1>4, Zenon DEF Op
<1>7. ~Whole(n) /\ WordAddr(n) = WordAddr(o)
  BY <1>1, <1>6 DEF Whole, WordAddr
<1>8. Placed(n)
  BY <1>1, <1>2, <1>6, <1>7 DEF Placed, None
<1>9. faults' = 0 => Written(t, op[t])'
  <2> SUFFICES ASSUME faults' = 0 PROVE Written(t, op[t])'
    OBVIOUS
  <2>1. Written(t, o) /\ \A b \in 0..3 : word[b] = mem[WordAddr(o) + b]
    BY <1>2, <1>3, <1>5
  <2>2. WordAddr(op'[t]) = WordAddr(o)
    BY <1>7, SMTT(30) DEF n
  <2> QED
    BY <1>1, <1>6, <2>1, <2>2 DEF Written, Span, n
<1> QED
  BY <1>1, <1>2, <1>4, <1>5, <1>6, <1>8, <1>9, OwnStep, Zenon DEF n

\* A word that is put keeps every byte beside the call's, and brings it closer to ref.
LEMMA PutFact ==
    ASSUME SlaveInv, NEW t \in Tasks, op[t] \in Op, Placed(op[t]), Written(t, op[t]), ~Whole(op[t]),
           op[t].pc = "put" \/ (op[t].pc = "write" /\ ~MustRead(op[t])),
           NEW a \in 0..MemSize - 1,
           a \notin (op[t].addr + op[t].index + OrderLen(op[t]))..(op[t].addr + op[t].len - 1)
    PROVE  ref[a] = LET b == a - WordAddr(op[t]) IN
                    IF b \notin 0..3 THEN mem[a]
                    ELSE IF b \in Offset(op[t])..(Offset(op[t]) + OrderLen(op[t]) - 1) THEN t
                    ELSE op[t].word[b]
<1> DEFINE o == op[t]
<1> DEFINE w == WordAddr(o)  f == Offset(o)  l == OrderLen(o)  x == o.addr + o.index  b == a - w
<1>1. /\ l \in 1..4 /\ o.index + l <= o.len /\ f \in 0..3 /\ f + l <= 4
      /\ w \in Nat /\ w + f = x /\ w + 3 <= MemSize - 1
  BY WordFact DEF Placed
<1>2. /\ o.index \in Nat /\ o.len \in Nat /\ o.addr \in Nat /\ MemSize \in Nat /\ a \in Int
      /\ a \notin (x + l)..(o.addr + o.len - 1)
  BY SlaveAssumption DEF Op
<1>3. /\ \A c \in 0..MemSize - 1 : c \notin x..(o.addr + o.len - 1) => mem[c] = ref[c]
      /\ \A c \in o.addr..(o.addr + o.len - 1) : ref[c] = t
      /\ o.pc = "put" => \A c \in 0..3 : o.word[c] = mem[w + c]
  BY DEF Written, Span
<1>4. o.pc # "put" => f = 0 /\ l = 4
  BY <1>1 DEF MustRead
<1> HIDE DEF w, f, l, o
<1>5. CASE b \notin 0..3
  <2>1. a \notin x..(o.addr + o.len - 1)
    BY <1>1, <1>2, <1>5
  <2> QED
    BY <1>3, <1>5, <2>1 DEF w, o
<1>6. CASE b \in 0..3 /\ b \in f..(f + l - 1)
  <2>1. a \in o.addr..(o.addr + o.len - 1)
    <3>1. a = w + b /\ b \in Int /\ f <= b /\ b <= f + l - 1
      BY <1>1, <1>2, <1>6
    <3>2. x <= a /\ a <= x + l - 1
      BY <1>1, <1>2, <3>1
    <3> QED
      BY <1>1, <1>2, <3>2
  <2> QED
    BY <1>3, <1>6, <2>1 DEF w, o, f, l
<1>7. CASE b \in 0..3 /\ b \notin f..(f + l - 1)
  <2>1. o.pc = "put"
    BY <1>1, <1>2, <1>4, <1>7
  <2>2. a \notin x..(o.addr + o.len - 1) /\ w + b = a
    BY <1>1, <1>2, <1>7
  <2>3. o.word[b] = mem[a] /\ mem[a] = ref[a]
    BY <1>3, <1>7, <2>1, <2>2
  <2> QED
    BY <1>7, <2>3 DEF w, o, f, l
<1> QED
  BY <1>5, <1>6, <1>7

\* slave_uc8x88_mem_write_data keeps the invariant when it writes whole words at once ...
LEMMA PutWhole ==
    ASSUME SlaveInv, NEW t \in Tasks, PutStep(t), Whole(op[t])
    PROVE  SlaveInv'
<1> DEFINE o == op[t]  n == op'[t]
<1>1. o.pc \in {"put", "write"} /\ UNCHANGED <<mutex, flash, ref>>
  BY DEF PutStep
<1>2. /\ mutex = t /\ o \in Op /\ Placed(o) /\ faults \in Nat /\ op \in [Tasks -> Op]
      /\ mem \in [0..MemSize - 1 -> Byte] /\ ref \in [0..MemSize - 1 -> Byte]
      /\ flash \in [0..Pages - 1 -> SUBSET Bits]
      /\ o.kind = "write" /\ (faults = 0 => Written(t, o))
  BY <1>1, OwnFact, Zenon DEF Placed, SlaveInv, Types
<1>3. n = [o EXCEPT !.pc = "done"] /\ op' = [op EXCEPT ![t] = n]
  BY <1>2 DEF PutStep
<1>4. /\ Fault \/ NoFault
      /\ NoFault => mem' = [a \in 0..MemSize - 1 |-> IF a \in Span(o) THEN t ELSE mem[a]]
      /\ mem' \in [0..MemSize - 1 -> Byte]
  BY <1>2 DEF PutStep, Byte, Fault, NoFault
<1>5. faults' \in Nat /\ (faults' = 0 => faults = 0 /\ NoFault)
  BY <1>2, <1>4, FaultFact
<1>6. o.index = 0 /\ o.addr \in Nat /\ o.len \in Nat /\ o.addr + o.len <= MemSize /\ MemSize \in Nat
  BY <1>2, SlaveAssumption DEF Placed, Op
<1> HIDE DEF o, n
<1>7. /\ n \in Op /\ n.pc = "done" /\ n.kind = "write" /\ n.addr = o.addr
      /\ n.len = o.len /\ n.index = o.index
  BY <1>2, <1>3, Zenon DEF Op
<1>8. Whole(n)
  BY <1>7 DEF Whole, o
<1>9. Placed(n)
  BY <1>2, <1>6, <1>7, <1>8 DEF Placed, None
<1>10. faults' = 0 => Written(t, op[t])'
  <2> SUFFICES ASSUME faults' = 0 PROVE Written(t, op[t])'
    OBVIOUS
  <2>1. /\ \A a \in 0..MemSize - 1 : a \notin o.addr..(o.addr + o.len - 1) => mem[a] = ref[a]
        /\ \A a \in o.addr..(o.addr + o.len - 1) : ref[a] = t
    <3>1. Written(t, o) /\ o.addr + o.index = o.addr
      BY <1>2, <1>5, <1>6
    <3> QED
      BY <3>1 DEF Written, Span
  <2>2. mem' = [a \in 0..MemSize - 1 |-> IF a \in o.addr..(o.addr + o.len - 1) THEN t ELSE mem[a]]
    BY <1>4, <1>5 DEF Span
  <2>3. \A a \in 0..MemSize - 1 : mem'[a] = ref[a]
    BY <2>1, <2>2
  <2>4. mem' = ref
    <3>1. mem' = [a \in 0..MemSize - 1 |-> mem'[a]] /\ ref = [a \in 0..MemSize - 1 |-> ref[a]]
      BY <1>2, <1>4, SMTT(30)
    <3> QED
      BY <2>3, <3>1
  <2> QED
    BY <1>1, <1>7, <2>1, <2>4 DEF Written, Span, n
<1> QED
  BY <1>1, <1>2, <1>3, <1>4, <1>5, <1>7, <1>9, <1>10, OwnStep, Zenon DEF n

\* ... and word by word.
LEMMA PutWord ==
    ASSUME SlaveInv, NEW t \in Tasks, PutStep(t), ~Whole(op[t])
    PROVE  SlaveInv'
<1> DEFINE o == op[t]  n == op'[t]
<1> DEFINE New(a) == LET b == a - WordAddr(o) IN
                     IF b \notin 0..3 THEN mem[a]
                     ELSE IF b \in Offset(o)..(Offset(o) + OrderLen(o) - 1) THEN t
                     ELSE o.word[b]
<1>1. /\ o.pc = "put" \/ (o.pc = "write" /\ ~MustRead(o))
      /\ UNCHANGED <<mutex, flash, ref>>
  BY SMTT(30) DEF PutStep
<1>2. /\ mutex = t /\ o \in Op /\ Placed(o) /\ faults \in Nat /\ op \in [Tasks -> Op]
      /\ mem \in [0..MemSize - 1 -> Byte] /\ ref \in [0..MemSize - 1 -> Byte]
      /\ flash \in [0..Pages - 1 -> SUBSET Bits]
      /\ o.kind = "write" /\ (faults = 0 => Written(t, o))
  BY <1>1, OwnFact, Zenon DEF Placed, SlaveInv, Types
<1>3. n = Advance(o, "write") /\ op' = [op EXCEPT ![t] = n]
  BY <1>2 DEF PutStep
<1>4. /\ Fault \/ NoFault
      /\ (Fault /\ mem' = mem) \/ (NoFault /\ mem' = [a \in 0..MemSize - 1 |-> New(a)])
  BY <1>2 DEF PutStep
<1>5. mem' \in [0..MemSize - 1 -> Byte]
  <2>1. \A a \in 0..MemSize - 1 : New(a) \in Byte
    BY <1>2, SMTT(30) DEF Op, Byte
  <2> HIDE DEF New
  <2> QED
    BY <1>2, <1>4, <2>1
<1>6. faults' \in Nat /\ (faults' = 0 => faults = 0 /\ NoFault) /\ (Fault => faults' # 0)
  BY <1>2, <1>4, FaultFact
<1>7. /\ n \in Op /\ Placed(n) /\ n.index = o.index + OrderLen(o) /\ n.kind = "write"
      /\ n.addr = o.addr /\ n.len = o.len /\ n.pc \in {"write", "done"}
      /\ n.pc = "done" => n.index = o.len
  BY <1>1, <1>2, <1>3, AdvanceFact, SMTT(30)
<1>8. faults' = 0 => Written(t, op[t])'
  <2> SUFFICES ASSUME faults' = 0 PROVE Written(t, op[t])'
    OBVIOUS
  <2>1. Written(t, o) /\ mem' = [a \in 0..MemSize - 1 |-> New(a)]
    BY <1>2, <1>4, <1>6
  <2>2. /\ o.addr \in Nat /\ o.index \in Nat /\ o.len \in Nat /\ OrderLen(o) \in Nat /\ MemSize \in Nat
        /\ o.addr + o.len <= MemSize
    <3>1. o.index < o.len /\ o.addr + o.len <= MemSize
      BY <1>1, <1>2 DEF Placed
    <3>2. OrderLen(o) \in 1..4
      BY <1>2, <3>1, WordFact, SMTT(30)
    <3> QED
      BY <1>2, <3>1, <3>2, SlaveAssumption, SMTT(30) DEF Op
  <2>3. \A a \in 0..MemSize - 1 :
           a \notin (o.addr + o.index + OrderLen(o))..(o.addr + o.len - 1) => ref[a] = New(a)
    BY <1>1, <1>2, <2>1, PutFact
  <2>4. \A a \in Span(o) : ref[a] = t
    BY <2>1 DEF Written
  <2> HIDE DEF o, n, New
  <2>5. \A a \in 0..MemSize - 1 :
           a \notin (n.addr + n.index)..(n.addr + n.len - 1) => mem'[a] = ref[a]
    <3>1. n.addr + n.index = o.addr + o.index + OrderLen(o)
      BY <1>7, <2>2
    <3> QED
      BY <1>7, <2>1, <2>3, <3>1
  <2>6. n.pc = "done" => mem' = ref
    <3> SUFFICES ASSUME n.pc = "done" PROVE mem' = ref
      OBVIOUS
    <3>1. (n.addr + n.index)..(n.addr + n.len - 1) = {}
      BY <1>7, <2>2
    <3>2. \A a \in 0..MemSize - 1 : mem'[a] = ref[a]
      BY <2>5, <3>1
    <3> QED
      <4>1. mem' = [a \in 0..MemSize - 1 |-> mem'[a]] /\ ref = [a \in 0..MemSize - 1 |-> ref[a]]
        BY <1>2, <1>5
      <4> QED
        BY <3>2, <4>1
  <2> QED
    BY <1>1, <1>7, <2>4, <2>5, <2>6 DEF Written, Span, n
<1> QED
  BY <1>1, <1>2, <1>3, <1>5, <1>6, <1>7, <1>8, OwnStep

\* flash_erase touches neither memory nor what a write of pages says.
LEMMA EraseKeeps ==
    ASSUME SlaveInv, NEW t \in Tasks, EraseStep(t)
    PROVE  SlaveInv'
<1> DEFINE o == op[t]  n == op'[t]
<1>1. o.pc = "erase" /\ UNCHANGED <<mutex, mem, ref>>
  BY SMTT(30) DEF EraseStep
<1>2. /\ mutex = t /\ o \in Op /\ Placed(o) /\ faults \in Nat /\ op \in [Tasks -> Op]
      /\ mem \in [0..MemSize - 1 -> Byte] /\ flash \in [0..Pages - 1 -> SUBSET Bits]
      /\ o.kind = "erase" /\ (faults = 0 => mem = ref)
  BY <1>1, OwnFact, Zenon DEF Placed, SlaveInv, Types
<1>3. PICK pc \in {"erase", "done"}, i \in Nat : n = [o EXCEPT !.index = i, !.pc = pc]
  <2>1. o.index + 1 \in Nat
    <3>1. o.index \in Nat
      BY <1>2, Zenon DEF Op
    <3> QED
      BY <3>1, SMTT(30)
  <2> QED
    BY <1>1, <1>2, <2>1, Zenon DEF EraseStep
<1>4. op' = [op EXCEPT ![t] = n]
  BY <1>2, Zenon DEF EraseStep
<1>5. Fault \/ NoFault
  BY DEF EraseStep
<1>6. flash' \in [0..Pages - 1 -> SUBSET Bits]
  BY <1>2 DEF EraseStep
<1>7. faults' \in Nat /\ (faults' = 0 => faults = 0)
  BY <1>2, <1>5, FaultFact
<1> HIDE DEF o, n
<1>8. n \in Op /\ n.pc = pc /\ n.kind = "erase" /\ n.addr = o.addr /\ n.len = o.len
  BY <1>2, <1>3, Zenon DEF Op
<1>9. Placed(n)
  BY <1>2, <1>8 DEF Placed, None
<1> QED
  BY <1>1, <1>2, <1>4, <1>6, <1>7, <1>8, <1>9, OwnStep DEF n

\* flash_write changes the page at hand only.
LEMMA ProgramKeeps ==
    ASSUME SlaveInv, NEW t \in Tasks, ProgramStep(t)
    PROVE  SlaveInv'
<1> DEFINE o == op[t]  n == op'[t]
<1>1. o.pc = "program" /\ UNCHANGED <<mutex, mem, ref>>
  BY DEF ProgramStep
<1>2. /\ mutex = t /\ o \in Op /\ Placed(o) /\ faults \in Nat /\ op \in [Tasks -> Op]
      /\ mem \in [0..MemSize - 1 -> Byte] /\ flash \in [0..Pages - 1 -> SUBSET Bits]
      /\ o.kind = "program" /\ (faults = 0 => mem = ref)
      /\ (o.verify /\ o.data # {} => Programmed(o))
  BY <1>1, OwnFact, Zenon DEF Placed, SlaveInv, Types
<1>3. n = [o EXCEPT !.pc = "check"] /\ op' = [op EXCEPT ![t] = n]
  BY <1>2 DEF ProgramStep
<1>4. Fault \/ NoFault
  BY DEF ProgramStep
<1>5. /\ flash' \in [0..Pages - 1 -> SUBSET Bits]
      /\ \A p \in 0..Pages - 1 : p # o.addr + o.index => flash'[p] = flash[p]
  <2>1. CASE Fault /\ flash' = flash
    BY <1>2, <2>1
  <2>2. CASE flash' = [flash EXCEPT ![o.addr + o.index] = @ \cap o.data]
    <3>1. \A p \in 0..Pages - 1 : flash[p] \cap o.data \subseteq Bits
      BY <1>2
    <3> QED
      BY <1>2, <2>2, <3>1, Zenon
  <2> QED
    BY <2>1, <2>2, SMTT(30) DEF ProgramStep
<1>6. faults' \in Nat /\ (faults' = 0 => faults = 0)
  BY <1>2, <1>4, FaultFact
<1>7. /\ o.addr \in Nat /\ o.index \in Nat /\ o.len \in Nat /\ Pages \in Nat
      /\ o.index < o.len /\ o.addr + o.len <= Pages
  BY <1>1, <1>2, SlaveAssumption DEF Op, Placed
<1> HIDE DEF o, n
<1>8. /\ n \in Op /\ n.pc = "check" /\ n.kind = "program" /\ n.addr = o.addr /\ n.len = o.len
      /\ n.index = o.index /\ n.data = o.data /\ n.verify = o.verify
  BY <1>2, <1>3, Zenon DEF Op
<1>9. Placed(n)
  BY <1>2, <1>7, <1>8 DEF Placed, None
<1>10. n.verify /\ n.data # {} => Programmed(op[t])'
  <2>1. \A p \in o.addr..(o.addr + o.index - 1) : p \in 0..Pages - 1 /\ p # o.addr + o.index
    BY <1>7
  <2> QED
    BY <1>2, <1>5, <1>8, <2>1 DEF Programmed, n
<1> QED
  BY <1>1, <1>2, <1>3, <1>5, <1>6, <1>8, <1>9, <1>10, OwnStep, Zenon DEF n

\* The check of a page goes on only when it holds the data.
LEMMA CheckKeeps ==
    ASSUME SlaveInv, NEW t \in Tasks, CheckStep(t)
    PROVE  SlaveInv'
<1> DEFINE o == op[t]  n == op'[t]
<1>1. o.pc = "check" /\ UNCHANGED <<mutex, mem, ref, flash>>
  BY DEF CheckStep
<1>2. /\ mutex = t /\ o \in Op /\ Placed(o) /\ faults \in Nat /\ op \in [Tasks -> Op]
      /\ mem \in [0..MemSize - 1 -> Byte] /\ flash \in [0..Pages - 1 -> SUBSET Bits]
      /\ o.kind = "program" /\ (faults = 0 => mem = ref)
      /\ (o.verify /\ o.data # {} => Programmed(o))
  BY <1>1, OwnFact, Zenon DEF Placed, SlaveInv, Types
<1>3. Fault \/ NoFault
  BY DEF CheckStep
<1>4. faults' \in Nat /\ (faults' = 0 => faults = 0)
  BY <1>2, <1>3, FaultFact
<1>5. op' = [op EXCEPT ![t] = n]
  BY <1>2 DEF CheckStep
<1>6. \/ n = NextPage(o) /\ (o.verify /\ o.data # {} => flash[o.addr + o.index] = o.data)
      \/ n = [o EXCEPT !.pc = "done", !.ret = 1]
      \/ n = [o EXCEPT !.pc = "program", !.try_cnt = @ + 1] /\ o.try_cnt # 4
      \/ n = [o EXCEPT !.pc = "done", !.ret = -2]
  BY <1>2, Zenon DEF CheckStep
<1>7. /\ o.addr \in Nat /\ o.index \in Nat /\ o.len \in Nat /\ o.try_cnt \in 0..4
      /\ o.index < o.len /\ o.addr + o.len <= Pages
  BY <1>1, <1>2 DEF Op, Placed
<1> HIDE DEF o, n
<1>8. CASE n = NextPage(o) /\ (o.verify /\ o.data # {} => flash[o.addr + o.index] = o.data)
  <2>1. PICK pc \in {"program", "done"} :
           /\ n = [o EXCEPT !.index = o.index + 1, !.try_cnt = 0, !.pc = pc]
           /\ pc = "program" <=> o.index + 1 < o.len
    BY <1>8, Zenon DEF NextPage
  <2>5. PICK i \in Nat : i = o.index + 1
    BY <1>7
  <2>2. /\ n \in Op /\ n.pc = pc /\ n.kind = "program" /\ n.addr = o.addr /\ n.len = o.len
        /\ n.index = o.index + 1 /\ n.data = o.data /\ n.verify = o.verify
    <3>1. n = [o EXCEPT !.index = i, !.try_cnt = 0, !.pc = pc] /\ 0 \in 0..4
      BY <2>1, <2>5
    <3> QED
      BY <1>2, <2>5, <3>1, Zenon DEF Op
  <2>3. Placed(n)
    BY <1>2, <1>7, <2>1, <2>2 DEF Placed, None
  <2>4. n.verify /\ n.data # {} => Programmed(op[t])'
    <3> SUFFICES ASSUME n.verify, n.data # {} PROVE Programmed(op[t])'
      OBVIOUS
    <3>1. \A p \in o.addr..(o.addr + o.index - 1) : flash[p] = o.data
      BY <1>2, <2>2 DEF Programmed
    <3>2. \A p \in n.addr..(n.addr + n.index - 1) :
             p \in o.addr..(o.addr + o.index - 1) \/ p = o.addr + o.index
      BY <1>7, <2>2
    <3>3. n.pc = "done" => n.index = n.len
      BY <1>7, <2>1, <2>2
    <3> QED
      BY <1>1, <1>8, <2>2, <3>1, <3>2, <3>3 DEF Programmed, n
  <2> QED
    BY <1>1, <1>2, <1>4, <1>5, <2>2, <2>3, <2>4, OwnStep DEF n
<1>9. CASE \/ n = [o EXCEPT !.pc = "done", !.ret = 1]
           \/ n = [o EXCEPT !.pc = "program", !.try_cnt = @ + 1] /\ o.try_cnt # 4
           \/ n = [o EXCEPT !.pc = "done", !.ret = -2]
  <2>1. /\ n \in Op /\ n.pc \in {"program", "done"} /\ n.kind = "program" /\ n.addr = o.addr
        /\ n.len = o.len /\ n.index = o.index /\ n.data = o.data /\ n.verify = o.verify
        /\ n.pc = "done" => n.ret # 0
    <3>1. ASSUME NEW r \in Int, r # 0, n = [o EXCEPT !.pc = "done", !.ret = r]
          PROVE  /\ n \in Op /\ n.pc = "done" /\ n.ret # 0 /\ n.kind = "program"
                 /\ n.addr = o.addr /\ n.len = o.len /\ n.index = o.index
                 /\ n.data = o.data /\ n.verify = o.verify
      BY <1>2, <3>1, Zenon DEF Op
    <3>2. 1 \in Int /\ 1 # 0 /\ -2 \in Int /\ -2 # 0
      OBVIOUS
    <3>3. CASE n = [o EXCEPT !.pc = "program", !.try_cnt = @ + 1] /\ o.try_cnt # 4
      <4>1. PICK k \in 0..4 : k = o.try_cnt + 1
        BY <1>7, <3>3
      <4>2. n = [o EXCEPT !.pc = "program", !.try_cnt = k]
        BY <3>3, <4>1
      <4> QED
        BY <1>2, <4>2, Zenon DEF Op
    <3> QED
      BY <1>9, <3>1, <3>2, <3>3, Zenon
  <2>2. Placed(n)
    BY <1>2, <1>7, <2>1 DEF Placed, None
  <2>3. n.verify /\ n.data # {} => Programmed(op[t])'
    BY <1>1, <1>2, <2>1 DEF Programmed, n
  <2> QED
    BY <1>1, <1>2, <1>4, <1>5, <2>1, <2>2, <2>3, OwnStep, SMTT(30) DEF n
<1> QED
  BY <1>6, <1>8, <1>9

\* Every step keeps the invariant.
LEMMA SlaveStep == SlaveInv /\ [Next]_vars => SlaveInv'
<1> SUFFICES ASSUME SlaveInv, [Next]_vars PROVE SlaveInv'
  OBVIOUS
<1>1. CASE UNCHANGED vars
  <2>1. Types' /\ Held' /\ (\A t \in Tasks : Placed(op[t]))'
    BY <1>1 DEF SlaveInv, Types, Held, vars
  <2>2. MemInv'
    BY <1>1, SMTT(30) DEF SlaveInv, MemInv, Progress, Written, Reading, vars
  <2>3. FlashInv'
    BY <1>1 DEF SlaveInv, FlashInv, Programmed, vars
  <2> QED
    BY <2>1, <2>2, <2>3 DEF SlaveInv
<1>2. ASSUME NEW t \in Tasks, NEW c \in MemCalls, NEW kind \in {"read", "write"},
             Call(t, kind, c, {}, FALSE)
      PROVE  SlaveInv'
  <2>1. c \in Nat \X Nat /\ c[2] > 0 /\ c[1] + c[2] <= MemSize
    BY SlaveAssumption
  <2>2. {} \in SUBSET Bits /\ FALSE \in BOOLEAN /\ kind \in {"read", "write", "erase", "program"}
        /\ kind \notin {"erase", "program"}
    OBVIOUS
  <2> QED
    BY <1>2, <2>1, <2>2, CallStep, Zenon
<1>3. ASSUME NEW t \in Tasks, NEW c \in FlashCalls, Call(t, "erase", c, {}, FALSE)
      PROVE  SlaveInv'
  BY <1>3, CallStep, SlaveAssumption, Zenon
<1>4. ASSUME NEW t \in Tasks, NEW c \in FlashCalls, NEW d \in Contents, NEW v \in Verify,
             Call(t, "program", c, d, v)
      PROVE  SlaveInv'
  <2>1. d \in SUBSET Bits /\ v \in BOOLEAN
    BY SlaveAssumption DEF Bits
  <2> QED
    BY <1>4, <2>1, CallStep, SlaveAssumption
<1>5. ASSUME NEW t \in Tasks, Step(t) PROVE SlaveInv'
  <2>1. CASE Take(t)        BY <2>1, TakeStep
  <2>2. CASE Release(t)     BY <2>2, ReleaseStep
  <2>3. CASE ReadStep(t)    BY <2>3, ReadKeeps
  <2>4. CASE FetchStep(t)   BY <2>4, FetchKeeps
  <2>5. CASE PutStep(t)     BY <2>5, PutWhole, PutWord
  <2>6. CASE EraseStep(t)   BY <2>6, EraseKeeps
  <2>7. CASE ProgramStep(t) BY <2>7, ProgramKeeps
  <2>8. CASE CheckStep(t)   BY <2>8, CheckKeeps
  <2> QED
    BY <1>5, <2>1, <2>2, <2>3, <2>4, <2>5, <2>6, <2>7, <2>8 DEF Step
<1> QED
  BY <1>1, <1>2, <1>3, <1>4, <1>5, Zenon DEF Next

\* The invariant holds in every reachable state.
LEMMA SlaveInvariant == Spec => []SlaveInv
BY SlaveInit, SlaveStep, PTL DEF Spec

\* Between calls the memory of the slave holds what the calls wrote, each as if at once.
THEOREM MemoryTrue == Spec => []MemTrue
<1>1. SlaveInv => MemTrue
  BY DEF SlaveInv, MemInv, Progress, MemTrue
<1> QED
  BY <1>1, SlaveInvariant, PTL

\* A read of any bytes sees the memory of one moment.
THEOREM ReadsTrue == Spec => []ReadTrue
<1>1. SlaveInv => ReadTrue
  <2> SUFFICES ASSUME SlaveInv, NEW t \in Tasks,
                      op[t].pc = "done", op[t].kind = "read", faults = 0
               PROVE  op[t].got = [i \in 1..op[t].len |-> ref[op[t].addr + i - 1]]
    BY SMTT(30) DEF ReadTrue
  <2> DEFINE g == op[t].got  l == op[t].len  a == op[t].addr
  <2>1. g \in Seq(Byte) /\ Len(g) = l /\ \A i \in 1..l : g[i] = ref[a + i - 1]
    BY OwnFact DEF Reading, Op
  <2> HIDE DEF g, l, a
  <2>2. g = [i \in 1..l |-> g[i]]
    BY <2>1
  <2>3. g = [i \in 1..l |-> ref[a + i - 1]]
    BY <2>1, <2>2
  <2> QED
    BY <2>3 DEF g, l, a
<1> QED
  BY <1>1, SlaveInvariant, PTL

\* A verified write of anything but zeros that reports success is in the flash.
THEOREM WritesVerified == Spec => []VerifiedTrue
<1>1. SlaveInv => VerifiedTrue
  BY OwnFact DEF VerifiedTrue, Programmed, Span
<1> QED
  BY <1>1, SlaveInvariant, PTL
=============================================================================
