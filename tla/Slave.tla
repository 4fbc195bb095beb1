------------------------------- MODULE Slave -------------------------------
(***************************************************************************)
(* Access of several tasks to the memory and the flash of one slave chip   *)
(* (slave_uc8x88.c). Every transfer on the SPI bus is a step. A transfer   *)
(* that fails is logged and the operation goes on.                         *)
(***************************************************************************)
EXTENDS Integers, Sequences, FiniteSets

CONSTANTS Tasks,                        \* tasks, each writes bytes of its own
          MemSize,                      \* bytes of memory
          MemCalls,                     \* <<addr, len>> of memory calls
          FlashCalls,                   \* <<addr, len>> of flash calls, in pages
          Sector,                       \* pages of a sector
          Pages,                        \* pages of flash
          Contents,                     \* what a page is to hold, sets of bits
          Verify,                       \* values of order_verify
          MaxCall, MaxFault             \* bounds

ASSUME SlaveAssumption ==
    /\ MemSize \in Nat /\ MemSize % 4 = 0
    /\ \A c \in MemCalls : c \in Nat \X Nat /\ c[2] > 0 /\ c[1] + c[2] <= MemSize
    /\ Sector \in Nat \ {0} /\ Pages \in Nat
    /\ \A c \in FlashCalls : c \in Nat \X Nat /\ c[2] > 0 /\ c[1] + c[2] <= Pages
    /\ Contents \subseteq SUBSET {1, 2} /\ Verify \subseteq BOOLEAN
    /\ "none" \notin Tasks /\ MaxFault \in Nat

VARIABLES mutex,     \* task that holds p_slave_uc8x88_mutex
          op,        \* operation of a task
          mem,       \* memory of the slave
          flash,     \* flash of the slave
          ref,       \* memory after the calls that took the mutex, each at once
          calls, faults

vars == <<mutex, op, mem, flash, ref, calls, faults>>

None == "none"
Bits == {1, 2}                          \* bits of a page, 1 where erased
Byte == Tasks \cup {"zero", "old"}

Idle == [pc |-> "idle", kind |-> None, addr |-> 0, len |-> 0, index |-> 0,
         word |-> [b \in 0..3 |-> "zero"], got |-> <<>>, data |-> {}, verify |-> FALSE,
         try_cnt |-> 0, ret |-> 0]

Init == /\ mutex = None /\ op = [t \in Tasks |-> Idle]
        /\ mem = [a \in 0..MemSize - 1 |-> "old"] /\ ref = mem
        /\ flash \in {[p \in 0..Pages - 1 |-> c] : c \in Contents}
        /\ calls = 0 /\ faults = 0

Fault == faults < MaxFault /\ faults' = faults + 1
NoFault == UNCHANGED faults

----------------------------------------------------------------------------
(* Calls *)

\* A call of the application; the chip was found by slave_uc8x88_init.
Call(t, kind, c, data, verify) ==
    /\ op[t].pc = "idle" /\ calls < MaxCall /\ calls' = calls + 1
    /\ op' = [op EXCEPT ![t] = [Idle EXCEPT !.pc = "take", !.kind = kind, !.addr = c[1],
                                  !.len = c[2], !.data = data, !.verify = verify]]
    /\ UNCHANGED <<mutex, mem, flash, ref, faults>>

Span(o) == o.addr..(o.addr + o.len - 1)

\* rt_mutex_take.
Take(t) ==
    /\ op[t].pc = "take" /\ mutex = None /\ mutex' = t
    /\ op' = [op EXCEPT ![t].pc = op[t].kind]
    /\ ref' = IF op[t].kind = "write" THEN [a \in DOMAIN mem |-> IF a \in Span(op[t]) THEN t ELSE ref[a]]
              ELSE ref
    /\ UNCHANGED <<mem, flash, calls, faults>>

\* rt_mutex_release.
Release(t) ==
    /\ op[t].pc = "done" /\ mutex' = None
    /\ op' = [op EXCEPT ![t] = Idle]
    /\ UNCHANGED <<mem, flash, ref, calls, faults>>

----------------------------------------------------------------------------
(* Memory: whole words at once, or word by word *)

Whole(o) == o.addr % 4 = 0 /\ o.len % 4 = 0

\* read_addr, addr_offset and order_len of the word the loop is at.
WordAddr(o) == ((o.addr + o.index) \div 4) * 4
Offset(o) == (o.addr + o.index) % 4

OrderLen(o) == IF o.index + 4 - Offset(o) > o.len THEN o.len - o.index ELSE 4 - Offset(o)

\* One pass of the loop is over.
Advance(o, pc) == LET i == o.index + OrderLen(o) IN
    [o EXCEPT !.index = i, !.pc = IF i < o.len THEN pc ELSE "done",
              !.word = Idle.word]

\* Bytes a transfer brings to the caller, from where and how many.
From(o) == IF Whole(o) THEN o.addr ELSE WordAddr(o) + Offset(o)
Count(o) == IF Whole(o) THEN o.len ELSE OrderLen(o)

Got(o, bytes) == IF Whole(o) THEN [o EXCEPT !.got = bytes, !.pc = "done"]
                 ELSE [Advance(o, "read") EXCEPT !.got = o.got \o bytes]

\* slave_uc8x88_mem_read_data. A read that failed leaves zeros in a word of its own,
\* and the buffer of the caller as it was.
ReadStep(t) == LET o == op[t] IN
    /\ o.pc = "read"
    /\ \/ /\ NoFault
          /\ op' = [op EXCEPT ![t] = Got(o, [i \in 1..Count(o) |-> mem[From(o) + i - 1]])]
       \/ /\ Fault
          /\ op' = [op EXCEPT ![t] = Got(o, [i \in 1..Count(o) |->
                                              IF Whole(o) THEN "old" ELSE "zero"])]
    /\ UNCHANGED <<mutex, mem, flash, ref, calls>>

\* Variant: a word that is written from its start is not read.
MustRead_start(o) == Offset(o) > 0

\* Part of the word keeps its bytes: mem_read before the bytes are put in.
MustRead(o) == Offset(o) > 0 \/ OrderLen(o) < 4

\* mem_read of slave_uc8x88_mem_write_data.
FetchStep(t) == LET o == op[t] IN
    /\ o.pc = "write" /\ ~Whole(o) /\ MustRead(o)
    /\ \/ /\ NoFault
          /\ op' = [op EXCEPT ![t].pc = "put",
                              ![t].word = [b \in 0..3 |-> mem[WordAddr(o) + b]]]
       \/ Fault /\ op' = [op EXCEPT ![t].pc = "put"]
    /\ UNCHANGED <<mutex, mem, flash, ref, calls>>

\* mem_write of slave_uc8x88_mem_write_data.
PutStep(t) == LET o == op[t] IN
    /\ \/ o.pc = "put"
       \/ o.pc = "write" /\ (Whole(o) \/ ~MustRead(o))
    /\ op' = [op EXCEPT ![t] = IF Whole(o) THEN [o EXCEPT !.pc = "done"] ELSE Advance(o, "write")]
    /\ \/ Fault /\ UNCHANGED mem
       \/ /\ NoFault
          /\ mem' = IF Whole(o) THEN [a \in DOMAIN mem |-> IF a \in Span(o) THEN t ELSE mem[a]]
                    ELSE [a \in DOMAIN mem |->
                            LET b == a - WordAddr(o) IN
                            IF b \notin 0..3 THEN mem[a]
                            ELSE IF b \in Offset(o)..(Offset(o) + OrderLen(o) - 1) THEN t
                            ELSE o.word[b]]
    /\ UNCHANGED <<mutex, flash, ref, calls>>

----------------------------------------------------------------------------
(* Flash: a program step only clears bits, an erased page has them all *)

\* flash_erase: so many sectors from the one of the first page.
EraseNum(o) == (o.len \div Sector) + (IF o.len % Sector # 0 THEN 1 ELSE 0)

EraseStep(t) == LET o == op[t]  s == (o.addr \div Sector) + o.index IN
    /\ o.pc = "erase"
    /\ op' = [op EXCEPT ![t].index = @ + 1, ![t].pc = IF o.index + 1 < EraseNum(o) THEN @ ELSE "done"]
    /\ \/ Fault /\ UNCHANGED flash
       \/ /\ NoFault
          /\ flash' = [p \in DOMAIN flash |-> IF p \div Sector = s THEN Bits ELSE flash[p]]
    /\ UNCHANGED <<mutex, mem, ref, calls>>

\* flash_write of one page: the transfer, or the memory for it, may fail.
ProgramStep(t) == LET o == op[t] IN
    /\ o.pc = "program"
    /\ op' = [op EXCEPT ![t].pc = "check"]
    /\ \/ Fault /\ UNCHANGED flash
       \/ NoFault /\ flash' = [flash EXCEPT ![o.addr + o.index] = @ \cap o.data]
    /\ UNCHANGED <<mutex, mem, ref, calls>>

\* The next page, or the end.
NextPage(o) == [o EXCEPT !.index = @ + 1, !.try_cnt = 0,
                         !.pc = IF o.index + 1 < o.len THEN "program" ELSE "done"]

\* Variant: after the last try the next page is written.
CheckStep_on(t) == LET o == op[t] IN
    /\ o.pc = "check"
    /\ \E ok \in BOOLEAN :
         /\ IF ok THEN NoFault ELSE Fault
         /\ LET same == o.data = IF ok THEN flash[o.addr + o.index] ELSE {} IN
            op' = [op EXCEPT ![t] =
                     IF ~o.verify \/ same \/ o.try_cnt = 4 THEN NextPage(o)
                     ELSE [o EXCEPT !.pc = "program", !.try_cnt = @ + 1]]
    /\ UNCHANGED <<mutex, mem, flash, ref, calls>>

\* The page is read back into zeros and compared, up to five times; without
\* verification the first try counts.
\* The buffer is allocated for the first page.
CheckStep(t) == LET o == op[t] IN
    /\ o.pc = "check"
    /\ \/ ~o.verify /\ NoFault /\ op' = [op EXCEPT ![t] = NextPage(o)]
       \/ /\ o.verify
          /\ \E ok \in BOOLEAN :
               /\ IF ok THEN NoFault ELSE Fault
               /\ LET same == o.data = IF ok THEN flash[o.addr + o.index] ELSE {} IN
                  op' = [op EXCEPT ![t] =
                           IF same THEN NextPage(o)
                           ELSE IF o.try_cnt = 4 THEN [o EXCEPT !.pc = "done", !.ret = 1]
                           ELSE [o EXCEPT !.pc = "program", !.try_cnt = @ + 1]]
       \/ o.verify /\ o.index = 0 /\ o.try_cnt = 0 /\ Fault
          /\ op' = [op EXCEPT ![t].pc = "done", ![t].ret = -2]
    /\ UNCHANGED <<mutex, mem, flash, ref, calls>>

Step(t) == \/ Take(t) \/ Release(t) \/ ReadStep(t) \/ FetchStep(t) \/ PutStep(t)
           \/ EraseStep(t) \/ ProgramStep(t) \/ CheckStep(t)

Next == \E t \in Tasks :
          \/ \E c \in MemCalls, kind \in {"read", "write"} : Call(t, kind, c, {}, FALSE)
          \/ \E c \in FlashCalls : Call(t, "erase", c, {}, FALSE)
          \/ \E c \in FlashCalls, d \in Contents, v \in Verify : Call(t, "program", c, d, v)
          \/ Step(t)

Spec == Init /\ [][Next]_vars
----------------------------------------------------------------------------
(* Properties *)

\* Between calls the memory holds what the calls wrote, each as if at once: bytes that
\* share a word with those of another task's write are never lost, nor are bytes
\* beside a write. A transfer that failed excuses it.
MemTrue == mutex = None /\ faults = 0 => mem = ref

\* A read that crosses words sees the memory of one moment, between two calls.
ReadTrue == \A t \in Tasks :
    op[t].pc = "done" /\ op[t].kind = "read" /\ faults = 0 =>
      op[t].got = [i \in 1..op[t].len |-> ref[op[t].addr + i - 1]]

\* A verified write that reports success has written every page, whatever was in the
\* flash and whichever transfers failed, unless the data are all zeros, which a page
\* that could not be read back looks like.
VerifiedTrue == \A t \in Tasks :
    op[t].pc = "done" /\ op[t].kind = "program" /\ op[t].verify /\ op[t].ret = 0 /\ op[t].data # {} =>
      \A p \in Span(op[t]) : flash[p] = op[t].data

=============================================================================
