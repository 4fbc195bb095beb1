-------------------------------- MODULE Ring --------------------------------
(***************************************************************************)
(* The ring buffers between the access point and the gateway behind SPI    *)
(* (uc_wiota_spi_com.c). One side puts, the other gets; each has its own   *)
(* index and mirror bit and a copy of the other's, taken from a state word *)
(* in shared memory that carries a checksum. The access point puts into    *)
(* the uplink ring and gets from the downlink ring; the gateway does the   *)
(* same on its side. Here is one ring with the access point's code on both *)
(* ends. The unit is the aligned word of four bytes; the words are         *)
(* numbered as they are put in, and the counters n... hold how many words  *)
(* a pointer has passed since the start.                                   *)
(***************************************************************************)
EXTENDS Integers, Sequences

CONSTANTS Mem,          \* words of ul_buf, the last one for the frame number
          Header,       \* words of a cmd_header_t, the shortest message
          MaxBlock,     \* longest message
          MaxWord,      \* words put in altogether (bound)
          MaxFault,     \* state words found broken, failed mallocs (bound)
          MaxNotice,    \* largest value of the semaphore
          Frame         \* frame numbers

ASSUME RingAssumption == /\ Mem \in Nat /\ Mem > 1
                         /\ Header \in Nat \ {0} /\ MaxBlock \in Nat
                         /\ MaxWord \in Nat /\ MaxFault \in Nat
                         /\ MaxNotice \in Nat \ {0}
                         /\ Frame \subseteq Int /\ 0 \in Frame

VARIABLES buf,
          w, rcopy, wstate,   \* putting side: its pointer, its copy, its state word
          r, wcopy, rstate,   \* getting side
          nw, nrcopy, nwstate, nr, nwcopy, nrstate,
          putter, getter,     \* where the two threads are
          cmd_notice,         \* the semaphore of the interrupt
          frame_num, faults

vars == <<buf, w, rcopy, wstate, r, wcopy, rstate, nw, nrcopy, nwstate, nr, nwcopy,
          nrstate, putter, getter, cmd_notice, frame_num, faults>>

\* uc_wiota_ringbuffer_init(sizeof(ul_buf) - 4, ul_buf).
Size == Mem - 1

Start == [index |-> 0, mirror |-> 0]

Init == /\ buf = [i \in 0..(Mem - 1) |-> 0]
        /\ w = Start /\ rcopy = Start /\ wstate = Start
        /\ r = Start /\ wcopy = Start /\ rstate = Start
        /\ nw = 0 /\ nrcopy = 0 /\ nwstate = 0
        /\ nr = 0 /\ nwcopy = 0 /\ nrstate = 0
        /\ putter = "idle" /\ getter = "wait"
        /\ cmd_notice = 0 /\ frame_num = 0 /\ faults = 0

----------------------------------------------------------------------------
\* Variant: equal indexes always mean an empty ring.
rt_ringbuffer_data_len_half(rd, wr) ==
    IF wr.index >= rd.index THEN wr.index - rd.index ELSE Size - (rd.index - wr.index)

rt_ringbuffer_data_len(rd, wr) ==
    IF rd.index = wr.index
    THEN IF rd.mirror = wr.mirror THEN 0 ELSE Size
    ELSE IF wr.index > rd.index THEN wr.index - rd.index
                                ELSE Size - (rd.index - wr.index)

rt_ringbuffer_space_len(rd, wr) == Size - rt_ringbuffer_data_len(rd, wr)

\* Less than a header is nothing.
uc_wiota_get_dl_data_len(rd, wr) ==
    LET n == rt_ringbuffer_data_len(rd, wr) IN IF n < Header \/ n > Size THEN 0 ELSE n

\* A pointer after n words: past the end it goes to the other side of the mirror.
Advance(p, n) ==
    IF Size - p.index > n THEN [index |-> p.index + n, mirror |-> p.mirror]
    ELSE [index |-> n - (Size - p.index), mirror |-> 1 - p.mirror]

\* Where word d after pointer p is.
Cell(p, d) == IF p.index + d < Size THEN p.index + d ELSE p.index + d - Size

\* How many words of a block of n are copied to p; the others go to the start.
First(p, n) == IF Size - p.index > n THEN n ELSE Size - p.index

----------------------------------------------------------------------------
(* The putting side: uc_wiota_send_data_to_gateway, under cmd_lock *)

get == <<r, wcopy, rstate, nr, nwcopy, nrstate, getter>>

\* uc_wiota_ringbuffer_get_ul_read_idx; a word that is broken twice ends it.
uc_wiota_ringbuffer_get_ul_read_idx ==
    /\ putter = "idle"
    /\ \/ /\ rcopy' = rstate /\ nrcopy' = nrstate
          /\ putter' = "put" /\ UNCHANGED faults
       \/ /\ faults < MaxFault /\ faults' = faults + 1
          /\ UNCHANGED <<rcopy, nrcopy, putter>>
    /\ UNCHANGED <<buf, w, wstate, nw, nwstate, get, cmd_notice, frame_num>>

\* uc_wiota_ringbuffer_put: all of the block or nothing; one copy, or one up to
\* the end of the ring and one from its start.
uc_wiota_ringbuffer_put(n) ==
    /\ putter = "put" /\ nw + n <= MaxWord
    /\ putter' = "publish"
    /\ IF rt_ringbuffer_space_len(rcopy, w) < n
       THEN UNCHANGED <<buf, w, nw>>
       ELSE /\ buf' = [i \in 0..(Mem - 1) |->
                         IF i < n - First(w, n) THEN nw + First(w, n) + i + 1
                         ELSE IF i \in w.index..(w.index + First(w, n) - 1)
                         THEN nw + (i - w.index) + 1 ELSE buf[i]]
            /\ w' = Advance(w, n) /\ nw' = nw + n
    /\ UNCHANGED <<rcopy, wstate, nrcopy, nwstate, get, cmd_notice, frame_num, faults>>

uc_wiota_ringbuffer_set_ul_write_idx ==
    /\ putter = "publish"
    /\ wstate' = w /\ nwstate' = nw
    /\ putter' = "irq"
    /\ UNCHANGED <<buf, w, rcopy, nw, nrcopy, get, cmd_notice, frame_num, faults>>

\* The pulse on the pin; the other side's handler releases its semaphore, whose
\* value stays at its maximum.
uc_wiota_enable_ul_irq ==
    /\ putter = "irq"
    /\ cmd_notice' = IF cmd_notice < MaxNotice THEN cmd_notice + 1 ELSE cmd_notice
    /\ putter' = "idle"
    /\ UNCHANGED <<buf, w, rcopy, wstate, nw, nrcopy, nwstate, get, frame_num, faults>>

----------------------------------------------------------------------------
(* The getting side: uc_wiota_handle_dl_irq_msg, uc_wiota_dl_data_parse *)

put == <<w, rcopy, wstate, nw, nrcopy, nwstate, putter>>

\* The semaphore is taken, the state word read. A broken word, no memory, or fewer
\* words there than a header has: wait for the next interrupt.
uc_wiota_ringbuffer_get_dl_write_idx ==
    /\ getter = "wait" /\ cmd_notice > 0
    /\ cmd_notice' = cmd_notice - 1
    /\ \/ /\ wcopy' = wstate /\ nwcopy' = nwstate
          /\ getter' = IF uc_wiota_get_dl_data_len(r, wstate) = 0 THEN "wait" ELSE "get"
          /\ UNCHANGED faults
       \/ /\ faults < MaxFault /\ faults' = faults + 1
          /\ UNCHANGED <<wcopy, nwcopy, getter>>
    /\ UNCHANGED <<buf, r, rstate, nr, nrstate, put, frame_num>>

\* Variant: one word fewer is taken than is there.
uc_wiota_ringbuffer_get_less ==
    /\ getter = "get"
    /\ LET n == rt_ringbuffer_data_len(r, wcopy)
           k == IF n > 1 THEN n - 1 ELSE n
       IN  r' = Advance(r, k) /\ nr' = nr + k
    /\ getter' = "publish"
    /\ UNCHANGED <<buf, wcopy, rstate, nwcopy, nrstate, put, cmd_notice, frame_num, faults>>

\* uc_wiota_ringbuffer_get: all there is.
uc_wiota_ringbuffer_get ==
    /\ getter = "get"
    /\ LET n == rt_ringbuffer_data_len(r, wcopy)
       IN  r' = Advance(r, n) /\ nr' = nr + n
    /\ getter' = "publish"
    /\ UNCHANGED <<buf, wcopy, rstate, nwcopy, nrstate, put, cmd_notice, frame_num, faults>>

uc_wiota_ringbuffer_set_dl_read_idx ==
    /\ getter = "publish"
    /\ rstate' = r /\ nrstate' = nr
    /\ getter' = "wait"
    /\ UNCHANGED <<buf, r, wcopy, nr, nwcopy, put, cmd_notice, frame_num, faults>>

\* uc_wiota_store_frame_num, from the interrupt of the frame.
uc_wiota_store_frame_num(f) ==
    /\ buf' = [buf EXCEPT ![Mem - 1] = f]
    /\ frame_num' = f
    /\ UNCHANGED <<put, get, cmd_notice, faults>>

Putter == \/ uc_wiota_ringbuffer_get_ul_read_idx
          \/ \E n \in Header..MaxBlock : uc_wiota_ringbuffer_put(n)
          \/ uc_wiota_ringbuffer_set_ul_write_idx
          \/ uc_wiota_enable_ul_irq

Getter == \/ uc_wiota_ringbuffer_get_dl_write_idx
          \/ uc_wiota_ringbuffer_get
          \/ uc_wiota_ringbuffer_set_dl_read_idx

Next == Putter \/ Getter \/ \E f \in Frame : uc_wiota_store_frame_num(f)

Spec == Init /\ [][Next]_vars

FairSpec == /\ Spec /\ WF_vars(Getter)
            /\ WF_vars(uc_wiota_ringbuffer_set_ul_write_idx)
            /\ WF_vars(uc_wiota_enable_ul_irq)
----------------------------------------------------------------------------
(* Properties *)

Pointer == [index : 0..(Size - 1), mirror : {0, 1}]

TypeOK == /\ buf \in [0..(Mem - 1) -> Int]
          /\ {w, rcopy, wstate, r, wcopy, rstate} \subseteq Pointer
          /\ {nw, nrcopy, nwstate, nr, nwcopy, nrstate} \subseteq Nat
          /\ putter \in {"idle", "put", "publish", "irq"}
          /\ getter \in {"wait", "get", "publish"}
          /\ cmd_notice \in Nat /\ frame_num \in Frame /\ faults \in Nat

\* However old the copies of the pointers are, the getting side never passes the
\* words put in, and every word it has not read is whole and in its place, in
\* order: nothing is read twice, lost or overwritten.
Fifo == /\ nr <= nwstate
        /\ \A d \in 0..(nw - nr - 1) : buf[Cell(r, d)] = nr + d + 1

\* The ring never reaches the frame number in the last word of the memory.
FrameKept == buf[Mem - 1] = frame_num

\* The words in the ring, from the reading pointer on, are a bounded queue.
Queue == INSTANCE WordQueue WITH
            queue <- [k \in 1..(nw - nr) |-> buf[Cell(r, k - 1)]], total <- nw

Refines == Queue!Spec

\* Words whose state word has been written are read, unless a state word was
\* found broken after the last interrupt.
Delivered == \A k \in 1..MaxWord : (nwstate >= k) ~> (nr >= k \/ faults > 0)
=============================================================================
