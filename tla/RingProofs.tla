----------------------------- MODULE RingProofs -----------------------------
(***************************************************************************)
(* For memories of every size, blocks of every length and copies of every  *)
(* age: the ring loses, repeats and overwrites nothing (Fifo), leaves the  *)
(* frame number alone (FrameKept) and implements a bounded queue (Refines).*)
(*                                                                         *)
(* A pointer is a point on a circle of twice the size of the ring. The six *)
(* pointers follow one another on it in a fixed order, at the distances of *)
(* the counters, and the first is at most one size behind the last. That   *)
(* makes every comparison of an index with a copy right.                   *)
(***************************************************************************)
EXTENDS Ring, TLAPS

\* The point on the circle, and the way from one to the next.
Pos(p) == IF p.mirror = 1 THEN Size + p.index ELSE p.index

Dist(p, q) == IF Pos(q) >= Pos(p) THEN Pos(q) - Pos(p) ELSE Pos(q) - Pos(p) + Size + Size

\* The order of the six pointers, and their distances.
Chain == /\ nrcopy <= nrstate /\ nrstate <= nr /\ nr <= nwcopy
         /\ nwcopy <= nwstate /\ nwstate <= nw /\ nw <= nrcopy + Size

Apart == /\ Dist(rcopy, rstate) = nrstate - nrcopy
         /\ Dist(rstate, r) = nr - nrstate
         /\ Dist(r, wcopy) = nwcopy - nr
         /\ Dist(wcopy, wstate) = nwstate - nwcopy
         /\ Dist(wstate, w) = nw - nwstate

Content == \A d \in 0..(nw - nr - 1) : buf[Cell(r, d)] = nr + d + 1

\* The inductive invariant.
RingInv == TypeOK /\ Chain /\ Apart /\ Content /\ FrameKept

\* The size of the ring is a positive number.
LEMMA SizeFact == Size \in Nat /\ Size > 0 /\ Mem - 1 = Size
  BY RingAssumption DEF Size

\* On a distance of at most the size, rt_ringbuffer_data_len computes it.
LEMMA LenFact ==
  ASSUME NEW p \in Pointer, NEW q \in Pointer, Dist(p, q) <= Size
  PROVE  rt_ringbuffer_data_len(p, q) = Dist(p, q)
  BY SizeFact DEF Pointer, Dist, Pos, rt_ringbuffer_data_len

\* A distance is a number, and nothing exactly for equal pointers.
LEMMA DistFact ==
  ASSUME NEW p \in Pointer, NEW q \in Pointer
  PROVE  Dist(p, q) \in Nat /\ Dist(p, p) = 0
  BY SizeFact DEF Pointer, Dist, Pos

\* Distances add up as long as the sum is at most the size.
LEMMA AddFact ==
  ASSUME NEW p \in Pointer, NEW q \in Pointer, NEW s \in Pointer,
         Dist(p, q) + Dist(q, s) <= Size
  PROVE  Dist(p, s) = Dist(p, q) + Dist(q, s)
  BY SizeFact DEF Pointer, Dist, Pos

\* A pointer that is advanced by at most the size goes that far.
LEMMA AdvanceFact ==
  ASSUME NEW p \in Pointer, NEW n \in Nat, n <= Size
  PROVE  Advance(p, n) \in Pointer /\ Dist(p, Advance(p, n)) = n
  <1>1. CASE Size - p.index > n
    BY <1>1, SizeFact DEF Pointer, Dist, Pos, Advance
  <1>2. CASE ~(Size - p.index > n)
    BY <1>2, SizeFact DEF Pointer, Dist, Pos, Advance
  <1> QED BY <1>1, <1>2

\* The cells of a ring are inside it, and the same ones seen from a pointer
\* that has been advanced.
LEMMA CellFact ==
  ASSUME NEW p \in Pointer, NEW d \in Nat, d < Size
  PROVE  /\ Cell(p, d) \in 0..(Size - 1)
         /\ \A n \in Nat : n <= d => Cell(Advance(p, n), d - n) = Cell(p, d)
  BY SizeFact DEF Pointer, Cell, Advance

\* Which word of a block put at p goes to cell i.
Offset(p, i) == IF i >= p.index THEN i - p.index ELSE i + Size - p.index

\* The two copies of a block that fits stay inside the ring and lay its words
\* one behind the other, over the end.
LEMMA CopyFact ==
  ASSUME NEW p \in Pointer, NEW n \in Nat, n <= Size
  PROVE  /\ First(p, n) \in Nat /\ n - First(p, n) <= p.index
         /\ p.index + First(p, n) <= Size
         /\ \A i \in 0..(Size - 1) :
               /\ i < n - First(p, n) => Offset(p, i) = First(p, n) + i /\ Offset(p, i) < n
               /\ i \in p.index..(p.index + First(p, n) - 1) =>
                     Offset(p, i) = i - p.index /\ Offset(p, i) < n
               /\ ~(i < n - First(p, n)) /\ i \notin p.index..(p.index + First(p, n) - 1)
                     => ~(Offset(p, i) < n)
  BY SizeFact DEF Pointer, Offset, First

\* A block put at q, m words after p, leaves those m words alone and follows them.
LEMMA OffsetFact ==
  ASSUME NEW p \in Pointer, NEW q \in Pointer, NEW d \in Nat, NEW n \in Nat,
         d < Size, Dist(p, q) + n <= Size
  PROVE  /\ d < Dist(p, q) => Offset(q, Cell(p, d)) >= n
         /\ d >= Dist(p, q) => Offset(q, Cell(p, d)) = d - Dist(p, q)
  BY SizeFact DEF Pointer, Cell, Offset, Dist, Pos
----------------------------------------------------------------------------
\* The invariant holds at the start.
LEMMA RingInit == Init => RingInv
  <1> SUFFICES ASSUME Init PROVE RingInv
    OBVIOUS
  <1>1. Start \in Pointer /\ Dist(Start, Start) = 0
    BY SizeFact DEF Start, Pointer, Dist, Pos
  <1>2. TypeOK
    BY <1>1, SizeFact, RingAssumption DEF Init, TypeOK
  <1>3. Chain /\ Apart
    BY <1>1, SizeFact DEF Init, Chain, Apart
  <1>4. Content
    BY DEF Init, Content
  <1>5. FrameKept
    BY SizeFact, RingAssumption DEF Init, FrameKept
  <1> QED BY <1>2, <1>3, <1>4, <1>5 DEF RingInv

\* The types of the variables one by one.
LEMMA Types ==
  ASSUME TypeOK
  PROVE  /\ buf \in [0..(Mem - 1) -> Int]
         /\ w \in Pointer /\ rcopy \in Pointer /\ wstate \in Pointer
         /\ r \in Pointer /\ wcopy \in Pointer /\ rstate \in Pointer
         /\ nw \in Nat /\ nrcopy \in Nat /\ nwstate \in Nat
         /\ nr \in Nat /\ nwcopy \in Nat /\ nrstate \in Nat
  BY DEF TypeOK

\* The copy of the reading pointer is brought up to date.
LEMMA ReadIdxStep == RingInv /\ uc_wiota_ringbuffer_get_ul_read_idx => RingInv'
  <1> SUFFICES ASSUME RingInv, uc_wiota_ringbuffer_get_ul_read_idx PROVE RingInv'
    OBVIOUS
  <1> USE DEF RingInv, get
  <1>1. TypeOK'
    BY RingAssumption DEF TypeOK, uc_wiota_ringbuffer_get_ul_read_idx
  <1>2. Chain'
    BY Types, SizeFact DEF Chain, uc_wiota_ringbuffer_get_ul_read_idx
  <1>3. Apart'
    <2>1. Dist(rstate, rstate) = 0
      BY Types, DistFact
    <2> QED BY <2>1, Types DEF Apart, uc_wiota_ringbuffer_get_ul_read_idx
  <1>4. Content'
    BY DEF Content, uc_wiota_ringbuffer_get_ul_read_idx
  <1>5. FrameKept'
    BY DEF FrameKept, uc_wiota_ringbuffer_get_ul_read_idx
  <1> QED BY <1>1, <1>2, <1>3, <1>4, <1>5

\* The distances of pointers that are not next to one another.
LEMMA Sums ==
  ASSUME RingInv
  PROVE  /\ Dist(rcopy, r) = nr - nrcopy /\ Dist(rstate, wcopy) = nwcopy - nrstate
         /\ Dist(r, wstate) = nwstate - nr /\ Dist(wcopy, w) = nw - nwcopy
         /\ Dist(r, w) = nw - nr /\ Dist(rcopy, w) = nw - nrcopy
  <1>1. TypeOK /\ Chain /\ Apart
    BY DEF RingInv
  <1>2. Dist(rcopy, r) = nr - nrcopy
    BY SMTT(30), <1>1, AddFact, Types, SizeFact DEF Chain, Apart
  <1>3. Dist(rstate, wcopy) = nwcopy - nrstate
    <2>1. Dist(rstate, r) + Dist(r, wcopy) <= Size
      BY <1>1, Types, SizeFact DEF Chain, Apart
    <2> QED BY <1>1, <2>1, AddFact, Types DEF Apart
  <1>4. Dist(r, wstate) = nwstate - nr
    <2>1. Dist(r, wcopy) + Dist(wcopy, wstate) <= Size
      BY <1>1, Types, SizeFact DEF Chain, Apart
    <2> QED BY <1>1, <2>1, AddFact, Types DEF Apart
  <1>5. Dist(wcopy, w) = nw - nwcopy
    <2>1. Dist(wcopy, wstate) + Dist(wstate, w) <= Size
      BY <1>1, Types, SizeFact DEF Chain, Apart
    <2> QED BY <1>1, <2>1, AddFact, Types DEF Apart
  <1>6. Dist(r, w) = nw - nr
    <2>1. Dist(wstate, w) = nw - nwstate
      BY <1>1 DEF Apart
    <2>2. Dist(r, wstate) + Dist(wstate, w) <= Size
      BY <1>1, <1>4, <2>1, Types, SizeFact DEF Chain
    <2>3. Dist(r, w) = Dist(r, wstate) + Dist(wstate, w)
      BY <1>1, <2>2, AddFact, Types
    <2> QED BY <1>1, <2>1, <2>3, <1>4, Types
  <1>7. Dist(rcopy, w) = nw - nrcopy
    <2>1. Dist(rcopy, r) + Dist(r, w) <= Size
      BY <1>1, <1>2, <1>6, Types, SizeFact DEF Chain
    <2>2. Dist(rcopy, w) = Dist(rcopy, r) + Dist(r, w)
      BY <1>1, <2>1, AddFact, Types
    <2> QED BY <1>1, <2>2, <1>2, <1>6, Types
  <1> QED BY <1>2, <1>3, <1>4, <1>5, <1>6, <1>7

\* The room the putting side computes from its copy.
LEMMA Room ==
  ASSUME RingInv
  PROVE  rt_ringbuffer_space_len(rcopy, w) = Size - (nw - nrcopy)
  <1>1. Dist(rcopy, w) = nw - nrcopy /\ nw - nrcopy <= Size
    BY Sums, Types, SizeFact DEF RingInv, Chain
  <1>2. rt_ringbuffer_data_len(rcopy, w) = nw - nrcopy
    BY <1>1, LenFact, Types DEF RingInv
  <1> QED BY <1>2 DEF rt_ringbuffer_space_len

\* A block is put into the ring, or left out.
LEMMA PutStep ==
  ASSUME RingInv, NEW n \in Header..MaxBlock, uc_wiota_ringbuffer_put(n)
  PROVE  RingInv'
  <1> USE DEF RingInv, get
  <1>1. CASE rt_ringbuffer_space_len(rcopy, w) < n
    BY <1>1, RingAssumption
       DEF TypeOK, Chain, Apart, Content, FrameKept, uc_wiota_ringbuffer_put
  <1>2. CASE ~(rt_ringbuffer_space_len(rcopy, w) < n)
    <2>1. n \in Nat /\ nw + n <= nrcopy + Size
      BY <1>2, Room, Types, SizeFact, RingAssumption
    <2>2. Advance(w, n) \in Pointer /\ Dist(w, Advance(w, n)) = n
      BY <2>1, AdvanceFact, Types, SizeFact DEF Chain
    <2>3. /\ buf' = [i \in 0..(Mem - 1) |->
                       IF i < n - First(w, n) THEN nw + First(w, n) + i + 1
                       ELSE IF i \in w.index..(w.index + First(w, n) - 1)
                       THEN nw + (i - w.index) + 1 ELSE buf[i]]
          /\ w' = Advance(w, n) /\ nw' = nw + n /\ putter' = "publish"
          /\ UNCHANGED <<rcopy, wstate, nrcopy, nwstate, r, wcopy, rstate, nr, nwcopy,
                         nrstate, getter, cmd_notice, frame_num, faults>>
      BY <1>2 DEF uc_wiota_ringbuffer_put
    <2>4. n <= Size /\ w \in Pointer /\ w.index \in Nat
      BY <2>1, Types, SizeFact DEF Chain, Pointer
    <2>5. buf' \in [0..(Mem - 1) -> Int]
      <3>1. First(w, n) \in Nat /\ nw \in Nat
        BY <2>1, <2>4, CopyFact, Types
      <3> DEFINE v(i) == IF i < n - First(w, n) THEN nw + First(w, n) + i + 1
                         ELSE IF i \in w.index..(w.index + First(w, n) - 1)
                         THEN nw + (i - w.index) + 1 ELSE buf[i]
      <3>2. ASSUME NEW i \in 0..(Mem - 1) PROVE v(i) \in Int
        <4>1. buf[i] \in Int /\ i \in Int
          BY Types
        <4> QED BY <4>1, <2>1, <2>4, <3>1
      <3>3. buf' = [i \in 0..(Mem - 1) |-> v(i)]
        BY <2>3
      <3> HIDE DEF v
      <3> QED BY <3>2, <3>3
    <2>6. TypeOK'
      BY <2>1, <2>2, <2>3, <2>5 DEF TypeOK
    <2>7. Chain'
      BY <2>1, <2>3, Types DEF Chain
    <2>8. Apart'
      <3>1. Dist(wstate, w) = nw - nwstate
        BY DEF Apart
      <3>2. Dist(wstate, w) + Dist(w, Advance(w, n)) <= Size
        BY <2>1, <2>2, <3>1, Types, SizeFact DEF Chain
      <3>3. Dist(wstate, Advance(w, n)) = Dist(wstate, w) + Dist(w, Advance(w, n))
        BY <2>2, <3>2, AddFact, Types
      <3>4. Dist(wstate, Advance(w, n)) = (nw + n) - nwstate
        BY <2>1, <2>2, <3>1, <3>3, Types
      <3> QED BY <3>4, <2>3 DEF Apart
    <2>9. Content'
      <3>a. nw' = nw + n /\ r' = r /\ nr' = nr
        BY <2>3
      <3> SUFFICES ASSUME NEW d \in 0..((nw + n) - nr - 1)
                   PROVE  buf'[Cell(r, d)] = nr + d + 1
        BY <3>a DEF Content
      <3>1. d \in Nat /\ d < Size
        BY <2>1, Types, SizeFact DEF Chain
      <3>2. Cell(r, d) \in 0..(Size - 1)
        BY <3>1, CellFact, Types
      <3>3. Dist(r, w) = nw - nr /\ Dist(r, w) + n <= Size
        BY SMTT(30), <2>1, Sums, Types, SizeFact DEF Chain
      <3>4. buf'[Cell(r, d)] = IF Offset(w, Cell(r, d)) < n
                               THEN nw + Offset(w, Cell(r, d)) + 1 ELSE buf[Cell(r, d)]
        <4>1. Cell(r, d) \in 0..(Mem - 1)
          BY <3>2, SizeFact
        <4> DEFINE i == Cell(r, d)
        <4>2. buf'[i] = IF i < n - First(w, n) THEN nw + First(w, n) + i + 1
                        ELSE IF i \in w.index..(w.index + First(w, n) - 1)
                        THEN nw + (i - w.index) + 1 ELSE buf[i]
          BY <2>3, <4>1
        <4>3. First(w, n) \in Nat /\ nw \in Nat /\ i \in 0..(Size - 1)
          BY <2>1, <2>4, <3>2, CopyFact, Types
        <4>4. CASE i < n - First(w, n)
          <5>1. Offset(w, i) = First(w, n) + i /\ Offset(w, i) < n
            BY <2>1, <2>4, <4>3, <4>4, CopyFact
          <5> QED BY <4>2, <4>3, <4>4, <5>1
        <4>5. CASE ~(i < n - First(w, n)) /\ i \in w.index..(w.index + First(w, n) - 1)
          <5>1. Offset(w, i) = i - w.index /\ Offset(w, i) < n
            BY <2>1, <2>4, <4>3, <4>5, CopyFact
          <5> QED BY <4>2, <4>5, <5>1
        <4>6. CASE ~(i < n - First(w, n)) /\ i \notin w.index..(w.index + First(w, n) - 1)
          <5>1. ~(Offset(w, i) < n)
            BY <2>1, <2>4, <4>3, <4>6, CopyFact
          <5> QED BY <4>2, <4>6, <5>1
        <4> QED BY <4>4, <4>5, <4>6
      <3>5. CASE d < nw - nr
        <4>1. Offset(w, Cell(r, d)) >= n
          BY <3>1, <3>3, <3>5, <2>1, OffsetFact, Types
        <4>2. Offset(w, Cell(r, d)) \in Int
          BY <2>4, <3>2, SizeFact DEF Offset
        <4>3. buf[Cell(r, d)] = nr + d + 1
          BY <3>1, <3>5, Types DEF Content
        <4> QED BY <4>1, <4>2, <4>3, <3>4, <2>1
      <3>6. CASE ~(d < nw - nr)
        <4>1. Offset(w, Cell(r, d)) = d - (nw - nr)
          BY <3>1, <3>3, <3>6, <2>1, OffsetFact, Types
        <4> QED BY <4>1, <3>4, <3>1, <2>1, Types
      <3> QED BY <3>5, <3>6
    <2>10. FrameKept'
      <3>a. n - First(w, n) <= w.index /\ w.index + First(w, n) <= Size
        BY <2>1, <2>4, CopyFact
      <3>b. w.index < Size
        BY <2>4, SizeFact DEF Pointer
      <3>1. n - First(w, n) <= w.index /\ w.index < Size /\ w.index + First(w, n) <= Size
        BY <3>a, <3>b
      <3>2. First(w, n) \in Nat
        BY <2>1, <2>4, CopyFact
      <3>3. ~(Size < n - First(w, n)) /\ Size \notin w.index..(w.index + First(w, n) - 1)
        BY <2>1, <2>4, <3>1, <3>2, SizeFact
      <3>4. buf'[Size] = buf[Size]
        BY <2>3, <3>3, SizeFact
      <3> QED BY <2>3, <3>4, SizeFact DEF FrameKept
    <2> QED BY <2>6, <2>7, <2>8, <2>9, <2>10
  <1> QED BY <1>1, <1>2

\* The putting side's state word is written.
LEMMA WriteIdxStep == RingInv /\ uc_wiota_ringbuffer_set_ul_write_idx => RingInv'
  <1> SUFFICES ASSUME RingInv, uc_wiota_ringbuffer_set_ul_write_idx PROVE RingInv'
    OBVIOUS
  <1> USE DEF RingInv, get
  <1>1. TypeOK'
    BY DEF TypeOK, uc_wiota_ringbuffer_set_ul_write_idx
  <1>2. Chain'
    BY Types DEF Chain, uc_wiota_ringbuffer_set_ul_write_idx
  <1>3. Apart'
    <2>1. Dist(w, w) = 0 /\ nw - nw = 0
      BY Types, DistFact
    <2> QED BY <2>1, Sums DEF Apart, uc_wiota_ringbuffer_set_ul_write_idx
  <1>4. Content'
    BY DEF Content, uc_wiota_ringbuffer_set_ul_write_idx
  <1>5. FrameKept'
    BY DEF FrameKept, uc_wiota_ringbuffer_set_ul_write_idx
  <1> QED BY <1>1, <1>2, <1>3, <1>4, <1>5

\* The interrupt moves no pointer.
LEMMA IrqStep == RingInv /\ uc_wiota_enable_ul_irq => RingInv'
  BY RingAssumption
     DEF RingInv, TypeOK, Chain, Apart, Content, FrameKept, get, uc_wiota_enable_ul_irq

\* The copy of the writing pointer is brought up to date.
LEMMA WriteCopyStep == RingInv /\ uc_wiota_ringbuffer_get_dl_write_idx => RingInv'
  <1> SUFFICES ASSUME RingInv, uc_wiota_ringbuffer_get_dl_write_idx PROVE RingInv'
    OBVIOUS
  <1> USE DEF RingInv, put
  <1>1. TypeOK'
    BY RingAssumption DEF TypeOK, uc_wiota_ringbuffer_get_dl_write_idx
  <1>2. Chain'
    BY Types DEF Chain, uc_wiota_ringbuffer_get_dl_write_idx
  <1>3. Apart'
    <2>1. Dist(wstate, wstate) = 0 /\ nwstate - nwstate = 0
      BY Types, DistFact
    <2> QED BY <2>1, Sums DEF Apart, uc_wiota_ringbuffer_get_dl_write_idx
  <1>4. Content'
    BY DEF Content, uc_wiota_ringbuffer_get_dl_write_idx
  <1>5. FrameKept'
    BY DEF FrameKept, uc_wiota_ringbuffer_get_dl_write_idx
  <1> QED BY <1>1, <1>2, <1>3, <1>4, <1>5

\* The getting side takes exactly the words up to its copy of the writing pointer,
\* and the words after them are where they were.
LEMMA Taken ==
  ASSUME RingInv, uc_wiota_ringbuffer_get
  PROVE  /\ nwcopy - nr \in Nat /\ nwcopy - nr <= Size
         /\ r' = Advance(r, nwcopy - nr) /\ nr' = nwcopy
         /\ r' \in Pointer /\ Dist(r, r') = nwcopy - nr
         /\ getter' = "publish"
         /\ UNCHANGED <<buf, w, rcopy, wstate, wcopy, rstate, nw, nrcopy, nwstate, nwcopy,
                        nrstate, putter, cmd_notice, frame_num, faults>>
  <1>1. nwcopy - nr \in Nat /\ nwcopy - nr <= Size
    BY Types, SizeFact DEF RingInv, Chain
  <1>2. rt_ringbuffer_data_len(r, wcopy) = nwcopy - nr
    BY <1>1, LenFact, Types DEF RingInv, Apart
  <1>3. r' = Advance(r, nwcopy - nr) /\ nr' = nwcopy
    BY <1>2, Types DEF RingInv, uc_wiota_ringbuffer_get
  <1>4. r' \in Pointer /\ Dist(r, r') = nwcopy - nr
    BY <1>1, <1>3, AdvanceFact, Types DEF RingInv
  <1> QED BY <1>1, <1>3, <1>4 DEF uc_wiota_ringbuffer_get, put

\* Two pointers at the same distance from a third are the same.
LEMMA SameFact ==
  ASSUME NEW p \in Pointer, NEW q \in Pointer, NEW s \in Pointer, Dist(p, q) = Dist(p, s)
  PROVE  q = s
  BY SizeFact DEF Pointer, Dist, Pos

\* All there is is taken from the ring.
LEMMA GetStep ==
  ASSUME RingInv, uc_wiota_ringbuffer_get
  PROVE  RingInv'
  <1> USE DEF RingInv
  <1>1. TypeOK'
    BY Taken DEF TypeOK
  <1>2. Chain'
    BY Taken, Types DEF Chain
  <1>3. Apart'
    <2>1. r' = wcopy
      BY Taken, SameFact, Types DEF Apart
    <2>2. Dist(wcopy, wcopy) = 0 /\ nwcopy - nwcopy = 0
      BY Types, DistFact
    <2> QED BY <2>1, <2>2, Sums, Taken DEF Apart
  <1>4. Content'
    <2> SUFFICES ASSUME NEW d \in 0..(nw - nwcopy - 1)
                 PROVE  buf[Cell(Advance(r, nwcopy - nr), d)] = nwcopy + d + 1
      BY Taken DEF Content
    <2> DEFINE n == nwcopy - nr
    <2>a. d \in Nat /\ d + n \in Nat /\ d + n < nw - nr /\ n \in Nat
      BY Types DEF Chain
    <2>b. nw - nr <= Size /\ nw \in Nat /\ nr \in Nat
      BY Types, SizeFact DEF Chain
    <2>c. d + n < Size
      BY <2>a, <2>b, SizeFact
    <2>d. n <= d + n /\ (d + n) - n = d
      BY <2>a
    <2>1. n \in Nat /\ d + n \in Nat /\ d + n < Size /\ n <= d + n /\ (d + n) - n = d
      BY <2>a, <2>c, <2>d
    <2>2. Cell(Advance(r, n), (d + n) - n) = Cell(r, d + n)
      BY <2>1, CellFact, Types
    <2>3. d + n \in 0..(nw - nr - 1) /\ nr + (d + n) + 1 = nwcopy + d + 1
      BY <2>a, Types DEF Chain
    <2>4. buf[Cell(r, d + n)] = nr + (d + n) + 1
      BY <2>3 DEF Content
    <2> QED BY <2>1, <2>2, <2>3, <2>4
  <1>5. FrameKept'
    BY Taken DEF FrameKept
  <1> QED BY <1>1, <1>2, <1>3, <1>4, <1>5

\* The getting side's state word is written.
LEMMA ReadStateStep == RingInv /\ uc_wiota_ringbuffer_set_dl_read_idx => RingInv'
  <1> SUFFICES ASSUME RingInv, uc_wiota_ringbuffer_set_dl_read_idx PROVE RingInv'
    OBVIOUS
  <1> USE DEF RingInv, put
  <1>1. TypeOK'
    BY DEF TypeOK, uc_wiota_ringbuffer_set_dl_read_idx
  <1>2. Chain'
    BY Types DEF Chain, uc_wiota_ringbuffer_set_dl_read_idx
  <1>3. Apart'
    <2>1. Dist(r, r) = 0 /\ nr - nr = 0
      BY Types, DistFact
    <2> QED BY <2>1, Sums DEF Apart, uc_wiota_ringbuffer_set_dl_read_idx
  <1>4. Content'
    BY DEF Content, uc_wiota_ringbuffer_set_dl_read_idx
  <1>5. FrameKept'
    BY DEF FrameKept, uc_wiota_ringbuffer_set_dl_read_idx
  <1> QED BY <1>1, <1>2, <1>3, <1>4, <1>5

\* The frame number goes behind the ring.
LEMMA FrameStep ==
  ASSUME RingInv, NEW f \in Frame, uc_wiota_store_frame_num(f)
  PROVE  RingInv'
  <1> USE DEF RingInv, put, get, uc_wiota_store_frame_num
  <1>1. TypeOK'
    BY RingAssumption DEF TypeOK
  <1>2. Chain' /\ Apart'
    BY DEF Chain, Apart
  <1>3. Content'
    <2> SUFFICES ASSUME NEW d \in 0..(nw - nr - 1) PROVE buf'[Cell(r, d)] = nr + d + 1
      BY DEF Content
    <2>1. d \in Nat /\ d < Size
      BY Types, SizeFact DEF Chain
    <2>2. Cell(r, d) \in 0..(Size - 1)
      BY <2>1, CellFact, Types
    <2>3. buf'[Cell(r, d)] = buf[Cell(r, d)]
      BY <2>2, SizeFact, Types
    <2> QED BY <2>3 DEF Content
  <1>4. FrameKept'
    BY SizeFact, Types DEF FrameKept
  <1> QED BY <1>1, <1>2, <1>3, <1>4

\* Every step keeps the invariant.
LEMMA RingStep == RingInv /\ [Next]_vars => RingInv'
  <1> SUFFICES ASSUME RingInv, [Next]_vars PROVE RingInv'
    OBVIOUS
  <1>1. CASE Putter
    BY <1>1, ReadIdxStep, PutStep, WriteIdxStep, IrqStep DEF Putter
  <1>2. CASE Getter
    BY <1>2, WriteCopyStep, GetStep, ReadStateStep DEF Getter
  <1>3. CASE \E f \in Frame : uc_wiota_store_frame_num(f)
    BY <1>3, FrameStep
  <1>4. CASE UNCHANGED vars
    BY <1>4 DEF vars, RingInv, TypeOK, Chain, Apart, Content, FrameKept
  <1> QED BY <1>1, <1>2, <1>3, <1>4 DEF Next

\* The six pointers keep their order and distances in every reachable state.
LEMMA RingInvariant == Spec => []RingInv
  BY RingInit, RingStep, PTL DEF Spec

\* The indexes stay inside the ring (uc_wiota_ringbuffer_put and _get wrap them),
\* and the mirror is a bit.
THEOREM RingTypes == Spec => []TypeOK
  <1>1. RingInv => TypeOK
    BY DEF RingInv
  <1> QED BY <1>1, RingInvariant, PTL

\* However old the copies of the pointers are, no word is read twice, lost or
\* overwritten, in a ring of any size and for messages of any length.
THEOREM RingFifo == Spec => []Fifo
  <1>1. RingInv => Fifo
    BY Types DEF RingInv, Chain, Content, Fifo
  <1> QED BY <1>1, RingInvariant, PTL

\* No copy of uc_wiota_ringbuffer_put reaches the frame number behind the ring: the
\* writing index is inside the ring and a block is only copied if there is room for
\* it, so that the part behind the end, too, is short enough.
THEOREM FrameSafe == Spec => []FrameKept
  <1>1. RingInv => FrameKept
    BY DEF RingInv
  <1> QED BY <1>1, RingInvariant, PTL
----------------------------------------------------------------------------
(* The refinement *)

\* A run of numbers, and what is appended to it or taken from it.
Run(a, m) == [k \in 1..m |-> a + k]

\* A run is a sequence.
LEMMA RunSeq ==
  ASSUME NEW a \in Nat, NEW m \in Nat
  PROVE  Run(a, m) \in Seq(Nat) /\ Len(Run(a, m)) = m
  BY DEF Run

\* One run after another is a run.
LEMMA RunCat ==
  ASSUME NEW a \in Nat, NEW m \in Nat, NEW n \in Nat
  PROVE  Run(a, m) \o Run(a + m, n) = Run(a, m + n)
  <1>1. Run(a, m) \in Seq(Nat) /\ Len(Run(a, m)) = m
    BY RunSeq
  <1>a. a + m \in Nat
    OBVIOUS
  <1>2. Run(a + m, n) \in Seq(Nat) /\ Len(Run(a + m, n)) = n
    BY <1>a, RunSeq
  <1> QED BY <1>1, <1>2 DEF Run

\* The end of a run is a run.
LEMMA RunSub ==
  ASSUME NEW a \in Nat, NEW m \in Nat, NEW n \in Nat, n <= m
  PROVE  SubSeq(Run(a, m), n + 1, m) = Run(a + n, m - n)
  <1>1. Run(a, m) \in Seq(Nat) /\ Len(Run(a, m)) = m
    BY RunSeq
  <1> QED BY <1>1 DEF Run

\* What the ring holds is the run of the words between the pointers.
words == [k \in 1..(nw - nr) |-> buf[Cell(r, k - 1)]]

\* The words the ring holds are those put in and not got, in order.
LEMMA Words == RingInv => words = Run(nr, nw - nr)
  <1> SUFFICES ASSUME RingInv PROVE words = Run(nr, nw - nr)
    OBVIOUS
  <1>1. nw \in Nat /\ nr \in Nat
    BY Types DEF RingInv
  <1>2. ASSUME NEW k \in 1..(nw - nr) PROVE buf[Cell(r, k - 1)] = nr + k
    <2>1. k - 1 \in 0..(nw - nr - 1) /\ nr + (k - 1) + 1 = nr + k
      BY <1>1
    <2> QED BY <2>1 DEF RingInv, Content
  <1> QED BY <1>2 DEF words, Run

\* So they are after a step.
LEMMA WordsNext == RingInv' => words' = Run(nr', nw' - nr')
  <1>1. RingInv' => (words = Run(nr, nw - nr))'
    BY Words, PTL
  <1> QED BY <1>1

\* Putting a block is Put of the abstract queue, or nothing.
LEMMA PutMaps ==
  ASSUME RingInv, RingInv', NEW n \in Header..MaxBlock, uc_wiota_ringbuffer_put(n)
  PROVE  [Queue!Next]_<<words, nw>>
  <1> USE DEF get
  <1>1. nw \in Nat /\ nr \in Nat /\ nrcopy \in Nat /\ nrcopy <= nr /\ nr <= nw /\ n \in Nat
    BY Types, RingAssumption DEF RingInv, Chain
  <1>2. CASE rt_ringbuffer_space_len(rcopy, w) < n
    BY <1>2 DEF uc_wiota_ringbuffer_put, words
  <1>3. CASE ~(rt_ringbuffer_space_len(rcopy, w) < n)
    <2>1. n \in 1..Size /\ (nw - nr) + n <= Size
      <3>1. n >= 1
        BY <1>1, RingAssumption
      <3> QED BY <3>1, <1>1, <1>3, Room, SizeFact
    <2>2. nw' = nw + n /\ nr' = nr
      BY <1>3 DEF uc_wiota_ringbuffer_put
    <2>3. words = Run(nr, nw - nr) /\ words' = Run(nr', nw' - nr')
      BY Words, WordsNext
    <2>4. nw - nr \in Nat /\ nr + (nw - nr) = nw /\ (nw - nr) + n = nw' - nr'
      BY <1>1, <2>2
    <2>a. Run(nr, nw - nr) \o Run(nr + (nw - nr), n) = Run(nr, (nw - nr) + n)
      BY Zenon, <1>1, <2>4, RunCat
    <2>5. words' = words \o Run(nw, n)
      BY <2>2, <2>3, <2>4, <2>a
    <2>6. Len(words) = nw - nr
      BY Zenon, <1>1, <2>3, <2>4, RunSeq
    <2>7. Queue!Put(n)
      BY Zenon, <2>1, <2>2, <2>5, <2>6 DEF Queue!Put, words, Run
    <2> QED BY <2>1, <2>7 DEF Queue!Next
  <1> QED BY <1>2, <1>3

\* Getting all there is is Get of the abstract queue, or nothing.
LEMMA GetMaps ==
  ASSUME RingInv, RingInv', uc_wiota_ringbuffer_get
  PROVE  [Queue!Next]_<<words, nw>>
  <1> DEFINE n == nwcopy - nr
  <1>1. nw \in Nat /\ nr \in Nat /\ nwcopy \in Nat /\ nr <= nwcopy /\ nwcopy <= nw
    BY Types DEF RingInv, Chain
  <1>2. nw' = nw /\ nr' = nwcopy /\ n \in Nat /\ n <= Size
    BY Taken
  <1>3. words = Run(nr, nw - nr) /\ words' = Run(nr', nw' - nr')
    BY Words, WordsNext
  <1>4. nw - nr \in Nat /\ nr + n = nwcopy /\ (nw - nr) - n = nw - nwcopy /\ n <= nw - nr
    BY <1>1
  <1>a. SubSeq(Run(nr, nw - nr), n + 1, nw - nr) = Run(nr + n, (nw - nr) - n)
    BY Zenon, <1>1, <1>2, <1>4, RunSub
  <1>5. words' = SubSeq(words, n + 1, nw - nr)
    BY <1>2, <1>3, <1>4, <1>a
  <1>6. Len(words) = nw - nr
    BY Zenon, <1>1, <1>3, <1>4, RunSeq
  <1>7. CASE n = 0
    <2>1. nwcopy = nr
      BY <1>1, <1>7
    <2> QED BY <1>2, <1>3, <2>1
  <1>8. CASE n # 0
    <2>1. n \in 1..Size
      BY <1>2, <1>8
    <2>2. Queue!Get(n)
      BY Zenon, <1>2, <1>4, <1>5, <1>6 DEF Queue!Get, words
    <2> QED BY <2>1, <2>2 DEF Queue!Next
  <1> QED BY <1>7, <1>8

\* The ring with its stale copies, broken state words and refused blocks
\* implements the bounded queue, in every size: what goes in comes out in order,
\* once, and a block that does not fit is left out whole.
THEOREM RingRefines == Spec => Refines
  <1>1. Init => Queue!Init
    <2> SUFFICES ASSUME Init PROVE Queue!Init
      OBVIOUS
    <2>1. nw = 0 /\ nr = 0 /\ 1..(nw - nr) = {}
      BY DEF Init
    <2> QED BY <2>1 DEF Queue!Init
  <1>2. RingInv /\ RingInv' /\ [Next]_vars => [Queue!Next]_<<words, nw>>
    <2> SUFFICES ASSUME RingInv, RingInv', [Next]_vars PROVE [Queue!Next]_<<words, nw>>
      OBVIOUS
    <2>1. CASE Next /\ (\E n \in Header..MaxBlock : uc_wiota_ringbuffer_put(n))
      BY <2>1, PutMaps
    <2>2. CASE uc_wiota_ringbuffer_get
      BY <2>2, GetMaps
    <2>3. CASE \/ uc_wiota_ringbuffer_get_ul_read_idx
               \/ uc_wiota_ringbuffer_set_ul_write_idx
               \/ uc_wiota_enable_ul_irq
      BY <2>3 DEF uc_wiota_ringbuffer_get_ul_read_idx, uc_wiota_enable_ul_irq,
                  uc_wiota_ringbuffer_set_ul_write_idx, get, words
    <2>4. CASE \/ uc_wiota_ringbuffer_get_dl_write_idx
               \/ uc_wiota_ringbuffer_set_dl_read_idx
      BY <2>4 DEF uc_wiota_ringbuffer_get_dl_write_idx, put, words,
                  uc_wiota_ringbuffer_set_dl_read_idx
    <2>5. CASE \E f \in Frame : uc_wiota_store_frame_num(f)
      <3>1. nw' = nw /\ nr' = nr
        BY <2>5 DEF uc_wiota_store_frame_num, put, get
      <3>2. words = Run(nr, nw - nr) /\ words' = Run(nr', nw' - nr')
        BY Words, WordsNext
      <3> QED BY <3>1, <3>2
    <2>6. CASE UNCHANGED vars
      BY <2>6 DEF vars, words
    <2> QED BY <2>1, <2>2, <2>3, <2>4, <2>5, <2>6 DEF Next, Putter, Getter
  <1> QED BY <1>1, <1>2, RingInvariant, PTL DEF Spec, Refines, Queue!Spec, words

=============================================================================
