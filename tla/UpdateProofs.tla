---------------------------- MODULE UpdateProofs ----------------------------
(***************************************************************************)
(* Proofs about Update, for any files, sizes and bounds, as long as the    *)
(* server waits for the end of an update before it names the next file.    *)
(*                                                                         *)
(* What is broadcast or booted is the file the record names because an     *)
(* update has one stage at a time (Stages): a request, a download, its     *)
(* result or pages, never two of them; and because the flash, once a page  *)
(* of the named file was posted or the download reported success, holds    *)
(* that file and is not written (Loaded). A file is named once, so a page  *)
(* of the named file is a page of this update. The last conjunct follows   *)
(* the transfer: while its page is under way, every block below the        *)
(* address was broadcast.                                                  *)
(***************************************************************************)
EXTENDS Update, WellFoundedInduction, TLAPS

FileOrNone == Update \cup {None}
Page == [result : {"state", "bulk", "resend"}, header : FileOrNone, block : Nat]

UpdateTypes ==
    /\ address \in Nat /\ file_len \in Nat
    /\ info \in answered \cup {None} /\ answered \subseteq Update
    /\ flag \subseteq AllBlocks
    /\ otaPages \in Seq(Page)
    /\ requests \in Seq(Update)
    /\ download \in [phase : {"idle", "head", "shards"}, md5 : FileOrNone,
                     url : FileOrNone, try : Nat, recv_len : Nat]
    /\ httpResults \in Seq([ok : BOOLEAN, down_file_size : Nat])
    /\ flash \in [AllBlocks -> FileOrNone]
    /\ faults \in Nat

NoDownload == requests = <<>> /\ download = Idle /\ httpResults = <<>>
NoPages == \A i \in DOMAIN otaPages : otaPages[i].result = "state"

\* The partition holds the file that the record names.
Loaded == info \in Update /\ Holds(info) /\ file_len = size[info]

Stages ==
    /\ requests # <<>> => requests = <<info>> /\ download = Idle /\ httpResults = <<>>
    /\ download # Idle =>
          /\ requests = <<>> /\ httpResults = <<>>
          /\ download.md5 = info /\ download.url \in {info, None}
          /\ download.phase = "shards" => download.url = info
    /\ httpResults # <<>> =>
          /\ requests = <<>> /\ download = Idle /\ Len(httpResults) = 1
          /\ httpResults[1].ok =>
                Holds(info) /\ httpResults[1].down_file_size = size[info]
    /\ ~NoDownload =>
          /\ info \in Update /\ NoPages /\ state = "DOWN_PAGE"
          /\ \A p \in sent : p.header # info

PagesTrue ==
    /\ ~NoPages => Loaded
    /\ (\E p \in sent : p.header = info) => Loaded
    /\ \A p \in sent : p.header \in answered /\ p.data = p.header

BootTrue ==
    booted # None =>
        /\ Holds(booted.file) /\ booted.len = size[booted.file]
        /\ kind[booted.file] = "ap"

BulkPages == {i \in DOMAIN otaPages : otaPages[i].result = "bulk"}
Broadcast(b) == \E p \in sent : p.header = info /\ p.block = b

TransferTrue ==
    /\ \A i \in DOMAIN otaPages : otaPages[i].result = "resend" => state = "STOP"
    /\ \A i, j \in BulkPages : i = j
    /\ BulkPages # {} =>
          /\ state = "START_TRANSFER_DATA"
          /\ address < file_len => \E k \in Nat : address = k * Bin
          /\ \A b \in Blocks(file_len) : b * Bin < address => Broadcast(b)

AllTrue == UpdateTypes /\ Stages /\ PagesTrue /\ BootTrue /\ TransferTrue

\* The inductive invariant.
UpdateInv == ~overlapped => AllTrue

-----------------------------------------------------------------------------
(* Blocks and addresses. *)

\* A number times Bin is below n exactly if it is a block of a file of n bytes.
LEMMA BlockBelow ==
    ASSUME NEW n \in Nat, NEW b \in Nat
    PROVE  b \in Blocks(n) <=> b * Bin < n
PROOF
  <1> DEFINE B == MANAGER_OTA_SEND_BIN_SIZE
  <1>1. B \in Nat \ {0}
    BY UpdateAssumption
  <1> HIDE DEF B
  <1>2. b \in 0 .. (((n + B - 1) \div B) - 1) <=> b * B < n
    BY <1>1
  <1> QED
    BY <1>2 DEF Blocks, CeilDiv, Bin, B

\* The block at an address inside the file is a block of the file.
LEMMA BlockAt ==
    ASSUME NEW n \in Nat, NEW a \in Nat, a < n
    PROVE  a \div Bin \in Nat /\ a \div Bin \in Blocks(n)
PROOF
  <1>1. Bin \in Nat \ {0}
    BY UpdateAssumption DEF Bin
  <1>2. a \div Bin \in Nat /\ (a \div Bin) * Bin <= a
    BY <1>1
  <1>3. (a \div Bin) * Bin \in Nat
    BY <1>1, <1>2
  <1>4. (a \div Bin) * Bin < n
    BY <1>2, <1>3
  <1> QED
    BY <1>2, <1>4, BlockBelow

\* The block at the address of a block is that block.
LEMMA BlockOf ==
    ASSUME NEW b \in Nat
    PROVE  b * Bin \in Nat /\ (b * Bin) \div Bin = b
PROOF
  <1>1. Bin \in Nat \ {0}
    BY UpdateAssumption DEF Bin
  <1> QED
    BY <1>1

\* Aligning a length never makes it shorter.
LEMMA AlignUp ==
    ASSUME NEW n \in Nat
    PROVE  RT_ALIGN(n) \in Nat /\ RT_ALIGN(n) >= n
PROOF
  <1> DEFINE A == RT_ALIGN_SIZE
  <1>1. A \in Nat \ {0}
    BY UpdateAssumption
  <1> HIDE DEF A
  <1>2. ((n + A - 1) \div A) * A \in Nat /\ ((n + A - 1) \div A) * A >= n
    BY <1>1
  <1> QED
    BY <1>2 DEF RT_ALIGN, CeilDiv, A

\* manager_ota_msg_of_data reads a positive number of bytes inside the file, a
\* whole block or all that is left, and answers -1 beyond it.
LEMMA BytesRead ==
    ASSUME NEW a \in Nat, NEW n \in Nat
    PROVE  /\ a >= n => manager_ota_msg_of_data(a, n) = -1
           /\ a < n => /\ manager_ota_msg_of_data(a, n) \in Nat \ {0}
                       /\ \/ manager_ota_msg_of_data(a, n) = Bin
                          \/ /\ a + manager_ota_msg_of_data(a, n) >= n
                             /\ n < a + Bin
PROOF
  <1>1. Bin \in Nat \ {0}
    BY UpdateAssumption DEF Bin
  <1>2. CASE a >= n
    BY <1>1, <1>2 DEF manager_ota_msg_of_data
  <1>3. CASE a < n /\ a + Bin > n
    <2>1. n - a \in Nat \ {0}
      BY <1>3
    <2>2. RT_ALIGN(n - a) \in Nat /\ RT_ALIGN(n - a) >= n - a
      BY <2>1, AlignUp
    <2> QED
      BY <1>1, <1>3, <2>1, <2>2 DEF manager_ota_msg_of_data
  <1>4. CASE a < n /\ ~(a + Bin > n)
    BY <1>1, <1>4 DEF manager_ota_msg_of_data
  <1> QED
    BY <1>2, <1>3, <1>4

\* The blocks of a file are blocks of the partition, and numbers.
LEMMA BlocksNat ==
    /\ AllBlocks \subseteq Nat
    /\ \A u \in Update : Blocks(size[u]) \subseteq AllBlocks /\ size[u] \in Nat \ {0}
PROOF
  <1>1. \A n \in Nat : Blocks(n) \subseteq Nat
    <2> SUFFICES ASSUME NEW n \in Nat, NEW b \in Blocks(n)
                 PROVE  b \in Nat
      OBVIOUS
    <2>1. Bin \in Nat \ {0}
      BY UpdateAssumption DEF Bin
    <2>2. CeilDiv(n, Bin) \in Int
      BY <2>1 DEF CeilDiv
    <2> QED
      BY <2>2 DEF Blocks
  <1> QED
    BY <1>1, UpdateAssumption DEF AllBlocks

\* manager_get_resend_sub_flag finds a flagged block, or answers -2 without one.
LEMMA LowestFlag ==
    ASSUME NEW f, f \subseteq AllBlocks
    PROVE  \/ f = {} /\ manager_get_resend_sub_flag(f) = -2
           \/ /\ manager_get_resend_sub_flag(f) \in f
              /\ manager_get_resend_sub_flag(f) \in Nat
PROOF
  <1>1. f \subseteq Nat
    BY BlocksNat
  <1>2. CASE f = {}
    BY <1>2 DEF manager_get_resend_sub_flag
  <1>3. CASE f # {}
    <2> DEFINE R == OpToRel(<, Nat)
    <2>1. IsWellFoundedOn(R, Nat)
      BY Zenon, NatLessThanWellFounded
    <2>2. \A x, y \in Nat : <<y, x>> \in R <=> y < x
      BY DEF OpToRel
    <2> HIDE DEF R
    <2>3. PICK x \in f : \A y \in f : ~ (<<y, x>> \in R)
      BY Zenon, <1>1, <1>3, <2>1, WFMin
    <2>4. ASSUME NEW y \in f
          PROVE  x <= y
      <3>1. x \in Nat /\ y \in Nat
        BY <1>1
      <3>2. ~(y < x)
        BY Zenon, <2>2, <2>3, <3>1
      <3> QED
        BY <3>1, <3>2
    <2>5. manager_get_resend_sub_flag(f) \in f
      BY <1>3, <2>3, <2>4 DEF manager_get_resend_sub_flag
    <2> QED
      BY Zenon, <1>1, <2>5
  <1> QED
    BY <1>2, <1>3

-----------------------------------------------------------------------------
(* Steps that take a page's result or post a page. *)

\* The oldest page may be taken, and p may be posted after the others.
PagesMoved(q, p) ==
    /\ q = otaPages \/ (otaPages # <<>> /\ q = Tail(otaPages))
    /\ p \in Page
    /\ otaPages' = q \/ otaPages' = Append(q, p)

\* No block, or one of the file in the partition, is broadcast.
BlockSent ==
    \/ sent' = sent
    \/ /\ Loaded
       /\ \E b \in Blocks(file_len) :
             sent' = sent \cup {[block |-> b, header |-> info, data |-> flash[b]]}

\* A page under way after such a step was under way before, or is the new one.
LEMMA PagesAfter ==
    ASSUME UpdateTypes, NEW q, NEW p, PagesMoved(q, p)
    PROVE  /\ otaPages' \in Seq(Page) /\ q \in Seq(Page)
           /\ \A i \in DOMAIN otaPages' :
                 \/ i \in DOMAIN q /\ otaPages'[i] = q[i]
                 \/ i = Len(q) + 1 /\ otaPages'[i] = p
           /\ \/ q = otaPages
              \/ \A i \in DOMAIN q :
                    i \in Nat /\ i + 1 \in DOMAIN otaPages /\ q[i] = otaPages[i + 1]
PROOF
  <1>1. otaPages \in Seq(Page)
    BY DEF UpdateTypes
  <1>2. q \in Seq(Page)
    BY <1>1 DEF PagesMoved
  <1>3. otaPages' \in Seq(Page)
    BY <1>2 DEF PagesMoved
  <1>4. \A i \in DOMAIN otaPages' :
           \/ i \in DOMAIN q /\ otaPages'[i] = q[i]
           \/ i = Len(q) + 1 /\ otaPages'[i] = p
    <2>1. CASE otaPages' = q
      BY <2>1
    <2>2. CASE otaPages' = Append(q, p)
      <3> SUFFICES ASSUME NEW i \in DOMAIN Append(q, p)
                   PROVE  \/ i \in DOMAIN q /\ Append(q, p)[i] = q[i]
                          \/ i = Len(q) + 1 /\ Append(q, p)[i] = p
        BY <2>2
      <3>1. p \in Page
        BY DEF PagesMoved
      <3> QED
        BY <1>2, <3>1
    <2> QED
      BY <2>1, <2>2 DEF PagesMoved
  <1>5. ASSUME otaPages # <<>>, q = Tail(otaPages), NEW i \in DOMAIN q
        PROVE  i \in Nat /\ i + 1 \in DOMAIN otaPages /\ q[i] = otaPages[i + 1]
    BY <1>1, <1>5
  <1> QED
    BY <1>2, <1>3, <1>4, <1>5 DEF PagesMoved

\* Such a step keeps what the stages, the pages and the boot rest on.
LEMMA PagesStep ==
    ASSUME UpdateTypes, Stages, PagesTrue, booted = None,
           address' \in Nat, flag' \subseteq AllBlocks, faults' \in Nat,
           UNCHANGED <<info, file_len, downloadVars, answered, httpResults, booted>>,
           NEW q, NEW p, PagesMoved(q, p), BlockSent,
           p.result = "state" \/ Loaded,
           NoDownload \/ (state' = state /\ sent' = sent /\ p.result = "state")
    PROVE  UpdateTypes' /\ Stages' /\ PagesTrue' /\ BootTrue'
PROOF
  <1>1. UpdateTypes'
    BY PagesAfter DEF UpdateTypes, downloadVars
  <1>2. NoPages /\ p.result = "state" => NoPages'
    BY PagesAfter DEF NoPages
  <1>3. /\ Loaded' <=> Loaded
        /\ NoDownload' <=> NoDownload
        /\ Holds(info)' <=> Holds(info)
    BY DEF Loaded, Holds, NoDownload, downloadVars
  <1>4. Stages'
    <2>1. CASE NoDownload
      BY <1>3, <2>1 DEF Stages, NoDownload
    <2>2. CASE ~NoDownload /\ state' = state /\ sent' = sent /\ p.result = "state"
      <3>1. NoPages'
        BY <1>2, <2>2 DEF Stages
      <3> QED
        BY <1>3, <2>2, <3>1 DEF Stages, downloadVars
    <2> QED
      BY <2>1, <2>2
  <1>5. PagesTrue'
    <2>1. ~NoPages' => Loaded'
      BY <1>2, <1>3 DEF PagesTrue
    <2>2. CASE sent' = sent
      BY <1>3, <2>1, <2>2 DEF PagesTrue
    <2>3. CASE sent' # sent
      <3>1. PICK b \in Blocks(file_len) :
               sent' = sent \cup {[block |-> b, header |-> info, data |-> flash[b]]}
        BY <2>3 DEF BlockSent
      <3>2. Loaded
        BY <2>3 DEF BlockSent
      <3>3. flash[b] = info /\ info \in answered
        BY <3>2, UpdateAssumption DEF Loaded, Holds, UpdateTypes
      <3> QED
        BY <1>3, <2>1, <3>1, <3>2, <3>3 DEF PagesTrue
    <2> QED
      BY <2>2, <2>3
  <1>6. BootTrue'
    BY DEF BootTrue
  <1> QED
    BY <1>1, <1>4, <1>5, <1>6

\* Posting no page of a transfer or a resend, or one of a resend between
\* transfers, keeps what a transfer rests on.
LEMMA TransferStep ==
    ASSUME UpdateTypes, TransferTrue, NEW q, NEW p, PagesMoved(q, p), BlockSent,
           p.result = "state" \/ (p.result = "resend" /\ state = "STOP"),
           UNCHANGED <<info, file_len, state>>,
           address' = address \/ state = "STOP"
    PROVE  TransferTrue'
PROOF
  <1>1. p.result # "bulk"
    OBVIOUS
  <1>2. \A i \in DOMAIN otaPages' : otaPages'[i].result = "resend" => state' = "STOP"
    BY PagesAfter DEF TransferTrue
  <1>3. /\ BulkPages' # {} => BulkPages # {}
        /\ \A i, j \in BulkPages' : i = j
    <2>1. CASE q = otaPages
      <3>1. BulkPages' \subseteq BulkPages
        BY <1>1, <2>1, PagesAfter DEF BulkPages
      <3> QED
        BY <3>1 DEF TransferTrue
    <2>2. CASE q # otaPages
      <3>1. \A i \in BulkPages' : i \in Nat /\ i + 1 \in BulkPages
        BY <1>1, <2>2, PagesAfter DEF BulkPages
      <3>2. ASSUME NEW i \in BulkPages', NEW j \in BulkPages'
            PROVE  i = j
        <4>1. i \in Nat /\ j \in Nat
          BY <3>1
        <4>2. i + 1 = j + 1
          BY <3>1 DEF TransferTrue
        <4> QED
          BY <4>1, <4>2
      <3> QED
        BY <3>1, <3>2
    <2> QED
      BY <2>1, <2>2
  <1>4. BulkPages' # {} =>
          /\ state' = "START_TRANSFER_DATA"
          /\ address' < file_len' => \E k \in Nat : address' = k * Bin
          /\ \A b \in Blocks(file_len') : b * Bin < address' => Broadcast(b)'
    <2> SUFFICES ASSUME BulkPages # {}
                 PROVE  /\ state' = "START_TRANSFER_DATA"
                        /\ address' < file_len' => \E k \in Nat : address' = k * Bin
                        /\ \A b \in Blocks(file_len') :
                              b * Bin < address' => Broadcast(b)'
      BY <1>3
    <2>1. state = "START_TRANSFER_DATA" /\ address' = address
      BY DEF TransferTrue
    <2>2. \A b : Broadcast(b) => Broadcast(b)'
      BY DEF Broadcast, BlockSent
    <2> QED
      BY <2>1, <2>2 DEF TransferTrue
  <1> QED
    BY <1>2, <1>3, <1>4 DEF TransferTrue

\* What manager_start_send_page does.
LEMMA SendPageCases ==
    ASSUME NEW q, NEW st, NEW a \in Nat, NEW n \in Nat, faults \in Nat,
           manager_start_send_page(q, st, a, n)
    PROVE  /\ address' \in Nat /\ faults' \in Nat
           /\ \/ /\ a < n /\ state' = st
                 /\ \/ address' = a + Bin
                    \/ address' >= n /\ n < a + Bin
                 /\ \/ /\ sent' = sent \cup {[block |-> a \div Bin, header |-> info,
                                              data |-> flash[a \div Bin]]}
                       /\ \/ otaPages' = q
                          \/ otaPages' = Append(q, [result |-> "bulk", header |-> info,
                                                    block |-> a \div Bin])
                    \/ sent' = sent /\ otaPages' = Append(q, StatePage)
              \/ /\ a >= n /\ state' = "STOP" /\ sent' = sent
                 /\ otaPages' = q \/ otaPages' = Append(q, StatePage)
PROOF
  <1> DEFINE m == manager_ota_msg_of_data(a, n)
  <1>1. /\ a >= n => m = -1
        /\ a < n => /\ m \in Nat \ {0}
                    /\ m = Bin \/ (a + m >= n /\ n < a + Bin)
    BY BytesRead
  <1> HIDE DEF m
  <1>2. faults' \in Nat
    BY DEF manager_start_send_page, manager_ota_send_state, SendData, Post, Fault
  <1>3. CASE a < n
    <2>1. m > 0 /\ ~(m < 0)
      BY <1>1, <1>3
    <2>2. /\ address' = a + m /\ state' = st
          /\ SendData(q, "bulk", a) \/ (sent' = sent /\ otaPages' = Append(q, StatePage))
      BY <2>1 DEF manager_start_send_page, m
    <2>3. address' \in Nat /\ (address' = a + Bin \/ (address' >= n /\ n < a + Bin))
      BY <1>1, <1>3, <2>2
    <2> QED
      BY <1>2, <1>3, <2>2, <2>3 DEF SendData, Post
  <1>4. CASE ~(a < n)
    <2>1. m < 0 /\ ~(m > 0)
      BY <1>1, <1>4
    <2>2. /\ address' = 0 /\ state' = "STOP" /\ sent' = sent
          /\ manager_ota_send_state(q)
      BY <2>1 DEF manager_start_send_page, m
    <2> QED
      BY <1>2, <1>4, <2>2 DEF manager_ota_send_state, Post
  <1> QED
    BY <1>3, <1>4

ResendPage(b) == [result |-> "resend", header |-> info, block |-> b]

\* What manager_resend_data does.
LEMMA ResendCases ==
    ASSUME UpdateTypes, NEW q, NEW f, f \subseteq AllBlocks, manager_resend_data(q, f)
    PROVE  /\ address' \in Nat /\ faults' \in Nat /\ flag' \subseteq f
           /\ \/ sent' = sent /\ otaPages' = q
              \/ \E b \in Blocks(file_len) :
                    /\ b \in Nat
                    /\ sent' = sent \cup {[block |-> b, header |-> info,
                                           data |-> flash[b]]}
                    /\ otaPages' = q \/ otaPages' = Append(q, ResendPage(b))
           /\ \A b \in f \ flag' :
                 \/ b * Bin >= file_len \/ faults' # faults
                 \/ otaPages' = Append(q, ResendPage(b))
PROOF
  <1> DEFINE loc == manager_get_resend_sub_flag(f)
             n == manager_ota_msg_of_data(loc * Bin, file_len)
  <1>1. (f = {} /\ loc = -2) \/ (loc \in f /\ loc \in Nat)
    BY LowestFlag
  <1>2. /\ \/ /\ loc < 0
              /\ flag' = f
              /\ otaPages' = q
              /\ UNCHANGED <<address, sent, faults, halted>>
           \/ /\ loc >= 0
              /\ flag' = f \ {loc}
              /\ \/ /\ n > 0
                    /\ address' = loc * Bin + n
                    /\ \/ SendData(q, "resend", loc * Bin)
                       \/ Fault /\ otaPages' = q /\ UNCHANGED sent
                 \/ /\ n < 0
                    /\ address' = loc * Bin
                    /\ otaPages' = q
                    /\ UNCHANGED <<sent, faults>>
        /\ address \in Nat /\ faults \in Nat /\ file_len \in Nat
    BY DEF manager_resend_data, manager_clean_resend_sub_flag, UpdateTypes
  <1> HIDE DEF loc
  <1>3. CASE loc < 0
    <2>1. ~(loc >= 0)
      BY <1>1, <1>3
    <2> QED
      BY <1>2, <2>1
  <1>4. CASE ~(loc < 0)
    <2>1. loc \in Nat /\ loc \in f
      BY <1>1, <1>4
    <2>2. loc * Bin \in Nat /\ (loc * Bin) \div Bin = loc
      BY <2>1, BlockOf
    <2>3. /\ loc * Bin >= file_len => n = -1
          /\ loc * Bin < file_len => n \in Nat \ {0}
      BY <1>2, <2>2, BytesRead
    <2> HIDE DEF n
    <2>4. CASE loc * Bin < file_len
      <3>1. n > 0 /\ ~(n < 0) /\ n \in Nat
        BY <2>3, <2>4
      <3>2. /\ flag' = f \ {loc} /\ address' = loc * Bin + n
            /\ \/ SendData(q, "resend", loc * Bin)
               \/ Fault /\ otaPages' = q /\ UNCHANGED sent
        BY <1>2, <1>4, <3>1
      <3>3. address' \in Nat
        BY <2>2, <3>1, <3>2
      <3>4. loc \in Blocks(file_len)
        BY <1>2, <2>1, <2>4, BlockBelow
      <3>5. CASE SendData(q, "resend", loc * Bin)
        <4>1. /\ sent' = sent \cup {[block |-> loc, header |-> info, data |-> flash[loc]]}
              /\ \/ otaPages' = Append(q, ResendPage(loc)) /\ faults' = faults
                 \/ otaPages' = q /\ faults' = faults + 1
          BY <2>2, <3>5 DEF SendData, Post, Fault, ResendPage
        <4>2. faults' \in Nat /\ (faults' # faults \/ otaPages' = Append(q, ResendPage(loc)))
          BY <1>2, <4>1
        <4> QED
          BY <2>1, <3>2, <3>3, <3>4, <4>1, <4>2
      <3>6. CASE Fault /\ otaPages' = q /\ UNCHANGED sent
        <4>1. faults' \in Nat /\ faults' # faults
          BY <1>2, <3>6 DEF Fault
        <4> QED
          BY <3>2, <3>3, <3>6, <4>1
      <3> QED
        BY <3>2, <3>5, <3>6
    <2>5. CASE ~(loc * Bin < file_len)
      <3>1. loc * Bin >= file_len
        BY <1>2, <2>2, <2>5
      <3>2. ~(n > 0)
        BY <2>3, <3>1
      <3>3. /\ flag' = f \ {loc} /\ address' = loc * Bin
            /\ otaPages' = q /\ UNCHANGED <<sent, faults>>
        BY <1>2, <1>4, <3>2
      <3> QED
        BY <1>2, <2>2, <3>1, <3>3
    <2> QED
      BY <2>4, <2>5
  <1> QED
    BY <1>3, <1>4

-----------------------------------------------------------------------------
(* The handlers of the logic task. *)

\* A page with the state is well formed.
LEMMA StatePageType ==
    ASSUME UpdateTypes
    PROVE  StatePage \in Page /\ StatePage.result = "state"
PROOF
  <1>1. info \in FileOrNone
    BY DEF UpdateTypes, FileOrNone
  <1> QED
    BY <1>1 DEF StatePage, Page

\* A question for the version keeps the invariant.
LEMMA VersionStep ==
    ASSUME AllTrue, VersionRequest
    PROVE  AllTrue'
PROOF
  <1>1. PICK q, p : q = otaPages /\ p = StatePage
    OBVIOUS
  <1>2. PagesMoved(q, p) /\ p.result = "state"
    BY <1>1, StatePageType
       DEF PagesMoved, VersionRequest, manager_ota_send_state, Post, AllTrue
  <1>3. /\ booted = None /\ BlockSent /\ sent' = sent
        /\ UNCHANGED <<state, address, flag, info, file_len, downloadVars, answered,
                       httpResults, booted>>
    BY DEF VersionRequest, recordVars, Running, BlockSent
  <1>4. faults' \in Nat
    BY DEF VersionRequest, manager_ota_send_state, Post, Fault, AllTrue, UpdateTypes
  <1>5. address' \in Nat /\ flag' \subseteq AllBlocks
    BY <1>3 DEF AllTrue, UpdateTypes
  <1>6. UpdateTypes' /\ Stages' /\ PagesTrue' /\ BootTrue'
    BY <1>2, <1>3, <1>4, <1>5, PagesStep DEF AllTrue
  <1>7. TransferTrue'
    BY <1>2, <1>3, TransferStep DEF AllTrue
  <1> QED
    BY <1>6, <1>7 DEF AllTrue

\* A page of a transfer is under way: what its result finds.
LEMMA BulkHead ==
    ASSUME AllTrue, otaPages # <<>>, Head(otaPages).result = "bulk"
    PROVE  /\ Loaded /\ NoDownload /\ state = "START_TRANSFER_DATA"
           /\ \A i \in DOMAIN Tail(otaPages) : Tail(otaPages)[i].result = "state"
           /\ address < file_len => \E k \in Nat : address = k * Bin
           /\ \A b \in Blocks(file_len) : b * Bin < address => Broadcast(b)
PROOF
  <1>1. otaPages \in Seq(Page)
    BY DEF AllTrue, UpdateTypes
  <1>2. 1 \in BulkPages
    BY <1>1 DEF BulkPages
  <1>3. Loaded /\ NoDownload
    BY <1>2 DEF BulkPages, AllTrue, PagesTrue, Stages, NoPages
  <1>4. state = "START_TRANSFER_DATA"
    BY <1>2 DEF AllTrue, TransferTrue
  <1>5. ASSUME NEW i \in DOMAIN Tail(otaPages)
        PROVE  Tail(otaPages)[i].result = "state"
    <2>1. /\ i \in Nat \ {0} /\ i + 1 \in DOMAIN otaPages
          /\ Tail(otaPages)[i] = otaPages[i + 1] /\ otaPages[i + 1] \in Page
      BY <1>1
    <2>2. i + 1 \notin BulkPages
      <3>1. i + 1 # 1
        BY <2>1
      <3> QED
        BY <1>2, <3>1 DEF AllTrue, TransferTrue
    <2>3. otaPages[i + 1].result # "bulk"
      BY <2>1, <2>2 DEF BulkPages
    <2>4. otaPages[i + 1].result # "resend"
      BY <1>4, <2>1 DEF AllTrue, TransferTrue
    <2>5. otaPages[i + 1].result \in {"state", "bulk", "resend"}
      BY <2>1 DEF Page
    <2> QED
      BY <2>1, <2>3, <2>4, <2>5
  <1> QED
    BY <1>2, <1>3, <1>4, <1>5 DEF AllTrue, TransferTrue

\* Posting the page of a transfer after pages with the state only: the transfer
\* stays as it must be if every block up to the new one was broadcast.
LEMMA BulkPosted ==
    ASSUME UpdateTypes, NEW q, NEW p, PagesMoved(q, p), p.result # "resend",
           \A i \in DOMAIN q : q[i].result = "state",
           p.result = "bulk" =>
              /\ state' = "START_TRANSFER_DATA"
              /\ address' < file_len' => \E k \in Nat : address' = k * Bin
              /\ \A b \in Blocks(file_len') : b * Bin < address' => Broadcast(b)'
    PROVE  TransferTrue'
PROOF
  <1>1. \A i \in DOMAIN otaPages' : otaPages'[i].result # "resend"
    BY PagesAfter
  <1>2. \A i \in BulkPages' : i = Len(q) + 1 /\ p.result = "bulk"
    BY PagesAfter DEF BulkPages
  <1> QED
    BY <1>1, <1>2 DEF TransferTrue

\* The block after k blocks completes the blocks below the next address.
LEMMA NextBlock ==
    ASSUME NEW k \in Nat, NEW b \in Nat, b * Bin < k * Bin + Bin
    PROVE  b * Bin < k * Bin \/ b = k
PROOF
  <1> DEFINE B == Bin
  <1>1. B \in Nat \ {0}
    BY UpdateAssumption DEF Bin
  <1> HIDE DEF B
  <1>2. ASSUME b * B < k * B + B
        PROVE  b <= k
    <2>1. k * B + B = (k + 1) * B
      BY <1>1
    <2>2. b * B < (k + 1) * B
      BY <1>2, <2>1
    <2> QED
      BY <1>1, <2>2
  <1>3. ASSUME b < k
        PROVE  b * B < k * B
    BY <1>1, <1>3
  <1> QED
    BY <1>2, <1>3 DEF B

\* Broadcasting the block at the address a keeps the blocks below the address
\* broadcast.
LEMMA NextBroadcast ==
    ASSUME NEW a \in Nat, NEW n \in Nat, a < n, file_len' = n, info' = info,
           address' \in Nat,
           address' = a + Bin \/ (address' >= n /\ n < a + Bin),
           NEW k \in Nat, a = k * Bin,
           \E d : sent' = sent \cup {[block |-> a \div Bin, header |-> info, data |-> d]},
           \A b \in Blocks(n) : b * Bin < a => Broadcast(b)
    PROVE  /\ address' < file_len' => \E j \in Nat : address' = j * Bin
           /\ \A b \in Blocks(file_len') : b * Bin < address' => Broadcast(b)'
PROOF
  <1>1. Bin \in Nat \ {0}
    BY UpdateAssumption DEF Bin
  <1>2. ASSUME address' < n
        PROVE  \E j \in Nat : address' = j * Bin
    <2>1. address' = k * Bin + Bin
      BY <1>2
    <2>2. k * Bin + Bin = (k + 1) * Bin
      BY <1>1
    <2> QED
      BY <2>1, <2>2
  <1>3. ASSUME NEW b \in Blocks(n), b * Bin < address'
        PROVE  Broadcast(b)'
    <2>1. b \in Nat
      <3>1. CeilDiv(n, Bin) \in Int
        BY <1>1 DEF CeilDiv
      <3> QED
        BY <3>1 DEF Blocks
    <2>2. b * Bin < n /\ b * Bin \in Nat
      BY <2>1, BlockBelow, BlockOf
    <2>3. b * Bin < k * Bin + Bin
      BY <1>1, <1>3, <2>2
    <2>4. b * Bin < k * Bin \/ b = k
      BY <2>1, <2>3, NextBlock
    <2>5. a \div Bin = k
      BY BlockOf
    <2>8. PICK d : sent' = sent \cup {[block |-> k, header |-> info, data |-> d]}
      BY Zenon, <2>5
    <2>6. CASE b * Bin < k * Bin
      <3>1. Broadcast(b)
        BY <2>6
      <3> QED
        BY <2>8, <3>1 DEF Broadcast
    <2>7. CASE b = k
      <3>1. [block |-> k, header |-> info, data |-> d] \in sent'
        BY <2>8
      <3> QED
        BY <2>7, <3>1 DEF Broadcast
    <2> QED
      BY <2>4, <2>6, <2>7
  <1> QED
    BY <1>2, <1>3

\* The result of a page keeps the invariant.
LEMMA ResultStep ==
    ASSUME AllTrue, OtaResult
    PROVE  AllTrue'
PROOF
  <1>1. /\ UpdateTypes /\ Stages /\ PagesTrue /\ TransferTrue
        /\ address \in Nat /\ file_len \in Nat /\ faults \in Nat
        /\ flag \subseteq AllBlocks /\ otaPages \in Seq(Page)
    BY DEF AllTrue, UpdateTypes
  <1>2. /\ booted = None /\ otaPages # <<>>
        /\ UNCHANGED <<info, file_len, downloadVars, answered, httpResults, booted>>
    BY DEF OtaResult, Running, inputVars
  <1>3. PICK q : q = Tail(otaPages)
    BY Zenon
  <1>4. CASE /\ Head(otaPages).result = "bulk"
             /\ manager_start_send_page(Tail(otaPages), state, address, file_len)
             /\ UNCHANGED <<flag, halted>>
    <2>0. PICK st : st = state
      BY Zenon
    <2>1. PICK a \in Nat, n \in Nat : a = address /\ n = file_len /\ st = state
      BY <1>1, <2>0
    <2>2. manager_start_send_page(q, st, a, n)
      BY <1>3, <1>4, <2>1
         DEF manager_start_send_page, SendData, manager_ota_send_state, Post, Fault
    <2>3. /\ Loaded /\ NoDownload /\ state = "START_TRANSFER_DATA"
          /\ \A i \in DOMAIN q : q[i].result = "state"
          /\ address < file_len => \E k \in Nat : address = k * Bin
          /\ \A b \in Blocks(file_len) : b * Bin < address => Broadcast(b)
      BY <1>2, <1>3, <1>4, BulkHead
    <2>4. address' \in Nat /\ faults' \in Nat
      BY Zenon, <1>1, <2>2, SendPageCases
    <2>5. CASE /\ a < n /\ state' = st
               /\ address' = a + Bin \/ (address' >= n /\ n < a + Bin)
               /\ sent' = sent \cup {[block |-> a \div Bin, header |-> info,
                                      data |-> flash[a \div Bin]]}
               /\ \/ otaPages' = q
                  \/ otaPages' = Append(q, [result |-> "bulk", header |-> info,
                                            block |-> a \div Bin])
      <3>1. a \div Bin \in Nat /\ a \div Bin \in Blocks(n)
        BY <2>5, BlockAt
      <3>2. PICK p : p = [result |-> "bulk", header |-> info, block |-> a \div Bin]
        BY Zenon
      <3>3. PagesMoved(q, p) /\ p.result = "bulk"
        <4>1. info \in FileOrNone
          BY <1>1 DEF UpdateTypes, FileOrNone
        <4>2. p \in Page
          BY <3>1, <3>2, <4>1 DEF Page
        <4> QED
          BY <1>2, <1>3, <2>5, <3>2, <4>2 DEF PagesMoved
      <3>4. BlockSent
        BY <2>1, <2>3, <2>5, <3>1 DEF BlockSent
      <3>5. UpdateTypes' /\ Stages' /\ PagesTrue' /\ BootTrue'
        BY <1>1, <1>2, <1>4, <2>3, <2>4, <3>3, <3>4, PagesStep
      <3>6. PICK k \in Nat : a = k * Bin
        BY <2>1, <2>3, <2>5
      <3>7. /\ address' < file_len' => \E j \in Nat : address' = j * Bin
            /\ \A b \in Blocks(file_len') : b * Bin < address' => Broadcast(b)'
        BY Zenon, <1>2, <2>1, <2>3, <2>4, <2>5, <3>6, NextBroadcast
      <3>8. TransferTrue'
        BY <1>1, <2>1, <2>3, <2>5, <3>3, <3>7, BulkPosted
      <3> QED
        BY <3>5, <3>8 DEF AllTrue
    <2>6. CASE sent' = sent /\ (otaPages' = q \/ otaPages' = Append(q, StatePage))
      <3>1. PICK p : p = StatePage
        OBVIOUS
      <3>2. PagesMoved(q, p) /\ p.result = "state" /\ BlockSent
        BY <1>1, <1>2, <1>3, <2>6, <3>1, StatePageType DEF PagesMoved, BlockSent
      <3>3. UpdateTypes' /\ Stages' /\ PagesTrue' /\ BootTrue'
        BY <1>1, <1>2, <1>4, <2>3, <2>4, <3>2, PagesStep
      <3>4. TransferTrue'
        BY <1>1, <2>3, <3>2, BulkPosted
      <3> QED
        BY <3>3, <3>4 DEF AllTrue
    <2> QED
      BY Zenon, <1>1, <2>2, <2>5, <2>6, SendPageCases
  <1>5. CASE /\ Head(otaPages).result = "resend"
             /\ manager_resend_data(Tail(otaPages), flag)
             /\ UNCHANGED state
    <2>1. PICK f : f = flag
      OBVIOUS
    <2>2. manager_resend_data(q, f)
      BY <1>3, <1>5, <2>1 DEF manager_resend_data, SendData, Post, Fault
    <2>3. 1 \in DOMAIN otaPages /\ otaPages[1].result = "resend"
      BY <1>1, <1>2, <1>5
    <2>4. Loaded /\ NoDownload /\ state = "STOP"
      BY <1>1, <2>3 DEF PagesTrue, Stages, TransferTrue, NoPages
    <2>5. /\ address' \in Nat /\ faults' \in Nat /\ flag' \subseteq AllBlocks
          /\ \E p : PagesMoved(q, p) /\ p.result = "resend"
          /\ BlockSent
      <3>1. f \subseteq AllBlocks /\ info \in FileOrNone
        BY <1>1, <2>1 DEF UpdateTypes, FileOrNone
      <3>2. /\ address' \in Nat /\ faults' \in Nat /\ flag' \subseteq f
            /\ \/ sent' = sent /\ otaPages' = q
               \/ \E b \in Blocks(file_len) :
                     /\ b \in Nat
                     /\ sent' = sent \cup {[block |-> b, header |-> info,
                                            data |-> flash[b]]}
                     /\ otaPages' = q \/ otaPages' = Append(q, ResendPage(b))
        BY <1>1, <2>2, <3>1, ResendCases
      <3>3. \A b \in Nat : ResendPage(b) \in Page /\ ResendPage(b).result = "resend"
        BY <3>1 DEF ResendPage, Page
      <3>4. BlockSent
        BY <2>4, <3>2 DEF BlockSent
      <3>5. CASE otaPages' = q
        BY <1>2, <1>3, <2>1, <3>1, <3>2, <3>3, <3>4, <3>5 DEF PagesMoved
      <3>6. CASE otaPages' # q
        <4>1. PICK b \in Nat : otaPages' = Append(q, ResendPage(b))
          BY <3>2, <3>6
        <4> QED
          BY <1>2, <1>3, <2>1, <3>1, <3>2, <3>3, <3>4, <4>1 DEF PagesMoved
      <3> QED
        BY <3>5, <3>6
    <2>6. PICK p : PagesMoved(q, p) /\ p.result = "resend"
      BY <2>5
    <2>7. UpdateTypes' /\ Stages' /\ PagesTrue' /\ BootTrue'
      BY <1>1, <1>2, <2>4, <2>5, <2>6, PagesStep
    <2>8. TransferTrue'
      BY <1>1, <1>2, <1>5, <2>4, <2>5, <2>6, TransferStep
    <2> QED
      BY <2>7, <2>8 DEF AllTrue
  <1>6. CASE /\ otaPages' = Tail(otaPages)
             /\ (Head(otaPages).result = "state" /\ UNCHANGED faults) \/ Fault
             /\ UNCHANGED <<state, address, flag, sent, halted>>
    <2>1. PICK p : p = StatePage
      OBVIOUS
    <2>2. PagesMoved(q, p) /\ p.result = "state" /\ BlockSent
      BY <1>1, <1>2, <1>3, <1>6, <2>1, StatePageType DEF PagesMoved, BlockSent
    <2>3. faults' \in Nat
      BY <1>1, <1>6 DEF Fault
    <2>4. UpdateTypes' /\ Stages' /\ PagesTrue' /\ BootTrue'
      BY <1>1, <1>2, <1>6, <2>2, <2>3, PagesStep
    <2>5. TransferTrue'
      BY <1>1, <1>2, <1>6, <2>2, TransferStep
    <2> QED
      BY <2>4, <2>5 DEF AllTrue
  <1> QED
    BY <1>4, <1>5, <1>6 DEF OtaResult

\* A device's request for blocks keeps the invariant.
LEMMA RequestStep ==
    ASSUME AllTrue, NEW u \in Update, NEW missing, SpecificDataRequest(u, missing)
    PROVE  AllTrue'
PROOF
  <1>1. /\ UpdateTypes /\ Stages /\ PagesTrue /\ TransferTrue
        /\ address \in Nat /\ faults \in Nat /\ flag \subseteq AllBlocks
    BY DEF AllTrue, UpdateTypes
  <1>2. /\ booted = None
        /\ UNCHANGED <<state, info, file_len, downloadVars, answered, httpResults, booted>>
    BY DEF SpecificDataRequest, Running
  <1>3. PICK q, s : q = otaPages /\ s = StatePage
    OBVIOUS
  <1>4. ASSUME otaPages' = q \/ otaPages' = Append(q, s), sent' = sent,
               address' = address, flag' \subseteq AllBlocks, faults' \in Nat
        PROVE  AllTrue'
    <2>1. PagesMoved(q, s) /\ s.result = "state" /\ BlockSent
      BY <1>1, <1>3, <1>4, StatePageType DEF PagesMoved, BlockSent
    <2>2. UpdateTypes' /\ Stages' /\ PagesTrue' /\ BootTrue'
      BY <1>1, <1>2, <1>4, <2>1, PagesStep
    <2>3. TransferTrue'
      BY <1>1, <1>2, <1>4, <2>1, TransferStep
    <2> QED
      BY <2>2, <2>3 DEF AllTrue
  <1>5. CASE state # "STOP" \/ u # info
    <2>1. \/ manager_ota_send_state(otaPages) /\ UNCHANGED <<address, flag, sent, halted>>
          \/ UNCHANGED <<address, flag, sent, otaPages, faults, halted>>
      BY <1>5 DEF SpecificDataRequest
    <2> QED
      BY <1>1, <1>3, <1>4, <2>1 DEF manager_ota_send_state, Post, Fault
  <1>6. CASE state = "STOP" /\ u = info
    <2>1. manager_ota_resend_data(missing)
      BY <1>6 DEF SpecificDataRequest
    <2>2. PICK f : f = flag \cup UNION {manager_set_resend_sub_flag(b * Bin,
                                    Length(b, size[info])) : b \in missing}
      BY Zenon
    <2>3. f \subseteq AllBlocks
      BY <1>1, <2>2 DEF manager_set_resend_sub_flag
    <2>4. CASE flag' = f /\ UNCHANGED <<address, otaPages, sent, faults, halted>>
      BY <1>1, <1>3, <1>4, <2>3, <2>4
    <2>5. CASE manager_resend_data(otaPages, f)
      <3>1. manager_resend_data(q, f)
        BY <1>3, <2>5 DEF manager_resend_data, SendData, Post, Fault
      <3>2. Loaded /\ NoDownload
        BY Zenon, <1>1, <1>6 DEF SpecificDataRequest, PagesTrue, Stages
      <3>3. /\ address' \in Nat /\ faults' \in Nat /\ flag' \subseteq f
            /\ \/ sent' = sent /\ otaPages' = q
               \/ \E b \in Blocks(file_len) :
                     /\ b \in Nat
                     /\ sent' = sent \cup {[block |-> b, header |-> info,
                                            data |-> flash[b]]}
                     /\ otaPages' = q \/ otaPages' = Append(q, ResendPage(b))
        BY <1>1, <2>3, <3>1, ResendCases
      <3>4. BlockSent /\ flag' \subseteq AllBlocks
        BY <2>3, <3>2, <3>3 DEF BlockSent
      <3>5. \E p : PagesMoved(q, p) /\ p.result = "resend"
        <4>1. info \in FileOrNone
          BY <1>1 DEF UpdateTypes, FileOrNone
        <4>2. \A b \in Nat : ResendPage(b) \in Page /\ ResendPage(b).result = "resend"
          BY <4>1 DEF ResendPage, Page
        <4>3. PICK b \in Nat : otaPages' = q \/ otaPages' = Append(q, ResendPage(b))
          BY <3>3
        <4> QED
          BY <1>3, <4>2, <4>3 DEF PagesMoved
      <3>6. PICK p : PagesMoved(q, p) /\ p.result = "resend"
        BY <3>5
      <3>7. UpdateTypes' /\ Stages' /\ PagesTrue' /\ BootTrue'
        BY <1>1, <1>2, <3>2, <3>3, <3>4, <3>6, PagesStep
      <3>8. TransferTrue'
        BY <1>1, <1>2, <1>6, <3>4, <3>6, TransferStep
      <3> QED
        BY <3>7, <3>8 DEF AllTrue
    <2> QED
      BY <2>1, <2>2, <2>4, <2>5 DEF manager_ota_resend_data
  <1> QED
    BY <1>5, <1>6

\* An answer of the server while nothing is under way keeps the invariant.
LEMMA ResponseStep ==
    ASSUME AllTrue, NEW u \in Update, manager_update_response(u), ~UnderWay
    PROVE  AllTrue'
PROOF
  <1>1. UpdateTypes /\ Stages /\ PagesTrue /\ TransferTrue
    BY DEF AllTrue
  <1>2. NoDownload /\ NoPages
    BY DEF UnderWay, NoDownload, NoPages
  <1>3. /\ booted = None /\ u \notin answered /\ answered' = answered \cup {u}
        /\ info' = u /\ file_len' = size[u]
        /\ requests' = <<u>> => state' = "DOWN_PAGE"
        /\ requests' \in {<<>>, <<u>>}
        /\ address' \in {address, 0}
        /\ UNCHANGED <<flag, download, flash, otaPages, httpResults, booted, faults, sent>>
    <2>1. requests = <<>>
      BY <1>2 DEF NoDownload
    <2>2. Append(<<>>, u) = <<u>> /\ <<u>> # <<>>
      OBVIOUS
    <2> QED
      BY <2>1, <2>2 DEF manager_update_response, Running
  <1>4. NoPages' /\ BulkPages' = {}
    BY <1>2, <1>3 DEF NoPages, BulkPages
  <1>5. \A p \in sent' : p.header # info'
    BY <1>1, <1>3 DEF PagesTrue
  <1>6. UpdateTypes'
    <2>1. requests' \in Seq(Update)
      <3>1. <<>> \in Seq(Update) /\ <<u>> \in Seq(Update)
        OBVIOUS
      <3> QED
        BY Zenon, <1>3, <3>1
    <2>2. address' \in Nat /\ file_len' \in Nat
      BY <1>1, <1>3, BlocksNat DEF UpdateTypes
    <2> QED
      BY <1>1, <1>3, <2>1, <2>2 DEF UpdateTypes
  <1>7. Stages'
    <2>1. download' = Idle /\ httpResults' = <<>>
      BY <1>2, <1>3 DEF NoDownload
    <2>2. Idle' = Idle
      BY DEF Idle
    <2>3. requests' # <<>> => requests' = <<info'>> /\ state' = "DOWN_PAGE"
      BY <1>3
    <2> QED
      BY Zenon, <1>3, <1>4, <1>5, <2>1, <2>2, <2>3 DEF Stages, NoDownload
  <1>8. PagesTrue'
    BY <1>1, <1>3, <1>4, <1>5 DEF PagesTrue
  <1>9. BootTrue'
    BY <1>3 DEF BootTrue
  <1>10. TransferTrue'
    BY <1>4 DEF TransferTrue, NoPages
  <1> QED
    BY <1>6, <1>7, <1>8, <1>9, <1>10 DEF AllTrue

\* The result of a download, which boots the access point, starts a transfer or
\* gives up, keeps the invariant.
LEMMA StartStep ==
    ASSUME AllTrue, manager_start_update
    PROVE  AllTrue'
PROOF
  <1>1. /\ UpdateTypes /\ Stages /\ PagesTrue /\ TransferTrue
        /\ address \in Nat /\ file_len \in Nat /\ faults \in Nat
        /\ flag \subseteq AllBlocks
        /\ httpResults \in Seq([ok : BOOLEAN, down_file_size : Nat])
    BY DEF AllTrue, UpdateTypes
  <1>2. /\ booted = None /\ httpResults # <<>>
        /\ httpResults' = Tail(httpResults)
        /\ UNCHANGED <<info, downloadVars, answered>>
    BY Zenon DEF manager_start_update, Running, inputVars
  <1>3. PICK r : r = Head(httpResults)
    OBVIOUS
  <1>4. /\ requests = <<>> /\ download = Idle /\ Len(httpResults) = 1
        /\ r.ok => Holds(info) /\ r.down_file_size = size[info]
        /\ info \in Update /\ NoPages /\ \A p \in sent : p.header # info
    <2>1. Len(httpResults) = 1
      BY <1>1, <1>2 DEF Stages
    <2>2. r = httpResults[1]
      BY <1>1, <1>2, <1>3
    <2> QED
      BY <1>1, <1>2, <2>1, <2>2 DEF Stages, NoDownload
  <1>5. NoDownload'
    <2>1. httpResults' = <<>>
      BY <1>1, <1>2, <1>4
    <2> QED
      BY <1>2, <1>4, <2>1 DEF NoDownload, downloadVars, Idle
  <1>6. Stages'
    BY <1>5 DEF Stages, NoDownload
  <1>7. size[info] \in Nat \ {0} /\ info \in answered
    BY <1>1, <1>4, BlocksNat, UpdateAssumption DEF UpdateTypes
  <1>8. (Holds(info) => Holds(info)') /\ \A n : Blocks(n)' = Blocks(n)
    BY <1>2 DEF Holds, downloadVars, Blocks
  <1>9. ASSUME otaPages' = otaPages, sent' = sent, booted' = booted,
               file_len' \in Nat, address' \in Nat, faults' \in Nat, flag' \subseteq AllBlocks
        PROVE  AllTrue'
    <2>1. UpdateTypes'
      BY <1>1, <1>2, <1>5, <1>9 DEF UpdateTypes, downloadVars, NoDownload
    <2>2. NoPages' /\ BulkPages' = {}
      BY <1>4, <1>9 DEF NoPages, BulkPages
    <2>3. PagesTrue'
      BY <1>1, <1>2, <1>4, <1>9, <2>2 DEF PagesTrue
    <2>4. BootTrue'
      BY <1>2, <1>9 DEF BootTrue
    <2>5. TransferTrue'
      BY <2>2 DEF TransferTrue, NoPages
    <2> QED
      BY <1>6, <2>1, <2>3, <2>4, <2>5 DEF AllTrue
  <1>10. CASE /\ r.ok /\ kind[info] = "ap"
              /\ booted' = [file |-> info, len |-> r.down_file_size]
              /\ UNCHANGED <<address, file_len, flag, otaPages, faults, sent>>
    <2>1. UpdateTypes'
      BY <1>1, <1>2, <1>5, <1>10 DEF UpdateTypes, downloadVars, NoDownload
    <2>2. NoPages' /\ BulkPages' = {}
      BY <1>4, <1>10 DEF NoPages, BulkPages
    <2>3. PagesTrue'
      BY <1>1, <1>2, <1>4, <1>10, <2>2 DEF PagesTrue
    <2>4. BootTrue'
      <3>1. booted'.file = info /\ booted'.len = size[info]
        BY <1>4, <1>10
      <3>2. Holds(booted.file)'
        BY <1>2, <1>4, <1>10, <3>1 DEF Holds, downloadVars
      <3> QED
        BY <1>10, <3>1, <3>2 DEF BootTrue
    <2>5. TransferTrue'
      BY <2>2 DEF TransferTrue, NoPages
    <2> QED
      BY <1>6, <2>1, <2>3, <2>4, <2>5 DEF AllTrue
  <1>11. CASE /\ r.ok /\ file_len' = r.down_file_size /\ flag' = {}
              /\ manager_start_send_page(otaPages, "START_TRANSFER_DATA", 0,
                                         r.down_file_size)
              /\ UNCHANGED booted
    <2>0. PICK q : q = otaPages
      OBVIOUS
    <2>1. PICK n \in Nat : q = otaPages /\ n = size[info]
      BY <1>7, <2>0
    <2>2. manager_start_send_page(q, "START_TRANSFER_DATA", 0, n)
      BY <1>4, <1>11, <2>1
         DEF manager_start_send_page, SendData, manager_ota_send_state, Post, Fault
    <2>3. /\ address' \in Nat /\ faults' \in Nat
          /\ state' = "START_TRANSFER_DATA"
          /\ address' = 0 + Bin \/ (address' >= n /\ n < 0 + Bin)
          /\ \/ /\ sent' = sent \cup {[block |-> 0 \div Bin, header |-> info,
                                       data |-> flash[0 \div Bin]]}
                /\ \/ otaPages' = q
                   \/ otaPages' = Append(q, [result |-> "bulk", header |-> info,
                                             block |-> 0 \div Bin])
             \/ sent' = sent /\ otaPages' = Append(q, StatePage)
      <3>1. 0 < n /\ ~(0 >= n)
        BY <1>7, <2>1
      <3> QED
        BY Zenon, <1>1, <2>2, <3>1, SendPageCases
    <2>4. 0 \div Bin \in Nat /\ 0 \div Bin \in Blocks(n) /\ 0 < n
      BY <1>7, <2>1, BlockAt
    <2>5. file_len' = n /\ Loaded'
      <3>1. file_len' = n
        BY <1>4, <1>11, <2>1
      <3>2. Holds(info)'
        BY Zenon, <1>4, <1>8, <1>11
      <3> QED
        BY <1>2, <1>4, <2>1, <3>1, <3>2 DEF Loaded
    <2>6. \E p : /\ PagesMoved(q, p)
                 /\ \/ p.result = "state"
                    \/ /\ p.result = "bulk"
                       /\ sent' = sent \cup {[block |-> 0 \div Bin, header |-> info,
                                              data |-> flash[0 \div Bin]]}
      <3>1. info \in FileOrNone
        BY <1>4 DEF FileOrNone
      <3>2. StatePage \in Page /\ StatePage.result = "state"
        BY <1>1, StatePageType
      <3>3. PICK p, s : /\ p = [result |-> "bulk", header |-> info, block |-> 0 \div Bin]
                        /\ s = StatePage
        BY Zenon
      <3>4. p \in Page /\ p.result = "bulk" /\ s \in Page /\ s.result = "state"
        BY <2>4, <3>1, <3>2, <3>3 DEF Page
      <3>5. CASE otaPages' = q \/ otaPages' = Append(q, s)
        BY <2>1, <3>4, <3>5 DEF PagesMoved
      <3>6. CASE /\ otaPages' = Append(q, p)
                 /\ sent' = sent \cup {[block |-> 0 \div Bin, header |-> info,
                                        data |-> flash[0 \div Bin]]}
        BY <2>1, <3>4, <3>6 DEF PagesMoved
      <3> QED
        BY <2>3, <3>3, <3>5, <3>6
    <2>7. PICK p : /\ PagesMoved(q, p)
                   /\ \/ p.result = "state"
                      \/ /\ p.result = "bulk"
                         /\ sent' = sent \cup {[block |-> 0 \div Bin, header |-> info,
                                                data |-> flash[0 \div Bin]]}
      BY <2>6
    <2>8. UpdateTypes'
      <3>1. otaPages' \in Seq(Page)
        BY <1>1, <2>7, PagesAfter
      <3> QED
        BY <1>1, <1>2, <1>5, <1>11, <2>3, <2>5, <3>1 DEF UpdateTypes, downloadVars, NoDownload
    <2>9. PagesTrue'
      <3>1. flash[0 \div Bin] = info
        BY <1>4, <1>11, <2>1, <2>4 DEF Holds
      <3>2. \A e \in sent' : e \in sent \/ (e.header = info /\ e.data = info)
        <4>1. PICK b : b = 0 \div Bin
          OBVIOUS
        <4>2. sent' = sent \/ sent' = sent \cup {[block |-> b, header |-> info, data |-> info]}
          BY Zenon, <2>3, <3>1, <4>1
        <4> QED
          BY <4>2
      <3>3. /\ \A e \in sent : e.header \in answered /\ e.data = e.header
            /\ info' = info /\ answered' = answered
        BY <1>1, <1>2 DEF PagesTrue
      <3>4. \A e \in sent' : e.header \in answered' /\ e.data = e.header
        BY <1>7, <3>2, <3>3
      <3> QED
        BY Zenon, <2>5, <3>4 DEF PagesTrue
    <2>10. BootTrue'
      BY <1>2, <1>11 DEF BootTrue
    <2>11. TransferTrue'
      <3>1. \A i \in DOMAIN q : q[i].result = "state"
        BY <1>4, <2>1 DEF NoPages
      <3>2. ASSUME p.result = "bulk"
            PROVE  /\ address' < file_len' => \E j \in Nat : address' = j * Bin
                   /\ \A b \in Blocks(file_len') : b * Bin < address' => Broadcast(b)'
        <4>1. Bin \in Nat \ {0}
          BY UpdateAssumption DEF Bin
        <4>2. \A b \in Blocks(n) : ~(b * Bin < 0)
          <5> SUFFICES ASSUME NEW b \in Blocks(n)
                       PROVE  ~(b * Bin < 0)
            OBVIOUS
          <5>1. b \in Nat
            BY Zenon, <1>4, <2>1, BlocksNat
          <5>2. b * Bin \in Nat
            BY <5>1, BlockOf
          <5> QED
            BY <5>2
        <4>3. 0 = 0 * Bin
          BY <4>1
        <4>4. \E d : sent' = sent \cup {[block |-> 0 \div Bin, header |-> info,
                                         data |-> d]}
          BY Zenon, <2>7, <3>2
        <4> QED
          BY Zenon, <1>2, <2>3, <2>4, <2>5, <4>2, <4>3, <4>4, NextBroadcast
      <3>3. p.result # "resend"
        BY <2>7
      <3> QED
        BY Zenon, <1>1, <2>3, <2>7, <3>1, <3>2, <3>3, BulkPosted
    <2> QED
      BY <1>6, <2>8, <2>9, <2>10, <2>11 DEF AllTrue
  <1>12. CASE /\ r.ok /\ file_len' = r.down_file_size /\ flag' = {} /\ address' = 0
              /\ UNCHANGED <<otaPages, faults, sent, booted>>
    <2>1. file_len' \in Nat
      BY <1>4, <1>7, <1>12
    <2> QED
      BY <1>1, <1>9, <1>12, <2>1
  <1>13. CASE UNCHANGED <<address, file_len, flag, otaPages, booted, faults, sent>>
    BY <1>1, <1>9, <1>13
  <1> QED
    BY <1>3, <1>10, <1>11, <1>12, <1>13
       DEF manager_start_update, manager_init_resend_sub_flag

-----------------------------------------------------------------------------
(* The downloader task. *)

\* What a step of the downloader leaves alone: no page of the named file was
\* posted, so writing the flash falsifies nothing.
LEMMA DownloadFrame ==
    ASSUME AllTrue, ~NoDownload, booted = None, UNCHANGED downloadOnly
    PROVE  /\ PagesTrue' /\ BootTrue' /\ TransferTrue'
           /\ info' = info /\ info \in Update /\ info \in answered
           /\ (NoPages /\ state = "DOWN_PAGE" /\ \A p \in sent : p.header # info)'
PROOF
  <1>1. UNCHANGED <<state, info, file_len, address, answered, otaPages, booted, sent>>
    BY DEF downloadOnly, recordVars, inputVars
  <1>2. /\ info \in Update /\ info \in answered /\ NoPages /\ state = "DOWN_PAGE"
        /\ \A p \in sent : p.header # info
    BY UpdateAssumption DEF AllTrue, Stages, UpdateTypes
  <1>3. (NoPages /\ state = "DOWN_PAGE" /\ \A p \in sent : p.header # info)'
    BY <1>1, <1>2 DEF NoPages
  <1>4. PagesTrue'
    BY <1>1, <1>3 DEF AllTrue, PagesTrue
  <1>5. TransferTrue'
    BY <1>3 DEF TransferTrue, NoPages, BulkPages
  <1> QED
    BY <1>1, <1>2, <1>3, <1>4, <1>5 DEF BootTrue

\* The types of what a step of the downloader leaves alone.
LEMMA DownloadTypes ==
    ASSUME UpdateTypes, UNCHANGED downloadOnly, faults' \in Nat,
           requests' \in Seq(Update),
           download' \in [phase : {"idle", "head", "shards"}, md5 : FileOrNone,
                          url : FileOrNone, try : Nat, recv_len : Nat],
           httpResults' \in Seq([ok : BOOLEAN, down_file_size : Nat]),
           flash' \in [AllBlocks -> FileOrNone]
    PROVE  UpdateTypes'
  BY DEF UpdateTypes, downloadOnly, recordVars, inputVars

\* Taking a request keeps the invariant.
LEMMA TakeStep ==
    ASSUME AllTrue, DownloadTake
    PROVE  AllTrue'
PROOF
  <1>1. /\ booted = None /\ UNCHANGED downloadOnly /\ requests # <<>> /\ download = Idle
        /\ download' = [Idle EXCEPT !.phase = "head", !.md5 = Head(requests), !.try = 1]
        /\ requests' = Tail(requests) /\ UNCHANGED <<flash, httpResults, faults>>
    BY DEF DownloadTake, Running
  <1>2. ~NoDownload /\ requests = <<info>> /\ httpResults = <<>>
    BY <1>1 DEF NoDownload, AllTrue, Stages
  <1>3. /\ PagesTrue' /\ BootTrue' /\ TransferTrue'
        /\ info' = info /\ info \in Update
        /\ (NoPages /\ state = "DOWN_PAGE" /\ \A p \in sent : p.header # info)'
    BY <1>1, <1>2, DownloadFrame
  <1>4. requests' = <<>> /\ Head(requests) = info
    BY <1>1, <1>2
  <1>5. /\ download' = [phase |-> "head", md5 |-> info, url |-> None, try |-> 1,
                        recv_len |-> 0]
    BY Zenon, <1>1, <1>4 DEF Idle
  <1>6. UpdateTypes'
    <2>1. /\ download' \in [phase : {"idle", "head", "shards"}, md5 : FileOrNone,
                            url : FileOrNone, try : Nat, recv_len : Nat]
          /\ requests' \in Seq(Update)
      BY <1>3, <1>4, <1>5 DEF FileOrNone
    <2>2. UpdateTypes /\ faults' \in Nat
      BY <1>1 DEF AllTrue, UpdateTypes
    <2> QED
      BY <1>1, <2>1, <2>2, DownloadTypes DEF UpdateTypes
  <1>7. Stages'
    <2>1. httpResults' = <<>> /\ info' \in Update
      BY <1>1, <1>2, <1>3
    <2> QED
      BY <1>3, <1>4, <1>5, <2>1 DEF Stages
  <1> QED
    BY <1>3, <1>6, <1>7 DEF AllTrue

\* A download that goes on with the file that the record names keeps the
\* invariant.
LEMMA GoesOn ==
    ASSUME AllTrue, download # Idle, booted = None, UNCHANGED downloadOnly,
           UNCHANGED <<requests, httpResults>>, faults' \in Nat,
           download'.md5 = download.md5, download'.url \in {info, None},
           download'.phase = "shards" => download'.url = info,
           download' \in [phase : {"idle", "head", "shards"}, md5 : FileOrNone,
                          url : FileOrNone, try : Nat, recv_len : Nat],
           flash' \in [AllBlocks -> FileOrNone]
    PROVE  AllTrue'
PROOF
  <1>1. /\ ~NoDownload /\ requests = <<>> /\ httpResults = <<>> /\ download.md5 = info
        /\ UpdateTypes
    BY DEF NoDownload, AllTrue, Stages
  <1>2. /\ PagesTrue' /\ BootTrue' /\ TransferTrue'
        /\ info' = info /\ info \in Update
        /\ (NoPages /\ state = "DOWN_PAGE" /\ \A p \in sent : p.header # info)'
    BY <1>1, DownloadFrame
  <1>3. UpdateTypes'
    BY <1>1, DownloadTypes DEF UpdateTypes
  <1>4. Stages'
    BY Zenon, <1>1, <1>2 DEF Stages
  <1> QED
    BY Zenon, <1>2, <1>3, <1>4 DEF AllTrue

\* A download that ends keeps the invariant, if it only reports a success when the
\* partition holds the file that the record names.
LEMMA Ends ==
    ASSUME AllTrue, download # Idle, booted = None, UNCHANGED downloadOnly,
           UNCHANGED <<requests, flash>>, faults' \in Nat, download' = Idle,
           \/ httpResults' = httpResults
           \/ \E ok \in BOOLEAN :
                 DownloadDone(ok) /\ (ok => download.url = info /\ Holds(info))
    PROVE  AllTrue'
PROOF
  <1>1. /\ ~NoDownload /\ requests = <<>> /\ httpResults = <<>>
        /\ UpdateTypes /\ download.url \in FileOrNone
    BY DEF NoDownload, AllTrue, Stages, UpdateTypes
  <1>2. /\ PagesTrue' /\ BootTrue' /\ TransferTrue'
        /\ info' = info /\ info \in Update
        /\ (NoPages /\ state = "DOWN_PAGE" /\ \A p \in sent : p.header # info)'
    BY <1>1, DownloadFrame
  <1>3. \/ httpResults' = <<>>
        \/ \E r \in [ok : BOOLEAN, down_file_size : Nat] :
              /\ httpResults' = <<r>>
              /\ r.ok => Holds(info) /\ r.down_file_size = size[info]
    <2>1. CASE httpResults' = httpResults
      BY <1>1, <2>1
    <2>2. ASSUME NEW ok \in BOOLEAN, DownloadDone(ok),
                 ok => download.url = info /\ Holds(info)
          PROVE  \E r \in [ok : BOOLEAN, down_file_size : Nat] :
                    /\ httpResults' = <<r>>
                    /\ r.ok => Holds(info) /\ r.down_file_size = size[info]
      <3> DEFINE r == [ok |-> ok, down_file_size |-> IF download.url = None THEN 0
                                                     ELSE size[download.url]]
      <3>1. r \in [ok : BOOLEAN, down_file_size : Nat]
        <4>1. (IF download.url = None THEN 0 ELSE size[download.url]) \in Nat
          BY <1>1, BlocksNat DEF FileOrNone
        <4> QED
          BY <4>1
      <3>2. ASSUME ok
            PROVE  Holds(info) /\ r.down_file_size = size[info]
        BY <1>2, <2>2, <3>2, UpdateAssumption
      <3>3. httpResults' = Append(<<>>, r)
        BY <1>1, <2>2 DEF DownloadDone
      <3>4. r.ok = ok
        OBVIOUS
      <3> HIDE DEF r
      <3>5. Append(<<>>, r) = <<r>>
        OBVIOUS
      <3> QED
        BY <3>1, <3>2, <3>3, <3>4, <3>5
    <2> QED
      BY <2>1, <2>2
  <1>4. UpdateTypes'
    <2>1. httpResults' \in Seq([ok : BOOLEAN, down_file_size : Nat])
      <3>1. ASSUME NEW R, NEW r \in R
            PROVE  <<>> \in Seq(R) /\ <<r>> \in Seq(R)
        OBVIOUS
      <3>2. CASE httpResults' = <<>>
        BY <3>2
      <3>3. CASE httpResults' # <<>>
        <4>1. PICK r \in [ok : BOOLEAN, down_file_size : Nat] : httpResults' = <<r>>
          BY <1>3, <3>3
        <4> QED
          BY <3>1, <4>1
      <3> QED
        BY <3>2, <3>3
    <2>2. Idle \in [phase : {"idle", "head", "shards"}, md5 : FileOrNone,
                    url : FileOrNone, try : Nat, recv_len : Nat]
      BY DEF Idle, FileOrNone
    <2> QED
      BY <1>1, <2>1, <2>2, DownloadTypes DEF UpdateTypes
  <1>5. Stages'
    <2>1. requests' = <<>> /\ download' = Idle' /\ info' \in Update
      BY <1>1, <1>2 DEF Idle
    <2>2. CASE httpResults' = <<>>
      BY <1>2, <2>1, <2>2 DEF Stages
    <2>3. CASE httpResults' # <<>>
      <3>1. PICK r \in [ok : BOOLEAN, down_file_size : Nat] :
               /\ httpResults' = <<r>>
               /\ r.ok => Holds(info) /\ r.down_file_size = size[info]
        BY <1>3, <2>3
      <3>2. Len(httpResults') = 1 /\ httpResults'[1] = r
        BY <3>1
      <3>3. Holds(info) => Holds(info)'
        BY <1>2 DEF Holds
      <3> QED
        BY <1>2, <2>1, <3>1, <3>2, <3>3 DEF Stages
    <2> QED
      BY <2>2, <2>3
  <1> QED
    BY Zenon, <1>2, <1>4, <1>5 DEF AllTrue

\* A download that is tried again, or given up, keeps the invariant.
LEMMA RetryStep ==
    ASSUME AllTrue, download.phase \in {"head", "shards"}, booted = None,
           UNCHANGED downloadOnly, UNCHANGED <<requests, flash>>, faults' \in Nat, Retry
    PROVE  AllTrue'
PROOF
  <1>1. /\ download # Idle /\ download.url \in {info, None}
        /\ download \in [phase : {"idle", "head", "shards"}, md5 : FileOrNone,
                         url : FileOrNone, try : Nat, recv_len : Nat]
        /\ flash \in [AllBlocks -> FileOrNone]
    <2>1. /\ download \in [phase : {"idle", "head", "shards"}, md5 : FileOrNone,
                           url : FileOrNone, try : Nat, recv_len : Nat]
          /\ flash \in [AllBlocks -> FileOrNone]
      BY Zenon DEF AllTrue, UpdateTypes
    <2>2. Idle.phase = "idle"
      BY DEF Idle
    <2>3. download # Idle
      BY <2>2
    <2> QED
      BY Zenon, <2>1, <2>3 DEF AllTrue, Stages
  <1>2. CASE /\ download' = [download EXCEPT !.phase = "head", !.try = @ + 1]
             /\ UNCHANGED httpResults
    <2>0. PICK t \in Nat : t = download.try + 1
      BY <1>1
    <2>1. /\ download' \in [phase : {"idle", "head", "shards"}, md5 : FileOrNone,
                            url : FileOrNone, try : Nat, recv_len : Nat]
          /\ download'.md5 = download.md5 /\ download'.url = download.url
          /\ download'.phase = "head"
      <3>1. download' = [download EXCEPT !.phase = "head", !.try = t]
        BY <1>2, <2>0
      <3> QED
        BY Zenon, <1>1, <3>1
    <2> QED
      BY <1>1, <1>2, <2>1, GoesOn
  <1>3. CASE DownloadDone(FALSE)
    BY Zenon, <1>1, <1>3, Ends DEF DownloadDone
  <1> QED
    BY Zenon, <1>2, <1>3 DEF Retry

\* The other steps of a download keep the invariant.
LEMMA DownloadStep ==
    ASSUME AllTrue,
           DownloadHead \/ shard_download_handle \/ DownloadVerify \/ DownloadFails
    PROVE  AllTrue'
PROOF
  <1>1. /\ booted = None /\ UNCHANGED downloadOnly /\ UNCHANGED requests
        /\ download.phase \in {"head", "shards"}
    BY Zenon DEF DownloadHead, shard_download_handle, DownloadVerify, DownloadFails, Running
  <1>2. /\ download # Idle /\ info \in Update
        /\ download.phase = "shards" => download.url = info
        /\ download.md5 = info /\ download.url \in {info, None}
        /\ download \in [phase : {"idle", "head", "shards"}, md5 : FileOrNone,
                         url : FileOrNone, try : Nat, recv_len : Nat]
        /\ flash \in [AllBlocks -> FileOrNone] /\ faults \in Nat
    <2>1. /\ download \in [phase : {"idle", "head", "shards"}, md5 : FileOrNone,
                           url : FileOrNone, try : Nat, recv_len : Nat]
          /\ flash \in [AllBlocks -> FileOrNone] /\ faults \in Nat
      BY Zenon DEF AllTrue, UpdateTypes
    <2>2. Idle.phase = "idle"
      BY DEF Idle
    <2>3. download # Idle
      BY <1>1, <2>2
    <2> QED
      BY Zenon, <2>1, <2>3 DEF AllTrue, Stages, NoDownload
  <1>3. CASE DownloadHead
    <2>1. /\ download' = [download EXCEPT !.phase = "shards", !.url = info, !.recv_len = 0]
          /\ UNCHANGED <<flash, httpResults, faults>>
      BY <1>3 DEF DownloadHead
    <2>2. /\ download' \in [phase : {"idle", "head", "shards"}, md5 : FileOrNone,
                            url : FileOrNone, try : Nat, recv_len : Nat]
          /\ download'.md5 = download.md5 /\ download'.url = info
      BY Zenon, <1>2, <2>1 DEF FileOrNone
    <2> QED
      BY <1>1, <1>2, <2>1, <2>2, GoesOn
  <1>4. CASE shard_download_handle
    <2> DEFINE rest == size[download.url] - download.recv_len
               n == IF rest < HTTP_DOWNLOADER_BLOCK_SIZE THEN rest
                    ELSE HTTP_DOWNLOADER_BLOCK_SIZE
    <2>1. /\ download' = [download EXCEPT !.recv_len = download.recv_len + n]
          /\ rest > 0 /\ download.url = info /\ UNCHANGED <<httpResults, faults>>
      BY <1>2, <1>4 DEF shard_download_handle
    <2>2. flash' \in [AllBlocks -> FileOrNone]
      BY <1>2, <1>4, <2>1 DEF shard_download_handle, Swapped, FileOrNone
    <2>3. download.recv_len + n \in Nat
      <3>1. rest \in Int /\ HTTP_DOWNLOADER_BLOCK_SIZE \in Nat /\ download.recv_len \in Nat
        BY <1>2, <2>1, BlocksNat, UpdateAssumption
      <3> QED
        BY <2>1, <3>1
    <2>4. /\ download' \in [phase : {"idle", "head", "shards"}, md5 : FileOrNone,
                            url : FileOrNone, try : Nat, recv_len : Nat]
          /\ download'.md5 = download.md5 /\ download'.url = download.url
      BY <1>2, <2>1, <2>3
    <2> QED
      BY <1>1, <1>2, <2>1, <2>2, <2>4, GoesOn
  <1>5. CASE DownloadVerify
    <2>1. UNCHANGED flash /\ download.url = info
      BY <1>2, <1>5 DEF DownloadVerify
    <2>2. CASE md5_verification(download)
      <3>0. Holds(download.url)
        BY <2>2 DEF md5_verification
      <3>1. Holds(info) /\ faults' \in Nat
        <4>1. faults' = faults \/ faults' = faults + 1
          BY Zenon, <1>5, <2>2 DEF DownloadVerify, Fault
        <4> QED
          BY <1>2, <2>1, <3>0, <4>1
      <3>2. \/ DownloadDone(TRUE)
            \/ download' = Idle /\ UNCHANGED httpResults
        BY Zenon, <1>5, <2>2 DEF DownloadVerify
      <3>3. download' = Idle
        BY <3>2 DEF DownloadDone
      <3> QED
        BY Zenon, <1>1, <1>2, <2>1, <3>1, <3>2, <3>3, Ends
    <2>3. CASE ~md5_verification(download)
      BY Zenon, <1>1, <1>2, <1>5, <2>1, <2>3, RetryStep DEF DownloadVerify
    <2> QED
      BY <2>2, <2>3
  <1>6. CASE DownloadFails
    BY <1>1, <1>2, <1>6, RetryStep DEF DownloadFails, Fault
  <1> QED
    BY <1>3, <1>4, <1>5, <1>6

-----------------------------------------------------------------------------
(* The theorems. *)

\* In every behaviour the invariant holds: while the server waits for the end of
\* an update, an update has one stage at a time and the flash holds what the record
\* names once it is reported.
THEOREM UpdateInvariant == Spec => []UpdateInv
PROOF
  <1>1. Init => UpdateInv
    <2> SUFFICES ASSUME Init PROVE AllTrue
      BY DEF UpdateInv
    <2>1. UpdateTypes
      <3>1. download \in [phase : {"idle", "head", "shards"}, md5 : FileOrNone,
                          url : FileOrNone, try : Nat, recv_len : Nat]
        BY DEF Init, Idle, FileOrNone
      <3>2. flash \in [AllBlocks -> FileOrNone]
        BY DEF Init, FileOrNone
      <3> QED
        BY <3>1, <3>2 DEF Init, UpdateTypes
    <2>2. NoPages /\ NoDownload /\ BulkPages = {}
      BY DEF Init, NoPages, NoDownload, BulkPages
    <2> QED
      BY <2>1, <2>2
         DEF Init, AllTrue, Stages, NoDownload, PagesTrue, BootTrue, TransferTrue, NoPages
  <1>2. UpdateInv /\ [Next]_vars => UpdateInv'
    <2> SUFFICES ASSUME UpdateInv, [Next]_vars, ~overlapped'
                 PROVE  AllTrue'
      BY DEF UpdateInv
    <2>1. CASE UNCHANGED vars
      <3> USE <2>1 DEF vars, recordVars, downloadVars, inputVars
      <3>1. AllTrue
        BY DEF UpdateInv
      <3>2. NoPages' = NoPages /\ NoDownload' = NoDownload /\ Loaded' = Loaded
        BY DEF NoPages, NoDownload, Loaded, Holds
      <3>3. UpdateTypes'
        BY <3>1 DEF AllTrue, UpdateTypes
      <3>4. Stages'
        BY <3>1, <3>2 DEF AllTrue, Stages, Holds
      <3>5. PagesTrue'
        BY Zenon, <3>1, <3>2 DEF AllTrue, PagesTrue
      <3>6. BootTrue'
        BY Zenon, <3>1 DEF AllTrue, BootTrue, Holds
      <3>7. TransferTrue'
        BY Zenon, <3>1 DEF AllTrue, TransferTrue, BulkPages, Broadcast
      <3> QED
        BY <3>3, <3>4, <3>5, <3>6, <3>7 DEF AllTrue
    <2>2. CASE VersionRequest
      BY <2>2, VersionStep DEF UpdateInv, VersionRequest
    <2>3. ASSUME NEW u \in Update, manager_update_response(u)
          PROVE  AllTrue'
      BY Zenon, <2>3, ResponseStep DEF UpdateInv, manager_update_response
    <2>4. ASSUME NEW u \in Update, NEW missing, SpecificDataRequest(u, missing)
          PROVE  AllTrue'
      BY <2>4, RequestStep DEF UpdateInv, SpecificDataRequest
    <2>5. CASE manager_start_update
      BY Zenon, <2>5, StartStep DEF UpdateInv, manager_start_update, inputVars
    <2>6. CASE OtaResult
      BY <2>6, ResultStep DEF UpdateInv, OtaResult, inputVars
    <2>7. CASE DownloadTake
      BY <2>7, TakeStep DEF UpdateInv, DownloadTake, downloadOnly, inputVars
    <2>8. CASE DownloadHead \/ shard_download_handle \/ DownloadVerify \/ DownloadFails
      <3>1. overlapped' = overlapped
        BY Zenon, <2>8 DEF DownloadHead, shard_download_handle, DownloadVerify, DownloadFails,
           downloadOnly, inputVars
      <3> QED
        BY <2>8, <3>1, DownloadStep DEF UpdateInv
    <2>9. CASE Waiting
      BY <2>1, <2>9 DEF Waiting
    <2> QED
      BY <2>1, <2>2, <2>3, <2>4, <2>5, <2>6, <2>7, <2>8, <2>9 DEF Next, Downloader
  <1> QED
    BY <1>1, <1>2, PTL DEF Spec

\* Every page that manager_ota_msg_of_data puts together carries data of the file
\* that its header names, if the server waits.
THEOREM PagesOfNamedFile == Spec => []PageTrue
PROOF
  <1>1. UpdateInv => PageTrue
    BY DEF UpdateInv, AllTrue, PagesTrue, PageTrue
  <1> QED
    BY <1>1, UpdateInvariant, PTL

\* The access point only boots into a complete file that was named for it, if the
\* server waits.
THEOREM BootsNamedFile == Spec => []BootSound
PROOF
  <1>1. UpdateInv => BootSound
    BY DEF UpdateInv, AllTrue, BootTrue, BootSound
  <1> QED
    BY <1>1, UpdateInvariant, PTL

\* manager_ota_msg_result only declares a transfer over when every block of the file
\* was broadcast, if the server waits.
THEOREM TransfersComplete == Spec => TransferComplete
PROOF
  <1>1. ASSUME UpdateInv, [Next]_vars, ~overlapped, state = "START_TRANSFER_DATA",
               state' = "STOP"
        PROVE  \A b \in Blocks(size[info]) :
                  \E p \in sent : p.header = info /\ p.block = b
    <2>1. AllTrue
      BY <1>1 DEF UpdateInv
    <2>2. ~manager_start_update
      BY <1>1, <2>1 DEF manager_start_update, AllTrue, Stages, NoDownload
    <2>3. OtaResult
      BY Zenon, <1>1, <2>2
         DEF Next, Downloader, VersionRequest, manager_update_response,
             SpecificDataRequest, DownloadTake, DownloadHead, shard_download_handle,
             DownloadVerify, DownloadFails, Waiting, vars, recordVars, downloadOnly
    <2>4. /\ otaPages # <<>> /\ Head(otaPages).result = "bulk"
          /\ manager_start_send_page(Tail(otaPages), state, address, file_len)
      BY <1>1, <2>3 DEF OtaResult
    <2>5. /\ Loaded
          /\ \A b \in Blocks(file_len) : b * Bin < address => Broadcast(b)
      BY <2>1, <2>4, BulkHead
    <2>6. address \in Nat /\ file_len \in Nat /\ faults \in Nat
      BY <2>1 DEF AllTrue, UpdateTypes
    <2>7. PICK a \in Nat, n \in Nat : a = address /\ n = file_len
      BY <2>6
    <2>8. PICK q, st : q = Tail(otaPages) /\ st = state
      BY Zenon
    <2>9. manager_start_send_page(q, st, a, n)
      BY <2>4, <2>7, <2>8
         DEF manager_start_send_page, SendData, manager_ota_send_state, Post, Fault
    <2>10. address >= file_len
      <3>1. (a < n /\ state' = st) \/ a >= n
        BY Zenon, <2>6, <2>9, SendPageCases
      <3> QED
        BY <1>1, <2>7, <2>8, <3>1
    <2> SUFFICES ASSUME NEW b \in Blocks(size[info])
                 PROVE  Broadcast(b)
      BY DEF Broadcast
    <2>11. b \in Nat /\ b \in Blocks(file_len)
      BY Zenon, <2>5, BlocksNat DEF Loaded
    <2>12. b * Bin < file_len /\ b * Bin \in Nat
      BY <2>6, <2>11, BlockBelow, BlockOf
    <2>13. b * Bin < address
      BY <2>6, <2>10, <2>12
    <2> QED
      BY <2>5, <2>11, <2>13
  <1>2. UpdateInv /\ [Next]_vars =>
          [~overlapped /\ state = "START_TRANSFER_DATA" /\ state' = "STOP" =>
             \A b \in Blocks(size[info]) :
                \E p \in sent : p.header = info /\ p.block = b]_vars
    BY <1>1
  <1> QED
    BY <1>2, UpdateInvariant, PTL DEF Spec, TransferComplete

\* The page that ends the pages under way is one of the resend chain.
LEMMA ResentNew ==
    ASSUME NEW q \in Seq(Page), NEW b, otaPages' = Append(q, ResendPage(b))
    PROVE  b \in Resent'
PROOF
  <1>1. Len(q) \in Nat
    OBVIOUS
  <1>2. /\ Len(q) + 1 \in DOMAIN Append(q, ResendPage(b))
        /\ Append(q, ResendPage(b))[Len(q) + 1] = ResendPage(b)
    BY <1>1
  <1>3. ResendPage(b).result = "resend" /\ ResendPage(b).block = b
    BY DEF ResendPage
  <1> QED
    BY <1>2, <1>3 DEF Resent

\* The flags that a step of the resend chain clears.
LEMMA FlagsCleared ==
    ASSUME UpdateTypes, NEW q \in Seq(Page), NEW f, f \subseteq AllBlocks,
           manager_resend_data(q, f), faults' = faults
    PROVE  \A b \in f : b \in flag' \cup Resent' \/ b * Bin >= file_len
PROOF
  <1>1. \A b \in f \ flag' : b * Bin >= file_len \/ otaPages' = Append(q, ResendPage(b))
    BY ResendCases
  <1> QED
    BY <1>1, ResentNew

\* No request for a block is dropped, and a flag is only cleared when the block is
\* broadcast, is beyond the file, or another transfer starts, unless a message is
\* lost; if the server waits.
THEOREM FlagsServed == Spec => FlagServed
PROOF
  <1>1. ASSUME UpdateInv, [Next]_vars, ~overlapped, faults' = faults,
               NEW b \in flag \ flag'
        PROVE  b \in Resent' \/ httpResults' # httpResults \/ b * Bin >= file_len
    <2>1. /\ UpdateTypes /\ Stages /\ flag \subseteq AllBlocks /\ otaPages \in Seq(Page)
          /\ httpResults \in Seq([ok : BOOLEAN, down_file_size : Nat])
      BY <1>1 DEF UpdateInv, AllTrue, UpdateTypes
    <2>2. CASE manager_start_update
      <3>1. httpResults # <<>> /\ httpResults' = Tail(httpResults)
        BY <2>2 DEF manager_start_update
      <3> QED
        BY <2>1, <3>1
    <2>3. CASE OtaResult
      <3>1. manager_resend_data(Tail(otaPages), flag) /\ otaPages # <<>>
        BY <1>1, <2>3 DEF OtaResult
      <3>5. Tail(otaPages) \in Seq(Page)
        BY <2>1, <3>1
      <3>2. PICK q \in Seq(Page) : q = Tail(otaPages)
        BY Zenon, <3>5
      <3>3. PICK f : f = flag
        OBVIOUS
      <3>4. manager_resend_data(q, f)
        BY Zenon, <3>1, <3>2, <3>3 DEF manager_resend_data, SendData, Post, Fault
      <3> QED
        BY <1>1, <2>1, <3>3, <3>4, FlagsCleared
    <2>4. ASSUME NEW u \in Update, NEW missing, SpecificDataRequest(u, missing)
          PROVE  b \in Resent' \/ b * Bin >= file_len
      <3>1. PICK f : f = flag \cup UNION {manager_set_resend_sub_flag(c * Bin,
                                    Length(c, size[info])) : c \in missing}
        BY Zenon
      <3>2. flag' # flag
        BY <1>1
      <3>3. manager_resend_data(otaPages, f) \/ flag' = f
        BY Zenon, <2>4, <3>1, <3>2 DEF SpecificDataRequest, manager_ota_resend_data
      <3>4. manager_resend_data(otaPages, f) /\ f \subseteq AllBlocks /\ b \in f
        BY <1>1, <2>1, <3>1, <3>3 DEF manager_set_resend_sub_flag
      <3>5. PICK q \in Seq(Page) : q = otaPages
        BY <2>1
      <3>6. manager_resend_data(q, f)
        BY Zenon, <3>4, <3>5 DEF manager_resend_data, SendData, Post, Fault
      <3> QED
        BY <1>1, <2>1, <3>4, <3>6, FlagsCleared
    <2>5. ~(/\ ~manager_start_update /\ ~OtaResult
            /\ ~\E u \in Update : \E missing \in SUBSET Blocks(size[u]) \ {{}} :
                   SpecificDataRequest(u, missing))
      <3>1. flag' # flag
        BY <1>1
      <3> QED
        BY Zenon, <1>1, <3>1
           DEF Next, Downloader, VersionRequest, manager_update_response, DownloadTake,
               DownloadHead, shard_download_handle, DownloadVerify, DownloadFails, Waiting,
               vars, recordVars, downloadOnly
    <2> QED
      BY <2>2, <2>3, <2>4, <2>5
  <1>2. ASSUME UpdateInv, ~overlapped, faults' = faults,
               NEW missing \in SUBSET Blocks(file_len), state = "STOP",
               SpecificDataRequest(info, missing), NEW b \in missing,
               (b + 1) * Bin <= file_len
        PROVE  b \in flag' \cup Resent'
    <2>1. /\ UpdateTypes /\ PagesTrue /\ flag \subseteq AllBlocks /\ otaPages \in Seq(Page)
          /\ file_len \in Nat
      BY <1>2 DEF UpdateInv, AllTrue, UpdateTypes
    <2>2. Loaded
      BY <1>2, <2>1 DEF SpecificDataRequest, PagesTrue
    <2>3. file_len = size[info] /\ b \in AllBlocks /\ b \in Nat
      BY Zenon, <1>2, <2>2, BlocksNat DEF Loaded
    <2>4. PICK f : f = flag \cup UNION {manager_set_resend_sub_flag(c * Bin,
                                  Length(c, size[info])) : c \in missing}
      BY Zenon
    <2>5. b \in f /\ f \subseteq AllBlocks
      <3>1. Bin \in Nat \ {0}
        BY UpdateAssumption DEF Bin
      <3>2. (b + 1) * Bin \in Nat
        BY <2>3, <3>1
      <3>3. Length(b, size[info]) = Bin
        BY <1>2, <2>1, <2>3, <3>2 DEF Length
      <3>4. (b * Bin) \div Bin = b /\ Bin \div Bin = 1
        BY <2>3, <3>1, BlockOf
      <3>5. b \in manager_set_resend_sub_flag(b * Bin, Bin)
        BY <2>3, <3>4 DEF manager_set_resend_sub_flag
      <3> QED
        BY <1>2, <2>1, <2>4, <3>3, <3>5 DEF manager_set_resend_sub_flag
    <2>6. manager_resend_data(otaPages, f) \/ flag' = f
      BY <1>2, <2>4 DEF SpecificDataRequest, manager_ota_resend_data
    <2>7. CASE flag' = f
      BY <2>5, <2>7
    <2>8. CASE manager_resend_data(otaPages, f)
      <3>1. PICK q \in Seq(Page) : q = otaPages
        BY <2>1
      <3>2. manager_resend_data(q, f)
        BY <2>8, <3>1 DEF manager_resend_data, SendData, Post, Fault
      <3>3. b * Bin < file_len /\ b * Bin \in Nat
        BY Zenon, <1>2, <2>1, <2>3, BlockBelow, BlockOf
      <3>4. ~(b * Bin >= file_len)
        BY <2>1, <3>3
      <3> QED
        BY <1>2, <2>1, <2>5, <3>2, <3>4, FlagsCleared
    <2> QED
      BY <2>6, <2>7, <2>8
  <1>3. UpdateInv /\ [Next]_vars =>
          [~overlapped /\ faults' = faults =>
             /\ \A b \in flag \ flag' :
                   b \in Resent' \/ httpResults' # httpResults \/ b * Bin >= file_len
             /\ \A missing \in SUBSET Blocks(file_len) :
                   state = "STOP" /\ SpecificDataRequest(info, missing) =>
                      \A b \in missing :
                         (b + 1) * Bin <= file_len => b \in flag' \cup Resent']_vars
    BY <1>1, <1>2
  <1> QED
    BY <1>3, UpdateInvariant, PTL DEF Spec, FlagServed

=============================================================================
