------------------------------- MODULE Update -------------------------------
(***************************************************************************)
(* Firmware update over the air: the server names a file, the downloader   *)
(* task writes it to the OTA partition of the flash and checks it, and the *)
(* logic task either boots the access point into it or broadcasts it block *)
(* by block to the devices, which may ask for blocks again.                *)
(*                                                                         *)
(* Each handler of the logic task is one action. The shared record is      *)
(* manager_update_parment; the downloader reads the URL from it at every   *)
(* try but keeps the checksum it was given. A broadcast page is in         *)
(* otaPages from the moment it is posted until the logic task takes its    *)
(* result (SendPath has the steps in between, which keep the order).       *)
(***************************************************************************)
EXTENDS Integers, Sequences, FiniteSets, Functions

CONSTANTS
    Update,          \* the files the server may name, one answer each
    size,            \* size[u]: length of the file in bytes
    kind,            \* kind[u]: what the answer is for, see Kind
    active,          \* active[u]: the "state" field of the answer
    None,            \* no file
    MANAGER_OTA_SEND_BIN_SIZE,
    RT_ALIGN_SIZE,
    HTTP_DOWNLOADER_BLOCK_SIZE,
    HTTP_DOWNLOADER_RETRY,
    MaxInput,        \* bound on questions and requests of devices
    MaxFault         \* bound on lost messages, failed codings and downloads

\* An answer for the devices, for this access point, or for an access point
\* with another version (manager_check_ap_update_info).
Kind == {"iote", "ap", "apOther"}

ASSUME UpdateAssumption ==
    /\ None \notin Update
    /\ size \in [Update -> Nat \ {0}]
    /\ kind \in [Update -> Kind]
    /\ active \in [Update -> BOOLEAN]
    /\ MANAGER_OTA_SEND_BIN_SIZE \in Nat \ {0}
    /\ RT_ALIGN_SIZE \in Nat \ {0}
    /\ MANAGER_OTA_SEND_BIN_SIZE % RT_ALIGN_SIZE = 0
    /\ HTTP_DOWNLOADER_BLOCK_SIZE \in Nat \ {0}
    /\ HTTP_DOWNLOADER_BLOCK_SIZE % MANAGER_OTA_SEND_BIN_SIZE = 0
    /\ HTTP_DOWNLOADER_RETRY \in Nat \ {0}
    /\ MaxInput \in Nat /\ MaxFault \in Nat

Bin == MANAGER_OTA_SEND_BIN_SIZE
CeilDiv(n, d) == (n + d - 1) \div d
RT_ALIGN(n) == CeilDiv(n, RT_ALIGN_SIZE) * RT_ALIGN_SIZE
Blocks(len) == 0 .. CeilDiv(len, Bin) - 1
AllBlocks == UNION {Blocks(size[u]) : u \in Update}

VARIABLES
    state,           \* MANAGER_UPDATE_STATE
    address,         \* ota_op_address, from the start of the partition
    info,            \* the file that the record's strings describe
    file_len,        \* info.file_len
    flag,            \* rem_sub_flag: the blocks whose bit is set
    sub_flag_num,    \* bytes of rem_sub_flag, 0 before the first transfer
    otaPages,        \* broadcast pages under way, oldest first
    requests,        \* http_downloader_handle: the checksums asked for
    download,        \* what the downloader task is doing
    httpResults,     \* its results in the logic task's queue
    flash,           \* the file whose data a block of the partition holds
    questions,       \* questions of devices passed to the server
    answered,        \* the files the server has named
    booted,          \* what the access point was booted into
    halted,          \* the logic task freed a pointer it never set
    inputs, faults,
    sent,            \* history: the data pages that were posted
    overlapped       \* history: the server answered while UnderWay

recordVars == <<state, address, info, file_len, flag, sub_flag_num>>
downloadVars == <<requests, download, flash>>
inputVars == <<questions, answered, inputs, overlapped>>
vars == <<recordVars, downloadVars, inputVars, otaPages, httpResults, booted,
          halted, faults, sent>>

Idle == [phase |-> "idle", md5 |-> None, url |-> None, try |-> 0, recv_len |-> 0]

Init ==
    /\ state = "DEFAULT" /\ address = 0 /\ info = None /\ file_len = 0
    /\ flag = {} /\ sub_flag_num = 0
    /\ otaPages = <<>>
    /\ requests = <<>> /\ download = Idle
    /\ httpResults = <<>>
    /\ flash = [b \in AllBlocks |-> None]
    /\ questions = 0 /\ answered = {}
    /\ booted = None /\ halted = FALSE
    /\ inputs = 0 /\ faults = 0
    /\ sent = {} /\ overlapped = FALSE

Running == booted = None /\ ~halted
Fault == faults < MaxFault /\ faults' = faults + 1

-----------------------------------------------------------------------------
(* Broadcast pages. *)

\* manager_logic_send_to_operater with OTA_RADIO, after the pages q: the page is
\* posted, or lost at a full queue.
Post(q, p) ==
    \/ otaPages' = Append(q, p) /\ UNCHANGED faults
    \/ otaPages' = q /\ Fault

StatePage == [result |-> "state", header |-> info, block |-> 0]
manager_ota_send_state(q) == Post(q, StatePage)

\* Variant: the last, shorter block is taken for the end of the file.
manager_ota_msg_of_data_short(addr, len) ==
    IF addr + Bin > len THEN -1 ELSE Bin

\* How many bytes the block at addr of a file of len bytes has, or -1.
manager_ota_msg_of_data(addr, len) ==
    IF addr + Bin > len /\ addr < len THEN RT_ALIGN(len - addr)
    ELSE IF addr >= len THEN -1 ELSE Bin

\* Variant: the address is advanced before the flash is read.
SendDataLate(q, result, addr) ==
    LET b == addr \div Bin IN
    /\ Post(q, [result |-> result, header |-> info, block |-> b])
    /\ sent' = sent \cup {[block |-> b, header |-> info,
                           data |-> IF b + 1 \in AllBlocks THEN flash[b + 1] ELSE None]}

\* A page with the block at addr; its result starts the next page of a chain.
SendData(q, result, addr) ==
    /\ Post(q, [result |-> result, header |-> info, block |-> addr \div Bin])
    /\ sent' = sent \cup {[block |-> addr \div Bin, header |-> info,
                           data |-> flash[addr \div Bin]]}

\* The next page of a transfer. A failed coding is tried five times and then
\* reported to the devices; the state stays.
manager_start_send_page(q, st, addr, len) ==
    LET n == manager_ota_msg_of_data(addr, len) IN
    \/ /\ n > 0
       /\ address' = addr + n
       /\ state' = st
       /\ \/ SendData(q, "bulk", addr)
          \/ /\ Fault
             /\ otaPages' = Append(q, StatePage)
             /\ UNCHANGED sent
    \/ /\ n < 0
       /\ address' = 0
       /\ state' = "STOP"
       /\ manager_ota_send_state(q)
       /\ UNCHANGED sent

-----------------------------------------------------------------------------
(* The flags of the blocks to send again. *)

\* Room for one flag per block and per byte of the last one, all cleared.
manager_init_resend_sub_flag(len) ==
    /\ sub_flag_num' = CeilDiv((len \div Bin) + (len % Bin), 8)
    /\ flag' = {}

\* The blocks of a range of len bytes: a part of a block is not counted.
manager_set_resend_sub_flag(offset, len) ==
    {b \in AllBlocks : offset \div Bin <= b /\ b < offset \div Bin + len \div Bin}

\* The lowest flagged block, or -2.
manager_get_resend_sub_flag(f) ==
    IF f = {} THEN -2 ELSE CHOOSE b \in f : \A c \in f : b <= c

\* Variant: the whole byte of the flag is cleared.
manager_clean_resend_sub_flag_byte(f, b) == {c \in f : c \div 8 # b \div 8}

manager_clean_resend_sub_flag(f, b) == f \ {b}

\* The next page of a resend, after the pages q and with the flags f. A block
\* beyond the file, and a failed coding, end the chain; beyond the file the function also frees a
\* pointer that was never set, which the heap survives or not.
manager_resend_data(q, f) ==
    LET loc == manager_get_resend_sub_flag(f)
        n == manager_ota_msg_of_data(loc * Bin, file_len)
    IN  \/ /\ loc < 0
           /\ flag' = f
           /\ otaPages' = q
           /\ UNCHANGED <<address, sent, faults, halted>>
        \/ /\ loc >= 0
           /\ flag' = manager_clean_resend_sub_flag(f, loc)
           /\ \/ /\ n > 0
                 /\ address' = loc * Bin + n
                 /\ \/ SendData(q, "resend", loc * Bin)
                    \/ Fault /\ otaPages' = q /\ UNCHANGED sent
                 /\ UNCHANGED halted
              \/ /\ n < 0
                 /\ address' = loc * Bin
                 /\ halted' \in BOOLEAN
                 /\ otaPages' = q
                 /\ UNCHANGED <<sent, faults>>

-----------------------------------------------------------------------------
(* The handlers of the logic task. *)

Busy == state \notin {"STOP", "DEFAULT"}

\* manager_recv_wiota_msg, APP_CMD_UPDATE_VERSION_REQUEST.
VersionRequest ==
    /\ Running /\ inputs < MaxInput
    /\ inputs' = inputs + 1
    /\ IF Busy
       THEN manager_ota_send_state(otaPages) /\ UNCHANGED questions
       ELSE questions' = questions + 1 /\ UNCHANGED <<otaPages, faults>>
    /\ UNCHANGED <<recordVars, downloadVars, answered, overlapped, httpResults,
                   booted, halted, sent>>

Length(b, len) == IF (b + 1) * Bin > len THEN len - b * Bin ELSE Bin

\* manager_ota_resend_data: a chain is started unless block 0 was waiting.
manager_ota_resend_data(missing) ==
    LET before == manager_get_resend_sub_flag(flag)
        all == flag \cup UNION {manager_set_resend_sub_flag(b * Bin,
                                    Length(b, size[info])) : b \in missing}
    IN  IF before # 0
        THEN manager_resend_data(otaPages, all)
        ELSE flag' = all /\ UNCHANGED <<address, otaPages, sent, faults, halted>>

\* manager_recv_wiota_msg, APP_CMD_GET_SPECIFIC_DATA_REQUEST, of a device that
\* heard a page of file u and misses some blocks.
SpecificDataRequest(u, missing) ==
    /\ Running /\ inputs < MaxInput
    /\ inputs' = inputs + 1
    /\ \E p \in sent : p.header = u
    /\ \/ /\ state # "STOP"
          /\ manager_ota_send_state(otaPages)
          /\ UNCHANGED <<address, flag, sent, halted>>
       \/ /\ state = "STOP" /\ u = info
          /\ manager_ota_resend_data(missing)
       \/ /\ state = "STOP" /\ u # info     \* manager_check_iote_resend_quest
          /\ UNCHANGED <<address, flag, sent, otaPages, faults, halted>>
    /\ UNCHANGED <<state, info, file_len, sub_flag_num, downloadVars, questions,
                   answered, overlapped, httpResults, booted>>

\* A transfer, a resend or a download is under way.
UnderWay ==
    \/ requests # <<>> \/ download # Idle \/ httpResults # <<>>
    \/ \E i \in DOMAIN otaPages : otaPages[i].result # "state"

\* manager_net_data_logic, APP_CMD_UPDATE_VERSION_SPONSE, with
\* manager_update_response and manager_start_down.
manager_update_response(u) ==
    /\ Running /\ questions > 0 /\ u \notin answered
    /\ questions' = questions - 1
    /\ answered' = answered \cup {u}
    /\ overlapped' = (overlapped \/ UnderWay)
    /\ info' = u /\ file_len' = size[u]
    /\ \/ /\ kind[u] = "apOther"
          /\ state' = "RESPONSE_MSG"
          /\ UNCHANGED <<address, requests>>
       \/ /\ kind[u] # "apOther"
          /\ state' = "DOWN_PAGE"
          /\ address' = 0
          /\ requests' = IF active[u] THEN Append(requests, u) ELSE requests
    /\ UNCHANGED <<flag, sub_flag_num, download, flash, otaPages, httpResults,
                   inputs, booted, halted, faults, sent>>

\* manager_start_update: boot into the file, broadcast it, or give up.
manager_start_update ==
    LET r == Head(httpResults) IN
    /\ Running /\ httpResults # <<>>
    /\ httpResults' = Tail(httpResults)
    /\ \/ /\ r.ok /\ kind[info] = "ap"          \* manager_ap_update
          /\ state' = "SYSTEM"
          /\ booted' = [file |-> info, len |-> r.down_file_size]
          /\ UNCHANGED <<address, file_len, flag, sub_flag_num, otaPages,
                         faults, sent>>
       \/ /\ r.ok /\ kind[info] # "ap"          \* manager_start_iote_update
          /\ file_len' = r.down_file_size
          /\ manager_init_resend_sub_flag(r.down_file_size)
          /\ IF active[info]
             THEN manager_start_send_page(otaPages, "START_TRANSFER_DATA", 0,
                                          r.down_file_size)
             ELSE /\ address' = 0 /\ state' = "START_TRANSFER_DATA"
                  /\ UNCHANGED <<otaPages, faults, sent>>
          /\ UNCHANGED booted
       \/ /\ ~r.ok
          /\ state' = "STOP"
          /\ UNCHANGED <<address, file_len, flag, sub_flag_num, otaPages,
                         booted, faults, sent>>
    /\ UNCHANGED <<info, downloadVars, inputVars, halted>>

\* The result of the oldest page: manager_ota_msg_result,
\* manager_ota_resend_msg_result or manager_ota_state_result; or it is lost.
OtaResult ==
    LET p == Head(otaPages)
        rest == Tail(otaPages)
    IN  /\ Running /\ otaPages # <<>>
        /\ \/ /\ p.result = "bulk"
              /\ manager_start_send_page(rest, state, address, file_len)
              /\ UNCHANGED <<flag, halted>>
           \/ /\ p.result = "resend"
              /\ manager_resend_data(rest, flag)
              /\ UNCHANGED state
           \/ /\ otaPages' = rest
              /\ (p.result = "state" /\ UNCHANGED faults) \/ Fault
              /\ UNCHANGED <<state, address, flag, sent, halted>>
        /\ UNCHANGED <<info, file_len, sub_flag_num, downloadVars, inputVars,
                       httpResults, booted>>

-----------------------------------------------------------------------------
(* The downloader task. *)

downloadOnly == <<recordVars, inputVars, otaPages, booted, halted, sent>>

\* manager_downloader_task takes a request.
DownloadTake ==
    /\ Running /\ download = Idle /\ requests # <<>>
    /\ download' = [Idle EXCEPT !.phase = "head", !.md5 = Head(requests), !.try = 1]
    /\ requests' = Tail(requests)
    /\ UNCHANGED <<downloadOnly, flash, httpResults, faults>>

\* webclient_downloader: the length of the file that the record's URL names now.
DownloadHead ==
    /\ Running /\ download.phase = "head"
    /\ download' = [download EXCEPT !.phase = "shards", !.url = info, !.recv_len = 0]
    /\ UNCHANGED <<downloadOnly, requests, flash, httpResults, faults>>

\* byte_swap turns words of RT_ALIGN_SIZE bytes round. The first bytes of a word
\* that is not whole go behind the length that is written: they are lost.
Swapped(from, n, b) ==
    IF n % RT_ALIGN_SIZE # 0 /\ from + n < (b + 1) * Bin THEN None ELSE download.url

\* shard_download_handle: erase, swap and write one shard.
shard_download_handle ==
    LET from == download.recv_len
        rest == size[download.url] - from
        n == IF rest < HTTP_DOWNLOADER_BLOCK_SIZE THEN rest
             ELSE HTTP_DOWNLOADER_BLOCK_SIZE
    IN  /\ Running /\ download.phase = "shards" /\ rest > 0
        /\ flash' = [b \in AllBlocks |->
                        IF from <= b * Bin /\ b * Bin < from + n THEN Swapped(from, n, b)
                        ELSE IF from <= b * Bin
                                /\ b * Bin < from + HTTP_DOWNLOADER_BLOCK_SIZE
                        THEN None ELSE flash[b]]
        /\ download' = [download EXCEPT !.recv_len = from + n]
        /\ UNCHANGED <<downloadOnly, requests, httpResults, faults>>

Holds(u) == \A b \in Blocks(size[u]) : flash[b] = u

\* What was written is compared with the checksum of the request.
md5_verification(d) ==
    /\ d.recv_len >= size[d.url]
    /\ d.url = d.md5 /\ Holds(d.url)

\* The result of a request goes to the logic task.
DownloadDone(ok) ==
    /\ download' = Idle
    /\ httpResults' = Append(httpResults,
          [ok |-> ok, down_file_size |-> IF download.url = None THEN 0
                                         ELSE size[download.url]])

\* Variants: a try that failed counts as a success; the tries are not counted.
RetryOk == DownloadDone(TRUE)

RetryForever ==
    /\ download' = [download EXCEPT !.phase = "head"]
    /\ UNCHANGED httpResults

\* One try of http_ota_download_task ends, well or not; there are
\* HTTP_DOWNLOADER_RETRY tries.
Retry ==
    IF download.try < HTTP_DOWNLOADER_RETRY
    THEN /\ download' = [download EXCEPT !.phase = "head", !.try = @ + 1]
         /\ UNCHANGED httpResults
    ELSE DownloadDone(FALSE)

DownloadVerify ==
    /\ Running /\ download.phase = "shards"
    /\ download.recv_len = size[download.url]
    /\ \/ /\ md5_verification(download)
          /\ \/ DownloadDone(TRUE) /\ UNCHANGED faults
             \/ download' = Idle /\ Fault /\ UNCHANGED httpResults
       \/ /\ ~md5_verification(download)
          /\ Retry
          /\ UNCHANGED faults
    /\ UNCHANGED <<downloadOnly, requests, flash>>

\* The server or the connection fails.
DownloadFails ==
    /\ Running /\ download.phase \in {"head", "shards"}
    /\ Fault
    /\ Retry
    /\ UNCHANGED <<downloadOnly, requests, flash>>

-----------------------------------------------------------------------------
\* Both tasks wait for messages, or the access point reboots.
Waiting ==
    /\ ~Running \/ (~UnderWay /\ otaPages = <<>>)
    /\ UNCHANGED vars

Downloader == DownloadTake \/ DownloadHead \/ shard_download_handle \/ DownloadVerify

Next ==
    \/ VersionRequest
    \/ \E u \in Update :
          \/ manager_update_response(u)
          \/ \E missing \in SUBSET Blocks(size[u]) \ {{}} :
                SpecificDataRequest(u, missing)
    \/ manager_start_update
    \/ OtaResult
    \/ Downloader
    \/ DownloadFails
    \/ Waiting

Spec == Init /\ [][Next]_vars

\* Both tasks take every message, each page is reported, a download goes on.
FairSpec ==
    Spec /\ WF_vars(manager_start_update) /\ WF_vars(OtaResult) /\ WF_vars(Downloader)

-----------------------------------------------------------------------------
(* Properties. *)

\* manager_ota_msg_of_data puts the versions and the checksum of the record in
\* front of what it reads from the flash: as long as the server waits for the end
\* of an update before it names the next file, the data is of the file named.
PageTrue == ~overlapped => \A p \in sent : p.data = p.header

\* The access point is only booted into the file that the server named for it,
\* complete and with the right length, if the server waits in that way.
BootSound ==
    booted # None /\ ~overlapped =>
        /\ Holds(booted.file) /\ booted.len = size[booted.file]
        /\ kind[booted.file] = "ap"

\* A transfer that is declared over has broadcast every block of the file, if the
\* server waits in that way.
TransferComplete ==
    [][~overlapped /\ state = "START_TRANSFER_DATA" /\ state' = "STOP" =>
          \A b \in Blocks(size[info]) :
              \E p \in sent : p.header = info /\ p.block = b]_vars

\* The block of a page of the resend chain.
Resent == {otaPages[i].block : i \in {j \in DOMAIN otaPages : otaPages[j].result = "resend"}}

\* No request for a block is dropped: of a device's request, every whole block is
\* flagged or broadcast at once, and the flag of a block is only cleared when the
\* block is broadcast, when another transfer starts, when the block is beyond
\* the file, or when the broadcast fails; if the server waits in that way.
FlagServed ==
    [][~overlapped /\ faults' = faults =>
         /\ \A b \in flag \ flag' :
               b \in Resent' \/ httpResults' # httpResults \/ b * Bin >= file_len
         /\ \A missing \in SUBSET Blocks(file_len) :
               state = "STOP" /\ SpecificDataRequest(info, missing) =>
                  \A b \in missing :
                     (b + 1) * Bin <= file_len => b \in flag' \cup Resent']_vars

Activated == info \in Update /\ active[info]

\* An update that the server activates and does not deactivate ends: the access
\* point boots or the state goes back to STOP, in which new updates and resends
\* are served, whatever other files the server names meanwhile, unless a message
\* or a page was lost.
UpdateEnds ==
    (state \in {"DOWN_PAGE", "START_TRANSFER_DATA"} /\ Activated)
       ~> (state \in {"SYSTEM", "STOP"} \/ ~Activated \/ halted \/ faults > 0)

=============================================================================
