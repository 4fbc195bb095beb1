------------------------------- MODULE SpiCom -------------------------------
(***************************************************************************)
(* The commands of the gateway behind SPI (uc_wiota_spi_com.c): the thread *)
(* dl_irq takes a batch out of the downlink ring, checks every command and *)
(* its backup, executes it and answers; the radio answers the messages     *)
(* that were not to be waited for later, from its own thread.              *)
(*                                                                         *)
(* A command is a header of two words, then, if it has data, the data and  *)
(* a checksum word. The gateway writes every command twice, one copy after *)
(* the other. A word is the number of its command and its place in it, or  *)
(* Broken.                                                                 *)
(***************************************************************************)
EXTENDS Integers, Sequences, FiniteSets, SequencesExt

CONSTANTS Batches,      \* sequences of commands [type, cmd, is_block, data_len]
          MaxBroken,    \* words broken on the way (bound)
          MaxLost       \* messages to the gateway that do not arrive (bound)

VARIABLES batch, broken,                \* what the gateway wrote, the words broken
          dl_data, sub_data_offset,     \* the copy of dl_irq and its place in it
          task,                         \* dl_irq: parse, wait, or over: reset,
                                        \* sleep, halted (RT_ASSERT)
          executed,                     \* the commands executed, in order
          waiting,                      \* callbacks to come, per command
          answered, unsent, dropped,    \* answers: in the ring, given up, ring full
          g_add_cnt, g_del_cnt,
          counting, loaded              \* per thread: where its g_del_cnt++ is,
                                        \* the value it has read

answers == <<answered, unsent, dropped>>
vars == <<batch, broken, dl_data, sub_data_offset, task, executed, waiting, answers,
          g_add_cnt, g_del_cnt, counting, loaded>>

Threads == {"dl_irq", "radio"}

Broken == <<0, 0>>

Header == 2     \* sizeof(cmd_header_t), in words

\* The words of one copy: header, data and checksum.
Words(c) == IF c.data_len > 0 THEN Header + c.data_len + 1 ELSE Header

\* A batch as the gateway writes it.
Copy(b, i) == [k \in 1..Words(b[i]) |-> <<i, k>>]

Written(b) == FlattenSeq([i \in 1..Len(b) |-> Copy(b, i) \o Copy(b, i)])

Init == /\ batch \in Batches
        /\ LET all == Written(batch)
           IN  /\ broken \in {Range(f) \ {0} : f \in [1..MaxBroken -> 0..Len(all)]}
               /\ dl_data = [k \in 1..Len(all) |-> IF k \in broken THEN Broken ELSE all[k]]
        /\ sub_data_offset = 0 /\ task = "parse" /\ executed = <<>>
        /\ waiting = [i \in 1..Len(batch) |-> 0]
        /\ answered = waiting /\ unsent = waiting /\ dropped = waiting
        /\ g_add_cnt = 0 /\ g_del_cnt = 0
        /\ counting = [t \in Threads |-> "no"] /\ loaded = [t \in Threads |-> 0]

----------------------------------------------------------------------------
(* Answers *)

Sum(f) == FoldFunction(+, 0, f)

\* uc_wiota_send_data_to_gateway for n answers to command i: u of them are not
\* sent (no memory, state word broken: an error is returned), d find no room in
\* the ring (success is returned).
uc_wiota_send_data_to_gateway(i, n, u, d) ==
    /\ u + d <= n /\ Sum(unsent) + Sum(dropped) + u + d <= MaxLost
    /\ answered' = [answered EXCEPT ![i] = @ + n - u - d]
    /\ unsent' = [unsent EXCEPT ![i] = @ + u]
    /\ dropped' = [dropped EXCEPT ![i] = @ + d]

\* Sub-frame data, a reception without a message and an unknown command have no
\* answer.
Promised(c) == IF \/ c.cmd \in {"ADD_DL_SUBF_DATA", "RECV_BY_FN"}
                  \/ c.type \in {"SEND", "OTHER"} /\ c.cmd = "UNKNOWN"
                  \/ c.type = "UNKNOWN" THEN 0 ELSE 1

IsData(c) == c.cmd \in {"SEND_DATA", "RECV_SM_BY_FN"}

\* Variant: counted whether it could be sent or not.
uc_wiota_handle_send_result_always(t, i) ==
    /\ \E u, d \in 0..1 : uc_wiota_send_data_to_gateway(i, 1, u, d)
    /\ counting' = [counting EXCEPT ![t] = IF IsData(batch[i]) THEN "read" ELSE @]
    /\ UNCHANGED <<g_del_cnt, loaded>>

\* uc_wiota_handle_send_result in thread t, and the callbacks that only send. The
\* answer is written under cmd_lock; g_del_cnt++ follows without it.
uc_wiota_handle_send_result(t, i) ==
    /\ \E u, d \in 0..1 :
          /\ uc_wiota_send_data_to_gateway(i, 1, u, d)
          /\ counting' = [counting EXCEPT ![t] = IF IsData(batch[i]) /\ u = 0
                                                 THEN "read" ELSE @]
    /\ UNCHANGED <<g_del_cnt, loaded>>

\* g_del_cnt++ of line 964: the two threads may be between its read and its write.
CountRead(t) ==
    /\ counting[t] = "read" /\ counting' = [counting EXCEPT ![t] = "write"]
    /\ loaded' = [loaded EXCEPT ![t] = g_del_cnt]
    /\ UNCHANGED g_del_cnt

CountWrite(t) ==
    /\ counting[t] = "write" /\ counting' = [counting EXCEPT ![t] = "no"]
    /\ g_del_cnt' = loaded[t] + 1
    /\ loaded' = [loaded EXCEPT ![t] = 0]

counters == <<g_del_cnt, counting, loaded>>

\* wiota_cmd_exec_result, or the answer with the values asked for.
wiota_cmd_exec_result(i, n) ==
    /\ \E u, d \in 0..n : uc_wiota_send_data_to_gateway(i, n, u, d)
    /\ UNCHANGED counters

----------------------------------------------------------------------------
(* The handlers of the five types. An unknown command is answered like the *)
(* others of its type; of type SEND, or of no known type, it ends in       *)
(* RT_ASSERT; of type OTHER it is left unanswered.                         *)

uc_wiota_handle_exec_msg(i) ==
    /\ wiota_cmd_exec_result(i, 1)
    /\ task' = IF batch[i].cmd = "REBOOT" THEN "reset" ELSE task
    /\ UNCHANGED <<waiting, g_add_cnt>>

\* The answer to PAGING_RX_ENTER goes first; if the radio does not sleep, the
\* usual answer follows.
uc_wiota_handle_setup_msg(i) ==
    /\ \/ wiota_cmd_exec_result(i, IF batch[i].cmd = "PAGING_RX_ENTER" THEN 2 ELSE 1)
          /\ UNCHANGED task
       \/ /\ batch[i].cmd = "PAGING_RX_ENTER"
          /\ wiota_cmd_exec_result(i, 1) /\ task' = "sleep"
    /\ UNCHANGED <<waiting, g_add_cnt>>

uc_wiota_handle_query_msg(i) ==
    /\ wiota_cmd_exec_result(i, 1)
    /\ UNCHANGED <<task, waiting, g_add_cnt>>

RT_ASSERT == /\ task' = "halted"
             /\ UNCHANGED <<waiting, answers, g_add_cnt, counters>>

\* Variant: the callback is given to the radio in either case.
uc_wiota_handle_send_msg_both(i) ==
    /\ g_add_cnt' = IF IsData(batch[i]) THEN g_add_cnt + 1 ELSE g_add_cnt
    /\ IF batch[i].is_block THEN uc_wiota_handle_send_result("dl_irq", i)
                            ELSE UNCHANGED <<answers, counters>>
    /\ waiting' = [waiting EXCEPT ![i] = @ + Promised(batch[i])]
    /\ UNCHANGED task

uc_wiota_handle_send_msg(i) ==
    \/ /\ batch[i].cmd # "UNKNOWN"
       /\ g_add_cnt' = IF IsData(batch[i]) THEN g_add_cnt + 1 ELSE g_add_cnt
       /\ IF batch[i].is_block
          THEN uc_wiota_handle_send_result("dl_irq", i) /\ UNCHANGED waiting
          ELSE /\ waiting' = [waiting EXCEPT ![i] = @ + Promised(batch[i])]
               /\ UNCHANGED <<answers, counters>>
       /\ UNCHANGED task
    \/ batch[i].cmd = "UNKNOWN" /\ RT_ASSERT

uc_wiota_handle_other_msg(i) ==
    /\ wiota_cmd_exec_result(i, Promised(batch[i]))
    /\ UNCHANGED <<task, waiting, g_add_cnt>>

Handle(i) == \/ batch[i].type = "EXEC"  /\ uc_wiota_handle_exec_msg(i)
             \/ batch[i].type = "SETUP" /\ uc_wiota_handle_setup_msg(i)
             \/ batch[i].type = "QUERY" /\ uc_wiota_handle_query_msg(i)
             \/ batch[i].type = "SEND"  /\ uc_wiota_handle_send_msg(i)
             \/ batch[i].type = "OTHER" /\ uc_wiota_handle_other_msg(i)
             \/ batch[i].type = "UNKNOWN" /\ RT_ASSERT

----------------------------------------------------------------------------
(* uc_wiota_dl_data_parse: one turn of its loop *)

\* A whole header, or a whole command i, at offset p of m. Words behind the end
\* match nothing.
HeaderAt(m, p) == /\ p + Header <= Len(m) /\ m[p + 1] # Broken
                  /\ \A k \in 1..Header : m[p + k] = <<m[p + 1][1], k>>

CommandAt(m, p, i) == \A k \in 1..Words(batch[i]) :
                         p + k <= Len(m) /\ m[p + k] = <<i, k>>

\* rt_memcpy of the header of command i to offset p.
WithHeader(m, p, i) ==
    [k \in 1..Len(m) |-> IF k \in (p + 1)..(p + Header) THEN <<i, k - p>> ELSE m[k]]

\* Where the header is read: in place, or in the second half of the data.
HeaderPlace == IF HeaderAt(dl_data, sub_data_offset) THEN sub_data_offset
                                                     ELSE Len(dl_data) \div 2

\* Variant: data that is wrong is not looked for a second time.
DataPlace_once(m, i) == sub_data_offset

\* Where the data is read: in place, or one copy behind the start of all data.
DataPlace(m, i) == IF CommandAt(m, sub_data_offset, i) THEN sub_data_offset
                                                       ELSE Words(batch[i])

\* The rest of the batch is left.
Stop == /\ task' = "wait"
        /\ UNCHANGED <<dl_data, sub_data_offset, executed, waiting, answers, g_add_cnt,
                       counters>>

\* Command i has passed its checks, m is the memory they leave.
Execute(i, m) ==
    /\ dl_data' = m
    /\ sub_data_offset' = sub_data_offset + 2 * Words(batch[i])
    /\ executed' = Append(executed, i)
    /\ Handle(i)

uc_wiota_dl_data_parse ==
    /\ task = "parse" /\ counting["dl_irq"] = "no"
    /\ IF sub_data_offset >= Len(dl_data) \/ ~HeaderAt(dl_data, HeaderPlace)
       THEN Stop
       ELSE LET i  == dl_data[HeaderPlace + 1][1]
                m1 == WithHeader(dl_data, sub_data_offset, i)
                p  == DataPlace(m1, i)
                m2 == IF p = sub_data_offset THEN m1 ELSE WithHeader(m1, p, i)
            IN  IF 2 * Words(batch[i]) > Len(dl_data) THEN Stop
                ELSE IF batch[i].data_len = 0 THEN Execute(i, m1)
                ELSE IF CommandAt(m2, p, i) THEN Execute(i, m2) ELSE Stop
    /\ UNCHANGED <<batch, broken>>

----------------------------------------------------------------------------
(* The radio's thread *)

\* A reset or sleeping chip runs nothing; in RT_ASSERT only dl_irq stops.
Alive == task \in {"parse", "wait", "halted"}

\* uc_wiota_send_callback and the others of the commands of type SEND.
uc_wiota_send_callback(i) ==
    /\ Alive /\ waiting[i] > 0 /\ counting["radio"] = "no"
    /\ waiting' = [waiting EXCEPT ![i] = @ - 1]
    /\ uc_wiota_handle_send_result("radio", i)
    /\ UNCHANGED <<batch, broken, dl_data, sub_data_offset, task, executed, g_add_cnt>>

Count(t) == /\ Alive /\ (CountRead(t) \/ CountWrite(t))
            /\ UNCHANGED <<batch, broken, dl_data, sub_data_offset, task, executed,
                           waiting, answers, g_add_cnt>>

Next == \/ uc_wiota_dl_data_parse
        \/ \E i \in 1..Len(batch) : uc_wiota_send_callback(i)
        \/ \E t \in Threads : Count(t)

Spec == Init /\ [][Next]_vars

----------------------------------------------------------------------------
(* Properties *)

\* Where the two copies of command i start.
Place(i) == Len(Written(SubSeq(batch, 1, i - 1)))

Whole(from, n) == (from + 1)..(from + n) \cap broken = {}

Sound(i) == Whole(Place(i), 2 * Words(batch[i]))

\* The two parts of a command, in copy 0 or 1.
HeaderWhole(i, c) == Whole(Place(i) + c * Words(batch[i]), Header)

DataWhole(i, c) == Whole(Place(i) + c * Words(batch[i]) + Header, Words(batch[i]) - Header)

\* The backup of data is looked for where the first command of a batch has it.
DataFound(i) == DataWhole(i, 0) \/ (i = 1 /\ DataWhole(i, 1))

\* What is left of a damaged batch when dl_irq waits again.
\* - A command that comes alone is executed, once, if its header is whole in one of
\*   the two copies and its data in one, not necessarily the same, and not otherwise.
\* - The commands in front of the first broken word are executed first, in order.
\* - If no header in place is broken, every command up to the first one whose data
\*   is not found is executed, once and in order, and none behind it.
\* - A command of which a part is whole in neither copy is never executed.
\* A broken header in place, in a batch of several commands, is replaced by the one
\* in the middle of the data: behind that point the code may execute a command
\* again or leave one out, and nothing is said about order and number.
Rescued ==
    /\ Len(batch) = 1 /\ task # "parse" =>
          executed = IF /\ \E c \in 0..1 : HeaderWhole(1, c)
                        /\ \E c \in 0..1 : DataWhole(1, c) THEN <<1>> ELSE <<>>
    /\ \A n \in 1..Len(batch) : (\A i \in 1..n : Sound(i)) =>
          /\ \A k \in 1..n : k <= Len(executed) => executed[k] = k
          /\ task = "wait" => Len(executed) >= n
    /\ (\A i \in 1..Len(batch) : HeaderWhole(i, 0)) =>
          /\ \A k \in DOMAIN executed : executed[k] = k /\ DataFound(k)
          /\ task = "wait" /\ Len(executed) < Len(batch) => ~DataFound(Len(executed) + 1)
    /\ \A k \in DOMAIN executed : /\ \E c \in 0..1 : HeaderWhole(executed[k], c)
                                  /\ \E c \in 0..1 : DataWhole(executed[k], c)

Times(i) == Cardinality({k \in DOMAIN executed : executed[k] = i})

\* Every time a command is executed it is answered as often as its kind asks for:
\* now, by a callback that is still to come, or not because the message could not
\* be sent or found the ring full. Only a command to sleep that is refused is
\* answered twice.
AnswersMatch ==
    \A i \in 1..Len(batch) :
       LET n == answered[i] + unsent[i] + dropped[i] + waiting[i]
       IN  /\ n >= Times(i) * Promised(batch[i])
           /\ n <= Times(i) * (IF batch[i].cmd = "PAGING_RX_ENTER" THEN 2
                                                                  ELSE Promised(batch[i]))

\* The two counters of uc_wiota_print_data_cnt. Their difference is never less than
\* the messages the radio still has, those whose result could not be sent and those
\* a thread is about to count: g_del_cnt does not run ahead. It is exact as long as
\* one thread counts, that is, if all messages executed were to be waited for or
\* none was; with both kinds an increment can be lost and g_del_cnt stays behind.
\* A result that found the ring full is counted as delivered.
SendsCounted ==
    LET data == {executed[k] : k \in {j \in DOMAIN executed : IsData(batch[executed[j]])}}
        open == Sum([i \in 1..Len(batch) |->
                        IF IsData(batch[i]) THEN waiting[i] + unsent[i] ELSE 0])
                + Cardinality({t \in Threads : counting[t] # "no"})
    IN  /\ g_add_cnt - g_del_cnt >= open
        /\ (\A i, j \in data : batch[i].is_block = batch[j].is_block)
           => g_add_cnt - g_del_cnt = open
=============================================================================
