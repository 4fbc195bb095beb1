------------------------------ MODULE MCSpiCom ------------------------------
(* Instances of SpiCom for TLC. *)
EXTENDS SpiCom

C(type, cmd, is_block, data_len) ==
    [type |-> type, cmd |-> cmd, is_block |-> is_block, data_len |-> data_len]

Run     == C("EXEC", "RUN", FALSE, 0)
Reboot  == C("EXEC", "REBOOT", FALSE, 0)
Set     == C("SETUP", "FREQ_SET", FALSE, 1)
Sleep   == C("SETUP", "PAGING_RX_ENTER", FALSE, 2)
Query   == C("QUERY", "FREQ_GET", FALSE, 1)
Send    == C("SEND", "SEND_DATA", FALSE, 2)
Block   == C("SEND", "SEND_DATA", TRUE, 1)
Temp    == C("SEND", "TEMP_QUERY", FALSE, 1)
ByFn    == C("SEND", "RECV_SM_BY_FN", FALSE, 1)
Recv    == C("SEND", "RECV_BY_FN", FALSE, 1)
Version == C("OTHER", "VERSION_GET", FALSE, 0)
SubData == C("OTHER", "ADD_DL_SUBF_DATA", FALSE, 1)
NoType  == C("UNKNOWN", "UNKNOWN", FALSE, 0)
NoSend  == C("SEND", "UNKNOWN", FALSE, 1)
NoOther == C("OTHER", "UNKNOWN", FALSE, 0)

Commands == {Run, Reboot, Set, Sleep, Query, Send, Block, Temp, ByFn, Recv, Version,
             SubData, NoType, NoSend, NoOther}

\* One command alone, every pair, three of each form, and some that use the radio.
All == {<<c>> : c \in Commands} \cup {<<a, b>> : a \in Commands, b \in Commands}
       \cup {<<a, b, c>> : a \in {Run, Send}, b \in {Version, Block}, c \in {Set, ByFn, Reboot}}
       \cup {<<Send, Block, Block>>, <<Temp, Block, Recv>>, <<Run, Send, Sleep>>}
=============================================================================
