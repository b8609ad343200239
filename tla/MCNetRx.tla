------------------------------ MODULE MCNetRx ------------------------------
(* The constants of NetRx that a configuration file cannot write, and a    *)
(* bound for the run with all flags.                                       *)
EXTENDS NetRx

OnlyEth == <<"eth">>
EthAndRecord == <<"eth", "rec">>
AllFlags == <<"eth", "rec", "shell">>

RecordIsUp == "rec" \in flags \cup reg0 \cup reg1 \cup regM \/ (flag0 = "rec" /\ isr0 # "off")
ShellIsUp  == "shell" \in flags \cup reg0 \cup reg1 \cup regM \/ main0 \in {"store", "raise"}

(* The encoders' flag and the console's meet that of the receiver, but not *)
(* each other.                                                             *)
OneOther == ~(RecordIsUp /\ ShellIsUp)
=============================================================================
