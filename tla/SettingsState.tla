---------------------------- MODULE SettingsState ----------------------------
(* The state of Settings, its parameters with what is assumed of them, and *)
(* what is said about the state; Settings has the steps.                   *)
EXTENDS Naturals, Sequences

CONSTANTS Order,       \* the settings, as VideoChangeTask goes through them
          Boot,        \* the settings that are sent at boot
          Values,      \* the values of a setting
          Default,     \* its value in a new camera
          NoValue,     \* no value
          ChangeCapacity, \* of a job ring (MSGQ_PASS_NUM - 1)
          PortMayFail, \* a port may be taken, or memory may be short
          ChangeSpaced,   \* a request waits until the last one is carried out
          ChangeRequests  \* bound on the requests

Items == {Order[k] : k \in 1 .. Len(Order)}

ASSUME OrderAssumption == /\ Order \in Seq(STRING)
                          /\ \A j, k \in 1 .. Len(Order) : Order[j] = Order[k] => j = k
                          /\ "port" \in Items /\ Boot \subseteq Items \ {"port"}
ASSUME ValueAssumption == Default \in Values /\ NoValue \notin Values
ASSUME BoundAssumption == ChangeCapacity \in Nat \ {0} /\ ChangeRequests \in Nat
ASSUME SwitchAssumption == PortMayFail \in BOOLEAN /\ ChangeSpaced \in BOOLEAN

Tasks == 0 .. ChangeRequests    \* the VideoChangeTasks; 0 is the one of the boot
Nobody == ChangeRequests + 1

VARIABLES
    user,      \* gtUser
    vflag,     \* unVideoChangeFlag
    vpc,       \* where each VideoChangeTask is
    vkey,      \* the VideoChangeTask that holds CS_PASSMSG
    at, varg,  \* its place in Order, and the value it is posting
    vrequests, \* the requests that came
    jobs, answers,  \* gptMsgCpu1to0, gptMsgCpu0to1
    cpu0, cmd, \* where CPU0 is in RuntimeMsg, and nCmd and nArg
    applied,   \* what CPU0 works with; its "port" is gptMsgShare.RtspPort
    lost,      \* CPU0 refused the last port, and its answer was dropped
    echo       \* nArg of RuntimeMsg of CPU1

change == <<user, vflag, vpc, vkey, at, varg, vrequests, jobs, answers, cpu0, cmd, applied,
            lost, echo>>

(* All that was asked has been carried out and answered.                   *)
Settled == /\ vflag = {} /\ \A t \in Tasks : vpc[t] \in {"none", "done"}
           /\ jobs = <<>> /\ answers = <<>>
           /\ cpu0 = "poll" /\ echo = NoValue

-----------------------------------------------------------------------------
(* A setting that is marked has a VideoChangeTask that is yet to look at   *)
(* the marks or to clear them: no mark stays behind to be sent with some   *)
(* later request, however requests and tasks overlap.                      *)
MarksHaveTask ==
    vflag # {} => \E t \in Tasks : vpc[t] \in {"start", "lock", "test", "load", "put"}

(* When each request waits for the one before, CPU0 works with the         *)
(* settings that gtUser shows, whether or not it could take a new RTSP     *)
(* port, as soon as all is carried out; only an answer that is dropped     *)
(* leaves the two with different ports.                                    *)
SettledAgrees ==
    Settled => \A i \in Items : applied[i] = user[i] \/ (i = "port" /\ lost)

(* What is marked is carried out and answered in the end.                  *)
RequestIsCarriedOut == vflag # {} ~> Settled

(* At boot, "rtsp id/pw send cpu0" (init.c).                               *)
BootIsSent == <>(\A i \in Boot : applied[i] # NoValue)
=============================================================================
