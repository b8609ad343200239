----------------------------- MODULE Settings -----------------------------
(***************************************************************************)
(* A change of the camera's settings, from the web page to CPU0 and back.  *)
(*                                                                         *)
(*  - App_EN673CGIHandler stores the settings a request changes in gtUser, *)
(*    marks them in unVideoChangeFlag and starts a VideoChangeTask.  It    *)
(*    runs in the thread of the TCP/IP stack, whose priority is above that *)
(*    of every other task here: one step;                                  *)
(*  - a VideoChangeTask posts a command for each marked setting, with      *)
(*    CS_PASSMSG in its hands, and clears the marks;                       *)
(*  - RuntimeMsg of CPU0 applies the commands, and answers a change of the *)
(*    RTSP port with the port it listens on;                               *)
(*  - RuntimeMsg of CPU1, in the timer task, stores this port in gtUser.   *)
(*                                                                         *)
(* At boot a VideoChangeTask posts the settings that CPU0 cannot know.     *)
(* The job rings are bounded queues here, as PassMsg shows they are; a     *)
(* MsgPut or MsgGet is one step, and is possible when no task holds the    *)
(* key over a batch.                                                       *)
(***************************************************************************)
EXTENDS SettingsState

batch == <<vpc, vkey, at, varg>>
zero  == <<cpu0, cmd, applied, lost>>

Command == [item : Items, val : Values]
NoCommand == [item |-> "port", val |-> Default]

Init == /\ user = [i \in Items |-> Default]
        /\ vflag = Boot
        /\ vpc = [t \in Tasks |-> IF t = 0 THEN "start" ELSE "none"]
        /\ vkey = Nobody /\ at = 1 /\ varg = NoValue
        /\ vrequests = 0
        /\ jobs = <<>> /\ answers = <<>>
        /\ cpu0 = "poll" /\ cmd = NoCommand
        /\ applied = [i \in Items |-> IF i \in Boot THEN NoValue ELSE Default]
        /\ lost = FALSE
        /\ echo = NoValue

Goto(t, l) == vpc' = [vpc EXCEPT ![t] = l]

-----------------------------------------------------------------------------
(* App_EN673CGIHandler.  What CPU0 reads in gtUser itself, as the login it *)
(* was given a pointer to, is stored without a mark.                       *)

Request(new) ==
    LET changed == {i \in Items : new[i] # user[i]} IN
    /\ vrequests < ChangeRequests
    /\ ChangeSpaced => Settled
    /\ \A i \in Boot : new[i] = user[i]
    /\ vrequests' = vrequests + 1
    /\ user' = new
    /\ vflag' = changed
    /\ IF changed # {} THEN Goto(vrequests + 1, "start") ELSE UNCHANGED vpc
    /\ UNCHANGED <<vkey, at, varg, jobs, answers, zero, echo>>

-----------------------------------------------------------------------------
(* VideoChangeTask.                                                        *)

Start(t) ==
    /\ vpc[t] = "start"
    /\ Goto(t, IF vflag # {} THEN "lock" ELSE "done")
    /\ UNCHANGED <<user, vflag, vkey, at, varg, vrequests, jobs, answers, zero, echo>>

Lock(t) ==
    /\ vpc[t] = "lock"
    /\ vkey = Nobody
    /\ vkey' = t
    /\ at' = 1
    /\ Goto(t, "test")
    /\ UNCHANGED <<user, vflag, varg, vrequests, jobs, answers, zero, echo>>

Test(t) ==
    /\ vpc[t] = "test" /\ at <= Len(Order)
    /\ IF Order[at] \in vflag
         THEN Goto(t, "load") /\ UNCHANGED at
         ELSE at' = at + 1 /\ UNCHANGED vpc
    /\ UNCHANGED <<user, vflag, vkey, varg, vrequests, jobs, answers, zero, echo>>

Load(t) ==
    /\ vpc[t] = "load"
    /\ varg' = user[Order[at]]
    /\ Goto(t, "put")
    /\ UNCHANGED <<user, vflag, vkey, at, vrequests, jobs, answers, zero, echo>>

(* When the ring is full the setting is read and tried again.              *)
Put(t) ==
    /\ vpc[t] = "put"
    /\ IF Len(jobs) < ChangeCapacity
         THEN /\ jobs' = Append(jobs, [item |-> Order[at], val |-> varg])
              /\ at' = at + 1
              /\ Goto(t, "test")
         ELSE /\ Goto(t, "load")
              /\ UNCHANGED <<jobs, at>>
    /\ varg' = NoValue
    /\ UNCHANGED <<user, vflag, vkey, vrequests, answers, zero, echo>>

(* Mutant: the marks stay.                                                 *)
ClearNothing(t) ==
    /\ vpc[t] = "test" /\ at > Len(Order)
    /\ Goto(t, "unlock")
    /\ UNCHANGED <<user, vflag, vkey, at, varg, vrequests, jobs, answers, zero, echo>>

Clear(t) ==
    /\ vpc[t] = "test" /\ at > Len(Order)
    /\ vflag' = {}
    /\ Goto(t, "unlock")
    /\ UNCHANGED <<user, vkey, at, varg, vrequests, jobs, answers, zero, echo>>

(* Mutant: the key is not given back.                                      *)
UnlockForgotten(t) ==
    /\ vpc[t] = "unlock"
    /\ Goto(t, "done")
    /\ UNCHANGED <<user, vflag, vkey, at, varg, vrequests, jobs, answers, zero, echo>>

Unlock(t) ==
    /\ vpc[t] = "unlock"
    /\ vkey' = Nobody
    /\ at' = 1
    /\ Goto(t, "done")
    /\ UNCHANGED <<user, vflag, varg, vrequests, jobs, answers, zero, echo>>

-----------------------------------------------------------------------------
(* CPU0: MsgGet and the command.                                           *)

GetJob ==
    /\ cpu0 = "poll" /\ vkey = Nobody
    /\ jobs # <<>>
    /\ cmd' = Head(jobs)
    /\ jobs' = Tail(jobs)
    /\ cpu0' = "apply"
    /\ UNCHANGED <<user, vflag, batch, vrequests, answers, applied, lost, echo>>

Apply ==
    /\ cpu0 = "apply" /\ cmd.item # "port"
    /\ applied' = [applied EXCEPT ![cmd.item] = cmd.val]
    /\ cpu0' = "poll"
    /\ UNCHANGED <<user, vflag, batch, vrequests, jobs, answers, cmd, lost, echo>>

(* rtsp_port_change: when it cannot bind or listen it keeps the old port.  *)
ChangePort ==
    /\ cpu0 = "apply" /\ cmd.item = "port"
    /\ \/ applied' = [applied EXCEPT !["port"] = cmd.val]
       \/ PortMayFail /\ UNCHANGED applied
    /\ cpu0' = "answer"
    /\ UNCHANGED <<user, vflag, batch, vrequests, jobs, answers, cmd, lost, echo>>

(* Mutant: the answer is the port that was asked for.                      *)
AnswerAsked ==
    /\ cpu0 = "answer" /\ vkey = Nobody
    /\ Len(answers) < ChangeCapacity
    /\ answers' = Append(answers, cmd.val)
    /\ lost' = FALSE
    /\ cpu0' = "poll"
    /\ UNCHANGED <<user, vflag, batch, vrequests, jobs, cmd, applied, echo>>

Answer ==
    /\ cpu0 = "answer" /\ vkey = Nobody
    /\ Len(answers) < ChangeCapacity
    /\ answers' = Append(answers, applied["port"])
    /\ lost' = FALSE
    /\ cpu0' = "poll"
    /\ UNCHANGED <<user, vflag, batch, vrequests, jobs, cmd, applied, echo>>

(* Somebody holds the key for a moment: MsgPut fails, and is not tried     *)
(* again.                                                                  *)
DropAnswer ==
    /\ cpu0 = "answer"
    /\ lost' = (cmd.val # applied["port"])
    /\ cpu0' = "poll"
    /\ UNCHANGED <<user, vflag, batch, vrequests, jobs, answers, cmd, applied, echo>>

-----------------------------------------------------------------------------
(* CPU1: RuntimeMsg in the timer task.                                     *)

GetAnswer ==
    /\ echo = NoValue /\ vkey = Nobody
    /\ answers # <<>>
    /\ echo' = Head(answers)
    /\ answers' = Tail(answers)
    /\ UNCHANGED <<user, vflag, batch, vrequests, jobs, zero>>

StorePort ==
    /\ echo # NoValue
    /\ user' = [user EXCEPT !["port"] = echo]
    /\ echo' = NoValue
    /\ UNCHANGED <<vflag, batch, vrequests, jobs, answers, zero>>

-----------------------------------------------------------------------------
Change(t) == Start(t) \/ Lock(t) \/ Test(t) \/ Load(t) \/ Put(t) \/ Clear(t) \/ Unlock(t)
Cpu0 == GetJob \/ Apply \/ ChangePort \/ Answer \/ DropAnswer
Timer == GetAnswer \/ StorePort

Next == \/ \E new \in [Items -> Values] : Request(new)
        \/ \E t \in Tasks : Change(t)
        \/ Cpu0
        \/ Timer

Spec == Init /\ [][Next]_change

(* The tasks and CPU0 run.  Nobody has to send a request.                  *)
LiveSpec == /\ Spec
            /\ \A t \in Tasks : WF_change(Change(t))
            /\ WF_change(Cpu0) /\ WF_change(Timer)

-----------------------------------------------------------------------------
(* Properties.                                                             *)

Holding == {"test", "load", "put", "unlock"}

(* Every variable has its type, and the key is with the task that is       *)
(* between MsgLock and MsgUnlock.                                          *)
TypeOK ==
    /\ user \in [Items -> Values] /\ vflag \subseteq Items
    /\ vpc \in [Tasks -> {"none", "start", "lock", "done"} \cup Holding]
    /\ vkey \in Tasks \cup {Nobody}
    /\ \A t \in Tasks : vkey = t <=> vpc[t] \in Holding
    /\ at \in 1 .. Len(Order) + 1 /\ varg \in Values \cup {NoValue}
    /\ \A t \in Tasks : /\ vpc[t] \in {"load", "put"} => at <= Len(Order)
                        /\ vpc[t] = "put" => varg # NoValue
    /\ vrequests \in 0 .. ChangeRequests
    /\ \A t \in Tasks : t > vrequests => vpc[t] = "none"
    /\ jobs \in Seq(Command) /\ Len(jobs) <= ChangeCapacity
    /\ answers \in Seq(Values) /\ Len(answers) <= ChangeCapacity
    /\ cpu0 \in {"poll", "apply", "answer"} /\ cmd \in Command
    /\ applied \in [Items -> Values \cup {NoValue}] /\ applied["port"] # NoValue
    /\ lost \in BOOLEAN
    /\ echo \in Values \cup {NoValue}
=============================================================================
