-------------------------- MODULE SettingsProofs --------------------------
(***************************************************************************)
(* Theorems about Settings: no mark is left behind, and when requests come *)
(* one after the other the two processors agree in the end, whatever the   *)
(* settings, their values, the size of the rings and the number of         *)
(* requests.                                                               *)
(***************************************************************************)
EXTENDS SettingsPart, TLAPS

(* What is assumed of the settings, in the words of the part.              *)
LEMMA SetOrder == /\ Order \in Seq(STRING)
                  /\ \A j, k \in 1 .. Len(Order) : Order[j] = Order[k] => j = k
                  /\ "port" \in Set!Items /\ Boot \subseteq Set!Items \ {"port"}
  BY OrderAssumption DEF Items, Set!Items

USE SetOrder, ValueAssumption, BoundAssumption, SwitchAssumption

-----------------------------------------------------------------------------
(* Types.                                                                  *)

(* The tasks are numbers, and none of them is Nobody.                      *)
LEMMA SetTaskNumbers == /\ Set!Tasks \subseteq Nat /\ 0 \in Set!Tasks
                        /\ Set!Nobody \notin Set!Tasks
                        /\ \A r \in 0 .. ChangeRequests : r \in Set!Tasks
  BY DEF Set!Tasks, Set!Nobody

(* The places of Order, and what is there.                                 *)
LEMMA SetOrderType == /\ Len(Order) \in Nat
                      /\ \A k \in 1 .. Len(Order) : Order[k] \in Set!Items
                      /\ \A i \in Set!Items : \E k \in 1 .. Len(Order) : Order[k] = i
  BY DEF Set!Items

(* What a ring holds after a command is put in it or taken from it.        *)
LEMMA PutType == ASSUME NEW S, NEW q \in Seq(S), NEW e \in S
                 PROVE  Append(q, e) \in Seq(S) /\ Len(Append(q, e)) = Len(q) + 1
  OBVIOUS

LEMMA GetType == ASSUME NEW S, NEW q \in Seq(S), q # <<>>
                 PROVE  Head(q) \in S /\ Tail(q) \in Seq(S) /\ Len(Tail(q)) = Len(q) - 1
  OBVIOUS

(* The state after boot has its types.                                     *)
LEMMA SetTypesInit == Set!Init => Set!TypeOK
<1> SUFFICES ASSUME Set!Init PROVE Set!TypeOK
  OBVIOUS
<1>1. /\ user \in [Set!Items -> Values] /\ vflag \subseteq Set!Items
      /\ applied \in [Set!Items -> Values \cup {NoValue}] /\ applied["port"] # NoValue
  BY DEF Set!Init
<1>2. vpc \in [Set!Tasks -> {"none", "start", "lock", "done"} \cup Set!Holding]
  BY DEF Set!Init
<1>3. \A t \in Set!Tasks : vpc[t] \notin Set!Holding /\ vkey # t /\ (t > 0 => vpc[t] = "none")
  BY SetTaskNumbers DEF Set!Init, Set!Holding
<1>4. cmd \in Set!Command
  BY DEF Set!Init, Set!Command, Set!NoCommand
<1>5. jobs \in Seq(Set!Command) /\ answers \in Seq(Values) /\ Len(jobs) <= ChangeCapacity
      /\ Len(answers) <= ChangeCapacity
  BY DEF Set!Init
<1>6. at \in 1 .. Len(Order) + 1 /\ vrequests = 0
  BY SetOrderType DEF Set!Init
<1>7. lost \in BOOLEAN
  BY Zenon DEF Set!Init
<1>8. \A t \in Set!Tasks : vpc[t] \notin {"load", "put"}
  BY DEF Set!Init
<1>9. /\ \A t \in Set!Tasks : t > vrequests => vpc[t] = "none"
      /\ vkey = Set!Nobody /\ varg = NoValue /\ cpu0 = "poll" /\ echo = NoValue
  BY <1>3, <1>6 DEF Set!Init
<1> QED BY <1>1, <1>2, <1>3, <1>4, <1>5, <1>6, <1>7, <1>8, <1>9 DEF Set!TypeOK

(* A request starts the next task.                                         *)
LEMMA SetRequestType ==
  ASSUME Set!TypeOK, NEW new \in [Set!Items -> Values], Set!Request(new)
  PROVE  Set!TypeOK'
<1> USE SetTaskNumbers DEF Set!Request, Set!zero
<1>1. vrequests + 1 \in Set!Tasks /\ vrequests \in Nat
  BY DEF Set!TypeOK, Set!Tasks
<1>2. CASE {i \in Set!Items : new[i] # user[i]} = {}
  BY <1>1, <1>2 DEF Set!TypeOK, Set!Tasks
<1>3. CASE {i \in Set!Items : new[i] # user[i]} # {}
  <2>1. vpc' = [vpc EXCEPT ![vrequests + 1] = "start"]
    BY <1>3 DEF Set!Goto
  <2>2. /\ vpc' \in [Set!Tasks -> {"none", "start", "lock", "done"} \cup Set!Holding]
        /\ vpc'[vrequests + 1] = "start"
        /\ \A u \in Set!Tasks : u # vrequests + 1 => vpc'[u] = vpc[u]
    BY <1>1, <2>1 DEF Set!TypeOK
  <2>3. vpc[vrequests + 1] = "none"
    BY <1>1 DEF Set!TypeOK
  <2>4. /\ \A u \in Set!Tasks : vkey' = u <=> vpc'[u] \in Set!Holding
        /\ \A u \in Set!Tasks : u > vrequests' => vpc'[u] = "none"
    BY <1>1, <2>2, <2>3 DEF Set!TypeOK, Set!Holding, Set!Tasks
  <2>5. \A u \in Set!Tasks : /\ vpc'[u] \in {"load", "put"} => at' <= Len(Order)
                            /\ vpc'[u] = "put" => varg' # NoValue
    BY <2>2 DEF Set!TypeOK
  <2>6. vrequests' \in 0 .. ChangeRequests
    BY <1>1 DEF Set!Tasks
  <2> QED BY <2>2, <2>4, <2>5, <2>6 DEF Set!TypeOK
<1> QED BY <1>2, <1>3

(* A step of a VideoChangeTask.                                            *)
LEMMA SetChangeType == ASSUME Set!TypeOK, NEW t \in Set!Tasks, Set!Change(t) PROVE Set!TypeOK'
<1> USE SetTaskNumbers, SetOrderType DEF Set!zero
<1>1. CASE Set!Start(t)
  <2>1. vpc' = [vpc EXCEPT ![t] = IF vflag # {} THEN "lock" ELSE "done"]
    BY <1>1 DEF Set!Start, Set!Goto
  <2> QED BY <1>1, <2>1 DEF Set!Start, Set!TypeOK, Set!Holding
<1>2. CASE Set!Lock(t)
  <2>1. vpc' = [vpc EXCEPT ![t] = "test"]
    BY <1>2 DEF Set!Lock, Set!Goto
  <2> QED BY <1>2, <2>1 DEF Set!Lock, Set!TypeOK, Set!Holding
<1>3. CASE Set!Test(t)
  <2>1. /\ vpc[t] = "test" /\ at <= Len(Order) /\ vkey = t
        /\ UNCHANGED <<user, vflag, vkey, varg, vrequests, jobs, answers, cpu0, cmd, applied,
                       lost, echo>>
    BY <1>3 DEF Set!Test, Set!TypeOK, Set!Holding
  <2>2. CASE vpc' = [vpc EXCEPT ![t] = "load"] /\ at' = at
    BY <2>1, <2>2 DEF Set!TypeOK, Set!Holding
  <2>3. CASE vpc' = vpc /\ at' = at + 1
    <3>1. \A u \in Set!Tasks : vpc[u] \notin {"load", "put"}
      BY <2>1 DEF Set!TypeOK, Set!Holding
    <3> QED BY <2>1, <2>3, <3>1 DEF Set!TypeOK
  <2> QED BY <1>3, <2>2, <2>3 DEF Set!Test, Set!Goto
<1>4. CASE Set!Load(t)
  <2>1. vpc' = [vpc EXCEPT ![t] = "put"]
    BY <1>4 DEF Set!Load, Set!Goto
  <2>2. varg' \in Values
    BY <1>4 DEF Set!Load, Set!TypeOK
  <2> QED BY <1>4, <2>1, <2>2 DEF Set!Load, Set!TypeOK, Set!Holding
<1>5. CASE Set!Put(t)
  <2>1. CASE Len(jobs) < ChangeCapacity
    <3>1. /\ jobs' = Append(jobs, [item |-> Order[at], val |-> varg])
          /\ at' = at + 1 /\ varg' = NoValue
          /\ vpc' = [vpc EXCEPT ![t] = "test"]
          /\ UNCHANGED <<user, vflag, vkey, vrequests, answers, cpu0, cmd, applied, lost, echo>>
      BY <1>5, <2>1 DEF Set!Put, Set!Goto
    <3>2. vpc[t] = "put"
      BY <1>5 DEF Set!Put
    <3>3. [item |-> Order[at], val |-> varg] \in Set!Command
      <4>1. at \in 1 .. Len(Order) /\ varg \in Values
        BY <3>2 DEF Set!TypeOK
      <4>2. Order[at] \in Set!Items
        BY <4>1, SetOrderType
      <4> QED BY <4>1, <4>2 DEF Set!Command
    <3>4. jobs' \in Seq(Set!Command) /\ Len(jobs') <= ChangeCapacity
      BY <2>1, <3>1, <3>3, PutType DEF Set!TypeOK
    <3>5. at' \in 1 .. Len(Order) + 1
      BY <3>1, <3>2 DEF Set!TypeOK
    <3>6. /\ vpc' \in [Set!Tasks -> {"none", "start", "lock", "done"} \cup Set!Holding]
          /\ \A u \in Set!Tasks : vkey' = u <=> vpc'[u] \in Set!Holding
          /\ \A u \in Set!Tasks : vpc'[u] \notin {"load", "put"}
          /\ \A u \in Set!Tasks : u > vrequests' => vpc'[u] = "none"
      BY <3>1, <3>2 DEF Set!TypeOK, Set!Holding
    <3> QED BY <3>1, <3>4, <3>5, <3>6 DEF Set!TypeOK
  <2>2. CASE ~(Len(jobs) < ChangeCapacity)
    <3>1. /\ jobs' = jobs /\ at' = at /\ varg' = NoValue
          /\ vpc' = [vpc EXCEPT ![t] = "load"]
          /\ UNCHANGED <<user, vflag, vkey, vrequests, answers, cpu0, cmd, applied, lost, echo>>
      BY <1>5, <2>2 DEF Set!Put, Set!Goto
    <3>2. vpc[t] = "put"
      BY <1>5 DEF Set!Put
    <3> QED BY <3>1, <3>2 DEF Set!TypeOK, Set!Holding
  <2> QED BY <2>1, <2>2
<1>6. CASE Set!Clear(t)
  <2>1. vpc' = [vpc EXCEPT ![t] = "unlock"]
    BY <1>6 DEF Set!Clear, Set!Goto
  <2> QED BY <1>6, <2>1 DEF Set!Clear, Set!TypeOK, Set!Holding
<1>7. CASE Set!Unlock(t)
  <2>1. vpc' = [vpc EXCEPT ![t] = "done"]
    BY <1>7 DEF Set!Unlock, Set!Goto
  <2> QED BY <1>7, <2>1 DEF Set!Unlock, Set!TypeOK, Set!Holding
<1> QED BY <1>1, <1>2, <1>3, <1>4, <1>5, <1>6, <1>7 DEF Set!Change

(* A step of CPU0 or of the timer task.                                    *)
LEMMA SetAnswerType == ASSUME Set!TypeOK, Set!Cpu0 \/ Set!Timer PROVE Set!TypeOK'
<1> USE DEF Set!batch, Set!zero
<1>1. CASE Set!GetJob
  <2>1. cmd' \in Set!Command /\ jobs' \in Seq(Set!Command) /\ Len(jobs') <= ChangeCapacity
    BY <1>1, GetType DEF Set!GetJob, Set!TypeOK
  <2> QED BY <1>1, <2>1 DEF Set!GetJob, Set!TypeOK
<1>2. CASE Set!Apply
  <2>1. applied' \in [Set!Items -> Values \cup {NoValue}] /\ applied'["port"] # NoValue
    BY <1>2 DEF Set!Apply, Set!TypeOK, Set!Command
  <2> QED BY <1>2, <2>1 DEF Set!Apply, Set!TypeOK
<1>3. CASE Set!ChangePort
  <2>1. applied' \in [Set!Items -> Values \cup {NoValue}] /\ applied'["port"] # NoValue
    BY <1>3 DEF Set!ChangePort, Set!TypeOK, Set!Command
  <2> QED BY <1>3, <2>1 DEF Set!ChangePort, Set!TypeOK
<1>4. CASE Set!Answer
  <2>1. applied["port"] \in Values
    BY DEF Set!TypeOK
  <2>2. answers' \in Seq(Values) /\ Len(answers') <= ChangeCapacity
    BY <1>4, <2>1, PutType DEF Set!Answer, Set!TypeOK
  <2> QED BY <1>4, <2>2 DEF Set!Answer, Set!TypeOK
<1>5. CASE Set!DropAnswer
  <2>1. lost' \in BOOLEAN
    BY <1>5, Zenon DEF Set!DropAnswer
  <2> QED BY <1>5, <2>1 DEF Set!DropAnswer, Set!TypeOK
<1>6. CASE Set!GetAnswer
  <2>1. echo' \in Values /\ answers' \in Seq(Values) /\ Len(answers') <= ChangeCapacity
    BY <1>6, GetType DEF Set!GetAnswer, Set!TypeOK
  <2> QED BY <1>6, <2>1 DEF Set!GetAnswer, Set!TypeOK
<1>7. CASE Set!StorePort
  <2>1. user' \in [Set!Items -> Values]
    BY <1>7 DEF Set!StorePort, Set!TypeOK
  <2> QED BY <1>7, <2>1 DEF Set!StorePort, Set!TypeOK
<1> QED BY <1>1, <1>2, <1>3, <1>4, <1>5, <1>6, <1>7 DEF Set!Cpu0, Set!Timer

(* Every step keeps the types.                                             *)
LEMMA SetTypesStep == Set!TypeOK /\ [Set!Next]_change => Set!TypeOK'
<1> SUFFICES ASSUME Set!TypeOK, [Set!Next]_change PROVE Set!TypeOK'
  OBVIOUS
<1>1. CASE UNCHANGED change
  BY <1>1 DEF change, Set!batch, Set!zero, Set!TypeOK
<1> QED BY <1>1, SetRequestType, SetChangeType, SetAnswerType DEF Set!Next

(* Every variable keeps its type, and the key is with one task.            *)
THEOREM SetTypes == Set!Spec => []Set!TypeOK
  BY SetTypesInit, SetTypesStep, PTL DEF Set!Spec, Set!change, change

-----------------------------------------------------------------------------
(* Marks.                                                                  *)

(* A mark stays only with a task that is yet to look at it or to clear it. *)
LEMMA SetMarksStep == Set!TypeOK /\ Set!MarksHaveTask /\ [Set!Next]_change => Set!MarksHaveTask'
<1> SUFFICES ASSUME Set!TypeOK, Set!MarksHaveTask, [Set!Next]_change PROVE Set!MarksHaveTask'
  OBVIOUS
<1> USE DEF Set!MarksHaveTask
<1>1. ASSUME NEW new \in [Set!Items -> Values], Set!Request(new) PROVE Set!MarksHaveTask'
  <2>1. vrequests + 1 \in Set!Tasks
    BY <1>1 DEF Set!Request, Set!TypeOK, Set!Tasks
  <2>2. vflag' # {} => vpc' = [vpc EXCEPT ![vrequests + 1] = "start"]
    BY <1>1 DEF Set!Request, Set!Goto
  <2> QED BY <2>1, <2>2 DEF Set!TypeOK
<1>2. ASSUME NEW t \in Set!Tasks, Set!Change(t) PROVE Set!MarksHaveTask'
  <2> SUFFICES ASSUME vflag' # {}
               PROVE  \E u \in Set!Tasks : vpc'[u] \in {"start", "lock", "test", "load", "put"}
    OBVIOUS
  <2>1. vflag' = vflag
    BY <1>2 DEF Set!Change, Set!Start, Set!Lock, Set!Test, Set!Load, Set!Put, Set!Clear,
           Set!Unlock
  <2>2. vpc'[t] \in {"lock", "test", "load", "put"} \/ (vpc[t] = "unlock" /\ vpc'[t] = "done")
    BY <1>2, <2>1 DEF Set!Change, Set!Start, Set!Lock, Set!Test, Set!Load, Set!Put, Set!Clear,
           Set!Unlock, Set!Goto, Set!TypeOK
  <2>3. \A u \in Set!Tasks : u # t => vpc'[u] = vpc[u]
    BY <1>2 DEF Set!Change, Set!Start, Set!Lock, Set!Test, Set!Load, Set!Put, Set!Clear,
           Set!Unlock, Set!Goto, Set!TypeOK
  <2> QED BY <2>1, <2>2, <2>3
<1>3. CASE Set!Cpu0 \/ Set!Timer \/ UNCHANGED change
  BY <1>3 DEF Set!Cpu0, Set!Timer, Set!GetJob, Set!Apply, Set!ChangePort, Set!Answer,
         Set!DropAnswer, Set!GetAnswer,
              Set!StorePort, Set!batch, Set!zero, change
<1> QED BY <1>1, <1>2, <1>3 DEF Set!Next

(* The task of the boot has the marks of the boot.                         *)
LEMMA SetMarksInit == Set!Init => Set!MarksHaveTask
<1> SUFFICES ASSUME Set!Init PROVE vpc[0] = "start" /\ 0 \in Set!Tasks
  BY DEF Set!MarksHaveTask
<1> QED BY SetTaskNumbers DEF Set!Init

(* The part's marks are the marks of the whole.                            *)
LEMMA SetMarksHere == Set!MarksHaveTask => MarksHaveTask
  BY DEF Set!MarksHaveTask, MarksHaveTask, Set!Tasks, Tasks

(* A setting that is marked has a task that will send it or finds it       *)
(* cleared, however many requests overlap.                                 *)
THEOREM NoMarkForgotten == Set!Spec => []MarksHaveTask
  BY SetTypesInit, SetTypesStep, SetMarksInit, SetMarksStep, SetMarksHere, PTL
     DEF Set!Spec, Set!change, change

-----------------------------------------------------------------------------
(* Agreement.                                                              *)

Active(t) == vpc[t] \notin {"none", "done"}

(* A request starts its task when the others are done.                     *)
OneTask == \A t, u \in Set!Tasks : Active(t) /\ Active(u) => t = u

(* Task t is going to post setting i, if it is marked.                     *)
Posts(t, i) == \/ vpc[t] \in {"start", "lock"}
               \/ /\ vpc[t] \in {"test", "load", "put"}
                  /\ \E k \in 1 .. Len(Order) : at <= k /\ Order[k] = i

(* The places where a change of setting i can be: a task is going to post  *)
(* it, it is in the job ring, CPU0 has it in hand, its answer is on the    *)
(* way back.                                                               *)
Ahead(i)  == i \in vflag /\ \E t \in Set!Tasks : Posts(t, i)
Queued(i) == \E k \in 1 .. Len(jobs) : jobs[k].item = i
InHand(i) == cpu0 # "poll" /\ cmd.item = i
Returning(i) == i = "port" /\ (answers # <<>> \/ echo # NoValue)

(* It is in one place at a time, and once.                                 *)
OnePlace ==
    /\ \A i \in Set!Items : /\ Ahead(i)  => ~Queued(i) /\ ~InHand(i) /\ ~Returning(i)
                            /\ Queued(i) => ~InHand(i) /\ ~Returning(i)
                            /\ InHand(i) => ~Returning(i)
    /\ \A j, k \in 1 .. Len(jobs) : jobs[j].item = jobs[k].item => j = k
    /\ Len(answers) <= 1
    /\ echo # NoValue => answers = <<>>

(* What is on the way to CPU0 is what gtUser shows, and what is on the way *)
(* back is the port CPU0 listens on.                                       *)
Fresh ==
    /\ \A t \in Set!Tasks : /\ vpc[t] \in {"load", "put"} => Order[at] \in vflag
                            /\ vpc[t] = "put" => varg = user[Order[at]]
    /\ \A k \in 1 .. Len(jobs) : jobs[k].val = user[jobs[k].item]
    /\ cpu0 # "poll" => cmd.val = user[cmd.item]
    /\ cpu0 = "answer" => cmd.item = "port"
    /\ answers # <<>> => answers[1] = applied["port"]
    /\ echo # NoValue => echo = applied["port"]

Quiet(i) == ~Ahead(i) /\ ~Queued(i) /\ ~InHand(i) /\ ~Returning(i)
Agrees == \A i \in Set!Items : Quiet(i) => applied[i] = user[i] \/ (i = "port" /\ lost)

AgreeInv == Set!TypeOK /\ Set!MarksHaveTask /\ OneTask /\ OnePlace /\ Fresh /\ Agrees

(* Nothing is on its way at the start but what the boot's task will send.  *)
LEMMA AgreeInit == Set!Init => AgreeInv
<1> SUFFICES ASSUME Set!Init PROVE AgreeInv
  OBVIOUS
<1>1. /\ \A t \in Set!Tasks : vpc[t] = IF t = 0 THEN "start" ELSE "none"
      /\ jobs = <<>> /\ answers = <<>> /\ cpu0 = "poll" /\ echo = NoValue
      /\ vflag = Boot
      /\ \A i \in Set!Items : user[i] = Default
      /\ \A i \in Set!Items : applied[i] = IF i \in Boot THEN NoValue ELSE Default
  BY Zenon DEF Set!Init
<1>2. Set!MarksHaveTask /\ OneTask
  BY <1>1, SetTaskNumbers DEF Set!MarksHaveTask, OneTask, Active
<1>3. \A i \in Set!Items : ~Queued(i) /\ ~InHand(i) /\ ~Returning(i)
  BY <1>1 DEF Queued, InHand, Returning
<1>4. OnePlace
  BY <1>1, <1>3 DEF OnePlace
<1>5. Fresh
  BY <1>1 DEF Fresh
<1>6. \A i \in Boot : Ahead(i)
  BY <1>1, SetTaskNumbers DEF Ahead, Posts
<1>7. Agrees
  BY <1>1, <1>6 DEF Agrees, Quiet
<1> QED BY <1>2, <1>4, <1>5, <1>7, SetTypesInit DEF AgreeInv

(* A step of one task leaves the others where they are, and it was going   *)
(* on.                                                                     *)
LEMMA OthersStay ==
  ASSUME Set!TypeOK, NEW t \in Set!Tasks, Set!Change(t)
  PROVE  Active(t) /\ \A u \in Set!Tasks : u # t => vpc'[u] = vpc[u]
  BY DEF Active, Set!TypeOK, Set!Change, Set!Start, Set!Lock, Set!Test, Set!Load, Set!Put,
         Set!Clear, Set!Unlock, Set!Goto

(* When requests wait for each other, one task goes on at a time.          *)
LEMMA OneTaskNext ==
  ASSUME ChangeSpaced, Set!TypeOK, OneTask, [Set!Next]_change
  PROVE  OneTask'
<1> USE DEF OneTask, Active
<1>1. ASSUME NEW new \in [Set!Items -> Values], Set!Request(new) PROVE OneTask'
  <2>1. \A t \in Set!Tasks : vpc[t] \in {"none", "done"}
    BY <1>1 DEF Set!Request, Set!Settled
  <2>2. vpc' = vpc \/ vpc' = [vpc EXCEPT ![vrequests + 1] = "start"]
    BY <1>1 DEF Set!Request, Set!Goto
  <2> QED BY <2>1, <2>2 DEF Set!TypeOK
<1>2. ASSUME NEW t \in Set!Tasks, Set!Change(t) PROVE OneTask'
  BY <1>2, OthersStay
<1>3. CASE Set!Cpu0 \/ Set!Timer \/ UNCHANGED change
  BY <1>3 DEF Set!Cpu0, Set!Timer, Set!GetJob, Set!Apply, Set!ChangePort, Set!Answer,
         Set!DropAnswer, Set!GetAnswer,
              Set!StorePort, Set!batch, Set!zero, change
<1> QED BY <1>1, <1>2, <1>3 DEF Set!Next

(* A request finds nothing on its way, and marks what it changes.          *)
LEMMA RequestAgrees ==
  ASSUME ChangeSpaced, AgreeInv, NEW new \in [Set!Items -> Values], Set!Request(new)
  PROVE  OnePlace' /\ Fresh' /\ Agrees'
<1> DEFINE changed == {i \in Set!Items : new[i] # user[i]}
<1>1. /\ jobs' = <<>> /\ answers' = <<>> /\ cpu0' = "poll" /\ echo' = NoValue
      /\ jobs = <<>> /\ answers = <<>> /\ cpu0 = "poll" /\ echo = NoValue
      /\ \A t \in Set!Tasks : vpc[t] \in {"none", "done"}
      /\ user' = new /\ vflag' = changed
      /\ applied' = applied /\ lost' = lost
      /\ changed # {} => vpc' = [vpc EXCEPT ![vrequests + 1] = "start"]
      /\ changed = {} => vpc' = vpc
      /\ vrequests + 1 \in Set!Tasks
  BY DEF Set!Request, Set!Settled, Set!zero, Set!Goto, AgreeInv, Set!TypeOK, Set!Tasks
<1>2. \A i \in Set!Items : Quiet(i)
  BY <1>1 DEF Quiet, Ahead, Posts, Queued, InHand, Returning
<1>3. \A i \in Set!Items : ~Queued(i)' /\ ~InHand(i)' /\ ~Returning(i)'
  BY <1>1 DEF Queued, InHand, Returning
<1>4. OnePlace'
  BY <1>1, <1>3 DEF OnePlace
<1>5. \A t \in Set!Tasks : vpc'[t] \in {"none", "done", "start"}
  BY <1>1 DEF AgreeInv, Set!TypeOK
<1>6. Fresh'
  BY <1>1, <1>5 DEF Fresh
<1>7. \A i \in changed : Ahead(i)'
  BY <1>1 DEF Ahead, Posts, AgreeInv, Set!TypeOK
<1>8. Agrees'
  BY <1>1, <1>2, <1>7 DEF Agrees, Quiet, AgreeInv
<1> QED BY <1>4, <1>6, <1>8

(* Only the task that makes a step goes on, before and after it.           *)
LEMMA AheadOf ==
  ASSUME AgreeInv, OneTask', NEW t \in Set!Tasks, Set!Change(t), NEW i
  PROVE  /\ Ahead(i)  <=> i \in vflag  /\ Posts(t, i)
         /\ Ahead(i)' <=> i \in vflag' /\ Posts(t, i)'
<1>1. Active(t) /\ \A u \in Set!Tasks : u # t => vpc'[u] = vpc[u] /\ ~Active(u)
  BY OthersStay DEF AgreeInv, OneTask
<1>2. \A u \in Set!Tasks : u # t => ~Posts(u, i) /\ ~Posts(u, i)'
  BY <1>1 DEF Posts, Active
<1> QED BY <1>2 DEF Ahead

(* A step of a task that posts nothing.                                    *)
LEMMA TaskMoves ==
  ASSUME AgreeInv, NEW t \in Set!Tasks, Set!Change(t), jobs' = jobs,
         \A i \in Set!Items : Ahead(i)' <=> Ahead(i)
  PROVE  OnePlace' /\ Agrees'
<1>1. UNCHANGED <<user, answers, cpu0, cmd, applied, lost, echo>>
  BY DEF Set!Change, Set!Start, Set!Lock, Set!Test, Set!Load, Set!Put, Set!Clear, Set!Unlock,
         Set!zero
<1>2. \A i \in Set!Items : /\ Queued(i)' = Queued(i) /\ InHand(i)' = InHand(i)
                           /\ Returning(i)' = Returning(i)
  BY <1>1 DEF Queued, InHand, Returning
<1>3. OnePlace'
  BY <1>1, <1>2 DEF AgreeInv, OnePlace
<1>4. Agrees'
  BY <1>1, <1>2 DEF AgreeInv, Agrees, Quiet
<1> QED BY <1>3, <1>4

(* A step of a task leaves what is in the pipeline fresh, when the task    *)
(* has read the setting it posts.                                          *)
LEMMA TaskFresh ==
  ASSUME AgreeInv, NEW t \in Set!Tasks, Set!Change(t), jobs' = jobs,
         vpc'[t] \in {"load", "put"} => Order[at'] \in vflag',
         vpc'[t] = "put" => varg' = user[Order[at']],
         OneTask'
  PROVE  Fresh'
<1>1. UNCHANGED <<user, answers, cpu0, cmd, applied, lost, echo>>
  BY DEF Set!Change, Set!Start, Set!Lock, Set!Test, Set!Load, Set!Put, Set!Clear, Set!Unlock,
         Set!zero
<1>2. \A u \in Set!Tasks : u # t => vpc'[u] \notin {"load", "put"}
  BY OthersStay DEF AgreeInv, OneTask, Active
<1> QED BY <1>1, <1>2 DEF AgreeInv, Fresh

(* A setting that is posted goes from the task to the job ring.            *)
LEMMA PutAgrees ==
  ASSUME AgreeInv, Set!TypeOK', OneTask', NEW t \in Set!Tasks, Set!Put(t),
         Len(jobs) < ChangeCapacity
  PROVE  OnePlace' /\ Fresh' /\ Agrees'
<1> DEFINE posted == Order[at]
<1>1. /\ vpc[t] = "put" /\ vpc'[t] = "test" /\ at' = at + 1
      /\ jobs' = Append(jobs, [item |-> posted, val |-> varg])
      /\ UNCHANGED <<user, vflag, answers, cpu0, cmd, applied, lost, echo>>
  BY DEF Set!Put, Set!Goto, AgreeInv, Set!TypeOK, Set!zero
<1>2. /\ at \in 1 .. Len(Order) /\ posted \in Set!Items
      /\ posted \in vflag /\ varg = user[posted]
  BY <1>1, SetOrderType DEF AgreeInv, Set!TypeOK, Fresh
<1>3. Set!Change(t)
  BY DEF Set!Change
<1>4. \A i \in Set!Items : Posts(t, i)' <=> Posts(t, i) /\ i # posted
  <2> TAKE i \in Set!Items
  <2>1. \A k \in 1 .. Len(Order) : at + 1 <= k /\ Order[k] = i
                                  <=> at <= k /\ Order[k] = i /\ i # posted
    BY <1>2, SetOrderType
  <2> QED BY <1>1, <1>2, <2>1 DEF Posts
<1>5. \A i \in Set!Items : Ahead(i)' <=> Ahead(i) /\ i # posted
  BY <1>1, <1>3, <1>4, AheadOf
<1>6. Ahead(posted)
  BY <1>1, <1>2, <1>3, AheadOf DEF Posts
<1>7. /\ Len(jobs) \in Nat /\ Len(jobs') = Len(jobs) + 1
      /\ jobs'[Len(jobs) + 1].item = posted /\ jobs'[Len(jobs) + 1].val = user[posted]
      /\ \A k \in 1 .. Len(jobs) : jobs'[k] = jobs[k]
  <2>1. jobs \in Seq(Set!Command)
    BY DEF AgreeInv, Set!TypeOK
  <2> QED BY <1>1, <1>2, <2>1
<1>8. \A i \in Set!Items : /\ Queued(i)' <=> Queued(i) \/ i = posted
                           /\ InHand(i)' = InHand(i) /\ Returning(i)' = Returning(i)
  <2> TAKE i \in Set!Items
  <2>1. \A k : k \in 1 .. Len(jobs') <=> k \in 1 .. Len(jobs) \/ k = Len(jobs) + 1
    BY <1>7
  <2>2. Queued(i)' <=> Queued(i) \/ i = posted
    BY <1>7, <2>1 DEF Queued
  <2>3. InHand(i)' = InHand(i) /\ Returning(i)' = Returning(i)
    BY <1>1 DEF InHand, Returning
  <2> QED BY <2>2, <2>3
<1>9. ~Queued(posted)
  BY <1>2, <1>6 DEF AgreeInv, OnePlace
<1>10. \A j, k \in 1 .. Len(jobs') : jobs'[j].item = jobs'[k].item => j = k
  <2>1. \A k : k \in 1 .. Len(jobs') <=> k \in 1 .. Len(jobs) \/ k = Len(jobs) + 1
    BY <1>7
  <2>2. \A k \in 1 .. Len(jobs) : jobs'[k].item # posted
    BY <1>7, <1>9 DEF Queued
  <2>3. \A j, k \in 1 .. Len(jobs) : jobs'[j].item = jobs'[k].item => j = k
    BY <1>7 DEF AgreeInv, OnePlace
  <2> QED BY <1>7, <2>1, <2>2, <2>3
<1>11. OnePlace'
  BY <1>1, <1>2, <1>5, <1>6, <1>8, <1>10 DEF AgreeInv, OnePlace
<1>12. \A u \in Set!Tasks : vpc'[u] \notin {"load", "put"}
  BY <1>1, <1>3, OthersStay DEF AgreeInv, OneTask, Active
<1>13. \A k \in 1 .. Len(jobs') : jobs'[k].val = user[jobs'[k].item]
  BY <1>7 DEF AgreeInv, Fresh
<1>14. Fresh'
  BY <1>1, <1>12, <1>13 DEF AgreeInv, Fresh
<1>15. Agrees'
  BY <1>1, <1>5, <1>8 DEF AgreeInv, Agrees, Quiet
<1> QED BY <1>11, <1>14, <1>15

(* A VideoChangeTask brings each marked setting on its way once.           *)
LEMMA ChangeAgrees ==
  ASSUME AgreeInv, Set!TypeOK', OneTask', NEW t \in Set!Tasks, Set!Change(t)
  PROVE  OnePlace' /\ Fresh' /\ Agrees'
<1> USE DEF Set!zero
<1>1. CASE Set!Start(t)
  <2>1. /\ vpc[t] = "start" /\ vflag' = vflag /\ jobs' = jobs
        /\ vpc'[t] = IF vflag # {} THEN "lock" ELSE "done"
    BY <1>1 DEF Set!Start, Set!Goto, AgreeInv, Set!TypeOK
  <2>2. \A i \in Set!Items : Ahead(i)' <=> Ahead(i)
    BY <2>1, AheadOf DEF Posts
  <2> QED BY <2>1, <2>2, TaskMoves, TaskFresh
<1>2. CASE Set!Lock(t)
  <2>1. /\ vpc[t] = "lock" /\ vflag' = vflag /\ jobs' = jobs
        /\ vpc'[t] = "test" /\ at' = 1
    BY <1>2 DEF Set!Lock, Set!Goto, AgreeInv, Set!TypeOK
  <2>2. \A i \in Set!Items : Posts(t, i) /\ Posts(t, i)'
    BY <2>1, SetOrderType DEF Posts
  <2>3. \A i \in Set!Items : Ahead(i)' <=> Ahead(i)
    BY <2>1, <2>2, AheadOf
  <2> QED BY <2>1, <2>3, TaskMoves, TaskFresh
<1>3. CASE Set!Test(t)
  <2>1. /\ vpc[t] = "test" /\ vflag' = vflag /\ jobs' = jobs /\ at \in 1 .. Len(Order)
        /\ \/ Order[at] \in vflag /\ vpc'[t] = "load" /\ at' = at
           \/ Order[at] \notin vflag /\ vpc'[t] = "test" /\ at' = at + 1
    BY <1>3 DEF Set!Test, Set!Goto, AgreeInv, Set!TypeOK
  <2>2. \A i \in Set!Items : i \in vflag => (Posts(t, i)' <=> Posts(t, i))
    BY <2>1 DEF Posts
  <2>3. \A i \in Set!Items : Ahead(i)' <=> Ahead(i)
    BY <2>1, <2>2, AheadOf
  <2> QED BY <2>1, <2>3, TaskMoves, TaskFresh
<1>4. CASE Set!Load(t)
  <2>1. /\ vpc[t] = "load" /\ vflag' = vflag /\ jobs' = jobs /\ at' = at
        /\ vpc'[t] = "put" /\ varg' = user[Order[at]]
    BY <1>4 DEF Set!Load, Set!Goto, AgreeInv, Set!TypeOK
  <2>2. \A i \in Set!Items : Ahead(i)' <=> Ahead(i)
    BY <2>1, AheadOf DEF Posts
  <2>3. Order[at] \in vflag
    BY <2>1 DEF AgreeInv, Fresh
  <2> QED BY <2>1, <2>2, <2>3, TaskMoves, TaskFresh
<1>5. CASE Set!Put(t)
  <2>1. CASE Len(jobs) < ChangeCapacity
    BY <1>5, <2>1, PutAgrees
  <2>2. CASE ~(Len(jobs) < ChangeCapacity)
    <3>1. /\ vpc[t] = "put" /\ vflag' = vflag /\ jobs' = jobs /\ at' = at /\ vpc'[t] = "load"
      BY <1>5, <2>2 DEF Set!Put, Set!Goto, AgreeInv, Set!TypeOK
    <3>2. \A i \in Set!Items : Ahead(i)' <=> Ahead(i)
      BY <3>1, AheadOf DEF Posts
    <3>3. Order[at] \in vflag
      BY <3>1 DEF AgreeInv, Fresh
    <3> QED BY <3>1, <3>2, <3>3, TaskMoves, TaskFresh
  <2> QED BY <2>1, <2>2
<1>6. CASE Set!Clear(t)
  <2>1. /\ vpc[t] = "test" /\ ~(at <= Len(Order)) /\ vflag' = {} /\ jobs' = jobs
        /\ vpc'[t] = "unlock" /\ at \in Nat
    BY <1>6 DEF Set!Clear, Set!Goto, AgreeInv, Set!TypeOK
  <2>2. \A i \in Set!Items : ~Posts(t, i)
    BY <2>1, SetOrderType DEF Posts
  <2>3. \A i \in Set!Items : Ahead(i)' <=> Ahead(i)
    BY <2>1, <2>2, AheadOf
  <2> QED BY <2>1, <2>3, TaskMoves, TaskFresh
<1>7. CASE Set!Unlock(t)
  <2>1. /\ vpc[t] = "unlock" /\ vflag' = vflag /\ jobs' = jobs /\ vpc'[t] = "done"
    BY <1>7 DEF Set!Unlock, Set!Goto, AgreeInv, Set!TypeOK
  <2>2. \A i \in Set!Items : Ahead(i)' <=> Ahead(i)
    BY <2>1, AheadOf DEF Posts
  <2> QED BY <2>1, <2>2, TaskMoves, TaskFresh
<1> QED BY <1>1, <1>2, <1>3, <1>4, <1>5, <1>6, <1>7 DEF Set!Change

(* The tasks are not concerned with what CPU0 and the timer task do.       *)
LEMMA AheadStays == ASSUME UNCHANGED <<vflag, vpc, at>>, NEW i PROVE Ahead(i)' = Ahead(i)
  BY DEF Ahead, Posts

(* CPU0 takes the first command into its hands.                            *)
LEMMA GetJobAgrees ==
  ASSUME AgreeInv, Set!GetJob
  PROVE  OnePlace' /\ Fresh' /\ Agrees'
<1>1. /\ cpu0 = "poll" /\ cpu0' = "apply" /\ cmd' = jobs[1] /\ jobs' = Tail(jobs)
      /\ UNCHANGED <<user, vflag, vpc, at, varg, answers, applied, lost, echo>>
  BY DEF Set!GetJob, Set!batch, AgreeInv, Set!TypeOK
<1>2. /\ Len(jobs) \in Nat /\ 1 \in 1 .. Len(jobs) /\ Len(jobs') = Len(jobs) - 1
      /\ \A k \in 1 .. Len(jobs') : jobs'[k] = jobs[k + 1]
      /\ jobs[1].item \in Set!Items
  <2>1. jobs \in Seq(Set!Command) /\ jobs # <<>>
    BY DEF Set!GetJob, AgreeInv, Set!TypeOK
  <2>2. jobs[1] \in Set!Command
    BY <2>1
  <2>3. jobs[1].item \in Set!Items
    BY <2>2 DEF Set!Command
  <2>4. /\ Len(jobs) \in Nat /\ 1 \in 1 .. Len(jobs) /\ Len(jobs') = Len(jobs) - 1
        /\ \A k \in 1 .. Len(jobs') : jobs'[k] = jobs[k + 1]
    BY <1>1, <2>1
  <2> QED BY <2>3, <2>4
<1> DEFINE taken == jobs[1].item
<1>3. Queued(taken)
  BY <1>2 DEF Queued
<1>4. \A j, k \in 1 .. Len(jobs) : jobs[j].item = jobs[k].item => j = k
  BY DEF AgreeInv, OnePlace
<1>5. \A i \in Set!Items : Queued(i)' <=> Queued(i) /\ i # taken
  <2> SUFFICES ASSUME NEW i \in Set!Items PROVE Queued(i)' <=> Queued(i) /\ i # taken
    OBVIOUS
  <2>1. ASSUME Queued(i)' PROVE Queued(i) /\ i # taken
    <3>1. PICK k \in 1 .. Len(jobs') : jobs'[k].item = i
      BY <2>1 DEF Queued
    <3>2. k + 1 \in 1 .. Len(jobs) /\ jobs[k + 1].item = i /\ k + 1 # 1
      BY <1>2, <3>1
    <3> QED BY <1>2, <1>4, <3>2 DEF Queued
  <2>2. ASSUME Queued(i), i # taken PROVE Queued(i)'
    <3>1. PICK k \in 1 .. Len(jobs) : jobs[k].item = i
      BY <2>2 DEF Queued
    <3>2. k - 1 \in 1 .. Len(jobs') /\ jobs'[k - 1] = jobs[k]
      BY <1>2, <2>2, <3>1
    <3> QED BY <3>1, <3>2 DEF Queued
  <2> QED BY <2>1, <2>2
<1>6. \A i \in Set!Items : /\ Ahead(i)' = Ahead(i) /\ Returning(i)' = Returning(i)
                           /\ InHand(i)' <=> i = taken
                           /\ ~InHand(i)
  BY <1>1, AheadStays DEF Returning, InHand
<1>7. \A j, k \in 1 .. Len(jobs') : jobs'[j].item = jobs'[k].item => j = k
  <2>1. \A k \in 1 .. Len(jobs') : k \in Nat /\ k + 1 \in 1 .. Len(jobs)
    BY <1>2
  <2> SUFFICES ASSUME NEW j \in 1 .. Len(jobs'), NEW k \in 1 .. Len(jobs'),
                      jobs'[j].item = jobs'[k].item
               PROVE  j = k
    OBVIOUS
  <2>2. jobs[j + 1].item = jobs[k + 1].item
    BY <1>2
  <2>3. j + 1 = k + 1
    BY <1>4, <2>1, <2>2
  <2> QED BY <2>1, <2>3
<1>8. OnePlace'
  <2>1. taken \in Set!Items /\ ~Ahead(taken) /\ ~Returning(taken)
    BY <1>2, <1>3 DEF AgreeInv, OnePlace
  <2>2. \A i \in Set!Items : /\ Ahead(i)' => ~Queued(i)' /\ ~InHand(i)' /\ ~Returning(i)'
                             /\ Queued(i)' => ~InHand(i)' /\ ~Returning(i)'
                             /\ InHand(i)' => ~Returning(i)'
    BY <1>5, <1>6, <2>1 DEF AgreeInv, OnePlace
  <2> QED BY <1>1, <1>7, <2>2 DEF AgreeInv, OnePlace
<1>9. Fresh'
  BY <1>1, <1>2 DEF AgreeInv, Fresh
<1>10. Agrees'
  BY <1>1, <1>5, <1>6 DEF AgreeInv, Agrees, Quiet
<1> QED BY <1>8, <1>9, <1>10

(* CPU0 works with the value that gtUser shows.                            *)
LEMMA ApplyAgrees ==
  ASSUME AgreeInv, Set!Apply
  PROVE  OnePlace' /\ Fresh' /\ Agrees'
<1>1. /\ cpu0 = "apply" /\ cpu0' = "poll" /\ cmd.item # "port" /\ cmd.item \in Set!Items
      /\ applied' = [applied EXCEPT ![cmd.item] = cmd.val]
      /\ cmd.val = user[cmd.item]
      /\ UNCHANGED <<user, vflag, vpc, at, varg, jobs, answers, cmd, lost, echo>>
  BY DEF Set!Apply, Set!batch, AgreeInv, Set!TypeOK, Set!Command, Fresh
<1>2. \A i \in Set!Items : applied'[i] = IF i = cmd.item THEN user[i] ELSE applied[i]
  BY <1>1 DEF AgreeInv, Set!TypeOK
<1>3. \A i \in Set!Items : /\ Ahead(i)' = Ahead(i) /\ Returning(i)' = Returning(i)
                           /\ Queued(i)' = Queued(i)
                           /\ ~InHand(i)' /\ (InHand(i) <=> i = cmd.item)
  BY <1>1, AheadStays DEF Returning, InHand, Queued
<1>4. OnePlace'
  BY <1>1, <1>3 DEF AgreeInv, OnePlace
<1>5. Fresh'
  BY <1>1, <1>2 DEF AgreeInv, Fresh
<1>6. Agrees'
  BY <1>1, <1>2, <1>3 DEF AgreeInv, Agrees, Quiet
<1> QED BY <1>4, <1>5, <1>6

(* CPU0 takes the new port or keeps the old one: nothing else has it.      *)
LEMMA ChangePortAgrees ==
  ASSUME AgreeInv, Set!ChangePort
  PROVE  OnePlace' /\ Fresh' /\ Agrees'
<1>1. /\ cpu0 = "apply" /\ cpu0' = "answer" /\ cmd.item = "port"
      /\ UNCHANGED <<user, vflag, vpc, at, varg, jobs, answers, cmd, lost, echo>>
      /\ \A i \in Set!Items : i # "port" => applied'[i] = applied[i]
  BY DEF Set!ChangePort, Set!batch, AgreeInv, Set!TypeOK
<1>2. \A i \in Set!Items : /\ Ahead(i)' = Ahead(i) /\ Returning(i)' = Returning(i)
                           /\ Queued(i)' = Queued(i) /\ InHand(i)' = InHand(i)
  BY <1>1, AheadStays DEF Returning, InHand, Queued
<1>3. InHand("port") /\ ~Returning("port")
  BY <1>1 DEF InHand, AgreeInv, OnePlace
<1>4. OnePlace'
  BY <1>1, <1>2 DEF AgreeInv, OnePlace
<1>5. Fresh'
  BY <1>1, <1>3 DEF AgreeInv, Fresh, Returning
<1>6. Agrees'
  BY <1>1, <1>2, <1>3 DEF AgreeInv, Agrees, Quiet
<1> QED BY <1>4, <1>5, <1>6

(* The answer is on its way, or it is dropped: then it is remembered       *)
(* whether it would have changed anything.                                 *)
LEMMA AnswerAgrees ==
  ASSUME AgreeInv, Set!Answer \/ Set!DropAnswer
  PROVE  OnePlace' /\ Fresh' /\ Agrees'
<1>1. /\ cpu0 = "answer" /\ cpu0' = "poll" /\ cmd.item = "port" /\ cmd.val = user["port"]
      /\ UNCHANGED <<user, vflag, vpc, at, varg, jobs, cmd, applied, echo>>
  BY DEF Set!Answer, Set!DropAnswer, Set!batch, AgreeInv, Fresh
<1>2. InHand("port") /\ ~Returning("port") /\ answers = <<>> /\ echo = NoValue
  BY <1>1 DEF InHand, Returning, AgreeInv, OnePlace
<1>3. \A i \in Set!Items : /\ Ahead(i)' = Ahead(i)
                           /\ Queued(i)' = Queued(i)
                           /\ ~InHand(i)' /\ (InHand(i) <=> i = "port")
  BY <1>1, AheadStays DEF InHand, Queued
<1>4. CASE Set!Answer
  <2>1. answers' = <<applied["port"]>>
    BY <1>2, <1>4 DEF Set!Answer
  <2>2. \A i \in Set!Items : Returning(i)' <=> i = "port"
    BY <2>1 DEF Returning
  <2>3. OnePlace'
    BY <1>1, <1>2, <1>3, <2>1, <2>2 DEF AgreeInv, OnePlace
  <2>4. Fresh'
    BY <1>1, <1>2, <2>1 DEF AgreeInv, Fresh
  <2>5. Agrees'
    BY <1>1, <1>3, <2>2 DEF AgreeInv, Agrees, Quiet, Returning
  <2> QED BY <2>3, <2>4, <2>5
<1>5. CASE Set!DropAnswer
  <2>1. answers' = answers /\ (lost' <=> user["port"] # applied["port"])
    BY <1>1, <1>5 DEF Set!DropAnswer
  <2>2. \A i \in Set!Items : ~Returning(i) /\ ~Returning(i)'
    BY <1>1, <1>2, <2>1 DEF Returning
  <2>3. OnePlace'
    BY <1>1, <1>2, <1>3, <2>1, <2>2 DEF AgreeInv, OnePlace
  <2>4. Fresh'
    BY <1>1, <1>2, <2>1 DEF AgreeInv, Fresh
  <2>5. Agrees'
    BY <1>1, <1>3, <2>1, <2>2 DEF AgreeInv, Agrees, Quiet
  <2> QED BY <2>3, <2>4, <2>5
<1> QED BY <1>4, <1>5

(* The timer task takes the answer, and stores it.                         *)
LEMMA TimerAgrees ==
  ASSUME AgreeInv, Set!Timer
  PROVE  OnePlace' /\ Fresh' /\ Agrees'
<1>1. UNCHANGED <<vflag, vpc, at, varg, jobs, cpu0, cmd, applied, lost>>
  BY DEF Set!Timer, Set!GetAnswer, Set!StorePort, Set!batch, Set!zero
<1>2. \A i \in Set!Items : /\ Ahead(i)' = Ahead(i) /\ Queued(i)' = Queued(i)
                           /\ InHand(i)' = InHand(i)
  BY <1>1, AheadStays DEF InHand, Queued
<1>3. CASE Set!GetAnswer
  <2>1. /\ echo = NoValue /\ echo' = applied["port"] /\ answers # <<>>
        /\ answers' = <<>> /\ user' = user
    BY <1>3 DEF Set!GetAnswer, AgreeInv, Set!TypeOK, OnePlace, Fresh
  <2>2. echo' # NoValue
    BY <2>1 DEF AgreeInv, Set!TypeOK
  <2>3. \A i \in Set!Items : Returning(i)' = Returning(i)
    BY <2>1, <2>2 DEF Returning
  <2>4. OnePlace'
    BY <1>1, <1>2, <2>1, <2>3 DEF AgreeInv, OnePlace
  <2>5. Fresh'
    BY <1>1, <2>1 DEF AgreeInv, Fresh
  <2>6. Agrees'
    BY <1>1, <1>2, <2>1, <2>3 DEF AgreeInv, Agrees, Quiet
  <2> QED BY <2>4, <2>5, <2>6
<1>4. CASE Set!StorePort
  <2>1. /\ echo # NoValue /\ echo' = NoValue /\ answers' = answers /\ answers = <<>>
        /\ user' = [user EXCEPT !["port"] = applied["port"]]
    BY <1>4 DEF Set!StorePort, AgreeInv, OnePlace, Fresh
  <2>2. \A i \in Set!Items : user'[i] = IF i = "port" THEN applied[i] ELSE user[i]
    BY <2>1 DEF AgreeInv, Set!TypeOK
  <2>3. /\ \A i \in Set!Items : ~Returning(i)'
        /\ \A i \in Set!Items : Returning(i) <=> i = "port"
    BY <2>1 DEF Returning
  <2>4. ~Ahead("port") /\ ~Queued("port") /\ ~InHand("port")
    BY <2>3 DEF AgreeInv, OnePlace
  <2>5. OnePlace'
    BY <1>1, <1>2, <2>1, <2>3 DEF AgreeInv, OnePlace
  <2>6. Fresh'
    <3>1. ASSUME NEW t \in Set!Tasks, vpc[t] = "put"
          PROVE  Order[at] \in Set!Items /\ Order[at] # "port"
      BY <2>4, <3>1, SetOrderType DEF AgreeInv, Set!TypeOK, Fresh, Ahead, Posts
    <3>2. ASSUME NEW k \in 1 .. Len(jobs)
          PROVE  jobs[k].item \in Set!Items /\ jobs[k].item # "port"
      <4>1. jobs[k] \in Set!Command
        BY DEF AgreeInv, Set!TypeOK
      <4>2. jobs[k].item \in Set!Items
        BY <4>1 DEF Set!Command
      <4> QED BY <2>4, <4>2 DEF Queued
    <3>3. cpu0 # "poll" => cmd.item \in Set!Items /\ cmd.item # "port"
      BY <2>4 DEF AgreeInv, Set!TypeOK, Set!Command, InHand
    <3> QED BY <1>1, <2>1, <2>2, <3>1, <3>2, <3>3 DEF AgreeInv, Fresh
  <2>7. Agrees'
    BY <1>1, <1>2, <2>2, <2>3 DEF AgreeInv, Agrees, Quiet
  <2> QED BY <2>5, <2>6, <2>7
<1> QED BY <1>3, <1>4 DEF Set!Timer

(* Every step keeps the changes on their way, once and fresh.              *)
LEMMA AgreeNext ==
  ASSUME ChangeSpaced, AgreeInv, [Set!Next]_change
  PROVE  AgreeInv'
<1>1. Set!TypeOK' /\ Set!MarksHaveTask' /\ OneTask'
  BY SetTypesStep, SetMarksStep, OneTaskNext DEF AgreeInv
<1>2. CASE UNCHANGED change
  BY <1>1, <1>2 DEF change, Set!batch, Set!zero, AgreeInv, OnePlace, Fresh, Agrees, Quiet,
                    Ahead, Posts, Queued, InHand, Returning
<1>3. CASE Set!Next
  BY <1>1, <1>3, RequestAgrees, ChangeAgrees, GetJobAgrees, ApplyAgrees, ChangePortAgrees,
     AnswerAgrees, TimerAgrees DEF Set!Next, Set!Cpu0, AgreeInv
<1> QED BY <1>2, <1>3

(* When requests wait for each other and all is carried out and answered,  *)
(* CPU0 works with what gtUser shows, but for a port whose refusal was     *)
(* lost.                                                                   *)
THEOREM ProcessorsAgree == ChangeSpaced /\ Set!Spec => []SettledAgrees
<1> SUFFICES ASSUME ChangeSpaced PROVE Set!Spec => []SettledAgrees
  OBVIOUS
<1>1. AgreeInv /\ [Set!Next]_change => AgreeInv'
  BY AgreeNext
<1>2. AgreeInv => SettledAgrees
  BY DEF AgreeInv, SettledAgrees, Settled, Agrees, Quiet, Ahead, Queued, InHand, Returning,
         Set!Tasks, Tasks, Set!Items, Items
<1> QED BY <1>1, <1>2, AgreeInit, PTL DEF Set!Spec, Set!change, change

(* A module that extends this one cites what it needs.                     *)
HIDE SetOrder
HIDE ValueAssumption
HIDE BoundAssumption
HIDE SwitchAssumption
=============================================================================
