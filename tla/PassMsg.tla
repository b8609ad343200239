------------------------------ MODULE PassMsg ------------------------------
(***************************************************************************)
(* The job rings gptMsgCpu1to0 and gptMsgCpu0to1 of dev/msg.c, which the   *)
(* two processors share under one hardware test-and-set key, CS_PASSMSG.   *)
(*                                                                         *)
(*  - a task of CPU1 posts one command with                                *)
(*      while(MsgPut(..) == DEF_FAIL) vTaskDelay(..)                       *)
(*    or a batch of commands: it takes the key itself, posts each command  *)
(*    with  while(MsgPut_nolock(..) == DEF_FAIL) vTaskDelay(1)  and        *)
(*    releases the key after the last one;                                 *)
(*  - cpu0 polls MsgGet in RuntimeMsg, and answers a command               *)
(*    MSG_CMD_SET_STREAM_PORT with one attempt to MsgPut the other way;    *)
(*  - the timer task of CPU1 polls MsgGet for these answers.               *)
(*                                                                         *)
(* A step is one access to the shared memory: the test-and-set, the test   *)
(* for a full or an empty ring, the access to a slot, the store of an      *)
(* index, the release.  xSemPut and xSemGet are left out: a task takes     *)
(* them with the key in its hands, so they are free whenever it does.      *)
(***************************************************************************)
EXTENDS Naturals, Sequences

CONSTANTS N,           \* tot_num, the slots of a ring (MSGQ_PASS_NUM)
          Tasks,       \* the tasks of CPU1 that post commands
          BatchSizes,  \* the lengths of the batches they post
          cpu0, timer, \* the two consumers
          NoMsg        \* a cleared slot

ASSUME NAssumption == N \in Nat /\ N > 1
ASSUME BatchAssumption == BatchSizes \subseteq Nat \ {0}
ASSUME ActorAssumption == cpu0 # timer /\ cpu0 \notin Tasks /\ timer \notin Tasks

Dirs == {"1to0", "0to1"}
Cmds == {"streamPort", "other"}
Producers == Tasks \cup {cpu0}
Actors == Tasks \cup {cpu0, timer}

(* A command: who posted it, what it asks for, and how many commands of    *)
(* the same batch follow it.                                               *)
Left == {0} \cup UNION {0 .. n - 1 : n \in BatchSizes}
Msg == [from : Producers, cmd : Cmds, left : Left]

ASSUME NoMsgAssumption == NoMsg \notin Msg

VARIABLES key,    \* CS_PASSMSG
          head, tail, slot,  \* the two rings, by direction
          pc,     \* where each actor is
          msg,    \* the command a producer is posting
          batch,  \* batch[a]: a holds the key over its whole batch
          got     \* got[d]: nCmd and nArg of the consumer of d

ring == <<head, tail, slot>>
vars == <<key, head, tail, slot, pc, msg, batch, got>>

Index == 0 .. N - 1

(* The ring an actor posts to, and the one it takes from.                  *)
PutDir(a) == IF a = cpu0 THEN "0to1" ELSE "1to0"
GetDir(a) == IF a = cpu0 THEN "1to0" ELSE "0to1"
Consumer(d) == IF d = "1to0" THEN cpu0 ELSE timer

(* Mutant: the wrap test of num_loop is off by one.                        *)
NumLoopLate(i) == IF i + 1 > N THEN 0 ELSE i + 1

(* num_loop; (i + 1) % tot_num in cQueue_isfull is the same index.         *)
NumLoop(i) == IF i + 1 >= N THEN 0 ELSE i + 1
IsFull(d)  == NumLoop(tail[d]) = head[d]
IsEmpty(d) == head[d] = tail[d]

Goto(a, l) == pc' = [pc EXCEPT ![a] = l]

Init == /\ key = 0
        /\ head = [d \in Dirs |-> 0]
        /\ tail = [d \in Dirs |-> 0]
        /\ slot = [d \in Dirs |-> [i \in Index |-> NoMsg]]
        /\ pc = [a \in Actors |-> IF a \in Tasks THEN "idle" ELSE "getLock"]
        /\ msg = [a \in Producers |-> NoMsg]
        /\ batch = [a \in Producers |-> FALSE]
        /\ got = [d \in Dirs |-> NoMsg]

-----------------------------------------------------------------------------
(* Tasks of CPU1 decide to post.                                           *)

Post(t) == \E c \in Cmds :
    /\ pc[t] = "idle"
    /\ msg' = [msg EXCEPT ![t] = [from |-> t, cmd |-> c, left |-> 0]]
    /\ batch' = [batch EXCEPT ![t] = FALSE]
    /\ Goto(t, "putLock")
    /\ UNCHANGED <<key, ring, got>>

(* VideoChangeTask posts the stream port first, if at all.                 *)
PostBatch(t) == \E n \in BatchSizes, c \in Cmds :
    /\ pc[t] = "idle"
    /\ msg' = [msg EXCEPT ![t] = [from |-> t, cmd |-> c, left |-> n - 1]]
    /\ batch' = [batch EXCEPT ![t] = TRUE]
    /\ Goto(t, "putLock")
    /\ UNCHANGED <<key, ring, got>>

-----------------------------------------------------------------------------
(* Mutant: the key is set, and what was read is ignored.                   *)
AcquireBlind(a) ==
    /\ pc[a] \in {"putLock", "getLock"}
    /\ key' = 1
    /\ Goto(a, IF pc[a] = "putLock" THEN "putCheck" ELSE "getCheck")
    /\ UNCHANGED <<ring, msg, batch, got>>

(* The key.  A read returns the key and sets it; only the reader that got  *)
(* 0 goes on, the others come back later.                                  *)
Acquire(a) ==
    /\ pc[a] \in {"putLock", "getLock"}
    /\ key = 0
    /\ key' = 1
    /\ Goto(a, IF pc[a] = "putLock" THEN "putCheck" ELSE "getCheck")
    /\ UNCHANGED <<ring, msg, batch, got>>

(* cpu0 does not look at the result of its MsgPut: a busy key costs the    *)
(* answer.                                                                 *)
DropReply ==
    /\ pc[cpu0] = "putLock"
    /\ key = 1
    /\ Goto(cpu0, "getLock")
    /\ msg' = [msg EXCEPT ![cpu0] = NoMsg]
    /\ UNCHANGED <<key, ring, batch, got>>

-----------------------------------------------------------------------------
(* MsgPut and MsgPut_nolock, behind the key.                               *)

(* Mutant: the ring is not tested.                                         *)
HasRoomBlind(a) ==
    /\ pc[a] = "putCheck"
    /\ Goto(a, "putWrite")
    /\ UNCHANGED <<key, ring, msg, batch, got>>

HasRoom(a) ==
    /\ pc[a] = "putCheck"
    /\ ~IsFull(PutDir(a))
    /\ Goto(a, "putWrite")
    /\ UNCHANGED <<key, ring, msg, batch, got>>

(* Mutant: a batch lets go of the key while the ring is full.              *)
NoRoomReleases(a) ==
    /\ pc[a] = "putCheck"
    /\ IsFull(PutDir(a))
    /\ Goto(a, "putFail")
    /\ UNCHANGED <<key, ring, msg, batch, got>>

(* Mutant: MsgPut waits for room with the key in its hands.                *)
NoRoomWaits(a) == pc[a] = "putCheck" /\ IsFull(PutDir(a)) /\ UNCHANGED vars

(* A batch stays at "putCheck" with the key in its hands: MsgPut_nolock    *)
(* fails until there is room.                                              *)
NoRoom(a) ==
    /\ pc[a] = "putCheck"
    /\ IsFull(PutDir(a))
    /\ ~batch[a]
    /\ Goto(a, "putFail")
    /\ UNCHANGED <<key, ring, msg, batch, got>>

Write(a) ==
    /\ pc[a] = "putWrite"
    /\ slot' = [slot EXCEPT ![PutDir(a)][tail[PutDir(a)]] = msg[a]]
    /\ Goto(a, "putAdvance")
    /\ UNCHANGED <<key, head, tail, msg, batch, got>>

AdvanceTail(a) ==
    /\ pc[a] = "putAdvance"
    /\ tail' = [tail EXCEPT ![PutDir(a)] = NumLoop(@)]
    /\ IF msg[a].left > 0
         THEN /\ msg' = [msg EXCEPT ![a] = [from |-> a, cmd |-> "other", left |-> @.left - 1]]
              /\ Goto(a, "putCheck")
         ELSE /\ Goto(a, "putUnlock")
              /\ UNCHANGED msg
    /\ UNCHANGED <<key, head, slot, batch, got>>

ReleasePut(a) ==
    /\ pc[a] \in {"putUnlock", "putFail"}
    /\ key' = 0
    /\ IF pc[a] = "putFail" /\ a # cpu0
         THEN /\ Goto(a, "putLock")
              /\ UNCHANGED <<msg, batch>>
         ELSE /\ Goto(a, IF a = cpu0 THEN "getLock" ELSE "idle")
              /\ msg' = [msg EXCEPT ![a] = NoMsg]
              /\ batch' = [batch EXCEPT ![a] = FALSE]
    /\ UNCHANGED <<ring, got>>

-----------------------------------------------------------------------------
(* MsgGet, behind the key.                                                 *)

(* Mutant: the test for an empty ring and the test for a full one are      *)
(* swapped.                                                                *)
HasMsgBlind(a) ==
    /\ pc[a] = "getCheck"
    /\ ~IsFull(GetDir(a))
    /\ Goto(a, "getRead")
    /\ UNCHANGED <<key, ring, msg, batch, got>>

HasMsg(a) ==
    /\ pc[a] = "getCheck"
    /\ ~IsEmpty(GetDir(a))
    /\ Goto(a, "getRead")
    /\ UNCHANGED <<key, ring, msg, batch, got>>

NoneThere(a) ==
    /\ pc[a] = "getCheck"
    /\ IsEmpty(GetDir(a))
    /\ Goto(a, "getFail")
    /\ UNCHANGED <<key, ring, msg, batch, got>>

(* Mutant: the slot is not cleared.                                        *)
ReadKeeps(a) ==
    /\ pc[a] = "getRead"
    /\ got' = [got EXCEPT ![GetDir(a)] = slot[GetDir(a)][head[GetDir(a)]]]
    /\ Goto(a, "getAdvance")
    /\ UNCHANGED <<key, ring, msg, batch>>

Read(a) ==
    /\ pc[a] = "getRead"
    /\ LET d == GetDir(a) IN
         /\ got' = [got EXCEPT ![d] = slot[d][head[d]]]
         /\ slot' = [slot EXCEPT ![d][head[d]] = NoMsg]
    /\ Goto(a, "getAdvance")
    /\ UNCHANGED <<key, head, tail, msg, batch>>

AdvanceHead(a) ==
    /\ pc[a] = "getAdvance"
    /\ head' = [head EXCEPT ![GetDir(a)] = NumLoop(@)]
    /\ Goto(a, "getUnlock")
    /\ UNCHANGED <<key, tail, slot, msg, batch, got>>

(* RuntimeMsg of cpu0 answers a MSG_CMD_SET_STREAM_PORT; the effects of    *)
(* the other commands are outside the rings.                               *)
ReleaseGet(a) ==
    /\ pc[a] \in {"getUnlock", "getFail"}
    /\ key' = 0
    /\ IF a = cpu0 /\ pc[a] = "getUnlock" /\ got["1to0"].cmd = "streamPort"
         THEN /\ msg' = [msg EXCEPT ![a] = [from |-> a, cmd |-> "streamPort", left |-> 0]]
              /\ Goto(a, "putLock")
         ELSE /\ Goto(a, "getLock")
              /\ UNCHANGED msg
    /\ UNCHANGED <<ring, batch, got>>

-----------------------------------------------------------------------------
PutStep(a) == HasRoom(a) \/ NoRoom(a) \/ Write(a) \/ AdvanceTail(a) \/ ReleasePut(a)
GetStep(a) == HasMsg(a) \/ NoneThere(a) \/ Read(a) \/ AdvanceHead(a) \/ ReleaseGet(a)

Next == \/ \E t \in Tasks : Post(t) \/ PostBatch(t)
        \/ \E a \in Actors : Acquire(a)
        \/ DropReply
        \/ \E a \in Producers : PutStep(a)
        \/ \E a \in {cpu0, timer} : GetStep(a)

Spec == Init /\ [][Next]_vars

-----------------------------------------------------------------------------
(* The processors run for ever: every started access is finished, and an   *)
(* actor that keeps polling the key gets it if it is released again and    *)
(* again.  Nothing makes a task post.                                      *)
Fairness == /\ \A a \in Producers : WF_vars(PutStep(a))
            /\ \A a \in {cpu0, timer} : WF_vars(GetStep(a))
            /\ \A a \in Actors : SF_vars(Acquire(a))

LiveSpec == Spec /\ Fairness

-----------------------------------------------------------------------------
(* Properties.                                                             *)

PutLabels == {"putCheck", "putWrite", "putAdvance", "putUnlock", "putFail"}
GetLabels == {"getCheck", "getRead", "getAdvance", "getUnlock", "getFail"}
Holds(a) == pc[a] \in PutLabels \cup GetLabels

(* Every variable has its type: the locals of the actors and the memory    *)
(* shared through msgq_pass_t.                                             *)
TypeOK == /\ key \in {0, 1}
          /\ head \in [Dirs -> Index]
          /\ tail \in [Dirs -> Index]
          /\ slot \in [Dirs -> [Index -> Msg \cup {NoMsg}]]
          /\ pc \in [Actors -> {"idle", "putLock", "getLock"} \cup PutLabels \cup GetLabels]
          /\ \A t \in Tasks : pc[t] \in {"idle", "putLock"} \cup PutLabels
          /\ pc[timer] \in {"getLock"} \cup GetLabels
          /\ pc[cpu0] # "idle"
          /\ msg \in [Producers -> Msg \cup {NoMsg}]
          /\ \A a \in Producers :
                pc[a] \in {"putLock"} \cup PutLabels => msg[a] \in Msg /\ msg[a].from = a
          /\ pc[cpu0] \in {"putLock"} \cup PutLabels => msg[cpu0].left = 0
          /\ batch \in [Producers -> BOOLEAN]
          /\ ~batch[cpu0]
          /\ got \in [Dirs -> Msg \cup {NoMsg}]

(* CS_PASSMSG is 1 exactly while one actor is between its test-and-set and *)
(* its release, and never two are, whichever processor they run on.        *)
MutualExclusion ==
    /\ key = 1 <=> \E a \in Actors : Holds(a)
    /\ \A a, b \in Actors : Holds(a) /\ Holds(b) => a = b

(* What cQueue_isfull or cQueue_isempty answered still holds when the slot *)
(* is accessed and when the index is stored, though others may have run in *)
(* between.                                                                *)
CheckStillHolds ==
    /\ \A a \in Producers : pc[a] \in {"putWrite", "putAdvance"} => ~IsFull(PutDir(a))
    /\ \A a \in {cpu0, timer} : pc[a] \in {"getRead", "getAdvance"} => ~IsEmpty(GetDir(a))

(* The slots from the consumer's place up to tail; MsgGet has cleared the  *)
(* slot at head before it advances head.                                   *)
First(d) == IF pc[Consumer(d)] = "getAdvance" THEN NumLoop(head[d]) ELSE head[d]
Occupied(d, i) == IF First(d) <= tail[d] THEN First(d) <= i /\ i < tail[d]
                                         ELSE First(d) <= i \/ i < tail[d]
Written(d, i) == \E a \in Producers :
                    pc[a] = "putAdvance" /\ PutDir(a) = d /\ i = tail[d]

(* A slot of a ring holds a command exactly when that command is posted    *)
(* and not taken: MsgPut never overwrites one, MsgGet never returns a      *)
(* cleared slot, and no command is left behind in a slot.                  *)
SlotsMatchWindow ==
    \A d \in Dirs, i \in Index : slot[d][i] # NoMsg <=> Occupied(d, i) \/ Written(d, i)

Count(d) == IF First(d) <= tail[d] THEN tail[d] - First(d) ELSE tail[d] + N - First(d)
Wrap(i) == IF i >= N THEN i - N ELSE i
Contents(d) == [k \in 1 .. Count(d) |-> slot[d][Wrap(First(d) + k - 1)]]

(* m and next are neighbours of one batch.                                 *)
Follows(next, m) == next.from = m.from /\ next.left = m.left - 1

(* The commands of a batch reach cpu0 one after the other with nothing     *)
(* between them, however many tasks post: in the ring, across the command  *)
(* cpu0 took last, and across the one its task is about to post.           *)
Posted == <<got["1to0"]>> \o Contents("1to0")
BatchContiguous ==
    \A k \in 1 .. Len(Posted) : Posted[k] # NoMsg /\ Posted[k].left > 0 =>
        IF k < Len(Posted)
          THEN Follows(Posted[k + 1], Posted[k])
          ELSE \E t \in Tasks : /\ batch[t] /\ Holds(t)
                                /\ Follows(msg[t], Posted[k])

(* Each ring is a bounded FIFO of N - 1 commands.                          *)
Fifo == INSTANCE BoundedFifo WITH Capacity <- N - 1,
            queue <- [d \in Dirs |-> Contents(d)], taken <- got
IsFifo == Fifo!Spec

(* A batch that finds the ring full keeps the key, and cpu0 needs the key  *)
(* to make room: this never ends.                                          *)
Stalled == \E t \in Tasks : batch[t] /\ pc[t] = "putCheck" /\ IsFull("1to0")
StallIsForever == [][Stalled => Stalled']_vars

(* A task whose post never gets through is one that others overtake for    *)
(* ever, or a batch has stalled: retrying alone, it always finds room in   *)
(* the end, because cpu0 gets the key and drains the ring.                 *)
OvertakenForever(t) == []<>(\E u \in Tasks \ {t} : pc[u] = "putUnlock")
PostCompletes ==
    \A t \in Tasks : (pc[t] = "putLock" ~> pc[t] = "idle" \/ Stalled) \/ OvertakenForever(t)
=============================================================================
