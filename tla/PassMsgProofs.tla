--------------------------- MODULE PassMsgProofs ---------------------------
(***************************************************************************)
(* Theorems about PassMsg, for rings of every size, any set of tasks and   *)
(* any batch lengths: the key, the checks and the slots, that the rings    *)
(* implement the bounded FIFOs of BoundedFifo, and that the commands of a  *)
(* batch stay together.                                                    *)
(***************************************************************************)
EXTENDS PassMsg, SequenceTheorems, TLAPS

USE NAssumption, BatchAssumption, ActorAssumption, NoMsgAssumption

(* The commands that remain of a batch stay in range.                      *)
LEMMA LeftDown == ASSUME NEW k \in Left, k > 0 PROVE k - 1 \in Left
  BY DEF Left

(* num_loop stays inside the ring.                                         *)
LEMMA NumLoopType == ASSUME NEW i \in Index PROVE NumLoop(i) \in Index
  BY DEF NumLoop, Index

(* TypeOK is inductive.                                                    *)
LEMMA TypeOKInit == Init => TypeOK
  BY DEF Init, TypeOK, Index, Dirs, Actors, Producers, Msg, PutLabels, GetLabels

(* Every step keeps the types.                                             *)
LEMMA TypeOKNext == TypeOK /\ [Next]_vars => TypeOK'
<1> SUFFICES ASSUME TypeOK, [Next]_vars PROVE TypeOK'
  OBVIOUS
<1> USE DEF TypeOK, Actors, Producers, Goto, PutLabels, GetLabels, Dirs, PutDir, GetDir, ring
<1>1. ASSUME NEW t \in Tasks, Post(t) PROVE TypeOK'
  BY <1>1 DEF Post, Msg, Left
<1>2. ASSUME NEW t \in Tasks, PostBatch(t) PROVE TypeOK'
  BY <1>2 DEF PostBatch, Msg, Left
<1>3. ASSUME NEW a \in Actors, Acquire(a) PROVE TypeOK'
  BY <1>3 DEF Acquire
<1>4. CASE DropReply
  BY <1>4 DEF DropReply
<1>5. ASSUME NEW a \in Producers, PutStep(a) PROVE TypeOK'
  <2>1. CASE HasRoom(a)
    BY <2>1 DEF HasRoom
  <2>2. CASE NoRoom(a)
    BY <2>2 DEF NoRoom
  <2>3. CASE Write(a)
    BY <2>3 DEF Write
  <2>4. CASE AdvanceTail(a)
    BY <2>4, NumLoopType, LeftDown DEF AdvanceTail, Msg, Cmds
  <2>5. CASE ReleasePut(a)
    <3>1. batch' \in [Producers -> BOOLEAN] /\ ~batch'[cpu0]
      <4>1. batch' = batch \/ batch' = [batch EXCEPT ![a] = FALSE]
        BY <2>5 DEF ReleasePut
      <4> QED BY <4>1, Zenon
    <3> QED BY <2>5, <3>1 DEF ReleasePut
  <2> QED BY <1>5, <2>1, <2>2, <2>3, <2>4, <2>5 DEF PutStep
<1>6. ASSUME NEW a \in {cpu0, timer}, GetStep(a) PROVE TypeOK'
  <2>1. CASE HasMsg(a)
    BY <2>1 DEF HasMsg
  <2>2. CASE NoneThere(a)
    BY <2>2 DEF NoneThere
  <2>3. CASE Read(a)
    BY <2>3 DEF Read
  <2>4. CASE AdvanceHead(a)
    BY <2>4, NumLoopType DEF AdvanceHead
  <2>5. CASE ReleaseGet(a)
    BY <2>5 DEF ReleaseGet, Msg, Cmds, Left
  <2> QED BY <1>6, <2>1, <2>2, <2>3, <2>4, <2>5 DEF GetStep
<1>7. CASE UNCHANGED vars
  BY <1>7 DEF vars
<1> QED BY <1>1, <1>2, <1>3, <1>4, <1>5, <1>6, <1>7 DEF Next

(* Every variable keeps its type.                                          *)
THEOREM TypeCorrect == Spec => []TypeOK
  BY TypeOKInit, TypeOKNext, PTL DEF Spec

-----------------------------------------------------------------------------
(* Mutual exclusion.                                                       *)

(* Nobody is behind the key at the start.                                  *)
LEMMA MutexInit == Init => MutualExclusion
<1> SUFFICES ASSUME Init PROVE MutualExclusion
  OBVIOUS
<1>1. key = 0 /\ \A a \in Actors : ~Holds(a)
  BY DEF Init, Holds, PutLabels, GetLabels, Actors
<1> QED BY <1>1 DEF MutualExclusion

(* What a step does to the key and to the set of its holders.              *)
Takes(a) == key = 0 /\ key' = 1 /\ Holds(a)'
Frees(a) == Holds(a) /\ key' = 0 /\ ~Holds(a)'
Keeps(a) == key' = key /\ (Holds(a)' <=> Holds(a))
OthersStay(a) == \A b \in Actors \ {a} : Holds(b)' <=> Holds(b)

(* A step takes the key, frees it, or leaves it and its holder alone.      *)
LEMMA LockStep ==
  ASSUME TypeOK, Next
  PROVE  \E a \in Actors : OthersStay(a) /\ (Takes(a) \/ Frees(a) \/ Keeps(a))
<1> USE DEF TypeOK, Actors, Producers, Goto, PutLabels, GetLabels, Holds,
            Takes, Frees, Keeps, OthersStay
<1>1. ASSUME NEW t \in Tasks, Post(t) \/ PostBatch(t)
      PROVE  OthersStay(t) /\ Keeps(t)
  BY <1>1 DEF Post, PostBatch
<1>2. ASSUME NEW a \in Actors, Acquire(a)
      PROVE  OthersStay(a) /\ Takes(a)
  BY <1>2 DEF Acquire
<1>3. ASSUME DropReply PROVE OthersStay(cpu0) /\ Keeps(cpu0)
  BY <1>3 DEF DropReply
<1>4. ASSUME NEW a \in Producers, HasRoom(a) \/ NoRoom(a) \/ Write(a) \/ AdvanceTail(a)
      PROVE  OthersStay(a) /\ Keeps(a)
  BY <1>4 DEF HasRoom, NoRoom, Write, AdvanceTail
<1>5. ASSUME NEW a \in Producers, ReleasePut(a) PROVE OthersStay(a) /\ Frees(a)
  BY <1>5 DEF ReleasePut
<1>6. ASSUME NEW a \in {cpu0, timer}, HasMsg(a) \/ NoneThere(a) \/ Read(a) \/ AdvanceHead(a)
      PROVE  OthersStay(a) /\ Keeps(a)
  BY <1>6 DEF HasMsg, NoneThere, Read, AdvanceHead
<1>7. ASSUME NEW a \in {cpu0, timer}, ReleaseGet(a) PROVE OthersStay(a) /\ Frees(a)
  BY <1>7 DEF ReleaseGet
<1> HIDE DEF TypeOK, Goto, PutLabels, GetLabels, Holds, Takes, Frees, Keeps, OthersStay
<1> QED BY <1>1, <1>2, <1>3, <1>4, <1>5, <1>6, <1>7 DEF Next, PutStep, GetStep

(* No step lets a second actor behind the key.                             *)
LEMMA MutexNext == TypeOK /\ MutualExclusion /\ [Next]_vars => MutualExclusion'
<1> SUFFICES ASSUME TypeOK, MutualExclusion, [Next]_vars PROVE MutualExclusion'
  OBVIOUS
<1>1. CASE UNCHANGED vars
  BY <1>1 DEF vars, MutualExclusion, Holds
<1>2. ASSUME NEW a \in Actors, OthersStay(a), Takes(a) \/ Frees(a) \/ Keeps(a)
      PROVE  MutualExclusion'
  BY <1>2 DEF MutualExclusion, OthersStay, Takes, Frees, Keeps
<1> QED BY <1>1, <1>2, LockStep

(* Never two actors between test-and-set and release, and the key says so. *)
THEOREM OneHolder == Spec => []MutualExclusion
  BY TypeOKInit, TypeOKNext, MutexInit, MutexNext, PTL DEF Spec

-----------------------------------------------------------------------------
(* The window of a ring.                                                   *)

(* Nothing has been tested at the start.                                   *)
LEMMA CheckInit == Init => CheckStillHolds
  BY DEF Init, CheckStillHolds, Actors, Producers

(* No step spoils what the holder of the key has tested.                   *)
LEMMA CheckNext == TypeOK /\ MutualExclusion /\ CheckStillHolds /\ [Next]_vars => CheckStillHolds'
<1> SUFFICES ASSUME TypeOK, MutualExclusion, CheckStillHolds, [Next]_vars
             PROVE  CheckStillHolds'
  OBVIOUS
<1> USE DEF TypeOK, CheckStillHolds, Actors, Producers, Goto, IsFull, IsEmpty, ring,
            PutDir, GetDir, Dirs
<1>1. ASSUME NEW t \in Tasks, Post(t) \/ PostBatch(t) PROVE CheckStillHolds'
  BY <1>1 DEF Post, PostBatch
<1>2. ASSUME NEW a \in Actors, Acquire(a) PROVE CheckStillHolds'
  BY <1>2 DEF Acquire
<1>3. CASE DropReply
  BY <1>3 DEF DropReply
<1>4. ASSUME NEW a \in Actors, Holds(a)
      PROVE  \A b \in Actors \ {a} : pc[b] \notin PutLabels \cup GetLabels
  BY <1>4 DEF MutualExclusion, Holds
<1>5. ASSUME NEW a \in Producers, PutStep(a) PROVE CheckStillHolds'
  <2>1. Holds(a)
    BY <1>5 DEF PutStep, HasRoom, NoRoom, Write, AdvanceTail, ReleasePut, Holds, PutLabels
  <2>2. \A b \in Actors \ {a} : pc[b] \notin PutLabels \cup GetLabels
    BY <1>4, <2>1
  <2>3. CASE HasRoom(a)
    BY <2>3 DEF HasRoom
  <2>4. CASE NoRoom(a)
    BY <2>4 DEF NoRoom
  <2>5. CASE Write(a)
    BY <2>5 DEF Write
  <2>6. CASE AdvanceTail(a)
    BY <2>6, <2>2 DEF AdvanceTail, PutLabels, GetLabels
  <2>7. CASE ReleasePut(a)
    BY <2>7 DEF ReleasePut
  <2> QED BY <1>5, <2>3, <2>4, <2>5, <2>6, <2>7 DEF PutStep
<1>6. ASSUME NEW a \in {cpu0, timer}, GetStep(a) PROVE CheckStillHolds'
  <2>1. Holds(a)
    BY <1>6 DEF GetStep, HasMsg, NoneThere, Read, AdvanceHead, ReleaseGet, Holds, GetLabels
  <2>2. \A b \in Actors \ {a} : pc[b] \notin PutLabels \cup GetLabels
    BY <1>4, <2>1
  <2>3. CASE HasMsg(a)
    BY <2>3 DEF HasMsg
  <2>4. CASE NoneThere(a)
    BY <2>4 DEF NoneThere
  <2>5. CASE Read(a)
    BY <2>5 DEF Read
  <2>6. CASE AdvanceHead(a)
    BY <2>6, <2>2 DEF AdvanceHead, PutLabels, GetLabels
  <2>7. CASE ReleaseGet(a)
    BY <2>7 DEF ReleaseGet
  <2> QED BY <1>6, <2>3, <2>4, <2>5, <2>6, <2>7 DEF GetStep
<1>7. CASE UNCHANGED vars
  BY <1>7 DEF vars
<1> QED BY <1>1, <1>2, <1>3, <1>5, <1>6, <1>7 DEF Next

(* Both rings start empty.                                                 *)
LEMMA WindowInit == Init => SlotsMatchWindow
<1> SUFFICES ASSUME Init, NEW d \in Dirs, NEW i \in Index
             PROVE  slot[d][i] = NoMsg /\ ~Occupied(d, i) /\ ~Written(d, i)
  BY DEF SlotsMatchWindow
<1>1. \A a \in Actors : pc[a] \in {"idle", "getLock"}
  BY DEF Init
<1>2. head[d] = 0 /\ tail[d] = 0 /\ slot[d][i] = NoMsg
  BY DEF Init
<1> QED BY <1>1, <1>2 DEF Occupied, First, Written, Index, Actors, Producers, Consumer

(* A step that moves neither an index nor a slot, and takes no actor into  *)
(* or out of the two labels that count, leaves the window as it is.        *)
LEMMA WindowStays ==
  ASSUME TypeOK, SlotsMatchWindow, UNCHANGED ring,
         \A a \in Actors : pc'[a] # pc[a] =>
            /\ pc[a] \notin {"putAdvance", "getAdvance"}
            /\ pc'[a] \notin {"putAdvance", "getAdvance"}
  PROVE  SlotsMatchWindow'
<1> SUFFICES ASSUME NEW d \in Dirs, NEW i \in Index
             PROVE  (slot[d][i] # NoMsg <=> Occupied(d, i) \/ Written(d, i))'
  BY DEF SlotsMatchWindow
<1>1. First(d)' = First(d)
  BY DEF First, Consumer, ring, Actors
<1>2. Written(d, i)' <=> Written(d, i)
  BY DEF Written, ring, Actors, Producers
<1> QED BY <1>1, <1>2 DEF SlotsMatchWindow, Occupied, ring

(* Every step keeps the filled slots between head and tail.                *)
LEMMA WindowNext ==
  TypeOK /\ MutualExclusion /\ CheckStillHolds /\ SlotsMatchWindow /\ [Next]_vars
     => SlotsMatchWindow'
<1> SUFFICES ASSUME TypeOK, MutualExclusion, CheckStillHolds, SlotsMatchWindow, [Next]_vars
             PROVE  SlotsMatchWindow'
  OBVIOUS
<1> USE DEF Actors, Producers
<1>1. ASSUME NEW t \in Tasks, Post(t) \/ PostBatch(t) PROVE SlotsMatchWindow'
  BY <1>1, WindowStays DEF Post, PostBatch, Goto, TypeOK
<1>2. ASSUME NEW a \in Actors, Acquire(a) PROVE SlotsMatchWindow'
  BY <1>2, WindowStays DEF Acquire, Goto, TypeOK
<1>3. CASE DropReply
  BY <1>3, WindowStays DEF DropReply, Goto, TypeOK
<1>4. ASSUME NEW a \in Producers, HasRoom(a) \/ NoRoom(a) \/ ReleasePut(a)
      PROVE  SlotsMatchWindow'
  BY <1>4, WindowStays DEF HasRoom, NoRoom, ReleasePut, Goto, TypeOK
<1>5. ASSUME NEW a \in {cpu0, timer}, HasMsg(a) \/ NoneThere(a) \/ ReleaseGet(a)
      PROVE  SlotsMatchWindow'
  BY <1>5, WindowStays DEF HasMsg, NoneThere, ReleaseGet, Goto, TypeOK
<1>6. ASSUME NEW a \in Producers, Write(a) \/ AdvanceTail(a) PROVE SlotsMatchWindow'
  <2> SUFFICES ASSUME NEW d \in Dirs, NEW i \in Index
               PROVE  (slot[d][i] # NoMsg <=> Occupied(d, i) \/ Written(d, i))'
    BY DEF SlotsMatchWindow
  <2>1. Holds(a) /\ \A b \in Actors \ {a} : ~Holds(b)
    BY <1>6 DEF Write, AdvanceTail, Holds, PutLabels, MutualExclusion
  <2>2. First(d) = head[d] /\ First(d)' = head[d]
    BY <1>6, <2>1 DEF First, Consumer, Holds, PutLabels, GetLabels, Write, AdvanceTail,
                      Goto, TypeOK
  <2>3. PutDir(a) \in Dirs /\ ~IsFull(PutDir(a))
    BY <1>6 DEF CheckStillHolds, Write, AdvanceTail, PutDir, Dirs
  <2>4. \A b \in Producers \ {a} : pc[b] # "putAdvance" /\ pc'[b] = pc[b]
    BY <1>6, <2>1 DEF Holds, PutLabels, Write, AdvanceTail, Goto, TypeOK
  <2>5. head[d] \in Index /\ tail[d] \in Index
    BY DEF TypeOK
  <2>6. slot[d][i] # NoMsg <=> Occupied(d, i) \/ Written(d, i)
    BY DEF SlotsMatchWindow
  <2>7. CASE Write(a)
    <3>1. tail' = tail /\ head' = head /\ msg[a] # NoMsg
      BY <2>7 DEF Write, TypeOK, PutLabels
    <3>2. slot'[d][i] = IF PutDir(a) = d /\ i = tail[d] THEN msg[a] ELSE slot[d][i]
      BY <2>7, <2>3, <2>5 DEF Write, TypeOK
    <3>3. Written(d, i)' <=> PutDir(a) = d /\ i = tail[d]
      BY <2>7, <2>4, <3>1 DEF Written, Write, Goto, TypeOK
    <3>4. ~Written(d, i)
      BY <2>7, <2>4 DEF Written, Write
    <3>5. Occupied(d, i)' <=> Occupied(d, i)
      BY <2>2, <3>1 DEF Occupied
    <3> QED BY <2>6, <3>1, <3>2, <3>3, <3>4, <3>5
  <2>8. CASE AdvanceTail(a)
    <3>1. head' = head /\ slot' = slot
      BY <2>8 DEF AdvanceTail
    <3>2. tail'[d] = IF PutDir(a) = d THEN NumLoop(tail[d]) ELSE tail[d]
      BY <2>8, <2>3 DEF AdvanceTail, TypeOK
    <3>3. Written(d, i) <=> PutDir(a) = d /\ i = tail[d]
      BY <2>8, <2>4 DEF Written, AdvanceTail
    <3>4. ~Written(d, i)'
      BY <2>8, <2>4 DEF Written, AdvanceTail, Goto, TypeOK
    <3>5. Occupied(d, i)' <=> Occupied(d, i) \/ (PutDir(a) = d /\ i = tail[d])
      BY <2>2, <2>3, <2>5, <3>1, <3>2, NAssumption, SMTT(30)
         DEF Occupied, NumLoop, IsFull, Index
    <3> QED BY <2>6, <3>1, <3>3, <3>4, <3>5
  <2> QED BY <1>6, <2>7, <2>8
<1>7. ASSUME NEW a \in {cpu0, timer}, Read(a) \/ AdvanceHead(a) PROVE SlotsMatchWindow'
  <2> SUFFICES ASSUME NEW d \in Dirs, NEW i \in Index
               PROVE  (slot[d][i] # NoMsg <=> Occupied(d, i) \/ Written(d, i))'
    BY DEF SlotsMatchWindow
  <2>1. Holds(a) /\ \A b \in Actors \ {a} : ~Holds(b)
    BY <1>7 DEF Read, AdvanceHead, Holds, GetLabels, MutualExclusion
  <2>2. ~Written(d, i) /\ ~Written(d, i)'
    BY <1>7, <2>1 DEF Written, Holds, PutLabels, Read, AdvanceHead, Goto, TypeOK
  <2>3. GetDir(a) \in Dirs /\ ~IsEmpty(GetDir(a)) /\ Consumer(GetDir(a)) = a
    BY <1>7, ActorAssumption DEF CheckStillHolds, Read, AdvanceHead, GetDir, Dirs, Consumer
  <2>4. d # GetDir(a) => First(d)' = head'[d] /\ First(d) = head[d]
    BY <1>7, <2>1, ActorAssumption
       DEF First, Consumer, GetDir, Dirs, Holds, GetLabels, Read, AdvanceHead, Goto, TypeOK
  <2>5. head[d] \in Index /\ tail[d] \in Index
    BY DEF TypeOK
  <2>6. slot[d][i] # NoMsg <=> Occupied(d, i)
    BY <2>2 DEF SlotsMatchWindow
  <2>7. CASE Read(a)
    <3>1. tail' = tail /\ head' = head
      BY <2>7 DEF Read
    <3>2. slot'[d][i] = IF GetDir(a) = d /\ i = head[d] THEN NoMsg ELSE slot[d][i]
      BY <2>7, <2>3, <2>5 DEF Read, TypeOK
    <3>3. d = GetDir(a) => First(d) = head[d] /\ First(d)' = NumLoop(head[d])
      BY <2>7, <2>3, <3>1 DEF First, Read, Goto, TypeOK
    <3>4. Occupied(d, i)' <=> Occupied(d, i) /\ ~(GetDir(a) = d /\ i = head[d])
      BY <2>3, <2>4, <2>5, <3>1, <3>3, NAssumption DEF Occupied, NumLoop, IsEmpty, Index
    <3> QED BY <2>2, <2>6, <3>2, <3>4
  <2>8. CASE AdvanceHead(a)
    <3>1. tail' = tail /\ slot' = slot
      BY <2>8 DEF AdvanceHead
    <3>2. d = GetDir(a) => First(d) = NumLoop(head[d]) /\ First(d)' = NumLoop(head[d])
      BY <2>8, <2>3 DEF First, AdvanceHead, Goto, TypeOK
    <3>3. d # GetDir(a) => head'[d] = head[d]
      BY <2>8, <2>3 DEF AdvanceHead, TypeOK
    <3>4. Occupied(d, i)' <=> Occupied(d, i)
      BY <2>4, <3>1, <3>2, <3>3 DEF Occupied
    <3> QED BY <2>2, <2>6, <3>1, <3>4
  <2> QED BY <1>7, <2>7, <2>8
<1>8. CASE UNCHANGED vars
  BY <1>8, WindowStays DEF vars, ring
<1> QED BY <1>1, <1>2, <1>3, <1>4, <1>5, <1>6, <1>7, <1>8 DEF Next, PutStep, GetStep

(* The inductive invariant of the rings.                                   *)
RingInv == TypeOK /\ MutualExclusion /\ CheckStillHolds /\ SlotsMatchWindow

(* The four facts together are inductive.                                  *)
LEMMA RingInvNext == RingInv /\ [Next]_vars => RingInv'
  BY TypeOKNext, MutexNext, CheckNext, WindowNext DEF RingInv

(* The four facts hold in every reachable state.                           *)
LEMMA RingCorrect == Spec => []RingInv
<1>1. Init => RingInv
  BY TypeOKInit, MutexInit, CheckInit, WindowInit DEF RingInv
<1> QED BY <1>1, RingInvNext, PTL DEF Spec

(* The test for room or for a command is still true when it is used.       *)
THEOREM ChecksHold == Spec => []CheckStillHolds
  BY RingCorrect, PTL DEF RingInv

(* No command is overwritten, invented or left behind in a slot.           *)
THEOREM NothingLost == Spec => []SlotsMatchWindow
  BY RingCorrect, PTL DEF RingInv

-----------------------------------------------------------------------------
(* What the window holds.                                                  *)

(* The first occupied place is a place of the ring.                        *)
LEMMA FirstType == ASSUME TypeOK, NEW d \in Dirs
                   PROVE  First(d) \in Index /\ tail[d] \in Index /\ Count(d) \in 0 .. N - 1
<1>1. head[d] \in Index /\ tail[d] \in Index
  BY DEF TypeOK
<1>2. First(d) \in Index
  BY <1>1, NumLoopType DEF First
<1> QED BY <1>1, <1>2, NAssumption DEF Count, Index

(* A window is as long as the indices are apart, and fits the ring.        *)
LEMMA ContentsLen == ASSUME TypeOK, NEW d \in Dirs
                     PROVE  Len(Contents(d)) = Count(d) /\ DOMAIN Contents(d) = 1 .. Count(d)
<1>1. Count(d) \in Nat
  BY FirstType
<1> QED BY <1>1 DEF Contents

(* The k-th command of the window is in an occupied slot.                  *)
LEMMA PlaceOccupied ==
  ASSUME TypeOK, NEW d \in Dirs, NEW k \in 1 .. Count(d)
  PROVE  /\ Wrap(First(d) + k - 1) \in Index
         /\ Occupied(d, Wrap(First(d) + k - 1))
         /\ Wrap(First(d) + k - 1) # tail[d]
  BY FirstType, NAssumption DEF Wrap, Occupied, Count, Index

(* A window holds commands.                                                *)
LEMMA ContentsType == ASSUME RingInv, NEW d \in Dirs PROVE Contents(d) \in Seq(Msg)
<1>1. ASSUME NEW k \in 1 .. Count(d) PROVE slot[d][Wrap(First(d) + k - 1)] \in Msg
  BY <1>1, PlaceOccupied DEF RingInv, TypeOK, SlotsMatchWindow
<1>2. Contents(d) \in [1 .. Count(d) -> Msg]
  BY <1>1 DEF Contents
<1>3. Count(d) \in Nat
  BY FirstType DEF RingInv
<1> QED BY <1>2, <1>3

(* Nothing changes in the window.                                          *)
LEMMA ContentsStays ==
  ASSUME TypeOK, TypeOK', NEW d \in Dirs, First(d)' = First(d), tail'[d] = tail[d],
         \A i \in Index : i # tail[d] => slot'[d][i] = slot[d][i]
  PROVE  Contents(d)' = Contents(d)
<1>1. Count(d)' = Count(d)
  BY DEF Count
<1>2. ASSUME NEW k \in 1 .. Count(d)
      PROVE  slot'[d][Wrap(First(d) + k - 1)] = slot[d][Wrap(First(d) + k - 1)]
  BY PlaceOccupied, FirstType
<1> QED BY <1>1, <1>2 DEF Contents, Wrap

(* The index tail moves on: the command in its slot joins the window.      *)
LEMMA ContentsGrows ==
  ASSUME TypeOK, TypeOK', NEW d \in Dirs, First(d) = head[d], First(d)' = head[d],
         ~IsFull(d), tail'[d] = NumLoop(tail[d]), slot' = slot
  PROVE  /\ Contents(d)' = Append(Contents(d), slot[d][tail[d]])
         /\ Len(Contents(d)) < N - 1
<1>1. First(d) \in Index /\ tail[d] \in Index /\ Count(d) \in 0 .. N - 1
  BY FirstType
<1>2. Count(d)' = Count(d) + 1 /\ Count(d) < N - 1
  BY <1>1, NAssumption DEF Count, IsFull, NumLoop, Index
<1>3. Wrap(First(d) + Count(d)) = tail[d]
  BY <1>1, NAssumption DEF Wrap, Count, Index
<1>4. ASSUME NEW k \in 1 .. Count(d) + 1
      PROVE  slot[d][Wrap(First(d) + k - 1)]
               = IF k <= Count(d) THEN Contents(d)[k] ELSE slot[d][tail[d]]
  BY <1>1, <1>3 DEF Contents
<1>5. Contents(d)' = [k \in 1 .. Count(d) + 1 |-> slot[d][Wrap(First(d) + k - 1)]]
  BY <1>2 DEF Contents, Wrap
<1>6. Append(Contents(d), slot[d][tail[d]])
        = [k \in 1 .. Count(d) + 1 |-> IF k <= Count(d) THEN Contents(d)[k] ELSE slot[d][tail[d]]]
  BY ContentsLen, <1>1
<1> QED BY <1>2, <1>4, <1>5, <1>6, ContentsLen

(* The command at the head is taken: the rest is what remains.             *)
LEMMA ContentsShrinks ==
  ASSUME RingInv, TypeOK', NEW d \in Dirs, First(d) = head[d],
         First(d)' = NumLoop(head[d]), ~IsEmpty(d), tail' = tail,
         \A i \in Index : i # head[d] => slot'[d][i] = slot[d][i]
  PROVE  /\ Contents(d) # <<>>
         /\ Head(Contents(d)) = slot[d][head[d]]
         /\ Contents(d)' = Tail(Contents(d))
<1>1. First(d) \in Index /\ tail[d] \in Index /\ Count(d) \in 0 .. N - 1
  BY FirstType DEF RingInv
<1>2. Count(d)' = Count(d) - 1 /\ Count(d) > 0
  BY <1>1, NAssumption DEF Count, IsEmpty, NumLoop, Index
<1>3. Len(Contents(d)) = Count(d) /\ DOMAIN Contents(d) = 1 .. Count(d)
  BY ContentsLen DEF RingInv
<1>4. Contents(d)[1] = slot[d][head[d]]
  <2>1. Wrap(First(d) + 1 - 1) = head[d]
    BY <1>1, NAssumption DEF Wrap, Index
  <2>2. 1 \in 1 .. Count(d)
    BY <1>1, <1>2
  <2> QED BY <2>1, <2>2 DEF Contents
<1>5. ASSUME NEW k \in 1 .. Count(d) - 1
      PROVE  slot'[d][Wrap(NumLoop(head[d]) + k - 1)] = Contents(d)[k + 1]
  <2>1. Wrap(NumLoop(head[d]) + k - 1) = Wrap(First(d) + (k + 1) - 1)
    BY <1>1, NAssumption DEF Wrap, NumLoop, Index
  <2>2. Wrap(First(d) + (k + 1) - 1) \in Index /\ Wrap(First(d) + (k + 1) - 1) # head[d]
    BY <1>1, NAssumption DEF Wrap, Index
  <2> QED BY <2>1, <2>2, <1>1 DEF Contents
<1>6. Contents(d)' = [k \in 1 .. Count(d) - 1 |-> slot'[d][Wrap(NumLoop(head[d]) + k - 1)]]
  BY <1>2 DEF Contents, Wrap
<1>7. Contents(d) \in Seq(Msg) /\ Contents(d) # <<>>
  BY <1>1, <1>2, <1>3, ContentsType
<1>8. Head(Contents(d)) = Contents(d)[1]
  BY <1>7
<1>9. Tail(Contents(d)) = [k \in 1 .. Count(d) - 1 |-> Contents(d)[k + 1]]
  <2> DEFINE T == Tail(Contents(d))
             R == [k \in 1 .. Count(d) - 1 |-> Contents(d)[k + 1]]
  <2>1. /\ T \in Seq(Msg) /\ Len(T) = Count(d) - 1
        /\ \A k \in 1 .. Len(T) : T[k] = Contents(d)[k + 1]
    BY <1>3, <1>7, HeadTailProperties
  <2>2. T = [k \in 1 .. Len(T) |-> T[k]]
    <3> HIDE DEF T
    <3>1. T \in [1 .. Len(T) -> Msg]
      BY <2>1, LenProperties
    <3> QED BY <3>1
  <2> QED BY <2>1, <2>2
<1> QED BY <1>4, <1>5, <1>6, <1>7, <1>8, <1>9

-----------------------------------------------------------------------------
(* The slot at tail holds the command that is being posted.                *)
WrittenIsMsg == \A a \in Producers :
    pc[a] = "putAdvance" => slot[PutDir(a)][tail[PutDir(a)]] = msg[a]

FifoInv == RingInv /\ WrittenIsMsg

(* Whoever is behind the key is there alone.                               *)
LEMMA Alone == ASSUME MutualExclusion, NEW a \in Actors, Holds(a)
               PROVE  \A b \in Actors \ {a} : pc[b] \notin PutLabels \cup GetLabels
  BY DEF MutualExclusion, Holds

(* The slot at tail keeps the command that its writer put there.           *)
LEMMA WrittenNext == FifoInv /\ [Next]_vars => WrittenIsMsg'
<1> SUFFICES ASSUME RingInv, WrittenIsMsg, [Next]_vars, NEW b \in Producers,
                    pc'[b] = "putAdvance"
             PROVE  slot'[PutDir(b)][tail'[PutDir(b)]] = msg'[b]
  BY DEF FifoInv, WrittenIsMsg, PutDir
<1> USE DEF WrittenIsMsg, Actors, Producers, Goto, RingInv, TypeOK, ring
<1>1. ASSUME NEW t \in Tasks, Post(t) \/ PostBatch(t)
      PROVE  slot'[PutDir(b)][tail'[PutDir(b)]] = msg'[b]
  BY <1>1 DEF Post, PostBatch
<1>2. ASSUME NEW a \in Actors, Acquire(a)
      PROVE  slot'[PutDir(b)][tail'[PutDir(b)]] = msg'[b]
  BY <1>2 DEF Acquire
<1>3. ASSUME DropReply PROVE slot'[PutDir(b)][tail'[PutDir(b)]] = msg'[b]
  BY <1>3 DEF DropReply
<1>4. ASSUME NEW a \in Producers, PutStep(a)
      PROVE  slot'[PutDir(b)][tail'[PutDir(b)]] = msg'[b]
  <2>1. a = b
    <3>1. Holds(a)
      BY <1>4 DEF PutStep, HasRoom, NoRoom, Write, AdvanceTail, ReleasePut, Holds, PutLabels
    <3> QED BY <3>1, <1>4, Alone DEF PutLabels, PutStep, HasRoom, NoRoom, Write, AdvanceTail, ReleasePut
  <2>2. CASE Write(a)
    BY <2>1, <2>2 DEF Write, PutDir, Dirs
  <2>3. ~HasRoom(a) /\ ~NoRoom(a) /\ ~AdvanceTail(a) /\ ~ReleasePut(a)
    BY <2>1 DEF HasRoom, NoRoom, AdvanceTail, ReleasePut
  <2> QED BY <1>4, <2>2, <2>3 DEF PutStep
<1>5. ASSUME NEW a \in {cpu0, timer}, GetStep(a)
      PROVE  slot'[PutDir(b)][tail'[PutDir(b)]] = msg'[b]
  <2>1. Holds(a)
    BY <1>5 DEF GetStep, HasMsg, NoneThere, Read, AdvanceHead, ReleaseGet, Holds, GetLabels
  <2>2. pc[b] # "putAdvance"
    BY <2>1, <1>5, Alone, ActorAssumption
       DEF PutLabels, GetStep, HasMsg, NoneThere, Read, AdvanceHead, ReleaseGet
  <2>3. pc'[b] # "putAdvance"
    BY <2>2, <1>5 DEF GetStep, HasMsg, NoneThere, Read, AdvanceHead, ReleaseGet
  <2> QED BY <2>3
<1>6. CASE UNCHANGED vars
  BY <1>6 DEF vars
<1> QED BY <1>1, <1>2, <1>3, <1>4, <1>5, <1>6 DEF Next

(* What the refinement rests on is inductive,                              *)
LEMMA FifoInvNext == FifoInv /\ [Next]_vars => FifoInv'
  BY RingInvNext, WrittenNext DEF FifoInv

(* and holds at the start.                                                 *)
LEMMA FifoInvInit == Init => FifoInv
<1> SUFFICES ASSUME Init PROVE FifoInv
  OBVIOUS
<1>1. RingInv
  BY TypeOKInit, MutexInit, CheckInit, WindowInit DEF RingInv
<1>2. \A a \in Producers : pc[a] # "putAdvance"
  BY DEF Init, Actors, Producers
<1> QED BY <1>1, <1>2 DEF FifoInv, WrittenIsMsg

-----------------------------------------------------------------------------
(* What a step does to the commands in the rings: nothing, or it posts     *)
(* one, or it takes one.                                                   *)
Quiet(d) == Contents(d)' = Contents(d) /\ got'[d] = got[d]
PostsOne(a) == /\ AdvanceTail(a)
               /\ msg[a] \in Msg
               /\ Len(Contents(PutDir(a))) < N - 1
               /\ Contents(PutDir(a))' = Append(Contents(PutDir(a)), msg[a])
               /\ got' = got
               /\ \A d \in Dirs \ {PutDir(a)} : Quiet(d)
TakesOne(a) == /\ Read(a)
               /\ Contents(GetDir(a)) # <<>>
               /\ got'[GetDir(a)] = Head(Contents(GetDir(a)))
               /\ Contents(GetDir(a))' = Tail(Contents(GetDir(a)))
               /\ \A d \in Dirs \ {GetDir(a)} : Quiet(d)

(* A step that moves no index leaves both windows as they are.             *)
LEMMA QuietStep ==
  ASSUME TypeOK, TypeOK', UNCHANGED <<ring, got>>,
         \A a \in Actors : pc'[a] # pc[a] => pc[a] # "getAdvance" /\ pc'[a] # "getAdvance"
  PROVE  \A d \in Dirs : Quiet(d)
<1> TAKE d \in Dirs
<1>1. First(d)' = First(d)
  BY DEF First, Consumer, ring, Actors
<1> QED BY <1>1, ContentsStays DEF ring, Quiet

(* To advance tail is to post at the end of the window.                    *)
LEMMA AdvanceTailPosts ==
  ASSUME FifoInv, TypeOK', NEW a \in Producers, AdvanceTail(a) PROVE PostsOne(a)
<1> USE DEF FifoInv, RingInv
<1>1. a \in Actors /\ Holds(a) /\ PutDir(a) \in Dirs
  BY DEF AdvanceTail, Holds, PutLabels, Actors, Producers, PutDir, Dirs
<1>2. ASSUME NEW d \in Dirs PROVE First(d) = head[d] /\ First(d)' = head[d]
  BY <1>1, Alone DEF First, Consumer, PutLabels, GetLabels, AdvanceTail, Goto, TypeOK, Actors
<1>3. /\ slot' = slot /\ got' = got
      /\ tail' = [tail EXCEPT ![PutDir(a)] = NumLoop(@)]
  BY DEF AdvanceTail
<1>4. ~IsFull(PutDir(a)) /\ slot[PutDir(a)][tail[PutDir(a)]] = msg[a] /\ msg[a] \in Msg
  BY DEF CheckStillHolds, AdvanceTail, WrittenIsMsg, TypeOK, PutLabels
<1>5. tail'[PutDir(a)] = NumLoop(tail[PutDir(a)])
  BY <1>1, <1>3 DEF TypeOK
<1>6. /\ Contents(PutDir(a))' = Append(Contents(PutDir(a)), msg[a])
      /\ Len(Contents(PutDir(a))) < N - 1
  BY <1>1, <1>2, <1>3, <1>4, <1>5, ContentsGrows
<1>7. ASSUME NEW d \in Dirs \ {PutDir(a)} PROVE Quiet(d)
  <2>1. tail'[d] = tail[d]
    BY <1>3 DEF TypeOK
  <2> QED BY <2>1, <1>2, <1>3, ContentsStays DEF Quiet
<1> QED BY <1>3, <1>4, <1>6, <1>7 DEF PostsOne

LEMMA ReadTakes ==
  ASSUME FifoInv, TypeOK', NEW a \in {cpu0, timer}, Read(a) PROVE TakesOne(a)
<1> USE DEF FifoInv, RingInv
<1>1. a \in Actors /\ Holds(a) /\ GetDir(a) \in Dirs /\ Consumer(GetDir(a)) = a
  BY ActorAssumption DEF Read, Holds, GetLabels, Actors, GetDir, Dirs, Consumer
<1>2. First(GetDir(a)) = head[GetDir(a)] /\ First(GetDir(a))' = NumLoop(head[GetDir(a)])
  BY <1>1 DEF First, Read, Goto, TypeOK
<1>3. ASSUME NEW d \in Dirs \ {GetDir(a)} PROVE First(d) = head[d] /\ First(d)' = head[d]
  BY <1>1, Alone, ActorAssumption
     DEF First, Consumer, GetDir, Dirs, GetLabels, Read, Goto, TypeOK, Actors
<1>4. ~IsEmpty(GetDir(a)) /\ tail' = tail
  BY DEF CheckStillHolds, Read
<1>5. /\ slot' = [slot EXCEPT ![GetDir(a)][head[GetDir(a)]] = NoMsg]
      /\ got' = [got EXCEPT ![GetDir(a)] = slot[GetDir(a)][head[GetDir(a)]]]
  BY DEF Read
<1>6. got'[GetDir(a)] = slot[GetDir(a)][head[GetDir(a)]]
  BY <1>1, <1>5 DEF TypeOK
<1>7. \A i \in Index : i # head[GetDir(a)] => slot'[GetDir(a)][i] = slot[GetDir(a)][i]
  BY <1>1, <1>5 DEF TypeOK
<1>8. /\ Contents(GetDir(a)) # <<>>
      /\ Head(Contents(GetDir(a))) = slot[GetDir(a)][head[GetDir(a)]]
      /\ Contents(GetDir(a))' = Tail(Contents(GetDir(a)))
  BY <1>1, <1>2, <1>4, <1>7, ContentsShrinks
<1>9. ASSUME NEW d \in Dirs \ {GetDir(a)} PROVE Quiet(d)
  <2>1. slot'[d] = slot[d] /\ got'[d] = got[d]
    BY <1>5 DEF TypeOK
  <2> QED BY <2>1, <1>3, <1>4, ContentsStays DEF Quiet
<1> QED BY <1>6, <1>8, <1>9 DEF TakesOne

LEMMA RingStep ==
  ASSUME FifoInv, [Next]_vars
  PROVE  \/ \A d \in Dirs : Quiet(d)
         \/ \E a \in Producers : PostsOne(a)
         \/ \E a \in {cpu0, timer} : TakesOne(a)
<1>0. TypeOK /\ TypeOK'
  BY TypeOKNext DEF FifoInv, RingInv
<1> USE DEF Goto, TypeOK, Actors, Producers
<1>1. ASSUME NEW t \in Tasks, Post(t) \/ PostBatch(t) PROVE \A d \in Dirs : Quiet(d)
  BY <1>0, <1>1, QuietStep DEF Post, PostBatch
<1>2. ASSUME NEW a \in Actors, Acquire(a) PROVE \A d \in Dirs : Quiet(d)
  BY <1>0, <1>2, QuietStep DEF Acquire
<1>3. ASSUME DropReply PROVE \A d \in Dirs : Quiet(d)
  BY <1>0, <1>3, QuietStep DEF DropReply
<1>4. ASSUME NEW a \in Producers, HasRoom(a) \/ NoRoom(a) \/ ReleasePut(a)
      PROVE  \A d \in Dirs : Quiet(d)
  BY <1>0, <1>4, QuietStep DEF HasRoom, NoRoom, ReleasePut
<1>5. ASSUME NEW a \in {cpu0, timer}, HasMsg(a) \/ NoneThere(a) \/ ReleaseGet(a)
      PROVE  \A d \in Dirs : Quiet(d)
  BY <1>0, <1>5, QuietStep DEF HasMsg, NoneThere, ReleaseGet
<1>6. ASSUME NEW a \in Producers, Write(a) PROVE \A d \in Dirs : Quiet(d)
  <2> TAKE d \in Dirs
  <2>1. Holds(a) /\ PutDir(a) \in Dirs
    BY <1>6 DEF Write, Holds, PutLabels, PutDir, Dirs
  <2>2. First(d)' = First(d) /\ tail' = tail /\ got' = got
    BY <1>6 DEF First, Consumer, Write
  <2>3. \A i \in Index : i # tail[d] => slot'[d][i] = slot[d][i]
    BY <1>6, <2>1 DEF Write
  <2> QED BY <1>0, <2>2, <2>3, ContentsStays DEF Quiet
<1>7. ASSUME NEW a \in {cpu0, timer}, AdvanceHead(a) PROVE \A d \in Dirs : Quiet(d)
  <2> TAKE d \in Dirs
  <2>1. Consumer(GetDir(a)) = a /\ GetDir(a) \in Dirs
    BY ActorAssumption DEF Consumer, GetDir, Dirs
  <2>2. tail' = tail /\ slot' = slot /\ got' = got
    BY <1>7 DEF AdvanceHead
  <2>3. First(d)' = First(d)
    <3>1. CASE d = GetDir(a)
      <4>1. pc[a] = "getAdvance" /\ pc'[a] = "getUnlock"
        BY <1>0, <1>7 DEF AdvanceHead
      <4>2. head'[d] = NumLoop(head[d])
        BY <1>0, <1>7, <2>1, <3>1 DEF AdvanceHead
      <4> QED BY <4>1, <4>2, <2>1, <3>1 DEF First
    <3>2. CASE d # GetDir(a)
      BY <1>7, <3>2, ActorAssumption DEF First, AdvanceHead, Consumer, GetDir, Dirs
    <3> QED BY <3>1, <3>2
  <2> QED BY <1>0, <2>2, <2>3, ContentsStays DEF Quiet
<1>8. CASE UNCHANGED vars
  <2>1. UNCHANGED <<ring, got>> /\ pc' = pc
    BY <1>8 DEF vars, ring
  <2> QED BY <1>0, <2>1, QuietStep
<1> HIDE DEF TypeOK, Actors, Producers, Goto
<1> QED BY <1>0, <1>1, <1>2, <1>3, <1>4, <1>5, <1>6, <1>7, <1>8, AdvanceTailPosts, ReadTakes
        DEF Next, PutStep, GetStep

-----------------------------------------------------------------------------
(* Refinement.                                                             *)

LEMMA FifoInit == Init => Fifo!Init
<1> SUFFICES ASSUME Init PROVE Fifo!Init
  OBVIOUS
<1>1. ASSUME NEW d \in Dirs PROVE Contents(d) = <<>>
  <2>1. Count(d) = 0
    BY DEF Init, Count, First, Consumer, Actors, Dirs
  <2> QED BY <2>1 DEF Contents
<1> QED BY <1>1 DEF Fifo!Init, Init

LEMMA FifoNext == FifoInv /\ [Next]_vars => [Fifo!Next]_(Fifo!fifoVars)
<1> SUFFICES ASSUME FifoInv, [Next]_vars PROVE [Fifo!Next]_(Fifo!fifoVars)
  OBVIOUS
<1> DEFINE queue == [d \in Dirs |-> Contents(d)]
<1>0. got \in [Dirs -> Msg \cup {NoMsg}] /\ got' \in [Dirs -> Msg \cup {NoMsg}]
  BY TypeOKNext DEF FifoInv, RingInv, TypeOK
<1>1. ASSUME \A d \in Dirs : Quiet(d) PROVE UNCHANGED Fifo!fifoVars
  <2>1. queue' = queue
    BY <1>1 DEF Quiet
  <2>2. got' = got
    BY <1>0, <1>1 DEF Quiet
  <2> QED BY <2>1, <2>2 DEF Fifo!fifoVars
<1>2. ASSUME NEW a \in Producers, PostsOne(a) PROVE Fifo!Next
  <2>1. PutDir(a) \in Dirs
    BY DEF PutDir, Dirs
  <2>2. queue' = [queue EXCEPT ![PutDir(a)] = Append(@, msg[a])]
    BY <1>2 DEF PostsOne, Quiet
  <2>3. Fifo!Put(PutDir(a), msg[a])
    BY <1>2, <2>1, <2>2 DEF PostsOne, Fifo!Put
  <2>4. Fifo!Grows(PutDir(a))
    <3>1. Contents(PutDir(a)) \in Seq(Msg)
      BY <2>1, ContentsType DEF FifoInv
    <3>2. queue[PutDir(a)] = Contents(PutDir(a)) /\ queue'[PutDir(a)] = Contents(PutDir(a))'
      BY <2>1
    <3> QED BY <1>2, <3>1, <3>2 DEF PostsOne, Fifo!Grows
  <2> QED BY <1>2, <2>1, <2>3, <2>4 DEF Fifo!Next, PostsOne
<1>3. ASSUME NEW a \in {cpu0, timer}, TakesOne(a) PROVE Fifo!Next
  <2>1. GetDir(a) \in Dirs
    BY DEF GetDir, Dirs
  <2>2. queue' = [queue EXCEPT ![GetDir(a)] = Tail(@)]
    BY <1>3 DEF TakesOne, Quiet
  <2>3. got' = [got EXCEPT ![GetDir(a)] = Head(Contents(GetDir(a)))]
    BY <1>0, <1>3, <2>1 DEF TakesOne, Quiet
  <2>4. Fifo!Get(GetDir(a))
    BY <1>3, <2>1, <2>2, <2>3 DEF TakesOne, Fifo!Get
  <2> QED BY <2>1, <2>4 DEF Fifo!Next
<1> QED BY <1>1, <1>2, <1>3, RingStep

(* Each job ring implements a bounded FIFO: MsgPut and MsgPut_nolock       *)
(* append, MsgGet takes the oldest command, and nothing else changes what  *)
(* is waiting.                                                             *)
THEOREM RingsAreFifos == Spec => IsFifo
  BY FifoInit, FifoNext, FifoInvInit, FifoInvNext, PTL DEF Spec, IsFifo, Fifo!Spec

-----------------------------------------------------------------------------
(* Batches.                                                                *)

(* Only a batch has commands to come; it never gives up for want of room;  *)
(* and the key is released after the last command of a batch.              *)
OnlyBatches == \A t \in Tasks : /\ pc[t] \in {"putLock"} \cup PutLabels /\ msg[t].left > 0 => batch[t]
                                /\ pc[t] = "putFail" => ~batch[t]
LastPosted == \A t \in Tasks : pc[t] = "putUnlock" => Posted[Len(Posted)].left = 0
BatchInv == FifoInv /\ OnlyBatches /\ LastPosted /\ BatchContiguous

LEMMA OnlyBatchesNext == FifoInv /\ OnlyBatches /\ [Next]_vars => OnlyBatches'
<1> SUFFICES ASSUME TypeOK, OnlyBatches, [Next]_vars, NEW t \in Tasks
             PROVE  /\ pc'[t] \in {"putLock"} \cup PutLabels /\ msg'[t].left > 0 => batch'[t]
                    /\ pc'[t] = "putFail" => ~batch'[t]
  BY DEF OnlyBatches, FifoInv, RingInv
<1> USE DEF TypeOK, OnlyBatches, Actors, Producers, Goto, PutLabels, GetLabels
<1>1. ASSUME NEW u \in Tasks, Post(u) \/ PostBatch(u)
      PROVE  /\ pc'[t] \in {"putLock"} \cup PutLabels /\ msg'[t].left > 0 => batch'[t]
             /\ pc'[t] = "putFail" => ~batch'[t]
  BY <1>1 DEF Post, PostBatch
<1>2. ASSUME NEW a \in Actors, Acquire(a)
      PROVE  /\ pc'[t] \in {"putLock"} \cup PutLabels /\ msg'[t].left > 0 => batch'[t]
             /\ pc'[t] = "putFail" => ~batch'[t]
  BY <1>2 DEF Acquire
<1>3. ASSUME DropReply
      PROVE  /\ pc'[t] \in {"putLock"} \cup PutLabels /\ msg'[t].left > 0 => batch'[t]
             /\ pc'[t] = "putFail" => ~batch'[t]
  BY <1>3, ActorAssumption DEF DropReply
<1>4. ASSUME NEW a \in Producers, HasRoom(a) \/ NoRoom(a) \/ Write(a)
      PROVE  /\ pc'[t] \in {"putLock"} \cup PutLabels /\ msg'[t].left > 0 => batch'[t]
             /\ pc'[t] = "putFail" => ~batch'[t]
  BY <1>4 DEF HasRoom, NoRoom, Write
<1>5. ASSUME NEW a \in Producers, AdvanceTail(a)
      PROVE  /\ pc'[t] \in {"putLock"} \cup PutLabels /\ msg'[t].left > 0 => batch'[t]
             /\ pc'[t] = "putFail" => ~batch'[t]
  BY <1>5 DEF AdvanceTail
<1>6. ASSUME NEW a \in Producers, ReleasePut(a)
      PROVE  /\ pc'[t] \in {"putLock"} \cup PutLabels /\ msg'[t].left > 0 => batch'[t]
             /\ pc'[t] = "putFail" => ~batch'[t]
  BY <1>6 DEF ReleasePut
<1>7. ASSUME NEW a \in {cpu0, timer}, GetStep(a)
      PROVE  /\ pc'[t] \in {"putLock"} \cup PutLabels /\ msg'[t].left > 0 => batch'[t]
             /\ pc'[t] = "putFail" => ~batch'[t]
  BY <1>7, ActorAssumption DEF GetStep, HasMsg, NoneThere, Read, AdvanceHead, ReleaseGet
<1>8. CASE UNCHANGED vars
  BY <1>8 DEF vars
<1> HIDE DEF TypeOK, OnlyBatches, Actors, Producers, Goto, PutLabels, GetLabels
<1> QED BY <1>1, <1>2, <1>3, <1>4, <1>5, <1>6, <1>7, <1>8 DEF Next, PutStep

(* The commands on their way to cpu0, place by place.                      *)
PostedPlaces == /\ Posted \in Seq(Msg \cup {NoMsg})
                /\ Len(Posted) = Len(Contents("1to0")) + 1
                /\ Posted[1] = got["1to0"]
                /\ \A k \in 1 .. Len(Contents("1to0")) : Posted[k + 1] = Contents("1to0")[k]

LEMMA PostedAt == RingInv => PostedPlaces
<1> SUFFICES ASSUME RingInv PROVE PostedPlaces
  OBVIOUS
<1>1. Contents("1to0") \in Seq(Msg \cup {NoMsg})
  <2>1. "1to0" \in Dirs
    BY DEF Dirs
  <2>2. Contents("1to0") \in Seq(Msg)
    BY <2>1, ContentsType
  <2> QED BY <2>2
<1>2. <<got["1to0"]>> \in Seq(Msg \cup {NoMsg})
  BY DEF RingInv, TypeOK, Dirs
<1> QED BY <1>1, <1>2 DEF Posted, PostedPlaces

LEMMA PostedAtNext == RingInv' => PostedPlaces'
  BY PostedAt, PTL

LEMMA PostedQuiet == ASSUME Quiet("1to0") PROVE Posted' = Posted
  BY DEF Quiet, Posted

LEMMA PostedGrows ==
  ASSUME RingInv, RingInv', NEW t \in Tasks, PostsOne(t)
  PROVE  /\ Len(Posted)' = Len(Posted) + 1
         /\ \A k \in 1 .. Len(Posted) : Posted'[k] = Posted[k]
         /\ Posted'[Len(Posted) + 1] = msg[t]
<1> DEFINE c == Contents("1to0")
<1>1. c' = Append(c, msg[t]) /\ got' = got
  BY ActorAssumption DEF PostsOne, PutDir
<1>2. c \in Seq(Msg) /\ msg[t] \in Msg
  BY ContentsType DEF Dirs, PostsOne
<1> HIDE DEF c
<1>3. Len(c') = Len(c) + 1 /\ c'[Len(c) + 1] = msg[t] /\ \A k \in 1 .. Len(c) : c'[k] = c[k]
  BY <1>1, <1>2
<1>4. /\ Len(Posted) = Len(c) + 1 /\ Posted[1] = got["1to0"]
      /\ \A k \in 1 .. Len(c) : Posted[k + 1] = c[k]
  BY PostedAt DEF c, PostedPlaces
<1>5. /\ Len(Posted)' = Len(c') + 1 /\ Posted'[1] = got'["1to0"]
      /\ \A k \in 1 .. Len(c') : Posted'[k + 1] = c'[k]
  BY PostedAtNext DEF c, PostedPlaces
<1>6. Len(c) \in Nat
  BY <1>2
<1>7. ASSUME NEW k \in 1 .. Len(c) + 1 PROVE Posted'[k] = Posted[k]
  <2>1. CASE k = 1
    BY <2>1, <1>1, <1>4, <1>5
  <2>2. CASE k > 1
    <3>1. k - 1 \in 1 .. Len(c) /\ k = (k - 1) + 1
      BY <2>2, <1>6
    <3>2. Posted'[(k - 1) + 1] = c'[k - 1]
      BY <3>1, <1>3, <1>5, <1>6
    <3> QED BY <3>1, <3>2, <1>3, <1>4
  <2> QED BY <2>1, <2>2, <1>6
<1>8. Posted'[Len(c) + 2] = msg[t]
  BY <1>3, <1>5, <1>6
<1> QED BY <1>3, <1>4, <1>5, <1>6, <1>7, <1>8

LEMMA PostedShrinks ==
  ASSUME RingInv, RingInv', TakesOne(cpu0)
  PROVE  /\ Len(Posted) > 1
         /\ Len(Posted)' = Len(Posted) - 1
         /\ \A k \in 1 .. Len(Posted) - 1 : Posted'[k] = Posted[k + 1]
<1> DEFINE c == Contents("1to0")
<1>1. c # <<>> /\ c' = Tail(c) /\ got'["1to0"] = Head(c)
  BY DEF TakesOne, GetDir
<1>2. c \in Seq(Msg)
  BY ContentsType DEF Dirs
<1> HIDE DEF c
<1>3. Len(c') = Len(c) - 1 /\ \A k \in 1 .. Len(c) - 1 : c'[k] = c[k + 1]
  BY <1>1, <1>2, HeadTailProperties
<1>4. Len(c) \in Nat /\ Len(c) > 0 /\ Head(c) = c[1]
  BY <1>1, <1>2
<1>5. /\ Len(Posted) = Len(c) + 1
      /\ \A k \in 1 .. Len(c) : Posted[k + 1] = c[k]
  BY PostedAt DEF c, PostedPlaces
<1>6. /\ Len(Posted)' = Len(c') + 1 /\ Posted'[1] = got'["1to0"]
      /\ \A k \in 1 .. Len(c') : Posted'[k + 1] = c'[k]
  BY PostedAtNext DEF c, PostedPlaces
<1>7. ASSUME NEW k \in 1 .. Len(c) PROVE Posted'[k] = Posted[k + 1]
  <2>1. CASE k = 1
    BY <2>1, <1>1, <1>4, <1>5, <1>6
  <2>2. CASE k > 1
    <3>1. k - 1 \in 1 .. Len(c) - 1 /\ k = (k - 1) + 1
      BY <2>2, <1>4
    <3>2. Posted'[(k - 1) + 1] = c'[k - 1]
      BY <3>1, <1>3, <1>6
    <3>3. c'[k - 1] = c[(k - 1) + 1]
      BY <3>1, <1>3
    <3> QED BY <3>1, <3>2, <3>3, <1>5
  <2> QED BY <2>1, <2>2, <1>4
<1> QED BY <1>3, <1>4, <1>5, <1>6, <1>7

(* A step that is not a task's post and not cpu0's read leaves the         *)
(* commands on their way to cpu0 alone.                                    *)
LEMMA PostedStep ==
  ASSUME FifoInv, [Next]_vars
  PROVE  \/ Posted' = Posted /\ ~(\E t \in Tasks : AdvanceTail(t)) /\ ~Read(cpu0)
         \/ \E t \in Tasks : PostsOne(t)
         \/ TakesOne(cpu0)
<1>0. TypeOK /\ TypeOK'
  BY TypeOKNext DEF FifoInv, RingInv
<1>1. CASE \E t \in Tasks : AdvanceTail(t)
  BY <1>0, <1>1, AdvanceTailPosts DEF Producers
<1>2. CASE Read(cpu0)
  BY <1>0, <1>2, ReadTakes
<1>3. CASE ~(\E t \in Tasks : AdvanceTail(t)) /\ ~Read(cpu0)
  <2>1. Quiet("1to0")
    <3>1. CASE \A d \in Dirs : Quiet(d)
      BY <3>1 DEF Dirs
    <3>2. CASE \E a \in Producers : PostsOne(a)
      BY <3>2, <1>3 DEF PostsOne, Producers, PutDir, Dirs
    <3>3. CASE \E a \in {cpu0, timer} : TakesOne(a)
      BY <3>3, <1>3, ActorAssumption DEF TakesOne, GetDir, Dirs
    <3> QED BY <3>1, <3>2, <3>3, RingStep
  <2> QED BY <2>1, <1>3, PostedQuiet
<1> QED BY <1>1, <1>2, <1>3

LEMMA LastPostedNext == FifoInv /\ OnlyBatches /\ LastPosted /\ [Next]_vars => LastPosted'
<1> SUFFICES ASSUME FifoInv, LastPosted, [Next]_vars, NEW t \in Tasks, pc'[t] = "putUnlock"
             PROVE  Posted'[Len(Posted)'].left = 0
  BY DEF LastPosted
<1>0. RingInv /\ RingInv' /\ TypeOK /\ MutualExclusion /\ t \in Actors /\ t \in Producers
  BY RingInvNext DEF FifoInv, RingInv, Actors, Producers
<1>1. AdvanceTail(t) \/ pc[t] = "putUnlock"
  <2> USE DEF TypeOK, Goto, Actors, Producers
  <2>1. ASSUME NEW a \in Actors, Acquire(a) PROVE pc[t] = "putUnlock"
    BY <1>0, <2>1 DEF Acquire
  <2>2. ASSUME NEW u \in Tasks, Post(u) \/ PostBatch(u) PROVE pc[t] = "putUnlock"
    BY <1>0, <2>2 DEF Post, PostBatch
  <2>3. ASSUME DropReply PROVE pc[t] = "putUnlock"
    BY <1>0, <2>3 DEF DropReply
  <2>4. ASSUME NEW a \in Producers, PutStep(a), ~AdvanceTail(t) PROVE pc[t] = "putUnlock"
    BY <1>0, <2>4 DEF PutStep, HasRoom, NoRoom, Write, AdvanceTail, ReleasePut
  <2>5. ASSUME NEW a \in {cpu0, timer}, GetStep(a) PROVE pc[t] = "putUnlock"
    BY <1>0, <2>5 DEF GetStep, HasMsg, NoneThere, Read, AdvanceHead, ReleaseGet
  <2>6. ASSUME UNCHANGED vars PROVE pc[t] = "putUnlock"
    BY <2>6 DEF vars
  <2> QED BY <2>1, <2>2, <2>3, <2>4, <2>5, <2>6 DEF Next
<1>2. CASE AdvanceTail(t)
  <2>1. PostsOne(t)
    BY <1>0, <1>2, AdvanceTailPosts DEF RingInv
  <2>2. Posted'[Len(Posted)'] = msg[t] /\ msg[t] \in Msg
    BY <1>0, <2>1, PostedGrows DEF PostsOne
  <2>3. ~(msg[t].left > 0)
    BY <1>0, <1>2 DEF AdvanceTail, Goto, TypeOK
  <2>4. msg[t].left \in Nat
    BY <2>2, BatchAssumption DEF Msg, Left
  <2> QED BY <2>2, <2>3, <2>4
<1>3. CASE pc[t] = "putUnlock"
  <2>1. Holds(t) /\ \A b \in Actors \ {t} : pc[b] \notin PutLabels \cup GetLabels
    BY <1>0, <1>3, Alone DEF Holds, PutLabels
  <2>2. \A u \in Tasks : ~AdvanceTail(u)
    BY <1>3, <2>1 DEF AdvanceTail, Actors, PutLabels
  <2>3. ~Read(cpu0)
    BY <2>1, ActorAssumption DEF Read, Actors, GetLabels
  <2>4. Posted' = Posted
    BY <2>2, <2>3, PostedStep DEF PostsOne, TakesOne
  <2> QED BY <2>4, <1>3 DEF LastPosted
<1> QED BY <1>1, <1>2, <1>3

(* The task in the middle of a batch goes on with it.                      *)
Continues(t, m) == batch[t] /\ Holds(t) /\ Follows(msg[t], m)

LEMMA ContinuesNext ==
  ASSUME BatchInv, [Next]_vars, NEW t \in Tasks, NEW m, Continues(t, m), m.left > 0,
         m = Posted[Len(Posted)], ~AdvanceTail(t)
  PROVE  Continues(t, m)'
<1>0. /\ TypeOK /\ MutualExclusion /\ key = 1 /\ t \in Actors /\ t \in Producers
      /\ \A b \in Actors \ {t} : pc[b] \notin PutLabels \cup GetLabels
  BY Alone DEF BatchInv, FifoInv, RingInv, Continues, MutualExclusion, Actors, Producers
<1>1. pc[t] \in {"putCheck", "putWrite", "putAdvance"}
  <2>1. pc[t] # "putUnlock"
    BY DEF BatchInv, LastPosted
  <2>2. pc[t] # "putFail"
    BY DEF BatchInv, OnlyBatches, Continues
  <2> QED BY <1>0, <2>1, <2>2 DEF TypeOK, PutLabels, Continues, Holds, GetLabels
<1>2. pc'[t] \in PutLabels /\ msg'[t] = msg[t] /\ batch'[t] = batch[t]
  <2> USE DEF TypeOK, Goto, Actors, Producers
  <2>1. ASSUME NEW a \in Actors, Acquire(a) PROVE FALSE
    BY <1>0, <2>1 DEF Acquire
  <2>2. ASSUME NEW u \in Tasks, Post(u) \/ PostBatch(u)
        PROVE  pc'[t] \in PutLabels /\ msg'[t] = msg[t] /\ batch'[t] = batch[t]
    BY <1>0, <1>1, <2>2 DEF Post, PostBatch, PutLabels
  <2>3. ASSUME DropReply
        PROVE  pc'[t] \in PutLabels /\ msg'[t] = msg[t] /\ batch'[t] = batch[t]
    BY <1>0, <1>1, <2>3, ActorAssumption DEF DropReply, PutLabels
  <2>4. ASSUME NEW a \in Producers, PutStep(a)
        PROVE  pc'[t] \in PutLabels /\ msg'[t] = msg[t] /\ batch'[t] = batch[t]
    <3>1. a = t
      BY <1>0, <2>4 DEF PutStep, HasRoom, NoRoom, Write, AdvanceTail, ReleasePut, PutLabels
    <3>2. HasRoom(t) \/ Write(t)
      BY <1>1, <2>4, <3>1 DEF PutStep, NoRoom, ReleasePut, Continues
    <3> QED BY <1>0, <1>1, <3>2 DEF HasRoom, Write, PutLabels
  <2>5. ASSUME NEW a \in {cpu0, timer}, GetStep(a) PROVE FALSE
    <3>1. pc[a] \in GetLabels /\ a # t /\ a \in Actors
      BY <2>5, ActorAssumption
         DEF GetStep, HasMsg, NoneThere, Read, AdvanceHead, ReleaseGet, GetLabels
    <3> QED BY <1>0, <3>1
  <2>6. ASSUME UNCHANGED vars
        PROVE  pc'[t] \in PutLabels /\ msg'[t] = msg[t] /\ batch'[t] = batch[t]
    BY <1>1, <2>6 DEF vars, PutLabels
  <2> QED BY <2>1, <2>2, <2>3, <2>4, <2>5, <2>6 DEF Next
<1> QED BY <1>2 DEF Continues, Follows, Holds

LEMMA BatchNext == BatchInv /\ [Next]_vars => BatchContiguous'
<1> SUFFICES ASSUME BatchInv, [Next]_vars,
                    NEW k \in 1 .. Len(Posted)', Posted'[k] # NoMsg, Posted'[k].left > 0
             PROVE  IF k < Len(Posted)'
                      THEN Follows(Posted'[k + 1], Posted'[k])
                      ELSE \E t \in Tasks : Continues(t, Posted[k])'
  BY DEF BatchContiguous, Continues
<1>0. FifoInv /\ RingInv /\ RingInv' /\ TypeOK /\ MutualExclusion /\ Len(Posted) \in Nat
  BY RingInvNext, PostedAt DEF BatchInv, FifoInv, RingInv, PostedPlaces
<1>1. \A i \in 1 .. Len(Posted) : Posted[i] # NoMsg /\ Posted[i].left > 0 =>
         IF i < Len(Posted) THEN Follows(Posted[i + 1], Posted[i])
                            ELSE \E t \in Tasks : Continues(t, Posted[i])
  BY DEF BatchInv, BatchContiguous, Continues
<1> DEFINE m == Posted'[k]
<1>2. CASE Posted' = Posted /\ ~(\E t \in Tasks : AdvanceTail(t)) /\ ~Read(cpu0)
  <2>1. k \in 1 .. Len(Posted) /\ m = Posted[k] /\ Len(Posted)' = Len(Posted)
    BY <1>2
  <2>2. CASE k < Len(Posted)
    BY <1>1, <1>2, <2>1, <2>2
  <2>3. CASE k = Len(Posted)
    <3>1. PICK t \in Tasks : Continues(t, Posted[k])
      BY <1>1, <1>2, <2>1, <2>3
    <3>2. PICK c : c = Posted[k]
      OBVIOUS
    <3>3. Continues(t, c)'
      BY <1>2, <2>3, <3>1, <3>2, ContinuesNext
    <3>4. Continues(t, Posted[k])'
      BY <1>2, <3>2, <3>3 DEF Continues, Follows
    <3> QED BY <2>1, <2>3, <3>4
  <2> QED BY <2>1, <2>2, <2>3, <1>0
<1>3. ASSUME NEW t \in Tasks, PostsOne(t)
      PROVE  IF k < Len(Posted)'
               THEN Follows(Posted'[k + 1], Posted'[k])
               ELSE \E u \in Tasks : Continues(u, Posted[k])'
  <2>1. /\ Len(Posted)' = Len(Posted) + 1
        /\ \A i \in 1 .. Len(Posted) : Posted'[i] = Posted[i]
        /\ Posted'[Len(Posted) + 1] = msg[t]
    BY <1>0, <1>3, PostedGrows
  <2>2. AdvanceTail(t) /\ Holds(t) /\ pc[t] = "putAdvance" /\ t \in Actors /\ t \in Producers
    BY <1>3 DEF PostsOne, AdvanceTail, Holds, PutLabels, Actors, Producers
  <2>3. CASE k < Len(Posted)
    BY <1>0, <1>1, <2>1, <2>3
  <2>4. CASE k = Len(Posted)
    <3>1. PICK u \in Tasks : Continues(u, Posted[k])
      BY <1>0, <1>1, <2>1, <2>4
    <3>2. u = t
      BY <1>0, <2>2, <3>1 DEF Continues, MutualExclusion, Actors
    <3> QED BY <1>0, <2>1, <2>4, <3>1, <3>2 DEF Continues
  <2>5. CASE k = Len(Posted) + 1
    <3>1. msg[t].left > 0 /\ Posted'[k] = msg[t]
      BY <2>1, <2>5
    <3>2. msg[t] \in Msg /\ msg[t].from = t
      BY <1>0, <2>2 DEF TypeOK, PutLabels
    <3>3. batch[t]
      BY <2>2, <3>1 DEF BatchInv, OnlyBatches, PutLabels
    <3>4. /\ msg'[t] = [from |-> t, cmd |-> "other", left |-> msg[t].left - 1]
          /\ pc'[t] = "putCheck" /\ batch'[t]
      BY <1>0, <2>2, <3>1, <3>3 DEF AdvanceTail, Goto, TypeOK
    <3>5. Holds(t)'
      BY <3>4 DEF Holds, PutLabels
    <3>6. Follows(msg'[t], Posted'[k])
      BY <3>1, <3>2, <3>4 DEF Follows
    <3> QED BY <1>0, <2>1, <2>5, <3>4, <3>5, <3>6 DEF Continues, Follows
  <2> QED BY <1>0, <2>1, <2>3, <2>4, <2>5
<1>4. ASSUME TakesOne(cpu0)
      PROVE  IF k < Len(Posted)'
               THEN Follows(Posted'[k + 1], Posted'[k])
               ELSE \E t \in Tasks : Continues(t, Posted[k])'
  <2>1. /\ Len(Posted) > 1
        /\ Len(Posted)' = Len(Posted) - 1
        /\ \A i \in 1 .. Len(Posted) - 1 : Posted'[i] = Posted[i + 1]
    BY <1>0, <1>4, PostedShrinks
  <2>2. CASE k < Len(Posted)'
    BY <1>0, <1>1, <2>1, <2>2
  <2>3. CASE k = Len(Posted)'
    <3>1. PICK t \in Tasks : Continues(t, Posted[k + 1])
      BY <1>0, <1>1, <2>1, <2>3
    <3>2. FALSE
      BY <1>0, <1>4, <3>1, Alone, ActorAssumption
         DEF TakesOne, Read, Continues, Holds, GetLabels, Actors
    <3> QED BY <3>2
  <2> QED BY <1>0, <2>1, <2>2, <2>3
<1> QED BY <1>0, <1>2, <1>3, <1>4, PostedStep

LEMMA BatchInvNext == BatchInv /\ [Next]_vars => BatchInv'
  BY FifoInvNext, OnlyBatchesNext, LastPostedNext, BatchNext DEF BatchInv

LEMMA BatchInvInit == Init => BatchInv
<1> SUFFICES ASSUME Init PROVE BatchInv
  OBVIOUS
<1>1. FifoInv /\ RingInv
  BY FifoInvInit DEF FifoInv
<1>2. \A t \in Tasks : pc[t] = "idle"
  BY DEF Init, Actors
<1>3. Contents("1to0") = <<>> /\ got["1to0"] = NoMsg
  BY FifoInit DEF Fifo!Init, Dirs
<1>4. \A k \in 1 .. Len(Posted) : Posted[k] = NoMsg
  BY <1>1, <1>3, PostedAt DEF PostedPlaces
<1> QED BY <1>1, <1>2, <1>4 DEF BatchInv, OnlyBatches, LastPosted, BatchContiguous, PutLabels

(* The commands of a batch reach cpu0 one after the other, whatever else   *)
(* the tasks of CPU1 post meanwhile.                                       *)
THEOREM BatchesStayTogether == Spec => []BatchContiguous
<1>1. Spec => []BatchInv
  BY BatchInvInit, BatchInvNext, PTL DEF Spec
<1>2. BatchInv => BatchContiguous
  BY DEF BatchInv
<1> QED BY <1>1, <1>2, PTL

-----------------------------------------------------------------------------
(* The stall.                                                              *)

LEMMA StallNext == TypeOK /\ MutualExclusion /\ Stalled /\ [Next]_vars => Stalled'
<1> SUFFICES ASSUME TypeOK, MutualExclusion, [Next]_vars, NEW t \in Tasks,
                    batch[t], pc[t] = "putCheck", IsFull("1to0")
             PROVE  batch'[t] /\ pc'[t] = "putCheck" /\ IsFull("1to0")'
  BY DEF Stalled
<1>1. /\ Holds(t) /\ t \in Actors /\ t \in Producers /\ PutDir(t) = "1to0" /\ key = 1
      /\ \A b \in Actors \ {t} : pc[b] \notin PutLabels \cup GetLabels
  BY Alone, ActorAssumption DEF Holds, PutLabels, Actors, Producers, PutDir, MutualExclusion
<1> USE DEF TypeOK, Goto, Actors, Producers, IsFull, ring
<1>2. ASSUME NEW a \in Actors, Acquire(a) PROVE FALSE
  BY <1>1, <1>2 DEF Acquire
<1>3. ASSUME NEW u \in Tasks, Post(u) \/ PostBatch(u)
      PROVE  batch'[t] /\ pc'[t] = "putCheck" /\ IsFull("1to0")'
  BY <1>3 DEF Post, PostBatch
<1>4. ASSUME DropReply PROVE batch'[t] /\ pc'[t] = "putCheck" /\ IsFull("1to0")'
  BY <1>4, ActorAssumption DEF DropReply
<1>5. ASSUME NEW a \in Producers, PutStep(a) PROVE FALSE
  BY <1>1, <1>5 DEF PutStep, HasRoom, NoRoom, Write, AdvanceTail, ReleasePut, PutLabels
<1>6. ASSUME NEW a \in {cpu0, timer}, GetStep(a) PROVE FALSE
  BY <1>1, <1>6, ActorAssumption
     DEF GetStep, HasMsg, NoneThere, Read, AdvanceHead, ReleaseGet, GetLabels
<1>7. CASE UNCHANGED vars
  BY <1>7 DEF vars
<1> QED BY <1>2, <1>3, <1>4, <1>5, <1>6, <1>7 DEF Next

(* Once a batch has found the ring full, no command is ever posted or      *)
(* taken again.                                                            *)
THEOREM StallNeverEnds == Spec => StallIsForever
<1>1. TypeOK /\ MutualExclusion /\ [Next]_vars => [Stalled => Stalled']_vars
  BY StallNext
<1>2. Spec => [](TypeOK /\ MutualExclusion)
  BY TypeCorrect, OneHolder, PTL
<1> QED BY <1>1, <1>2, PTL DEF Spec, StallIsForever
=============================================================================
