---------------------------- MODULE NetRxProofs ----------------------------
(***************************************************************************)
(* Theorems about NetRx: the ring between the two processors is sound for  *)
(* every number of slots, when each side uses it at most once while the    *)
(* other side's num_loop has its index at N.                               *)
(***************************************************************************)
EXTENDS NetRx, TLAPS

USE SizeAssumption, KindsAssumption, FlagsAssumption, PbufAssumption

-----------------------------------------------------------------------------
(* Types.                                                                  *)

(* The flags, and their places in IsrSys1.                                 *)
LEMMA FlagsType == /\ "eth" \in FlagSet
                   /\ Len(Flags) \in Nat \ {0}
                   /\ DOMAIN Flags = 1 .. Len(Flags)
                   /\ \A k \in DOMAIN Flags : Flags[k] \in FlagSet
  BY DEF FlagSet

(* The state after boot has its types.                                     *)
LEMMA TypeOKInit == Init => TypeOK
<1> SUFFICES ASSUME Init PROVE TypeOK
  OBVIOUS
<1>1. scan \in DOMAIN Flags
  BY FlagsType DEF Init
<1>2. wrapUse \in [{"head", "tail"} -> 0 .. WrapWindow]
  BY DEF Init
<1>3. slot \in [Index -> BOOLEAN]
  <2>1. slot = [i \in Index |-> FALSE]
    BY DEF Init
  <2> QED BY <2>1, Zenon
<1>4. more \in BOOLEAN /\ chk \in BOOLEAN
  BY Zenon DEF Init
<1>5. /\ fifo \in 0 .. FifoMax /\ rx0 \in Index /\ sem \in 0 .. N
      /\ head \in 0 .. N /\ head # N /\ tail \in 0 .. N /\ tail # N
  BY DEF Init, Index
<1> QED BY <1>1, <1>2, <1>3, <1>4, <1>5, FlagsType DEF Init, TypeOK

(* The ring of CPU0 never gets more frames than it has room for.           *)
LEMMA PutRx0Type == ASSUME rx0 \in Index, NEW k, PutRx0(k) PROVE rx0' \in Index
  BY DEF PutRx0, Index

(* Every step keeps the types.                                             *)
LEMMA TypeOKNext == TypeOK /\ [Next]_vars => TypeOK'
<1> SUFFICES ASSUME TypeOK, [Next]_vars PROVE TypeOK'
  OBVIOUS
<1> USE FlagsType DEF TypeOK, ring, cpu0, cpu1
<1>1. CASE Arrive
  BY <1>1 DEF Arrive
<1>2. CASE RxIsr
  <2>1. ASSUME NEW k \in Kinds, RxOther(k) PROVE TypeOK'
    BY <2>1, PutRx0Type, SMTT(30) DEF RxOther
  <2>2. ASSUME NEW k \in Kinds, RxTake(k) PROVE TypeOK'
    <3>1. wrapUse' \in [{"head", "tail"} -> 0 .. WrapWindow]
      BY <2>2 DEF RxTake
    <3> QED BY <2>2, <3>1, SMTT(30) DEF RxTake
  <2>3. CASE RxDisable
    BY <2>3, SMTT(30) DEF RxDisable
  <2>4. CASE RxWrite
    <3>1. slot' \in [Index -> BOOLEAN]
      <4>1. slot' = [slot EXCEPT ![tail] = TRUE]
        BY <2>4 DEF RxWrite
      <4> QED BY <4>1, Zenon
    <3> QED BY <2>4, <3>1, SMTT(30) DEF RxWrite
  <2>5. CASE RxAdvance
    <3>1. wrapUse' \in [{"head", "tail"} -> 0 .. WrapWindow]
      BY <2>5 DEF RxAdvance
    <3>2. /\ tail' \in 0 .. N /\ isr0' \in {"wrap", "load"} /\ (tail' = N <=> isr0' = "wrap")
      BY <2>5 DEF RxAdvance, AfterLoop
    <3>3. UNCHANGED <<fifo, rxEn, slot, head, rx0, flags, irq1, chk, sem, frame, flag0,
                      reg0, main0, regM, isr1, scan, reg1, task, more>>
      BY <2>5 DEF RxAdvance
    <3> QED BY <3>1, <3>2, <3>3, SMTT(30)
  <2>6. CASE RxWrap
    BY <2>6, SMTT(30) DEF RxWrap
  <2>7. CASE RxExit
    BY <2>7, SMTT(30) DEF RxExit
  <2>8. CASE LoadFlags
    BY <2>8, SMTT(30) DEF LoadFlags
  <2>9. CASE StoreFlags
    BY <2>9, SMTT(30) DEF StoreFlags
  <2>10. CASE RaiseIrq
    BY <2>10, PutRx0Type, SMTT(30) DEF RaiseIrq
  <2> QED BY <1>2, <2>1, <2>2, <2>3, <2>4, <2>5, <2>6, <2>7, <2>8, <2>9, <2>10 DEF RxIsr
<1>3. CASE PostRecord
  BY <1>3 DEF PostRecord
<1>4. CASE Main
  <2>1. CASE TakeRx0
    BY <2>1, SMTT(30) DEF TakeRx0, Index
  <2>2. CASE CheckRxEn
    BY <2>2, SMTT(30) DEF CheckRxEn
  <2>3. CASE ForgetTimer
    <3>1. chk' \in BOOLEAN
      BY <2>3, Zenon DEF ForgetTimer
    <3>2. /\ main0' = "poll"
          /\ UNCHANGED <<fifo, rxEn, slot, head, tail, rx0, flags, irq1, sem, isr0, frame, flag0,
                         reg0, regM, isr1, scan, reg1, task, more, wrapUse>>
      BY <2>3 DEF ForgetTimer
    <3> QED BY <3>1, <3>2
  <2>4. CASE ShellLoad
    BY <2>4, SMTT(30) DEF ShellLoad
  <2>5. CASE ShellStore
    BY <2>5, SMTT(30) DEF ShellStore
  <2>6. CASE ShellRaise
    BY <2>6, SMTT(30) DEF ShellRaise
  <2> QED BY <1>4, <2>1, <2>2, <2>3, <2>4, <2>5, <2>6 DEF Main
<1>5. CASE SysIsr
  <2>1. CASE EnterIsr1
    BY <2>1, SMTT(30) DEF EnterIsr1
  <2>2. CASE FlagIsUp
    BY <2>2, SMTT(30) DEF FlagIsUp
  <2>3. CASE FlagIsDown
    BY <2>3, SMTT(30) DEF FlagIsDown, NextFlag
  <2>4. CASE ClearFlag
    BY <2>4, SMTT(30) DEF ClearFlag, NextFlag
  <2> QED BY <1>5, <2>1, <2>2, <2>3, <2>4 DEF SysIsr
<1>6. CASE Input
  <2>1. CASE TakeSem
    BY <2>1, SMTT(30) DEF TakeSem
  <2>2. CASE Check
    <3>1. wrapUse' \in [{"head", "tail"} -> 0 .. WrapWindow]
      <4>1. CASE tail = N
        BY <2>2, <4>1 DEF Check
      <4>2. CASE tail # N
        BY <2>2, <4>2 DEF Check
      <4> QED BY <4>1, <4>2
    <3>2. task = "check" /\ task' \in {"retest", "read"}
      BY <2>2 DEF Check
    <3>3. more' \in BOOLEAN
      BY <2>2, Zenon DEF Check
    <3>4. UNCHANGED <<fifo, rxEn, slot, head, tail, rx0, flags, irq1, chk, sem, isr0, frame,
                      flag0, reg0, main0, regM, isr1, scan, reg1>>
      BY <2>2 DEF Check
    <3> QED BY <3>1, <3>2, <3>3, <3>4
  <2>3. ASSUME NEW ok \in BOOLEAN, Read(ok) PROVE TypeOK'
    <3>1. slot' \in [Index -> BOOLEAN] /\ more' \in BOOLEAN
      <4>1. slot' = [slot EXCEPT ![head] = FALSE] /\ more' = ok
        BY <2>3 DEF Read
      <4> QED BY <4>1, Zenon
    <3> QED BY <2>3, <3>1, SMTT(30) DEF Read
  <2>4. CASE Advance
    <3>1. wrapUse' \in [{"head", "tail"} -> 0 .. WrapWindow]
      BY <2>4 DEF Advance
    <3>2. /\ head' \in 0 .. N /\ task' \in {"wrap", "retest"} /\ (head' = N <=> task' = "wrap")
      BY <2>4, SMTT(30) DEF Advance, AfterLoop
    <3>3. UNCHANGED <<fifo, rxEn, slot, tail, rx0, flags, irq1, chk, sem, isr0, frame, flag0,
                      reg0, main0, regM, isr1, scan, reg1, more>>
      BY <2>4 DEF Advance
    <3> QED BY <3>1, <3>2, <3>3, SMTT(30)
  <2>5. CASE Wrap
    BY <2>5, SMTT(30) DEF Wrap
  <2>6. CASE StillFrames
    BY <2>6, SMTT(30) DEF StillFrames, Again
  <2>7. CASE NoFrames
    BY <2>7, SMTT(30) DEF NoFrames
  <2>8. CASE Enable
    BY <2>8, SMTT(30) DEF Enable, Again
  <2> QED BY <1>6, <2>1, <2>2, <2>3, <2>4, <2>5, <2>6, <2>7, <2>8 DEF Input
<1>7. CASE UNCHANGED vars
  BY <1>7 DEF vars
<1> QED BY <1>1, <1>2, <1>3, <1>4, <1>5, <1>6, <1>7 DEF Next

(* Every variable keeps its type.                                          *)
THEOREM RxTypeCorrect == Spec => []TypeOK
  BY TypeOKInit, TypeOKNext, PTL DEF Spec
-----------------------------------------------------------------------------
(* The ring.                                                               *)

(* The test for a full ring, with an index that may be at N.               *)
LEMMA FullTest ==
  ASSUME NEW t \in 0 .. N - 1, NEW h \in 0 .. N
  PROVE  (t + 1) % N = h <=> h = Place(t + 1)
<1>1. CASE t + 1 < N
  BY <1>1 DEF Place
<1>2. CASE t + 1 = N
  <2>1. N % N = 0
    OBVIOUS
  <2> QED BY <1>2, <2>1 DEF Place
<1> QED BY <1>1, <1>2

(* What the producer knows: the ring has room for the frame it holds, and  *)
(* if the consumer's index is at N and the producer has not used the ring  *)
(* since, for one more.                                                    *)
Room ==
    IF isr0 \in {"write", "advance"}
      THEN /\ Place(tail + 1) # Place(head)
           /\ head = N /\ wrapUse["head"] = 0 => tail + 2 < N
      ELSE head = N /\ wrapUse["head"] = 0 => Place(tail) # N - 1

(* What the consumer knows: the ring has the frame it takes, and if the    *)
(* producer's index is at N and the consumer has not used the ring since,  *)
(* one more.                                                               *)
Stock ==
    IF task \in {"read", "advance"}
      THEN /\ head # Place(tail)
           /\ tail = N /\ wrapUse["tail"] = 0 => Place(head + 1) # 0
      ELSE tail = N /\ wrapUse["tail"] = 0 => Place(head) # 0

RingInv == TypeOK /\ Room /\ Stock /\ UnreadWindow

(* The ring starts sound: empty, with both processors outside it.          *)
LEMMA RingInvInit == Init => RingInv
<1> SUFFICES ASSUME Init PROVE RingInv
  OBVIOUS
<1>1. Room /\ Stock
  BY DEF Init, Room, Stock
<1>2. UnreadWindow
  <2>1. head = 0 /\ tail = 0 /\ isr0 = "off" /\ task = "wait"
    BY DEF Init
  <2>2. \A i \in Index : ~Pending(i)
    BY <2>1 DEF Pending, First, Last, Place, Index
  <2>3. \A i \in Index : ~slot[i]
    BY Zenon DEF Init
  <2> QED BY <2>2, <2>3 DEF UnreadWindow
<1> QED BY <1>1, <1>2, TypeOKInit DEF RingInv

(* A step that leaves the ring alone, and neither starts nor ends its use. *)
Aside ==
    /\ slot' = slot /\ head' = head /\ tail' = tail /\ wrapUse' = wrapUse
    /\ isr0' \in {"write", "advance"} <=> isr0 \in {"write", "advance"}
    /\ isr0' = "advance" <=> isr0 = "advance"
    /\ task' \in {"read", "advance"} <=> task \in {"read", "advance"}
    /\ task' = "advance" <=> task = "advance"

(* A step that leaves the ring alone keeps it sound.                       *)
LEMMA AsideStep ==
  ASSUME Room, Stock, UnreadWindow, Aside
  PROVE  Room' /\ Stock' /\ UnreadWindow'
<1>1. First' = First /\ Last' = Last
  BY DEF Aside, First, Last, Place
<1>2. Room'
  BY DEF Aside, Room, Place
<1>3. Stock'
  BY DEF Aside, Stock, Place
<1>4. UnreadWindow'
  BY <1>1 DEF Aside, UnreadWindow, Pending
<1> QED BY <1>2, <1>3, <1>4

(* Every step but the eight that use the ring is one of these.             *)
LEMMA OtherSteps ==
  ASSUME TypeOK, [Next]_vars
  PROVE  \/ Aside
         \/ (\E k \in Kinds : RxTake(k)) \/ RxWrite \/ RxAdvance \/ RxWrap
         \/ Check \/ (\E ok \in BOOLEAN : Read(ok)) \/ Advance \/ Wrap
<1> USE DEF Aside, ring, cpu0, cpu1
<1>1. CASE Arrive
  BY <1>1 DEF Arrive
<1>2. ASSUME RxIsr, ~\E k \in Kinds : RxTake(k), ~RxWrite, ~RxAdvance, ~RxWrap
      PROVE  Aside
  <2>1. ASSUME NEW k \in Kinds, RxOther(k) PROVE Aside
    BY <2>1 DEF RxOther
  <2>2. CASE RxDisable
    BY <2>2 DEF RxDisable
  <2>3. CASE RxExit
    BY <2>3 DEF RxExit
  <2>4. CASE LoadFlags
    BY <2>4 DEF LoadFlags
  <2>5. CASE StoreFlags
    BY <2>5 DEF StoreFlags
  <2>6. CASE RaiseIrq
    BY <2>6 DEF RaiseIrq
  <2> QED BY <1>2, <2>1, <2>2, <2>3, <2>4, <2>5, <2>6 DEF RxIsr
<1>3. CASE PostRecord
  BY <1>3 DEF PostRecord
<1>4. CASE Main
  BY <1>4 DEF Main, TakeRx0, CheckRxEn, ForgetTimer, ShellLoad, ShellStore, ShellRaise
<1>5. CASE SysIsr
  BY <1>5 DEF SysIsr, EnterIsr1, FlagIsUp, FlagIsDown, ClearFlag, NextFlag
<1>6. ASSUME Input, ~Check, ~\E ok \in BOOLEAN : Read(ok), ~Advance, ~Wrap
      PROVE  Aside
  BY <1>6 DEF Input, TakeSem, StillFrames, NoFrames, Enable, Again
<1>7. CASE UNCHANGED vars
  BY <1>7 DEF vars
<1> QED BY <1>1, <1>2, <1>3, <1>4, <1>5, <1>6, <1>7 DEF Next

-----------------------------------------------------------------------------
(* The producer's steps.                                                   *)

(* The producer's test for a full ring: after it there is room.            *)
LEMMA TakeKeeps ==
  ASSUME RingInv, TypeOK', WrapWindow = 1, NEW k \in Kinds, RxTake(k)
  PROVE  Room' /\ Stock' /\ UnreadWindow'
<1> USE DEF RingInv, TypeOK
<1>1. /\ slot' = slot /\ head' = head /\ tail' = tail /\ task' = task
      /\ isr0 \in {"off", "next"} /\ isr0' = IF IsFull THEN "disable" ELSE "write"
      /\ wrapUse["tail"]' = wrapUse["tail"]
      /\ head = N => wrapUse["head"] = 0 /\ wrapUse["head"]' = 1
  BY DEF RxTake, ring, cpu1
<1>2. tail \in 0 .. N - 1
  BY <1>1
<1>3. Room'
  <2>1. CASE IsFull
    BY <1>1, <2>1 DEF Room
  <2>2. CASE ~IsFull
    <3>1. head # Place(tail + 1)
      BY <1>2, <2>2, FullTest DEF IsFull
    <3>2. Place(tail + 1) # Place(head)
      <4>1. CASE head = N
        BY <1>1, <1>2, <4>1 DEF Room, Place
      <4>2. CASE head # N
        BY <3>1, <4>2 DEF Place
      <4> QED BY <4>1, <4>2
    <3> QED BY <1>1, <2>2, <3>2 DEF Room, Place
  <2> QED BY <2>1, <2>2
<1>4. Stock'
  BY <1>1 DEF Stock, Place
<1>5. UnreadWindow'
  BY <1>1 DEF UnreadWindow, Pending, First, Last, Place
<1> QED BY <1>3, <1>4, <1>5

(* The producer fills the slot at tail, which was no unread frame.         *)
LEMMA WriteKeeps ==
  ASSUME RingInv, TypeOK', RxWrite
  PROVE  Room' /\ Stock' /\ UnreadWindow'
<1> USE DEF RingInv, TypeOK
<1>1. /\ isr0 = "write" /\ isr0' = "advance"
      /\ head' = head /\ tail' = tail /\ task' = task /\ wrapUse' = wrapUse
      /\ tail \in Index /\ head \in 0 .. N
      /\ \A i \in Index : slot'[i] = IF i = tail THEN TRUE ELSE slot[i]
  BY DEF RxWrite, cpu1, Index
<1>2. Room'
  BY <1>1 DEF Room, Place
<1>3. Stock'
  BY <1>1 DEF Stock, Place
<1>4. First' = First /\ Last = tail /\ Last' = Place(tail + 1)
  BY <1>1 DEF First, Last, Place, Index
<1>5. Place(tail + 1) # First /\ First \in Index
  <2>1. CASE task = "advance"
    BY <1>1, <2>1 DEF Stock, First, Place, Index
  <2>2. CASE task # "advance"
    BY <1>1, <2>2 DEF Room, First, Place, Index
  <2> QED BY <2>1, <2>2
<1>6. ASSUME NEW i \in Index PROVE Pending(i)' <=> i = tail \/ Pending(i)
  BY <1>1, <1>4, <1>5 DEF Pending, Place, Index
<1>7. UnreadWindow'
  BY <1>1, <1>6 DEF UnreadWindow
<1> QED BY <1>2, <1>3, <1>7

(* The first store of the producer's num_loop.                             *)
LEMMA AdvanceTailKeeps ==
  ASSUME RingInv, TypeOK', RxAdvance
  PROVE  Room' /\ Stock' /\ UnreadWindow'
<1> USE DEF RingInv, TypeOK
<1>1. /\ isr0 = "advance" /\ isr0' \in {"wrap", "load"}
      /\ tail \in 0 .. N - 1 /\ tail' = tail + 1
      /\ head \in 0 .. N /\ head' = head /\ task' = task /\ slot' = slot
      /\ wrapUse["head"]' = wrapUse["head"]
  BY SMTT(30) DEF RxAdvance, AfterLoop, cpu1
<1>2. Room'
  BY <1>1 DEF Room, Place
<1>3. Stock'
  BY <1>1 DEF Stock, Room, Place
<1>4. First' = First /\ Last' = Last
  BY <1>1 DEF First, Last, Place
<1>5. UnreadWindow'
  BY <1>1, <1>4 DEF UnreadWindow, Pending
<1> QED BY <1>2, <1>3, <1>5

(* The second store of the producer's num_loop.                            *)
LEMMA WrapTailKeeps ==
  ASSUME RingInv, TypeOK', RxWrap
  PROVE  Room' /\ Stock' /\ UnreadWindow'
<1> USE DEF RingInv, TypeOK
<1>1. /\ isr0 = "wrap" /\ isr0' = "load" /\ tail = N /\ tail' = 0
      /\ head \in 0 .. N /\ head' = head /\ task' = task /\ slot' = slot
      /\ wrapUse' = wrapUse
  BY DEF RxWrap, cpu1
<1>2. Room'
  BY <1>1 DEF Room, Place
<1>3. Stock'
  BY <1>1 DEF Stock, Place
<1>4. First' = First /\ Last' = Last
  BY <1>1 DEF First, Last, Place
<1>5. UnreadWindow'
  BY <1>1, <1>4 DEF UnreadWindow, Pending
<1> QED BY <1>2, <1>3, <1>5

-----------------------------------------------------------------------------
(* The consumer's steps.                                                   *)

(* The consumer's test for an empty ring: after it there is a frame.       *)
LEMMA CheckKeeps ==
  ASSUME RingInv, TypeOK', WrapWindow = 1, Check
  PROVE  Room' /\ Stock' /\ UnreadWindow'
<1> USE DEF RingInv, TypeOK
<1>1. /\ slot' = slot /\ head' = head /\ tail' = tail /\ isr0' = isr0
      /\ task = "check" /\ task' = IF IsEmpty THEN "retest" ELSE "read"
      /\ wrapUse["head"]' = wrapUse["head"]
      /\ tail = N => wrapUse["tail"] = 0 /\ wrapUse["tail"]' = 1
      /\ head \in 0 .. N - 1 /\ tail \in 0 .. N
  BY DEF Check, cpu0, ring
<1>2. Room'
  BY <1>1 DEF Room, Place
<1>3. Stock'
  BY <1>1 DEF Stock, Place, IsEmpty
<1>4. UnreadWindow'
  BY <1>1 DEF UnreadWindow, Pending, First, Last, Place
<1> QED BY <1>2, <1>3, <1>4

(* The consumer takes the frame at head, which was the first unread.       *)
LEMMA ReadKeeps ==
  ASSUME RingInv, TypeOK', NEW ok \in BOOLEAN, Read(ok)
  PROVE  Room' /\ Stock' /\ UnreadWindow'
<1> USE DEF RingInv, TypeOK
<1>1. /\ task = "read" /\ task' = "advance"
      /\ head' = head /\ tail' = tail /\ isr0' = isr0 /\ wrapUse' = wrapUse
      /\ head \in Index /\ tail \in 0 .. N
      /\ \A i \in Index : slot'[i] = IF i = head THEN FALSE ELSE slot[i]
  BY DEF Read, cpu0, Index
<1>2. Room'
  BY <1>1 DEF Room, Place
<1>3. Stock'
  BY <1>1 DEF Stock, Place
<1>4. Last' = Last /\ First = head /\ First' = Place(head + 1)
  BY <1>1 DEF First, Last, Place, Index
<1>5. Last # head /\ Last \in Index
  <2>1. CASE isr0 = "advance"
    BY <1>1, <2>1 DEF Room, Last, Place, Index
  <2>2. CASE isr0 # "advance"
    BY <1>1, <2>2 DEF Stock, Last, Place, Index
  <2> QED BY <2>1, <2>2
<1>6. ASSUME NEW i \in Index PROVE Pending(i)' <=> i # head /\ Pending(i)
  BY <1>1, <1>4, <1>5 DEF Pending, Place, Index
<1>7. UnreadWindow'
  BY <1>1, <1>6 DEF UnreadWindow
<1> QED BY <1>2, <1>3, <1>7

(* The first store of the consumer's num_loop.                             *)
LEMMA AdvanceHeadKeeps ==
  ASSUME RingInv, TypeOK', Advance
  PROVE  Room' /\ Stock' /\ UnreadWindow'
<1> USE DEF RingInv, TypeOK
<1>1. /\ task = "advance" /\ task' \in {"wrap", "retest"}
      /\ head \in 0 .. N - 1 /\ head' = head + 1
      /\ tail \in 0 .. N /\ tail' = tail /\ isr0' = isr0 /\ slot' = slot
      /\ wrapUse["tail"]' = wrapUse["tail"]
  BY SMTT(30) DEF Advance, AfterLoop, cpu0
<1>2. Room'
  BY <1>1 DEF Room, Stock, Place
<1>3. Stock'
  BY <1>1 DEF Stock, Place
<1>4. First' = First /\ Last' = Last
  BY <1>1 DEF First, Last, Place
<1>5. UnreadWindow'
  BY <1>1, <1>4 DEF UnreadWindow, Pending
<1> QED BY <1>2, <1>3, <1>5

(* The second store of the consumer's num_loop.                            *)
LEMMA WrapHeadKeeps ==
  ASSUME RingInv, TypeOK', Wrap
  PROVE  Room' /\ Stock' /\ UnreadWindow'
<1> USE DEF RingInv, TypeOK
<1>1. /\ task = "wrap" /\ task' = "retest" /\ head = N /\ head' = 0
      /\ tail \in 0 .. N /\ tail' = tail /\ isr0' = isr0 /\ slot' = slot
      /\ wrapUse' = wrapUse
  BY DEF Wrap, cpu0
<1>2. Room'
  BY <1>1 DEF Room, Place
<1>3. Stock'
  BY <1>1 DEF Stock, Place
<1>4. First' = First /\ Last' = Last
  BY <1>1 DEF First, Last, Place
<1>5. UnreadWindow'
  BY <1>1, <1>4 DEF UnreadWindow, Pending
<1> QED BY <1>2, <1>3, <1>5

-----------------------------------------------------------------------------
(* Every step of either processor keeps the ring sound.                    *)
LEMMA RingInvNext == WrapWindow = 1 /\ RingInv /\ [Next]_vars => RingInv'
<1> SUFFICES ASSUME WrapWindow = 1, RingInv, [Next]_vars PROVE RingInv'
  OBVIOUS
<1>1. TypeOK'
  BY TypeOKNext DEF RingInv
<1>2. Room' /\ Stock' /\ UnreadWindow'
  BY <1>1, OtherSteps, AsideStep, TakeKeeps, WriteKeeps, AdvanceTailKeeps, WrapTailKeeps,
     CheckKeeps, ReadKeeps, AdvanceHeadKeeps, WrapHeadKeeps DEF RingInv
<1> QED BY <1>1, <1>2 DEF RingInv

(* The unread frames of the ring are the ones between the consumer's and   *)
(* the producer's place, for rings of every size, though neither processor *)
(* locks the other out.                                                    *)
THEOREM NoFrameOverwritten == WrapWindow = 1 /\ Spec => []UnreadWindow
<1>1. RingInv => UnreadWindow
  BY DEF RingInv
<1> SUFFICES ASSUME WrapWindow = 1 PROVE Spec => []UnreadWindow
  OBVIOUS
<1>2. RingInv /\ [Next]_vars => RingInv'
  BY RingInvNext
<1> QED BY <1>1, <1>2, RingInvInit, PTL DEF Spec

-----------------------------------------------------------------------------
(* Nothing is forgotten.                                                   *)

(* Something on its way will wake if_input.  A frame that is being         *)
(* announced at "raise" counts only as long as its flag is up: when        *)
(* IsrSys1 has taken the flag already, if_input knows.                     *)
Alarm ==
    \/ isr0 \in {"disable", "advance", "wrap", "load", "store"}
    \/ "eth" \in flags /\ (irq1 = 1 \/ isr1 # "off" \/ isr0 = "raise" \/ main0 = "raise")
    \/ sem > 0

Empty == \A i \in Index : ~slot[i]

(* if_input is to leave its loop, or has left it.                          *)
Leaving == task = "wait" \/ (task \in {"retest", "enable"} /\ ~more)

Awake == /\ task \in {"advance", "wrap"} => more
         /\ ~Alarm /\ Leaving => Empty
         /\ ~Alarm /\ task = "wait" => rxEn = 1

AwakeInv == RingInv /\ Awake

(* Nothing has arrived at the start, and the receiver is on.               *)
LEMMA AwakeInit == Init => Awake
<1> SUFFICES ASSUME Init PROVE Awake
  OBVIOUS
<1>1. Empty
  BY Zenon DEF Init, Empty
<1>2. task = "wait" /\ rxEn = 1
  BY DEF Init
<1> QED BY <1>1, <1>2 DEF Awake

(* When Flags is eIP1_ETH_RX alone, no flag is another.                    *)
LEMMA OneFlag ==
  ASSUME Flags = <<"eth">>
  PROVE  FlagSet = {"eth"} /\ Len(Flags) = 1 /\ \A k \in DOMAIN Flags : Flags[k] = "eth"
  BY DEF FlagSet

(* The ring stays as it is, and the receiver is not turned off.            *)
Quiet == slot' = slot /\ (rxEn' = rxEn \/ rxEn' = 1)

(* A step of the wire, of CPU0 or of IsrSys1 leaves if_input where it is.  *)
(* An alarm goes off only to raise another, and without one the ring and   *)
(* the receiver stay as they are, unless the timer turns the receiver on.  *)
LEMMA AlarmStays ==
  ASSUME Flags = <<"eth">>, TypeOK, Next, ~Input
  PROVE  /\ task' = task /\ more' = more
         /\ Alarm' \/ (~Alarm /\ Quiet)
<1> USE OneFlag DEF TypeOK, Alarm, Quiet, ring, cpu0, cpu1
<1>1. CASE Arrive
  BY <1>1 DEF Arrive
<1>2. CASE RxIsr
  <2> DEFINE Goal == task' = task /\ more' = more /\ (Alarm' \/ (~Alarm /\ Quiet))
  <2>1. ASSUME NEW k \in Kinds, RxOther(k) PROVE Goal
    BY <2>1 DEF RxOther
  <2>2. ASSUME NEW k \in Kinds, RxTake(k) PROVE Goal
    BY <2>2 DEF RxTake
  <2>3. CASE RxDisable
    BY <2>3 DEF RxDisable
  <2>4. CASE RxWrite
    BY <2>4 DEF RxWrite
  <2>5. CASE RxAdvance
    BY <2>5 DEF RxAdvance, AfterLoop
  <2>6. CASE RxWrap
    BY <2>6 DEF RxWrap
  <2>7. CASE RxExit
    BY <2>7 DEF RxExit
  <2>8. CASE LoadFlags
    BY <2>8 DEF LoadFlags
  <2>9. CASE StoreFlags
    BY <2>9 DEF StoreFlags
  <2>10. CASE RaiseIrq
    BY <2>10 DEF RaiseIrq
  <2> QED BY <1>2, <2>1, <2>2, <2>3, <2>4, <2>5, <2>6, <2>7, <2>8, <2>9, <2>10 DEF RxIsr
<1>3. CASE PostRecord
  BY <1>3 DEF PostRecord
<1>4. CASE Main
  BY <1>4 DEF Main, TakeRx0, CheckRxEn, ForgetTimer, ShellLoad, ShellStore, ShellRaise
<1>5. CASE SysIsr
  BY <1>5 DEF SysIsr, EnterIsr1, FlagIsUp, FlagIsDown, ClearFlag, NextFlag
<1> QED BY <1>1, <1>2, <1>3, <1>4, <1>5 DEF Next

(* A step of if_input: it leaves its loop only when it found the ring      *)
(* empty, and an alarm that comes after that is still on.                  *)
LEMMA InputStaysAwake ==
  ASSUME ~PbufMayFail, AwakeInv, Input
  PROVE  Awake'
<1> USE DEF AwakeInv, RingInv, TypeOK, Awake, Leaving, Alarm, ring, cpu0
<1>1. CASE TakeSem
  BY <1>1 DEF TakeSem
<1>2. CASE Check
  <2>1. CASE Alarm
    BY <1>2, <2>1 DEF Check
  <2>2. CASE ~Alarm
    <3>1. ASSUME IsEmpty PROVE Empty
      <4>1. First = Last
        BY <1>2, <2>2, <3>1 DEF Check, IsEmpty, First, Last, Place
      <4> QED BY <4>1 DEF UnreadWindow, Pending, Empty, First, Last, Place, Index
    <3>2. slot' = slot /\ ~more' /\ task' = IF IsEmpty THEN "retest" ELSE "read"
      BY <1>2 DEF Check
    <3>3. task' = "retest" => Empty'
      BY <3>1, <3>2 DEF Empty
    <3> QED BY <3>2, <3>3
  <2> QED BY <2>1, <2>2
<1>3. ASSUME NEW ok \in BOOLEAN, Read(ok) PROVE Awake'
  BY <1>3 DEF Read
<1>4. CASE Advance
  BY <1>4 DEF Advance, AfterLoop
<1>5. CASE Wrap
  BY <1>5 DEF Wrap
<1>6. CASE StillFrames
  <2>1. slot' = slot /\ rxEn' = rxEn /\ more' = more /\ Alarm' = Alarm /\ task = "retest"
        /\ task' = IF more THEN "check" ELSE "wait"
    BY <1>6 DEF StillFrames, Again
  <2>2. ~more => Alarm
    <3> SUFFICES ASSUME ~more, ~Alarm PROVE FALSE
      OBVIOUS
    <3>1. Empty
      BY <2>1
    <3>2. First = head /\ Last = tail /\ head # tail /\ head \in Index /\ tail \in Index
      BY <1>6, <2>1 DEF StillFrames, IsEmpty, First, Last, Place, Index
    <3>3. Pending(head)
      BY <3>2 DEF Pending, Index
    <3> QED BY <3>1, <3>2, <3>3 DEF Empty, UnreadWindow
  <2> QED BY <2>1, <2>2
<1>7. CASE NoFrames
  <2>1. slot' = slot /\ more' = more /\ Alarm' = Alarm /\ task = "retest" /\ task' = "enable"
    BY <1>7 DEF NoFrames
  <2>2. Empty => Empty'
    BY <2>1 DEF Empty
  <2> QED BY <2>1, <2>2
<1>8. CASE Enable
  <2>1. /\ slot' = slot /\ more' = more /\ Alarm' = Alarm /\ task = "enable"
        /\ task' = IF more THEN "check" ELSE "wait"
        /\ rxEn' = 1
    BY <1>8 DEF Enable, Again
  <2>2. Empty => Empty'
    BY <2>1 DEF Empty
  <2> QED BY <2>1, <2>2
<1> QED BY <1>1, <1>2, <1>3, <1>4, <1>5, <1>6, <1>7, <1>8 DEF Input

(* Every step keeps the ring sound and if_input awake.                     *)
LEMMA AwakeNext ==
  ASSUME WrapWindow = 1, Flags = <<"eth">>, ~PbufMayFail, AwakeInv, [Next]_vars
  PROVE  AwakeInv'
<1>1. RingInv'
  BY RingInvNext DEF AwakeInv
<1>2. CASE Next /\ ~Input
  <2>1. /\ task' = task /\ more' = more
        /\ Alarm' \/ (~Alarm /\ Quiet)
    BY <1>2, AlarmStays DEF AwakeInv, RingInv
  <2>2. slot' = slot => Empty' = Empty
    BY DEF Empty
  <2> QED BY <1>1, <2>1, <2>2 DEF AwakeInv, Awake, Leaving, Quiet
<1>3. CASE Input
  BY <1>1, <1>3, InputStaysAwake DEF AwakeInv
<1>4. CASE UNCHANGED vars
  <2>1. Awake' = Awake
    BY <1>4 DEF vars, ring, cpu0, cpu1, Awake, Leaving, Empty, Alarm
  <2> QED BY <1>1, <2>1 DEF AwakeInv
<1> QED BY <1>2, <1>3, <1>4

(* When nothing is on its way to wake if_input and it waits, the ring is   *)
(* empty and the receiver is on, for rings of every size, as long as the   *)
(* flag word carries no other flag and no pbuf is missing.                 *)
THEOREM NobodyForgotten ==
  WrapWindow = 1 /\ Flags = <<"eth">> /\ ~PbufMayFail /\ Spec => []NoneForgotten
<1> SUFFICES ASSUME WrapWindow = 1, Flags = <<"eth">>, ~PbufMayFail
             PROVE  Spec => []NoneForgotten
  OBVIOUS
<1>1. Init => AwakeInv
  BY AwakeInit, RingInvInit DEF AwakeInv
<1>2. AwakeInv /\ [Next]_vars => AwakeInv'
  BY AwakeNext
<1>3. AwakeInv => NoneForgotten
  <2> SUFFICES ASSUME AwakeInv, ~Waking PROVE (\A i \in Index : ~slot[i]) /\ rxEn = 1
    BY DEF NoneForgotten
  <2>1. flag0 = "eth"
    BY OneFlag DEF AwakeInv, RingInv, TypeOK
  <2>2. ~Alarm /\ task = "wait"
    BY <2>1 DEF Waking, Announcing, Alarm
  <2> QED BY <2>2 DEF AwakeInv, Awake, Leaving, Empty
<1> QED BY <1>1, <1>2, <1>3, PTL DEF Spec
=============================================================================
