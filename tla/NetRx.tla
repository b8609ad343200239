------------------------------- MODULE NetRx -------------------------------
(***************************************************************************)
(* Reception: frames go from the Ethernet MAC to the network stack of CPU1 *)
(* through the ring gptMsgNetworkRX1, which has one producer, one consumer *)
(* and no lock, and to the stack of CPU0 through gptMsgNetworkRX0.         *)
(*                                                                         *)
(*  - isr_oeth_rx, the receive interrupt of CPU0, moves frames into the    *)
(*    rings; for CPU1 it then posts eIP1_ETH_RX in the flag word           *)
(*    CPU_SHARED1 and raises CPU_IRQ1.  Against a flood it turns the       *)
(*    receiver off when it finds the ring full, and arms a timer;          *)
(*  - other code of CPU0 posts other flags in the same word: the encoder   *)
(*    interrupts (eIP1_RECORD_INFO) and the main loop (eIP1_SHELL_RX);     *)
(*  - IsrSys1, the interrupt of CPU1, clears the flags one by one and      *)
(*    gives the semaphore of if_input;                                     *)
(*  - if_input, a task of CPU1, empties the ring and turns the receiver on *)
(*    again when it finds the ring empty;                                  *)
(*  - the main loop of CPU0 empties its own ring and runs the timer.       *)
(*                                                                         *)
(* The processors run in parallel; a step is one access to memory they     *)
(* share.  On one processor interrupts do not nest, and they stop the task *)
(* or the main loop between two steps, on CPU1 unless the task is behind   *)
(* portENTER_CRITICAL.  A step of one processor on memory only it uses is  *)
(* joined to the access next to it.                                        *)
(***************************************************************************)
EXTENDS Naturals, Sequences

CONSTANTS N,             \* MSG_NETRX_NUM
          FifoMax,       \* bound: frames waiting in the MAC
          Kinds,         \* the kinds of frames on the wire
          Flags,         \* the flags of CPU_SHARED1, in the order of IsrSys1
          PbufMayFail,   \* pbuf_alloc of if_input may find its pool empty
          WrapWindow     \* bound: uses of the ring by one processor while
                         \* num_loop of the other has an index at N

ASSUME SizeAssumption == /\ N \in Nat /\ N > 1
                         /\ FifoMax \in Nat \ {0}
                         /\ WrapWindow \in Nat \ {0}
(* NETRX_TYPE_CPU0, NETRX_TYPE_CPU1, NETRX_TYPE_SHARE, NETRX_TYPE_NONE.    *)
ASSUME KindsAssumption == Kinds \subseteq {"cpu0", "cpu1", "share", "none"}
ASSUME FlagsAssumption == /\ Flags \in Seq({"eth", "rec", "shell"})
                          /\ \E k \in DOMAIN Flags : Flags[k] = "eth"
ASSUME PbufAssumption == PbufMayFail \in BOOLEAN

FlagSet == {Flags[k] : k \in DOMAIN Flags}

VARIABLES
  fifo,       \* frames in the MAC, and
  rxEn,       \* ETH_RX_EN: it takes more
  slot,       \* slot[i]: info[i] and its buffer hold a frame nobody took
  head, tail, \* of gptMsgNetworkRX1
  rx0,        \* frames in gptMsgNetworkRX0, which only CPU0 uses
  flags,      \* CPU_SHARED1
  irq1,       \* CPU_IRQ1 is raised
  chk,        \* eth_rx_en_check # INVALID_TIMER_ID
  sem,        \* the counting semaphore xrx_sem
  isr0, frame, flag0, reg0,  \* CPU0 in an interrupt: place, frame, flag it
                             \* posts, flag word it has read
  main0, regM,               \* CPU0 in its main loop
  isr1, scan, reg1,          \* CPU1 in IsrSys1: place, flag it is at
  task, more,                \* if_input: place, p # NULL
  wrapUse     \* uses of the ring since head, or tail, became N

ring == <<slot, head, tail>>
cpu0 == <<isr0, frame, flag0, reg0, main0, regM>>
cpu1 == <<isr1, scan, reg1, task, more>>
vars == <<fifo, rxEn, ring, rx0, flags, irq1, chk, sem, cpu0, cpu1, wrapUse>>

Index == 0 .. N - 1
IsFull  == (tail + 1) % N = head
IsEmpty == head = tail

(* Mutant: the wrap test of num_loop is off by one.                        *)
AfterLoopLate(i, wrap, done) == IF i + 1 > N THEN wrap ELSE done

(* num_loop stores the next index, and then 0 over it when it is N.        *)
AfterLoop(i, wrap, done) == IF i + 1 >= N THEN wrap ELSE done

Init == /\ fifo = 0
        /\ rxEn = 1
        /\ slot = [i \in Index |-> FALSE]
        /\ head = 0 /\ tail = 0
        /\ rx0 = 0
        /\ flags = {} /\ irq1 = 0
        /\ chk = FALSE
        /\ sem = 0
        /\ isr0 = "off" /\ frame = "none" /\ flag0 = "eth" /\ reg0 = {}
        /\ main0 = "poll" /\ regM = {}
        /\ isr1 = "off" /\ scan = 1 /\ reg1 = {}
        /\ task = "wait" /\ more = FALSE
        /\ wrapUse = [head |-> 0, tail |-> 0]

-----------------------------------------------------------------------------
(* The wire and the MAC.                                                   *)

Arrive ==
    /\ rxEn = 1
    /\ fifo < FifoMax
    /\ fifo' = fifo + 1
    /\ UNCHANGED <<rxEn, ring, rx0, flags, irq1, chk, sem, cpu0, cpu1, wrapUse>>

-----------------------------------------------------------------------------
(* CPU0: isr_oeth_rx.                                                      *)

(* A frame for this processor is dropped when its ring is full.            *)
PutRx0(k) == rx0' = IF k \in {"cpu0", "share"} /\ rx0 < N - 1 THEN rx0 + 1 ELSE rx0

(* A frame that is not for CPU1 is done with at once.                      *)
RxOther(k) ==
    /\ isr0 \in {"off", "next"}
    /\ fifo > 0
    /\ k \in {"cpu0", "none"}
    /\ fifo' = fifo - 1
    /\ PutRx0(k)
    /\ isr0' = "next"
    /\ UNCHANGED <<rxEn, ring, flags, irq1, chk, sem, frame, flag0, reg0,
                   main0, regM, cpu1, wrapUse>>

(* Mutant: the ring is not tested.                                         *)
RxTakeLate(k) ==
    /\ isr0 \in {"off", "next"}
    /\ fifo > 0
    /\ head = N => wrapUse.head < WrapWindow
    /\ k \in {"cpu1", "share"}
    /\ fifo' = fifo - 1
    /\ frame' = k
    /\ flag0' = "eth"
    /\ isr0' = "write"
    /\ wrapUse' = IF head = N THEN [wrapUse EXCEPT !.head = @ + 1] ELSE wrapUse
    /\ UNCHANGED <<rxEn, ring, rx0, flags, irq1, chk, sem, reg0, main0, regM, cpu1>>

RxTake(k) ==
    /\ isr0 \in {"off", "next"}
    /\ fifo > 0
    /\ head = N => wrapUse.head < WrapWindow
    /\ k \in {"cpu1", "share"}
    /\ fifo' = fifo - 1
    /\ frame' = k
    /\ flag0' = "eth"
    /\ isr0' = IF IsFull THEN "disable" ELSE "write"
    /\ wrapUse' = IF head = N THEN [wrapUse EXCEPT !.head = @ + 1] ELSE wrapUse
    /\ UNCHANGED <<rxEn, ring, rx0, flags, irq1, chk, sem, reg0, main0, regM, cpu1>>

(* Mutant: CPU1 is not told of a frame it has no room for.                 *)
RxDisableQuietly ==
    /\ isr0 = "disable"
    /\ rxEn' = 0
    /\ chk' = TRUE
    /\ isr0' = "next"
    /\ UNCHANGED <<fifo, ring, rx0, flags, irq1, sem, frame, flag0, reg0,
                   main0, regM, cpu1, wrapUse>>

(* The frame is lost.  A timer that is armed already is left alone.        *)
RxDisable ==
    /\ isr0 = "disable"
    /\ rxEn' = 0
    /\ chk' = TRUE
    /\ isr0' = "load"
    /\ UNCHANGED <<fifo, ring, rx0, flags, irq1, sem, frame, flag0, reg0,
                   main0, regM, cpu1, wrapUse>>

RxWrite ==
    /\ isr0 = "write"
    /\ slot' = [slot EXCEPT ![tail] = TRUE]
    /\ isr0' = "advance"
    /\ UNCHANGED <<fifo, rxEn, head, tail, rx0, flags, irq1, chk, sem, frame, flag0,
                   reg0, main0, regM, cpu1, wrapUse>>

RxAdvance ==
    /\ isr0 = "advance"
    /\ tail' = tail + 1
    /\ isr0' = AfterLoop(tail, "wrap", "load")
    /\ wrapUse' = [wrapUse EXCEPT !.tail = 0]
    /\ UNCHANGED <<fifo, rxEn, slot, head, rx0, flags, irq1, chk, sem, frame, flag0,
                   reg0, main0, regM, cpu1>>

RxWrap ==
    /\ isr0 = "wrap"
    /\ tail' = 0
    /\ isr0' = "load"
    /\ UNCHANGED <<fifo, rxEn, slot, head, rx0, flags, irq1, chk, sem, frame, flag0,
                   reg0, main0, regM, cpu1, wrapUse>>

(* The FIFO is empty.                                                      *)
RxExit ==
    /\ isr0 = "next"
    /\ fifo = 0
    /\ isr0' = "off"
    /\ UNCHANGED <<fifo, rxEn, ring, rx0, flags, irq1, chk, sem, frame, flag0, reg0,
                   main0, regM, cpu1, wrapUse>>

-----------------------------------------------------------------------------
(* CPU0 in an interrupt: CPU_SHARED1 |= flag; CPU_IRQ1 = 1.                *)

(* The encoder interrupts have put a stream record in its queue.           *)
PostRecord ==
    /\ isr0 = "off"
    /\ "rec" \in FlagSet
    /\ isr0' = "load"
    /\ flag0' = "rec"
    /\ UNCHANGED <<fifo, rxEn, ring, rx0, flags, irq1, chk, sem, frame, reg0,
                   main0, regM, cpu1, wrapUse>>

LoadFlags ==
    /\ isr0 = "load"
    /\ reg0' = flags
    /\ isr0' = "store"
    /\ UNCHANGED <<fifo, rxEn, ring, rx0, flags, irq1, chk, sem, frame, flag0,
                   main0, regM, cpu1, wrapUse>>

StoreFlags ==
    /\ isr0 = "store"
    /\ flags' = reg0 \cup {flag0}
    /\ reg0' = {}
    /\ isr0' = "raise"
    /\ UNCHANGED <<fifo, rxEn, ring, rx0, irq1, chk, sem, frame, flag0,
                   main0, regM, cpu1, wrapUse>>

(* A frame for both processors then goes to the other ring.                *)
RaiseIrq ==
    /\ isr0 = "raise"
    /\ irq1' = 1
    /\ IF flag0 = "eth" THEN PutRx0(frame) /\ isr0' = "next"
                        ELSE UNCHANGED rx0 /\ isr0' = "off"
    /\ frame' = "none"
    /\ UNCHANGED <<fifo, rxEn, ring, flags, chk, sem, flag0, reg0,
                   main0, regM, cpu1, wrapUse>>

-----------------------------------------------------------------------------
(* CPU0 in its main loop, outside interrupts.                              *)

(* ethif_input.                                                            *)
TakeRx0 ==
    /\ isr0 = "off" /\ main0 = "poll"
    /\ rx0 > 0
    /\ rx0' = rx0 - 1
    /\ UNCHANGED <<fifo, rxEn, ring, flags, irq1, chk, sem, cpu0, cpu1, wrapUse>>

(* timer_poll finds the timer expired, and runs enx_eth_rx_en_check.       *)
CheckRxEn ==
    /\ isr0 = "off" /\ main0 = "poll"
    /\ chk
    /\ rxEn' = 1
    /\ main0' = "forget"
    /\ UNCHANGED <<fifo, ring, rx0, flags, irq1, chk, sem, isr0, frame, flag0, reg0,
                   regM, cpu1, wrapUse>>

ForgetTimer ==
    /\ isr0 = "off" /\ main0 = "forget"
    /\ chk' = FALSE
    /\ main0' = "poll"
    /\ UNCHANGED <<fifo, rxEn, ring, rx0, flags, irq1, sem, isr0, frame, flag0, reg0,
                   regM, cpu1, wrapUse>>

(* A console line is complete.                                             *)
ShellLoad ==
    /\ isr0 = "off" /\ main0 = "poll"
    /\ "shell" \in FlagSet
    /\ regM' = flags
    /\ main0' = "store"
    /\ UNCHANGED <<fifo, rxEn, ring, rx0, flags, irq1, chk, sem, isr0, frame, flag0,
                   reg0, cpu1, wrapUse>>

ShellStore ==
    /\ isr0 = "off" /\ main0 = "store"
    /\ flags' = regM \cup {"shell"}
    /\ regM' = {}
    /\ main0' = "raise"
    /\ UNCHANGED <<fifo, rxEn, ring, rx0, irq1, chk, sem, isr0, frame, flag0,
                   reg0, cpu1, wrapUse>>

ShellRaise ==
    /\ isr0 = "off" /\ main0 = "raise"
    /\ irq1' = 1
    /\ main0' = "poll"
    /\ UNCHANGED <<fifo, rxEn, ring, rx0, flags, chk, sem, isr0, frame, flag0,
                   reg0, regM, cpu1, wrapUse>>

-----------------------------------------------------------------------------
(* CPU1: IsrSys1.                                                          *)

Critical == task \in {"read", "advance", "wrap"}

EnterIsr1 ==
    /\ isr1 = "off" /\ ~Critical
    /\ irq1 = 1
    /\ irq1' = 0
    /\ isr1' = "test"
    /\ scan' = 1
    /\ UNCHANGED <<fifo, rxEn, ring, rx0, flags, chk, sem, cpu0, reg1, task, more, wrapUse>>

NextFlag == IF scan < Len(Flags)
              THEN isr1' = "test" /\ scan' = scan + 1
              ELSE isr1' = "off"  /\ scan' = 1

(* The test is joined to the read of CPU_SHARED1 &= ~flag: in between CPU0 *)
(* only adds flags.                                                        *)
FlagIsUp ==
    /\ isr1 = "test"
    /\ Flags[scan] \in flags
    /\ reg1' = flags
    /\ isr1' = "clear"
    /\ UNCHANGED <<fifo, rxEn, ring, rx0, flags, irq1, chk, sem, cpu0, scan, task, more, wrapUse>>

FlagIsDown ==
    /\ isr1 = "test"
    /\ Flags[scan] \notin flags
    /\ NextFlag
    /\ UNCHANGED <<fifo, rxEn, ring, rx0, flags, irq1, chk, sem, cpu0, reg1, task, more, wrapUse>>

(* IsrEthRx gives the semaphore; what the other flags wake is not          *)
(* modelled here.                                                          *)
ClearFlag ==
    /\ isr1 = "clear"
    /\ flags' = reg1 \ {Flags[scan]}
    /\ reg1' = {}
    /\ sem' = IF Flags[scan] = "eth" /\ sem < N THEN sem + 1 ELSE sem
    /\ NextFlag
    /\ UNCHANGED <<fifo, rxEn, ring, rx0, irq1, chk, cpu0, task, more, wrapUse>>

-----------------------------------------------------------------------------
(* CPU1: if_input and low_level_input.                                     *)

TakeSem ==
    /\ isr1 = "off" /\ task = "wait"
    /\ sem > 0
    /\ sem' = sem - 1
    /\ task' = "check"
    /\ UNCHANGED <<fifo, rxEn, ring, rx0, flags, irq1, chk, cpu0, isr1, scan, reg1, more, wrapUse>>

Check ==
    /\ isr1 = "off" /\ task = "check"
    /\ tail = N => wrapUse.tail < WrapWindow
    /\ more' = FALSE
    /\ task' = IF IsEmpty THEN "retest" ELSE "read"
    /\ wrapUse' = IF tail = N THEN [wrapUse EXCEPT !.tail = @ + 1] ELSE wrapUse
    /\ UNCHANGED <<fifo, rxEn, ring, rx0, flags, irq1, chk, sem, cpu0, isr1, scan, reg1>>

(* The frame is copied to a pbuf, or dropped when there is none.           *)
Read(ok) ==
    /\ task = "read"
    /\ ok \/ PbufMayFail
    /\ slot' = [slot EXCEPT ![head] = FALSE]
    /\ more' = ok
    /\ task' = "advance"
    /\ UNCHANGED <<fifo, rxEn, head, tail, rx0, flags, irq1, chk, sem, cpu0, isr1, scan, reg1, wrapUse>>

Advance ==
    /\ task = "advance"
    /\ head' = head + 1
    /\ task' = AfterLoop(head, "wrap", "retest")
    /\ wrapUse' = [wrapUse EXCEPT !.head = 0]
    /\ UNCHANGED <<fifo, rxEn, slot, tail, rx0, flags, irq1, chk, sem, cpu0, isr1, scan, reg1, more>>

Wrap ==
    /\ task = "wrap"
    /\ head' = 0
    /\ task' = "retest"
    /\ UNCHANGED <<fifo, rxEn, slot, tail, rx0, flags, irq1, chk, sem, cpu0, isr1, scan, reg1, more, wrapUse>>

(* while ((p = low_level_input(netif))): a frame that was dropped ends the *)
(* loop as an empty ring does.                                             *)
Again == IF more THEN "check" ELSE "wait"

(* Mutant: if for while, one frame is taken for one semaphore.             *)
StillFramesOnce ==
    /\ isr1 = "off" /\ task = "retest"
    /\ ~IsEmpty
    /\ task' = "wait"
    /\ UNCHANGED <<fifo, rxEn, ring, rx0, flags, irq1, chk, sem, cpu0, isr1, scan, reg1, more, wrapUse>>

StillFrames ==
    /\ isr1 = "off" /\ task = "retest"
    /\ ~IsEmpty
    /\ task' = Again
    /\ UNCHANGED <<fifo, rxEn, ring, rx0, flags, irq1, chk, sem, cpu0, isr1, scan, reg1, more, wrapUse>>

NoFrames ==
    /\ isr1 = "off" /\ task = "retest"
    /\ IsEmpty
    /\ task' = "enable"
    /\ UNCHANGED <<fifo, rxEn, ring, rx0, flags, irq1, chk, sem, cpu0, isr1, scan, reg1, more, wrapUse>>

(* if (ETH_RX_EN == 0) ETH_RX_EN = 1;                                      *)
Enable ==
    /\ isr1 = "off" /\ task = "enable"
    /\ rxEn' = 1
    /\ task' = Again
    /\ UNCHANGED <<fifo, ring, rx0, flags, irq1, chk, sem, cpu0, isr1, scan, reg1, more, wrapUse>>

-----------------------------------------------------------------------------
RxIsr == \/ \E k \in Kinds : RxOther(k) \/ RxTake(k)
         \/ RxDisable \/ RxWrite \/ RxAdvance \/ RxWrap \/ RxExit
         \/ LoadFlags \/ StoreFlags \/ RaiseIrq
Main  == TakeRx0 \/ CheckRxEn \/ ForgetTimer \/ ShellLoad \/ ShellStore \/ ShellRaise
SysIsr == EnterIsr1 \/ FlagIsUp \/ FlagIsDown \/ ClearFlag
Input == TakeSem \/ Check \/ (\E ok \in BOOLEAN : Read(ok)) \/ Advance \/ Wrap
            \/ StillFrames \/ NoFrames \/ Enable

Next == Arrive \/ RxIsr \/ PostRecord \/ Main \/ SysIsr \/ Input

Spec == Init /\ [][Next]_vars

(* The interrupts run when they are raised, and leave the task of CPU1     *)
(* some time.  Nothing is assumed of the wire, of the encoders or of the   *)
(* main loop of CPU0: the timer is not needed.                             *)
LiveSpec == Spec /\ WF_vars(RxIsr) /\ WF_vars(SysIsr) /\ SF_vars(Input)

-----------------------------------------------------------------------------
(* Properties.                                                             *)

(* Every variable has its type.  An index is N only between the two steps  *)
(* of num_loop.                                                            *)
TypeOK ==
    /\ fifo \in 0 .. FifoMax
    /\ rxEn \in {0, 1}
    /\ slot \in [Index -> BOOLEAN]
    /\ head \in 0 .. N /\ (head = N <=> task = "wrap")
    /\ tail \in 0 .. N /\ (tail = N <=> isr0 = "wrap")
    /\ rx0 \in Index
    /\ flags \subseteq FlagSet /\ irq1 \in {0, 1}
    /\ chk \in BOOLEAN
    /\ sem \in 0 .. N
    /\ isr0 \in {"off", "next", "disable", "write", "advance", "wrap", "load", "store", "raise"}
    /\ frame \in Kinds \cup {"none"} /\ flag0 \in FlagSet /\ reg0 \subseteq FlagSet
    /\ main0 \in {"poll", "forget", "store", "raise"} /\ regM \subseteq FlagSet
    /\ main0 = "store" => "shell" \in FlagSet
    /\ isr1 \in {"off", "test", "clear"}
    /\ scan \in DOMAIN Flags /\ reg1 \subseteq FlagSet
    /\ task \in {"wait", "check", "read", "advance", "wrap", "retest", "enable"}
    /\ more \in BOOLEAN
    /\ wrapUse \in [{"head", "tail"} -> 0 .. WrapWindow]

(* The unread frames are the ones from the consumer's place up to the      *)
(* producer's, whatever step of theirs the two are at: no frame is         *)
(* overwritten before it is read, none is read twice or before it is       *)
(* written, none is left behind.                                           *)
Place(i) == IF i = N THEN 0 ELSE i
First == Place(IF task = "advance" THEN head + 1 ELSE head)
Last  == Place(IF isr0 = "advance" THEN tail + 1 ELSE tail)
Pending(i) == IF First <= Last THEN First <= i /\ i < Last ELSE First <= i \/ i < Last
UnreadWindow == \A i \in Index : slot[i] <=> Pending(i)

(* When CPU1 sleeps in if_input and nothing on its way will wake it, the   *)
(* ring is empty and the receiver is on.                                   *)
Announcing == \/ isr0 \in {"disable", "advance", "wrap"}
              \/ isr0 \in {"load", "store", "raise"} /\ flag0 = "eth"
Waking == \/ Announcing
          \/ "eth" \in flags /\ (irq1 = 1 \/ isr1 # "off" \/ isr0 = "raise" \/ main0 = "raise")
          \/ sem > 0
          \/ task # "wait"
NoneForgotten == ~Waking => (\A i \in Index : ~slot[i]) /\ rxEn = 1

(* Every frame in the ring of CPU1 is taken in the end ("Other packet      *)
(* enquenu msg queue, then Main processor will handle this msg queeu").    *)
EnqueuedIsHandled == \A i \in Index : slot[i] ~> ~slot[i]

(* A receiver that was turned off against a flood comes back when CPU1 has *)
(* emptied the ring, even if the timer of CPU0 never runs.                 *)
ReceiverComesBack == rxEn = 0 ~> rxEn = 1
=============================================================================
