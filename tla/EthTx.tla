------------------------------- MODULE EthTx -------------------------------
(***************************************************************************)
(* Sending frames: DmaEthTxCpy and DmaEthTxCpy_async, which the network    *)
(* stacks of both processors call.  One after the other they take the key  *)
(* CS_ETHERNET, wait for room in the MAC, wait as long as a pause frame of *)
(* the peer asks for, and copy the frame into the MAC by DMA, each         *)
(* processor with an engine of its own.  The asynchronous one gives the    *)
(* key back while the copy is running.                                     *)
(*                                                                         *)
(* tx_pause is counted down by whoever holds the key, in a section that    *)
(* locks interrupts of its own processor out.  It is set by the receive    *)
(* interrupt of CPU0, which so cannot come between the steps of CPU0's     *)
(* section but does come between those of CPU1's.                          *)
(***************************************************************************)
EXTENDS Naturals

CONSTANTS MaxCount,  \* the longest pause the peer asks for
          Word,      \* tx_pause is counted modulo this, as a UINT
          MaxPauses  \* bound: pause frames with a count

Cpus == {"cpu0", "cpu1"}
Modes == {"sync", "async"}

VARIABLES key,     \* CS_ETHERNET is taken
          pc, mode, reg,  \* each sender: its step, its function, a register
          dma,     \* the copy a processor's engine is doing
          isr,     \* the count the receive interrupt is about to store, or 0
          pause,   \* tx_pause
          go,      \* tx_go
          pauses   \* pause frames so far

senders == <<pc, mode, reg>>
vars == <<key, senders, dma, isr, pause, go, pauses>>

Init ==
    /\ key = FALSE
    /\ pc = [c \in Cpus |-> "idle"]
    /\ mode = [c \in Cpus |-> "sync"]
    /\ reg = 0
    /\ dma = [c \in Cpus |-> "none"]
    /\ isr = 0 /\ pause = 0 /\ go = FALSE
    /\ pauses = 0

-----------------------------------------------------------------------------
(* A pause frame, in isr_oeth_rx.                                          *)

MayInterrupt == isr = 0

PauseFrame(k) ==
    /\ MayInterrupt /\ pauses < MaxPauses
    /\ pauses' = pauses + 1
    /\ go' = FALSE
    /\ isr' = k
    /\ UNCHANGED <<key, senders, dma, pause>>

StorePause ==
    /\ isr # 0
    /\ pause' = isr
    /\ isr' = 0
    /\ UNCHANGED <<key, senders, dma, go, pauses>>

GoFrame ==
    /\ MayInterrupt
    /\ go' = TRUE
    /\ UNCHANGED <<key, senders, dma, isr, pause, pauses>>

-----------------------------------------------------------------------------
(* A sender; that of CPU0 stands still while the interrupt runs.           *)

At(c, from) == pc[c] = from /\ (c = "cpu0" => isr = 0)
To(c, to) == pc' = [pc EXCEPT ![c] = to]

Send(c, m) ==
    /\ At(c, "idle")
    /\ mode' = [mode EXCEPT ![c] = m]
    /\ To(c, "key")
    /\ UNCHANGED <<key, reg, dma, isr, pause, go, pauses>>

(* Mutant: the key is looked at and not taken at once.                     *)
TakeKeyBlind(c) ==
    /\ At(c, "key")
    /\ key' = TRUE
    /\ To(c, "full")
    /\ UNCHANGED <<mode, reg, dma, isr, pause, go, pauses>>

TakeKey(c) ==
    /\ At(c, "key") /\ ~key
    /\ key' = TRUE
    /\ To(c, "full")
    /\ UNCHANGED <<mode, reg, dma, isr, pause, go, pauses>>

(* ~ETH_TX_FULL.                                                           *)
RoomInMac(c) ==
    /\ At(c, "full")
    /\ To(c, "pause")
    /\ UNCHANGED <<key, mode, reg, dma, isr, pause, go, pauses>>

PauseTest(c) ==
    /\ At(c, "pause")
    /\ To(c, IF pause = 0 THEN "copy" ELSE "dec")
    /\ UNCHANGED <<key, mode, reg, dma, isr, pause, go, pauses>>

Minus1(k) == (k + Word - 1) % Word

(* The section of CPU0 is not interrupted, and CPU1 has not got the key.   *)
CountDown ==
    /\ At("cpu0", "dec")
    /\ pause' = IF go THEN 0 ELSE Minus1(pause)
    /\ To("cpu0", IF pause' = 0 THEN "copy" ELSE "pause")
    /\ UNCHANGED <<key, mode, reg, dma, isr, go, pauses>>

DecLoad ==
    /\ At("cpu1", "dec")
    /\ reg' = pause
    /\ To("cpu1", "store")
    /\ UNCHANGED <<key, mode, dma, isr, pause, go, pauses>>

DecStore ==
    /\ At("cpu1", "store")
    /\ pause' = Minus1(reg)
    /\ reg' = 0
    /\ To("cpu1", "zero")
    /\ UNCHANGED <<key, mode, dma, isr, go, pauses>>

ZeroTest ==
    /\ At("cpu1", "zero")
    /\ To("cpu1", IF pause = 0 THEN "copy" ELSE "go")
    /\ UNCHANGED <<key, mode, reg, dma, isr, pause, go, pauses>>

GoTest ==
    /\ At("cpu1", "go")
    /\ To("cpu1", IF go THEN "clear" ELSE "pause")
    /\ UNCHANGED <<key, mode, reg, dma, isr, pause, go, pauses>>

ClearPause ==
    /\ At("cpu1", "clear")
    /\ pause' = 0
    /\ To("cpu1", "copy")
    /\ UNCHANGED <<key, mode, reg, dma, isr, go, pauses>>

(* Mutant: the key is given back without waiting for the copy.             *)
StartCopyAsync(c) ==
    /\ At(c, "copy") /\ dma[c] = "none"
    /\ dma' = [dma EXCEPT ![c] = mode[c]]
    /\ To(c, "free")
    /\ UNCHANGED <<key, mode, reg, isr, pause, go, pauses>>

(* DmaMemCpy_isr_async, after the copy before of this engine.              *)
StartCopy(c) ==
    /\ At(c, "copy") /\ dma[c] = "none"
    /\ dma' = [dma EXCEPT ![c] = mode[c]]
    /\ To(c, IF mode[c] = "sync" THEN "wait" ELSE "free")
    /\ UNCHANGED <<key, mode, reg, isr, pause, go, pauses>>

AwaitCopy(c) ==
    /\ At(c, "wait") /\ dma[c] = "none"
    /\ To(c, "free")
    /\ UNCHANGED <<key, mode, reg, dma, isr, pause, go, pauses>>

(* Mutant: only the synchronous one gives the key back.                    *)
FreeKeySync(c) ==
    /\ At(c, "free")
    /\ key' = (mode[c] = "async")
    /\ To(c, "idle")
    /\ UNCHANGED <<mode, reg, dma, isr, pause, go, pauses>>

FreeKey(c) ==
    /\ At(c, "free")
    /\ key' = FALSE
    /\ To(c, "idle")
    /\ UNCHANGED <<mode, reg, dma, isr, pause, go, pauses>>

(* The engine has copied all.                                              *)
CopyDone(c) ==
    /\ dma[c] # "none"
    /\ dma' = [dma EXCEPT ![c] = "none"]
    /\ UNCHANGED <<key, senders, isr, pause, go, pauses>>

-----------------------------------------------------------------------------
Counting(c) == PauseTest(c) \/ (c = "cpu0" /\ CountDown)
               \/ (c = "cpu1" /\ (DecLoad \/ DecStore \/ ZeroTest \/ GoTest \/ ClearPause))
Steps(c) == RoomInMac(c) \/ Counting(c) \/ StartCopy(c) \/ AwaitCopy(c) \/ FreeKey(c)

Next == \/ \E k \in 1 .. MaxCount : PauseFrame(k)
        \/ StorePause \/ GoFrame
        \/ \E c \in Cpus : (\E m \in Modes : Send(c, m)) \/ TakeKey(c) \/ Steps(c) \/ CopyDone(c)

Spec == Init /\ [][Next]_vars

(* Processors, engines and the MAC go on; whoever polls for the key gets   *)
(* it in the end.  Nothing makes a processor send, or the peer pause.      *)
LiveSpec ==
    /\ Spec
    /\ WF_vars(StorePause)
    /\ \A c \in Cpus : SF_vars(TakeKey(c)) /\ WF_vars(Steps(c)) /\ WF_vars(CopyDone(c))

-----------------------------------------------------------------------------
(* Properties.                                                             *)

(* Every variable has its type; somebody is inside exactly while the key   *)
(* is taken.                                                               *)
TypeOK ==
    /\ key \in BOOLEAN
    /\ pc \in [Cpus -> {"idle", "key", "full", "pause", "dec", "store", "zero", "go",
                       "clear", "copy", "wait", "free"}]
    /\ mode \in [Cpus -> Modes]
    /\ reg \in 0 .. Word - 1
    /\ dma \in [Cpus -> {"none"} \cup Modes]
    /\ isr \in 0 .. MaxCount
    /\ pause \in 0 .. Word - 1
    /\ go \in BOOLEAN
    /\ pauses \in 0 .. MaxPauses
    /\ key <=> \E c \in Cpus : pc[c] \notin {"idle", "key"}

(* tx_pause is never counted down from 0, which would stop both processors *)
(* for four billion rounds: between the test of the loop and the store     *)
(* nobody else makes it smaller.                                           *)
PauseNeverWraps == pause <= MaxCount

(* While a synchronous copy runs, no other copy into the MAC is started,   *)
(* by the other processor or by the same one.                              *)
SyncIsAlone ==
    [][\A c, d \in Cpus : dma[c] = "none" /\ dma'[c] # "none" => dma[d] # "sync"]_vars

(* When the peer stops asking for pauses, every frame is sent, though      *)
(* counts and go frames reach tx_pause and tx_go at any time.              *)
FrameIsSent == \A c \in Cpus : (pc[c] # "idle") ~> (pc[c] = "idle")
=============================================================================
