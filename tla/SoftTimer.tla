------------------------------ MODULE SoftTimer ------------------------------
(***************************************************************************)
(* The table of software timers of CPU0.  timer_poll, in the main loop,    *)
(* looks at one entry after the other and runs the callbacks that are due; *)
(* timer_sched_timeout_cb takes the first entry that has expired.  There   *)
(* is no lock.  Three timers stand for those of the Ethernet build:        *)
(*                                                                         *)
(*  "sys"  periodic, armed before interrupts are on (timer_CPU1_watchdog,  *)
(*         and likewise the timers of lwIP);                               *)
(*  "isp"  one shot, armed by the main loop at the end of the boot, when   *)
(*         the receive interrupt is on already, and again in its own       *)
(*         callback as long as there is no picture of the sensor;          *)
(*  "eth"  one shot, armed by the receive interrupt when there is no such  *)
(*         timer on its way (eth_rx_en_check).                             *)
(*                                                                         *)
(* An interrupt runs as a whole between two steps of the main loop; the    *)
(* stores of a step of the main loop have no test between them.  The time  *)
(* of an entry is kept as the ticks left, so the 32-bit tick does not wrap *)
(* here.                                                                   *)
(***************************************************************************)
EXTENDS Naturals

CONSTANTS Size,    \* TIMEOUT_SIZE
          SysTime, IspTime, EthTime   \* ticks

VARIABLES expired, left, tick, type, cb,  \* TIMER.timeout[]
          ethId,   \* eth_rx_en_check: an entry, or 0 for 0xFFFFFFFF
          pc, id,  \* the main loop, and the entry it is at
          caller,  \* the entry whose callback arms a timer, or 0 for the boot
          due,     \* ticks until a timer should run, or Off
          raced    \* the interrupt took the entry the main loop was taking

table == <<expired, left, tick, type, cb>>
vars == <<table, ethId, pc, id, caller, due, raced>>

Entries == 1 .. Size
Timers == {"sys", "isp", "eth"}
Time == [sys |-> SysTime, isp |-> IspTime, eth |-> EthTime]
Longest == CHOOSE t \in {Time[k] : k \in Timers} : \A k \in Timers : Time[k] <= t
Off == Longest + 1

Init ==
    /\ expired = [s \in Entries |-> s # 1]
    /\ left = [s \in Entries |-> IF s = 1 THEN SysTime ELSE 0]
    /\ tick = [s \in Entries |-> IF s = 1 THEN SysTime ELSE 0]
    /\ type = [s \in Entries |-> IF s = 1 THEN "periodic" ELSE "oneshot"]
    /\ cb = [s \in Entries |-> "sys"]
    /\ ethId = 0
    /\ pc = "seek" /\ id = 1 /\ caller = 0
    /\ due = [t \in Timers |-> IF t = "sys" THEN SysTime ELSE Off]
    /\ raced = FALSE

Down(k) == IF k = 0 THEN 0 ELSE k - 1

(* xsr_tick.                                                               *)
Tick ==
    /\ left' = [s \in Entries |-> Down(left[s])]
    /\ due' = [t \in Timers |-> IF due[t] = Off THEN Off ELSE Down(due[t])]
    /\ UNCHANGED <<expired, tick, type, cb, ethId, pc, id, caller, raced>>

(* isr_oeth_rx with a full ring.                                           *)
ArmEth ==
    /\ ethId = 0
    /\ \E s \in Entries :
        /\ expired[s] /\ \A r \in 1 .. s - 1 : ~expired[r]
        /\ expired' = [expired EXCEPT ![s] = FALSE]
        /\ left' = [left EXCEPT ![s] = EthTime]
        /\ tick' = [tick EXCEPT ![s] = EthTime]
        /\ type' = [type EXCEPT ![s] = "oneshot"]
        /\ cb' = [cb EXCEPT ![s] = "eth"]
        /\ ethId' = s
        /\ raced' = (raced \/ (pc \in {"fill", "take"} /\ s = id))
    /\ due' = [due EXCEPT !["eth"] = EthTime]
    /\ UNCHANGED <<pc, id, caller>>

-----------------------------------------------------------------------------
(* timer_sched_timeout_cb for "isp", at the end of the boot or in the      *)
(* callback.                                                               *)

Return == IF caller = 0 THEN pc' = "test" /\ id' = 1
          ELSE pc' = "finish" /\ id' = caller

Seek ==
    /\ pc = "seek"
    /\ IF id > Size THEN Return /\ caller' = 0
       ELSE /\ IF expired[id] THEN pc' = "fill" /\ id' = id
                              ELSE pc' = "seek" /\ id' = id + 1
            /\ UNCHANGED caller
    /\ UNCHANGED <<table, ethId, due, raced>>

Fill ==
    /\ pc = "fill"
    /\ tick' = [tick EXCEPT ![id] = IspTime]
    /\ left' = [left EXCEPT ![id] = IspTime]
    /\ type' = [type EXCEPT ![id] = "oneshot"]
    /\ due' = [due EXCEPT !["isp"] = IspTime]
    /\ pc' = "take"
    /\ UNCHANGED <<expired, cb, ethId, id, caller, raced>>

Take ==
    /\ pc = "take"
    /\ expired' = [expired EXCEPT ![id] = FALSE]
    /\ pc' = "name"
    /\ UNCHANGED <<left, tick, type, cb, ethId, id, caller, due, raced>>

(* Mutant: the callback is kept when there is one.                         *)
NameOnce ==
    /\ pc = "name"
    /\ cb' = [cb EXCEPT ![id] = IF @ = "sys" THEN "isp" ELSE @]
    /\ Return /\ caller' = 0
    /\ UNCHANGED <<expired, left, tick, type, ethId, due, raced>>

Name ==
    /\ pc = "name"
    /\ cb' = [cb EXCEPT ![id] = "isp"]
    /\ Return /\ caller' = 0
    /\ UNCHANGED <<expired, left, tick, type, ethId, due, raced>>

-----------------------------------------------------------------------------
(* timer_poll.                                                             *)

NextEntry == IF id = Size THEN 1 ELSE id + 1

(* Mutant: the entry is given back before its callback is run.             *)
TestFrees ==
    /\ pc = "test"
    /\ IF ~expired[id] /\ left[id] = 0 THEN pc' = "call" /\ id' = id
       ELSE pc' = "test" /\ id' = NextEntry
    /\ expired' = IF pc' = "call" /\ type[id] = "oneshot"
                    THEN [expired EXCEPT ![id] = TRUE] ELSE expired
    /\ UNCHANGED <<left, tick, type, cb, ethId, caller, due, raced>>

Test ==
    /\ pc = "test"
    /\ IF ~expired[id] /\ left[id] = 0 THEN pc' = "call" /\ id' = id
       ELSE pc' = "test" /\ id' = NextEntry
    /\ UNCHANGED <<table, ethId, caller, due, raced>>

(* The callback; enx_eth_rx_en_check forgets its id.                       *)
Call ==
    /\ pc = "call"
    /\ due' = [due EXCEPT ![cb[id]] = Off]
    /\ ethId' = IF cb[id] = "eth" THEN 0 ELSE ethId
    /\ pc' = "finish"
    /\ UNCHANGED <<table, id, caller, raced>>

(* timer_isp_init before the first picture of the sensor.                  *)
CallAgain ==
    /\ pc = "call" /\ cb[id] = "isp"
    /\ due' = [due EXCEPT !["isp"] = Off]
    /\ pc' = "seek" /\ id' = 1 /\ caller' = id
    /\ UNCHANGED <<table, ethId, raced>>

Finish ==
    /\ pc = "finish"
    /\ IF type[id] = "periodic"
         THEN /\ left' = [left EXCEPT ![id] = tick[id]]
              /\ due' = [due EXCEPT ![cb[id]] = tick[id]]
              /\ UNCHANGED expired
         ELSE /\ expired' = [expired EXCEPT ![id] = TRUE]
              /\ UNCHANGED <<left, due>>
    /\ pc' = "test" /\ id' = NextEntry
    /\ UNCHANGED <<tick, type, cb, ethId, caller, raced>>

-----------------------------------------------------------------------------
MainLoop == Seek \/ Fill \/ Take \/ Name \/ Test \/ Call \/ CallAgain \/ Finish
Next == Tick \/ ArmEth \/ MainLoop

Spec == Init /\ [][Next]_vars

(* Time passes, and the main loop comes round; nothing fills the ring.     *)
LiveSpec == Spec /\ WF_vars(Tick) /\ WF_vars(MainLoop)

-----------------------------------------------------------------------------
(* Properties.                                                             *)

(* Every variable has its type; the main loop is at an entry of the table. *)
TypeOK ==
    /\ expired \in [Entries -> BOOLEAN]
    /\ left \in [Entries -> 0 .. Longest] /\ tick \in [Entries -> 0 .. Longest]
    /\ type \in [Entries -> {"periodic", "oneshot"}]
    /\ cb \in [Entries -> Timers]
    /\ ethId \in 0 .. Size
    /\ pc \in {"seek", "fill", "take", "name", "test", "call", "finish"}
    /\ id \in Entries \/ (pc = "seek" /\ id = Size + 1)
    /\ caller \in 0 .. Size
    /\ due \in [Timers -> 0 .. Off]
    /\ raced \in BOOLEAN

(* A callback runs only for a timer that was armed and whose time is over, *)
(* once for each time it was armed, whenever the interrupt takes an entry, *)
(* but for the one the main loop is about to take itself.                  *)
RunsOnTime == [][pc = "call" /\ pc' # "call" => due[cb[id]] = 0 \/ raced]_vars

(* Timers are run: that of the boot even if the interrupt took its entry   *)
(* while it was being armed, and that of the receiver, so that the receiver*)
(* comes back and the timer can be armed again.                            *)
BootTimerRuns == (due["isp"] # Off) ~> (due["isp"] = Off)
EthTimerRuns == (ethId # 0) ~> (ethId = 0 \/ raced)
TimersRun == BootTimerRuns /\ EthTimerRuns
=============================================================================
