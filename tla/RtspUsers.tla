------------------------------ MODULE RtspUsers ------------------------------
(***************************************************************************)
(* The table of RTSP viewers on CPU0: which entry of rtsp_list belongs to  *)
(* which connection of lwIP.  An entry is filled when a connection is      *)
(* accepted, and freed when the viewer leaves, when lwIP gives the         *)
(* connection up, when nothing was heard of the viewer for RTP_TIME_OUT    *)
(* seconds, and when a command of CPU1 or a newcomer throws it out.  All   *)
(* of this happens in the main loop, one handler after the other.          *)
(*                                                                         *)
(* The table and lwIP point at each other (tpcb, callback_arg), and the    *)
(* number of viewers is counted apart from the entries.  close_wait is TRUE*)
(* exactly in an entry that was freed, and is left out.  A pcb that lwIP   *)
(* frees is used again for a later connection.  Viewers of the tunnels     *)
(* through HTTP, which do not come by rtsp_accept, are left out.           *)
(***************************************************************************)
EXTENDS UserState

Init ==
    /\ valid = [s \in Slots |-> FALSE]
    /\ tpcb = [s \in Slots |-> NoConn]
    /\ poll = [s \in Slots |-> 0]
    /\ n = 0
    /\ conn = [c \in Conns |-> "none"]
    /\ arg = [c \in Conns |-> 0]

First(S) == {s \in S : \A r \in S : s <= r}
Free == {s \in Slots : ~valid[s]}

-----------------------------------------------------------------------------
(* rtsp_close for the connections of C, which then are in a state of next. *)

(* Mutant: callback_arg is not cleared.                                    *)
CloseKeepsArg(C, next) ==
    LET gone == {arg[c] : c \in C} \cap Used
    IN  /\ valid' = [s \in Slots |-> valid[s] /\ s \notin gone]
        /\ n' = n - Cardinality(gone)
        /\ conn' = [c \in Conns |-> IF c \in C THEN next ELSE conn[c]]
        /\ UNCHANGED <<tpcb, poll, arg>>

(* Mutant: the viewers are not counted.                                    *)
CloseUncounted(C, next) ==
    LET gone == {arg[c] : c \in C} \cap Used
    IN  /\ valid' = [s \in Slots |-> valid[s] /\ s \notin gone]
        /\ n' = n - (IF gone = {} THEN 0 ELSE 1)
        /\ conn' = [c \in Conns |-> IF c \in C THEN next ELSE conn[c]]
        /\ arg' = [c \in Conns |-> IF c \in C THEN 0 ELSE arg[c]]
        /\ UNCHANGED <<tpcb, poll>>

Close(C, next) ==
    LET gone == {arg[c] : c \in C} \cap Used
    IN  /\ valid' = [s \in Slots |-> valid[s] /\ s \notin gone]
        /\ n' = n - Cardinality(gone)
        /\ conn' = [c \in Conns |-> IF c \in C THEN next ELSE conn[c]]
        /\ arg' = [c \in Conns |-> IF c \in C THEN 0 ELSE arg[c]]
        /\ UNCHANGED <<tpcb, poll>>

-----------------------------------------------------------------------------
(* Callbacks of lwIP.                                                      *)

(* rtsp_accept with a free entry.                                          *)
Accept(c) ==
    /\ conn[c] = "none" /\ n < MaxUsers
    /\ \E s \in First(Free) :
        /\ valid' = [valid EXCEPT ![s] = TRUE]
        /\ tpcb' = [tpcb EXCEPT ![s] = c]
        /\ poll' = [poll EXCEPT ![s] = 0]
        /\ arg' = [arg EXCEPT ![c] = s]
    /\ n' = n + 1
    /\ conn' = [conn EXCEPT ![c] = "open"]

(* Without one the first viewer is thrown out, and the newcomer refused.   *)
Refuse(c) ==
    /\ conn[c] = "none" /\ ~(n < MaxUsers)
    /\ Close({tpcb[s] : s \in First(Used)}, "closing")

(* Data, an acknowledgement or an RTCP report of the viewer.               *)
Heard(c) ==
    /\ conn[c] = "open"
    /\ poll' = [poll EXCEPT ![arg[c]] = 0]
    /\ UNCHANGED <<valid, tpcb, n, conn, arg>>

(* rtsp_recv: the viewer closes, says goodbye, or sends what is no RTSP.   *)
Leave(c) == conn[c] = "open" /\ Close({c}, "closing")

(* rtsp_err: lwIP gives the connection up and frees the pcb.               *)
Abort(c) == conn[c] = "open" /\ Close({tpcb[arg[c]]}, "none")

(* lwIP is done with a connection that rtsp_close has closed.              *)
Closed(c) ==
    /\ conn[c] = "closing"
    /\ conn' = [conn EXCEPT ![c] = "none"]
    /\ UNCHANGED <<valid, tpcb, poll, n, arg>>

(* Mutant: the limit is missed by a handler that counts, too.              *)
PollCountPast(c) ==
    /\ conn[c] = "open"
    /\ poll' = [poll EXCEPT ![arg[c]] = @ + 1]
    /\ UNCHANGED <<valid, tpcb, n, conn, arg>>

(* rtsp_poll, once a second.                                               *)
PollCount(c) ==
    /\ conn[c] = "open" /\ poll[arg[c]] # PollLimit
    /\ poll' = [poll EXCEPT ![arg[c]] = @ + 1]
    /\ UNCHANGED <<valid, tpcb, n, conn, arg>>

(* Mutant: the entry is not given back.                                    *)
PollDropForgets(c) ==
    /\ conn[c] = "open" /\ poll[arg[c]] = PollLimit
    /\ conn' = [conn EXCEPT ![c] = "none"]
    /\ UNCHANGED <<valid, tpcb, poll, n, arg>>

PollDrop(c) == conn[c] = "open" /\ poll[arg[c]] = PollLimit /\ Close({c}, "none")

-----------------------------------------------------------------------------
(* Commands of CPU1: rtsp_disconnect with an entry, MAX_RTSP_NUM or 0xFF.  *)

Kick(S) == Close({tpcb[s] : s \in S \cap Used}, "closing")
KickOne(s) == s \in Used /\ Kick({s})
KickFirst == Used # {} /\ Kick(First(Used))
KickAll == Used # {} /\ Kick(Slots)

-----------------------------------------------------------------------------
Poll(c) == PollCount(c) \/ PollDrop(c)

Next == \/ \E c \in Conns : \/ Accept(c) \/ Refuse(c) \/ Heard(c) \/ Leave(c)
                            \/ Abort(c) \/ Closed(c) \/ Poll(c)
        \/ (\E s \in Slots : KickOne(s)) \/ KickFirst \/ KickAll

Spec == Init /\ [][Next]_users

(* lwIP polls every connection once a second.                              *)
LiveSpec == Spec /\ \A c \in Conns : WF_users(Poll(c))

-----------------------------------------------------------------------------
(* Properties.                                                             *)

TypeOK ==
    /\ valid \in [Slots -> BOOLEAN]
    /\ tpcb \in [Slots -> Conns \cup {NoConn}]
    /\ poll \in [Slots -> 0 .. PollLimit]
    /\ n \in Nat
    /\ conn \in [Conns -> {"none", "open", "closing"}]
    /\ arg \in [Conns -> 0 .. MaxUsers]
=============================================================================
