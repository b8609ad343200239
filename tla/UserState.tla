----------------------------- MODULE UserState -------------------------------
(* The state of RtspUsers, its parameters with what is assumed of them,    *)
(* and what is said about the state; RtspUsers has the steps.              *)
EXTENDS Naturals, FiniteSets

CONSTANTS Conns,      \* connections (pcb's) lwIP can have to the RTSP port
          MaxUsers,   \* entries of rtsp_list (MAX_RTSP_NUM)
          PollLimit,  \* RTP_TIME_OUT
          NoConn      \* tpcb of an entry that was never used

ASSUME MaxUsersAssumption == MaxUsers \in Nat \ {0}
ASSUME PollLimitAssumption == PollLimit \in Nat
ASSUME NoConnAssumption == NoConn \notin Conns

VARIABLES valid,  \* rtsp_list[s].valid # 0
          tpcb,   \* rtsp_list[s].tpcb
          poll,   \* rtsp_list[s].poll_cnt
          n,      \* nrtsp_user
          conn,   \* lwIP: the pcb is "none", "open", or "closing" without callbacks
          arg     \* callback_arg: an entry, or 0 for NULL

users == <<valid, tpcb, poll, n, conn, arg>>

Slots == 1 .. MaxUsers
Used == {s \in Slots : valid[s]}

-----------------------------------------------------------------------------
(* The table and lwIP agree: a connection has callbacks exactly when an    *)
(* entry is its own, and the two point at each other.  Otherwise a callback*)
(* of an old connection would end the session of a new viewer.             *)
ArgsMatch ==
    /\ \A c \in Conns : conn[c] = "open" => arg[c] \in Used /\ tpcb[arg[c]] = c
    /\ \A c \in Conns : conn[c] # "open" => arg[c] = 0
    /\ \A s \in Used : tpcb[s] \in Conns /\ arg[tpcb[s]] = s

(* nrtsp_user is the number of entries in use, however they were freed: if *)
(* it fell behind, rtsp_add_user would find no free entry and write behind *)
(* the table.                                                              *)
UsersCounted == n = Cardinality(Used)

(* A viewer that is gone without a word does not keep its entry for ever.  *)
SilentIsDropped ==
    \A s \in Slots : (valid[s] /\ poll[s] > 0) ~> (~valid[s] \/ poll[s] = 0)
=============================================================================
