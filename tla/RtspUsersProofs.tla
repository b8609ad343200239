-------------------------- MODULE RtspUsersProofs --------------------------
(***************************************************************************)
(* Theorems about RtspUsers: the table of viewers and lwIP point at each   *)
(* other, and the viewers are counted right, whatever the size of the      *)
(* table, the number of connections and the timeout.                       *)
(***************************************************************************)
EXTENDS UsersPart, FiniteSetTheorems, TLAPS

USE MaxUsersAssumption, PollLimitAssumption, NoConnAssumption

(* What is counted in the part is counted here.                            *)
LEMMA UsrCardinality == \A S : Usr!Cardinality(S) = Cardinality(S)
  BY DEF Usr!Cardinality, Cardinality

USE UsrCardinality

(* What every state has: the count is part of it, as n is a number only    *)
(* because no entry is freed that was not counted.                         *)
UsrInv == Usr!TypeOK /\ Usr!ArgsMatch /\ Usr!UsersCounted

-----------------------------------------------------------------------------
(* Counting.                                                               *)

(* The entries in use are finitely many.                                   *)
LEMMA UsedFinite == /\ IsFiniteSet(Usr!Used) /\ Usr!Used \subseteq Usr!Slots
                    /\ Cardinality(Usr!Used) \in Nat
<1>1. IsFiniteSet(Usr!Slots)
  BY FS_Interval DEF Usr!Slots
<1>2. Usr!Used \subseteq Usr!Slots
  BY DEF Usr!Used
<1> QED
  BY <1>1, <1>2, FS_Subset, FS_CardinalityType

-----------------------------------------------------------------------------
(* rtsp_close, whatever connections it is called for.                      *)

(* An entry that is freed is that of a connection of C, and of no other.   *)
LEMMA ClosedEntries ==
    ASSUME UsrInv, NEW C \in SUBSET Conns, NEW next \in {"none", "closing"}, Usr!Close(C, next)
    PROVE  /\ Usr!Used' = Usr!Used \ {s \in Usr!Used : tpcb[s] \in C}
           /\ n' = n - Cardinality({s \in Usr!Used : tpcb[s] \in C})
<1> DEFINE gone == {arg[c] : c \in C} \cap Usr!Used
<1>1. ASSUME NEW s \in Usr!Used PROVE s \in gone <=> tpcb[s] \in C
  <2>1. tpcb[s] \in Conns /\ arg[tpcb[s]] = s /\ s \in 1 .. MaxUsers
    BY DEF UsrInv, Usr!ArgsMatch, Usr!Used, Usr!Slots
  <2>2. ASSUME NEW c \in C, arg[c] = s PROVE tpcb[s] = c
    BY <2>1, <2>2 DEF UsrInv, Usr!ArgsMatch
  <2> QED
    BY <2>1, <2>2
<1>2. gone = {s \in Usr!Used : tpcb[s] \in C}
  BY <1>1
<1>3. Usr!Used' = Usr!Used \ gone
  <2>1. valid' = [s \in Usr!Slots |-> valid[s] /\ s \notin gone]
    BY DEF Usr!Close
  <2> HIDE DEF gone
  <2> QED
    BY <2>1 DEF Usr!Used
<1>4. n' = n - Cardinality(gone)
  BY DEF Usr!Close
<1> HIDE DEF gone
<1> QED
  BY <1>2, <1>3, <1>4

(* Closing keeps the table and lwIP together, and the count.               *)
LEMMA CloseKeeps ==
    ASSUME UsrInv, NEW C \in SUBSET Conns, NEW next \in {"none", "closing"}, Usr!Close(C, next)
    PROVE  UsrInv'
<1> DEFINE gone == {s \in Usr!Used : tpcb[s] \in C}
<1>1. Usr!Used' = Usr!Used \ gone /\ n' = n - Cardinality(gone) /\ gone \subseteq Usr!Used
  <2>1. Usr!Used' = Usr!Used \ {s \in Usr!Used : tpcb[s] \in C}
        /\ n' = n - Cardinality({s \in Usr!Used : tpcb[s] \in C})
    BY ClosedEntries
  <2>2. gone \subseteq Usr!Used
    OBVIOUS
  <2> QED
    BY <2>1, <2>2
<1>2. /\ valid' \in [Usr!Slots -> BOOLEAN]
      /\ tpcb' = tpcb /\ poll' = poll
      /\ conn' = [c \in Conns |-> IF c \in C THEN next ELSE conn[c]]
      /\ arg' = [c \in Conns |-> IF c \in C THEN 0 ELSE arg[c]]
  <2> HIDE DEF gone
  <2>1. valid' \in [Usr!Slots -> BOOLEAN]
    BY DEF Usr!Close
  <2> QED
    BY <2>1 DEF Usr!Close
<1>3. n' = Cardinality(Usr!Used') /\ n' \in Nat
  <2> HIDE DEF gone
  <2>1. /\ IsFiniteSet(Usr!Used \ gone)
        /\ Cardinality(Usr!Used \ gone)
              = Cardinality(Usr!Used) - Cardinality(Usr!Used \cap gone)
    BY UsedFinite, FS_Difference
  <2>2. Usr!Used \cap gone = gone
    BY <1>1
  <2>3. Cardinality(Usr!Used \ gone) \in Nat
    BY <2>1, FS_CardinalityType
  <2> QED
    BY <1>1, <2>1, <2>2, <2>3 DEF UsrInv, Usr!UsersCounted
<1>4. Usr!TypeOK'
  <2> HIDE DEF gone
  <2>1. conn' \in [Conns -> {"none", "open", "closing"}]
    BY <1>2 DEF UsrInv, Usr!TypeOK
  <2>2. arg' \in [Conns -> 0 .. MaxUsers]
    BY <1>2 DEF UsrInv, Usr!TypeOK
  <2> QED
    BY <1>2, <1>3, <2>1, <2>2 DEF UsrInv, Usr!TypeOK
<1>5. Usr!ArgsMatch'
  <2>1. ASSUME NEW c \in Conns, conn'[c] = "open"
        PROVE  arg'[c] \in Usr!Used' /\ tpcb'[arg'[c]] = c
    <3>1. c \notin C /\ conn[c] = "open" /\ arg'[c] = arg[c]
      BY <1>2, <2>1
    <3>2. arg[c] \in Usr!Used /\ tpcb[arg[c]] = c
      BY <3>1 DEF UsrInv, Usr!ArgsMatch
    <3> QED
      BY <1>1, <1>2, <3>1, <3>2
  <2>2. ASSUME NEW c \in Conns, conn'[c] # "open" PROVE arg'[c] = 0
    BY <1>2, <2>2 DEF UsrInv, Usr!ArgsMatch
  <2>3. ASSUME NEW s \in Usr!Used' PROVE tpcb'[s] \in Conns /\ arg'[tpcb'[s]] = s
    <3>1. s \in Usr!Used /\ tpcb[s] \notin C
      BY <1>1, <2>3
    <3>2. tpcb[s] \in Conns /\ arg[tpcb[s]] = s
      BY <3>1 DEF UsrInv, Usr!ArgsMatch
    <3> QED
      BY <1>2, <3>1, <3>2
  <2> QED
    BY <2>1, <2>2, <2>3 DEF Usr!ArgsMatch
<1> QED
  BY <1>3, <1>4, <1>5 DEF UsrInv, Usr!UsersCounted

-----------------------------------------------------------------------------
(* The handlers.                                                           *)

(* In the beginning no entry is used.                                      *)
LEMMA UsrInvInit == Usr!Init => UsrInv
<1> SUFFICES ASSUME Usr!Init PROVE UsrInv
  OBVIOUS
<1>1. Usr!TypeOK
  BY DEF Usr!Init, Usr!TypeOK, Usr!Slots
<1>2. Usr!Used = {}
  BY DEF Usr!Init, Usr!Used
<1>3. Usr!ArgsMatch
  BY <1>2 DEF Usr!Init, Usr!ArgsMatch
<1>4. Usr!UsersCounted
  BY <1>2, FS_EmptySet DEF Usr!Init, Usr!UsersCounted
<1> QED
  BY <1>1, <1>3, <1>4 DEF UsrInv

(* A newcomer gets an entry that nobody uses.                              *)
LEMMA AcceptKeeps == ASSUME UsrInv, NEW c \in Conns, Usr!Accept(c) PROVE UsrInv'
<1> PICK s \in Usr!First(Usr!Free) :
      /\ valid' = [valid EXCEPT ![s] = TRUE]
      /\ tpcb' = [tpcb EXCEPT ![s] = c]
      /\ poll' = [poll EXCEPT ![s] = 0]
      /\ arg' = [arg EXCEPT ![c] = s]
  BY DEF Usr!Accept
<1>1. s \in Usr!Slots /\ s \notin Usr!Used /\ s \in 1 .. MaxUsers
  BY DEF Usr!First, Usr!Free, Usr!Used, Usr!Slots
<1>2. conn[c] = "none" /\ conn' = [conn EXCEPT ![c] = "open"] /\ n' = n + 1
  BY DEF Usr!Accept
<1>3. Usr!Used' = Usr!Used \cup {s}
  <2>1. valid \in [Usr!Slots -> BOOLEAN]
    BY DEF UsrInv, Usr!TypeOK
  <2> QED
    BY <1>1, <2>1 DEF Usr!Used
<1>4. n' = Cardinality(Usr!Used')
  <2>1. Cardinality(Usr!Used \cup {s}) = Cardinality(Usr!Used) + 1
    BY <1>1, UsedFinite, FS_AddElement
  <2> QED
    BY <1>2, <1>3, <2>1 DEF UsrInv, Usr!UsersCounted
<1>5. Usr!TypeOK'
  <2>1. valid' \in [Usr!Slots -> BOOLEAN] /\ tpcb' \in [Usr!Slots -> Conns \cup {NoConn}]
    BY <1>1 DEF UsrInv, Usr!TypeOK
  <2>2. poll' \in [Usr!Slots -> 0 .. PollLimit] /\ arg' \in [Conns -> 0 .. MaxUsers]
    BY <1>1 DEF UsrInv, Usr!TypeOK
  <2>3. n' \in Nat /\ conn' \in [Conns -> {"none", "open", "closing"}]
    BY <1>2 DEF UsrInv, Usr!TypeOK
  <2> QED
    BY <2>1, <2>2, <2>3 DEF Usr!TypeOK
<1>6. Usr!ArgsMatch'
  <2>0. /\ tpcb'[s] = c /\ \A r \in Usr!Used : tpcb'[r] = tpcb[r]
        /\ arg'[c] = s /\ \A d \in Conns \ {c} : arg'[d] = arg[d] /\ conn'[d] = conn[d]
        /\ conn'[c] = "open"
    BY <1>1, <1>2, UsedFinite DEF UsrInv, Usr!TypeOK
  <2>1. ASSUME NEW d \in Conns, conn'[d] = "open"
        PROVE  arg'[d] \in Usr!Used' /\ tpcb'[arg'[d]] = d
    BY <1>1, <1>3, <2>0, <2>1 DEF UsrInv, Usr!ArgsMatch
  <2>2. ASSUME NEW d \in Conns, conn'[d] # "open" PROVE arg'[d] = 0
    BY <2>0, <2>2 DEF UsrInv, Usr!ArgsMatch
  <2>3. ASSUME NEW r \in Usr!Used' PROVE tpcb'[r] \in Conns /\ arg'[tpcb'[r]] = r
    <3>1. CASE r = s
      BY <2>0, <3>1
    <3>2. CASE r \in Usr!Used
      <4>1. tpcb[r] \in Conns /\ arg[tpcb[r]] = r
        BY <3>2 DEF UsrInv, Usr!ArgsMatch
      <4>2. r # 0
        BY <3>2, UsedFinite DEF Usr!Slots
      <4>3. tpcb[r] # c
        BY <1>2, <4>1, <4>2 DEF UsrInv, Usr!ArgsMatch
      <4> QED
        BY <2>0, <3>2, <4>1, <4>3
    <3> QED
      BY <1>3, <2>3, <3>1, <3>2
  <2> QED
    BY <2>1, <2>2, <2>3 DEF Usr!ArgsMatch
<1> QED
  BY <1>4, <1>5, <1>6 DEF UsrInv, Usr!UsersCounted

(* Handlers that only count the time, and those lwIP takes a pcb back by.  *)
LEMMA OthersKeep ==
    ASSUME UsrInv, NEW c \in Conns, Usr!Heard(c) \/ Usr!PollCount(c) \/ Usr!Closed(c)
    PROVE  UsrInv'
<1>1. UNCHANGED <<valid, tpcb, n, arg>>
  BY DEF Usr!Heard, Usr!PollCount, Usr!Closed
<1>2. Usr!Used' = Usr!Used
  BY <1>1 DEF Usr!Used
<1>3. poll' \in [Usr!Slots -> 0 .. PollLimit]
  <2>1. CASE Usr!Heard(c)
    <3>1. poll \in [Usr!Slots -> 0 .. PollLimit] /\ 0 \in 0 .. PollLimit
      BY DEF UsrInv, Usr!TypeOK
    <3>2. poll' = [poll EXCEPT ![arg[c]] = 0]
      BY <2>1 DEF Usr!Heard
    <3> QED
      BY <3>1, <3>2
  <2>2. CASE Usr!PollCount(c)
    <3>1. arg[c] \in Usr!Slots
      BY <2>2, UsedFinite DEF Usr!PollCount, UsrInv, Usr!ArgsMatch
    <3>2. poll \in [Usr!Slots -> 0 .. PollLimit] /\ poll[arg[c]] + 1 \in 0 .. PollLimit
      BY <2>2, <3>1 DEF Usr!PollCount, UsrInv, Usr!TypeOK
    <3> QED
      BY <2>2, <3>2 DEF Usr!PollCount
  <2>3. CASE Usr!Closed(c)
    BY <2>3 DEF Usr!Closed, UsrInv, Usr!TypeOK
  <2> QED
    BY <2>1, <2>2, <2>3
<1>4. /\ conn' \in [Conns -> {"none", "open", "closing"}]
      /\ \A d \in Conns : conn'[d] = "open" <=> conn[d] = "open"
  BY DEF Usr!Heard, Usr!PollCount, Usr!Closed, UsrInv, Usr!TypeOK
<1>5. Usr!TypeOK'
  BY <1>1, <1>3, <1>4 DEF UsrInv, Usr!TypeOK
<1>6. Usr!ArgsMatch'
  BY <1>1, <1>2, <1>4 DEF UsrInv, Usr!ArgsMatch
<1>7. Usr!UsersCounted'
  BY <1>1, <1>2 DEF UsrInv, Usr!UsersCounted
<1> QED
  BY <1>5, <1>6, <1>7 DEF UsrInv

(* The connections of entries in use are connections.                      *)
LEMMA KickedAreConns == ASSUME UsrInv, NEW S, S \subseteq Usr!Used
                        PROVE  {tpcb[s] : s \in S} \in SUBSET Conns
  BY DEF UsrInv, Usr!ArgsMatch

(* No step breaks it.                                                      *)
LEMMA UsrInvStep == UsrInv /\ [Usr!Next]_users => UsrInv'
<1> SUFFICES ASSUME UsrInv, [Usr!Next]_users PROVE UsrInv'
  OBVIOUS
<1>1. ASSUME NEW c \in Conns, Usr!Accept(c) PROVE UsrInv'
  BY <1>1, AcceptKeeps
<1>2. ASSUME NEW c \in Conns, Usr!Heard(c) \/ Usr!PollCount(c) \/ Usr!Closed(c) PROVE UsrInv'
  BY <1>2, OthersKeep
<1>3. ASSUME NEW c \in Conns, Usr!Refuse(c) PROVE UsrInv'
  <2>1. {tpcb[s] : s \in Usr!First(Usr!Used)} \in SUBSET Conns
    BY KickedAreConns DEF Usr!First
  <2> QED
    BY <1>3, <2>1, CloseKeeps DEF Usr!Refuse
<1>4. ASSUME NEW c \in Conns, Usr!Leave(c) PROVE UsrInv'
  BY <1>4, CloseKeeps DEF Usr!Leave
<1>5. ASSUME NEW c \in Conns, Usr!Abort(c) PROVE UsrInv'
  <2>1. tpcb[arg[c]] = c
    BY <1>5 DEF Usr!Abort, UsrInv, Usr!ArgsMatch
  <2> QED
    BY <1>5, <2>1, CloseKeeps DEF Usr!Abort
<1>6. ASSUME NEW c \in Conns, Usr!PollDrop(c) PROVE UsrInv'
  BY <1>6, CloseKeeps DEF Usr!PollDrop
<1>7. ASSUME NEW S, Usr!Kick(S) PROVE UsrInv'
  <2>1. {tpcb[s] : s \in S \cap Usr!Used} \in SUBSET Conns
    BY KickedAreConns
  <2> QED
    BY <1>7, <2>1, CloseKeeps DEF Usr!Kick
<1>8. CASE UNCHANGED users
  <2>1. Usr!Used' = Usr!Used
    BY <1>8 DEF users, Usr!Used
  <2> QED
    BY <1>8, <2>1 DEF users, UsrInv, Usr!TypeOK, Usr!ArgsMatch, Usr!UsersCounted
<1> QED
  BY <1>1, <1>2, <1>3, <1>4, <1>5, <1>6, <1>7, <1>8
  DEF Usr!Next, Usr!Poll, Usr!KickOne, Usr!KickFirst, Usr!KickAll

(* The invariant holds always.                                             *)
LEMMA UsrAlways == Usr!Spec => []UsrInv
  BY UsrInvInit, UsrInvStep, PTL DEF Usr!Spec, Usr!users, users

-----------------------------------------------------------------------------
(* Theorems.                                                               *)

(* Every variable keeps its type; the count is never taken below 0.        *)
THEOREM UsrTypes == Usr!Spec => []Usr!TypeOK
<1>1. UsrInv => Usr!TypeOK
  BY DEF UsrInv
<1> QED
  BY <1>1, UsrAlways, PTL

(* A callback of lwIP always finds the entry of its own connection, however*)
(* connections end and pcb's are used again.                               *)
THEOREM EntriesMatch == Usr!Spec => []ArgsMatch
<1>1. UsrInv => ArgsMatch
  BY DEF UsrInv, Usr!ArgsMatch, Usr!Used, Usr!Slots, ArgsMatch, Used, Slots
<1> QED
  BY <1>1, UsrAlways, PTL

(* nrtsp_user is the number of entries in use.                             *)
THEOREM CountIsRight == Usr!Spec => []UsersCounted
<1>1. UsrInv => UsersCounted
  BY DEF UsrInv, Usr!UsersCounted, Usr!Used, Usr!Slots, UsersCounted, Used, Slots
<1> QED
  BY <1>1, UsrAlways, PTL

(* As nrtsp_user is right, a newcomer that is not refused finds a free     *)
(* entry: rtsp_add_user never leaves the table.                            *)
THEOREM NewcomerHasEntry == Usr!Spec => [](n < MaxUsers => Usr!Free # {})
<1>1. ASSUME UsrInv, n < MaxUsers PROVE Usr!Free # {}
  <2>1. Cardinality(Usr!Slots) = MaxUsers
    BY FS_Interval DEF Usr!Slots
  <2>2. Usr!Used # Usr!Slots
    BY <1>1, <2>1 DEF UsrInv, Usr!UsersCounted
  <2> QED
    BY <2>2 DEF Usr!Free, Usr!Used
<1> QED
  BY <1>1, UsrAlways, PTL

(* A module that extends this one cites what it needs.                     *)
HIDE MaxUsersAssumption
HIDE PollLimitAssumption
HIDE NoConnAssumption
HIDE UsrCardinality
=============================================================================
