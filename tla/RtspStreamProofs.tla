-------------------------- MODULE RtspStreamProofs --------------------------
(***************************************************************************)
(* Theorems about RtspStream, for every size of the ring, all distances    *)
(* of I pictures, and an encoder that may change the distance and put in I *)
(* pictures out of turn: however often it laps the sender, the viewer is   *)
(* never sent an older picture; within a run of pictures that are numbered *)
(* on without a break, what is missing without notice is whole groups; and *)
(* a sender that has lost nothing stops at such a break only.              *)
(***************************************************************************)
EXTENDS StreamPart, Remainders, TLAPS

USE NAssumption, GroupsAssumption, PacketsAssumption, MaxFramesAssumption

(* None is no picture.                                                     *)
LEMMA NoneIsNoFrame == None \notin Str!Frame /\ None \notin Nat
  BY NoneAssumption DEF Frame, Str!Frame

USE NoneIsNoFrame

-----------------------------------------------------------------------------
(* The invariant.                                                          *)

(* The hand-over: who takes a picture has taken the flag back, and is not  *)
(* done; who builds a packet has a picture.                                *)
HandOver ==
    /\ sendFlag => ~sendDone /\ btx = "ready"
    /\ pc = "take" => ~sendDone /\ ~sendFlag /\ btx = "ready"
    /\ pc = "build" => btx = "doing"

(* The pictures that are known: in the ring, sent last and made last.      *)
Known == ({slot[i] : i \in Str!Index} \cup {cur, last}) \ {None}

(* A picture was made, and is numbered below its distance; 0 is the number *)
(* of an I picture.                                                        *)
WasMade(f) == /\ f.id < made
              /\ f.num < f.gop
              /\ f.num = 0 => f.slice = "I"
              /\ f.run <= last.run
KnownMade == /\ last = None <=> made = 0
             /\ last # None => last.id = made - 1
             /\ \A f \in Known : WasMade(f)

(* Pictures that were made one after the other have numbers the encoder    *)
(* lets follow each other, and within a run the numbers are as far apart   *)
(* as the places, up to whole groups.                                      *)
Apart(e, f) == /\ f.gop = e.gop
               /\ Str!InTurn(e) /\ Str!InTurn(f)
               /\ f.num = (e.num + (f.id - e.id)) % f.gop
Joined(e, f) == /\ f.id = e.id => f = e
                /\ f.id = e.id + 1 => Str!InLine(e, f) \/ Str!MayFollow(e, f)
                /\ f.run = e.run /\ e.id < f.id => Apart(e, f)
KnownJoined == \A e, f \in Known : Joined(e, f)

(* How many puts ago a slot would have been the one to be written next: the*)
(* slot at tail is the oldest.                                             *)
Age(i) == IF i >= tail THEN i - tail ELSE i - tail + N

(* From tail on, all the way round, the pictures get newer, and the slots  *)
(* that were never written come first.  This holds whatever head is, also  *)
(* after tail has passed it.                                               *)
RingOrder ==
    \A i, j \in Str!Index : Age(i) < Age(j) /\ slot[i] # None
                          => slot[j] # None /\ slot[i].id < slot[j].id

(* What will be taken is newer than what was sent.                         *)
HeadIsNewer ==
    ~Str!IsEmpty \/ pc = "take" =>
        slot[head] # None /\ (cur # None => cur.id < slot[head].id)

(* As long as no loss is noticed, the detector has the number it goes on   *)
(* from: 0 behind an I picture, whatever its own number is.                *)
Counted(f) == IF f.slice = "I" THEN 0 ELSE f.num
SeqIsCounted == start => cur # None /\ seq = Counted(cur)

StrInv == /\ Str!TypeOK /\ HandOver /\ KnownMade /\ KnownJoined /\ RingOrder
          /\ HeadIsNewer /\ SeqIsCounted

-----------------------------------------------------------------------------
(* The ring.                                                               *)

(* num_loop stays in the ring, and comes to another slot.                  *)
LEMMA NumLoopType == ASSUME NEW i \in Str!Index
                     PROVE  Str!NumLoop(i) \in Str!Index /\ Str!NumLoop(i) # i
  BY DEF Str!NumLoop, Str!Index

(* The slot at tail is the oldest; the slot behind any other that is not   *)
(* at tail is one younger.                                                 *)
LEMMA AgeNext ==
    ASSUME Str!TypeOK, NEW i \in Str!Index
    PROVE  /\ Age(i) \in 0 .. N - 1
           /\ Age(i) = 0 <=> i = tail
           /\ Str!NumLoop(i) # tail => Age(Str!NumLoop(i)) = Age(i) + 1
  BY DEF Age, Str!NumLoop, Str!Index, Str!TypeOK

(* A put makes the slot it writes the youngest, and all others older.      *)
LEMMA AgePut ==
    ASSUME Str!TypeOK, tail' = Str!NumLoop(tail), NEW i \in Str!Index
    PROVE  Age(i)' = IF i = tail THEN N - 1 ELSE Age(i) - 1
<1>1. tail \in Nat /\ tail < N /\ i \in Nat /\ i < N
  BY DEF Str!TypeOK, Str!Index
<1>2. CASE tail + 1 >= N
  BY <1>1, <1>2 DEF Age, Str!NumLoop
<1>3. CASE tail + 1 < N
  BY <1>1, <1>3 DEF Age, Str!NumLoop
<1> QED
  BY <1>1, <1>2, <1>3

-----------------------------------------------------------------------------
(* The steps.  A step that writes none of the variables a part names keeps *)
(* it.                                                                     *)

(* In the beginning, and for a new connection, the ring is empty.          *)
LEMMA StrInvInit == Str!Init => StrInv
<1> SUFFICES ASSUME Str!Init PROVE StrInv
  OBVIOUS
<1>1. slot = [i \in Str!Index |-> None] /\ head = 0 /\ tail = 0 /\ made = 0 /\ last = None
      /\ pc = "idle" /\ cur = None /\ seq = None /\ ~start /\ ~sendFlag
  BY Zenon DEF Str!Init, Str!Fresh
<1>2. Str!TypeOK
  <2>1. state \in {"init", "ready", "play", "pause"} /\ video \in BOOLEAN
        /\ sendFlag \in BOOLEAN /\ sendDone \in BOOLEAN /\ start \in BOOLEAN
    BY Zenon DEF Str!Init, Str!Fresh
  <2>2. btx = "ready" /\ left = 0
    BY DEF Str!Init, Str!Fresh
  <2>3. slot \in [Str!Index -> Str!Frame \cup {None}] /\ 0 \in Str!Index /\ 0 \in 0 .. MaxFrames
        /\ 0 \in 0 .. Packets
    BY <1>1 DEF Str!Index
  <2> QED
    BY <1>1, <2>1, <2>2, <2>3 DEF Str!TypeOK
<1>3. HandOver /\ SeqIsCounted
  BY <1>1 DEF HandOver, SeqIsCounted
<1>4. RingOrder /\ HeadIsNewer
  BY <1>1 DEF RingOrder, HeadIsNewer, Str!IsEmpty
<1>5. Known = {}
  BY <1>1 DEF Known
<1>6. KnownMade /\ KnownJoined
  BY <1>1, <1>5 DEF KnownMade, KnownJoined
<1> QED
  BY <1>2, <1>3, <1>4, <1>6 DEF StrInv

(* What is known are pictures.                                             *)
LEMMA KnownType ==
    ASSUME Str!TypeOK
    PROVE  /\ Known \subseteq Str!Frame
           /\ \A i \in Str!Index : slot[i] # None => slot[i] \in Known
           /\ cur # None => cur \in Known
           /\ last # None => last \in Known
  BY DEF Known, Str!TypeOK

(* Who makes no picture knows no other ones.                               *)
LEMMA FewerKnown ==
    ASSUME KnownMade, KnownJoined, Known' \subseteq Known, UNCHANGED <<made, last>>
    PROVE  KnownMade' /\ KnownJoined'
<1>1. KnownMade'
  BY DEF KnownMade, WasMade
<1>2. KnownJoined'
  BY DEF KnownJoined
<1> QED
  BY <1>1, <1>2

(* A new picture joins the one made last, and within its run all others.   *)
LEMMA NewJoins ==
    ASSUME Str!TypeOK, KnownMade, KnownJoined, last # None, NEW p \in Str!Frame,
           p.id = made, p.num < p.gop,
           \/ Str!InLine(last, p) /\ p.run = last.run
           \/ Str!MayFollow(last, p) /\ p.run = last.run + 1,
           NEW e \in Known
    PROVE  Joined(e, p) /\ Joined(p, e)
<1>1. e \in Str!Frame /\ WasMade(e) /\ last \in Known /\ last \in Str!Frame /\ WasMade(last)
      /\ last.id = made - 1
  BY KnownType DEF KnownMade
<1>2. made \in Nat /\ e.id \in Nat /\ e.run \in Nat /\ e.num \in Nat /\ e.gop \in Nat \ {0}
      /\ p.id \in Nat /\ p.run \in Nat /\ p.num \in Nat /\ p.gop \in Nat \ {0}
      /\ last.id \in Nat /\ last.run \in Nat /\ last.num \in Nat /\ last.gop \in Nat \ {0}
  BY <1>1 DEF Str!TypeOK, Str!Frame
<1>3. e.id < p.id /\ e.run <= last.run /\ e.id <= last.id
  BY <1>1, <1>2 DEF WasMade
<1>4. Joined(e, last)
  BY <1>1 DEF KnownJoined
<1>5. p.id = e.id + 1 => Str!InLine(e, p) \/ Str!MayFollow(e, p)
  <2>1. p.id = e.id + 1 => last = e
    BY <1>1, <1>2, <1>4 DEF Joined
  <2> QED
    BY <2>1
<1>6. ASSUME p.run = e.run PROVE Apart(e, p)
  <2>1. Str!InLine(last, p) /\ last.run = e.run
    BY <1>2, <1>3, <1>6
  <2>2. p.gop = last.gop /\ Str!InTurn(last) /\ Str!InTurn(p)
        /\ p.num = IF last.num + 1 = last.gop THEN 0 ELSE last.num + 1
    BY <2>1 DEF Str!InLine
  <2>3. CASE e = last
    <3>1. last.num + 1 <= last.gop
      BY <1>1, <1>2 DEF WasMade
    <3>2. p.num = (last.num + 1) % last.gop
      <4>1. last.num % last.gop = last.num
        BY <1>1, <1>2, ModSmall DEF WasMade
      <4>2. (last.num + 1) % last.gop
              = IF (last.num % last.gop) + 1 = last.gop THEN 0 ELSE (last.num % last.gop) + 1
        BY <1>2, ModNext
      <4> QED
        BY <2>2, <4>1, <4>2
    <3>3. p.id - last.id = 1
      BY <1>1, <1>2
    <3> QED
      BY <2>2, <2>3, <3>2, <3>3 DEF Apart
  <2>4. CASE e # last
    <3>1. Apart(e, last)
      <4>1. e.id < last.id
        BY <1>2, <1>3, <1>4, <2>4 DEF Joined
      <4> QED
        BY <1>4, <2>1, <4>1 DEF Joined
    <3> DEFINE x == e.num + (last.id - e.id)
    <3>2. x \in Nat /\ x + 1 = e.num + (p.id - e.id)
      BY <1>1, <1>2, <1>3
    <3>3. last.num = x % last.gop /\ last.gop = e.gop /\ Str!InTurn(e)
      BY <3>1 DEF Apart
    <3> HIDE DEF x
    <3>4. p.num = (x + 1) % last.gop
      <4>1. (x + 1) % last.gop = IF (x % last.gop) + 1 = last.gop THEN 0 ELSE (x % last.gop) + 1
        BY <1>2, <3>2, ModNext
      <4> QED
        BY <2>2, <3>3, <4>1
    <3> QED
      BY <2>2, <3>2, <3>3, <3>4 DEF Apart
  <2> QED
    BY <2>3, <2>4
<1>7. p.id # e.id /\ e.id # p.id + 1 /\ ~(p.id < e.id)
  BY <1>2, <1>3
<1> QED
  BY <1>5, <1>6, <1>7 DEF Joined

(* The encoder's interrupt.                                                *)
LEMMA PutKeeps == ASSUME StrInv, Str!Encode PROVE StrInv'
<1>0. Str!TypeOK /\ KnownMade /\ KnownJoined
  BY DEF StrInv
<1>p. PICK g \in Str!Pictures : Str!CanFollow(g) /\ Str!EncodeDone(g)
  BY DEF Str!Encode
<1>f. PICK f : f = [id |-> made, slice |-> g.slice, num |-> g.num, gop |-> g.gop,
                    run |-> IF last = None THEN 0
                            ELSE IF Str!InLine(last, g) THEN last.run ELSE last.run + 1]
  OBVIOUS
<1>1. made \in Nat /\ made < MaxFrames /\ made' = made + 1 /\ last' = f
  BY <1>0, <1>f, <1>p DEF Str!EncodeDone, Str!TypeOK
<1>g. g.slice \in {"I", "P"} /\ g.gop \in Nat \ {0} /\ g.num \in 0 .. g.gop - 1
      /\ (g.num = 0 => g.slice = "I")
  BY <1>p DEF Str!Pictures, Str!CanFollow
<1>k. last # None => last \in Str!Frame /\ last \in Known /\ last.id = made - 1
  BY <1>0, KnownType DEF KnownMade
<1>2. f \in Str!Frame /\ f # None /\ f.id = made /\ f.num < f.gop /\ f.num = g.num
      /\ f.slice = g.slice /\ (last # None => last.run <= f.run)
  <2>1. f.run \in 0 .. MaxTurns /\ (last # None => last.run <= f.run)
    <3>1. CASE last = None
      BY <1>f, <3>1
    <3>2. CASE last # None
      <4>1. last.run \in 0 .. MaxTurns
        BY <1>k, <3>2 DEF Str!Frame
      <4>2. ~Str!InLine(last, g) => last.run < MaxTurns
        BY <1>p, <3>2 DEF Str!CanFollow
      <4> QED
        BY <1>f, <3>2, <4>1, <4>2
    <3> QED
      BY <3>1, <3>2
  <2> QED
    BY <1>1, <1>f, <1>g, <2>1 DEF Str!Frame
<1>j. last # None => \/ Str!InLine(last, f) /\ f.run = last.run
                     \/ Str!MayFollow(last, f) /\ f.run = last.run + 1
  BY <1>f, <1>p DEF Str!CanFollow, Str!InLine, Str!InTurn, Str!MayFollow
<1>3. UNCHANGED <<state, video, head, sendFlag, sendDone, btx, left, start, seq, cur, pc>>
  BY <1>p DEF Str!EncodeDone, Str!tx
<1>4. HandOver' /\ SeqIsCounted'
  BY <1>1, <1>3 DEF StrInv, HandOver, SeqIsCounted
<1>5. \/ UNCHANGED <<slot, tail>>
      \/ slot' = [slot EXCEPT ![tail] = f] /\ tail' = Str!NumLoop(tail)
  BY <1>1, <1>p DEF Str!EncodeDone
<1>s. slot' \in [Str!Index -> Str!Frame \cup {None}] /\ tail' \in Str!Index
  BY <1>0, <1>2, <1>5, NumLoopType DEF Str!TypeOK
<1>6. Str!TypeOK'
  BY <1>0, <1>1, <1>2, <1>3, <1>s DEF Str!TypeOK
<1>7. Known' \subseteq Known \cup {f}
  <2>1. \A i \in Str!Index : slot'[i] = slot[i] \/ slot'[i] = f
    BY <1>0, <1>5 DEF Str!TypeOK
  <2> QED
    BY <1>1, <1>3, <2>1 DEF Known
<1>8. KnownMade'
  <2>1. ASSUME NEW e \in Known PROVE WasMade(e)'
    <3>1. e \in Str!Frame /\ WasMade(e) /\ last # None
      BY <1>0, <1>1, KnownType DEF KnownMade, WasMade, Str!Frame
    <3> QED
      BY <1>1, <1>2, <1>k, <3>1 DEF WasMade, Str!Frame
  <2>2. WasMade(f)'
    BY <1>1, <1>2, <1>g DEF WasMade, Str!Frame
  <2> QED
    BY <1>1, <1>2, <1>7, <2>1, <2>2 DEF KnownMade
<1>9. KnownJoined'
  <2>1. ASSUME NEW e \in Known PROVE Joined(e, f) /\ Joined(f, e)
    <3>1. last # None
      BY <1>0, <1>1, KnownType DEF KnownMade, WasMade, Str!Frame
    <3> QED
      BY <1>0, <1>2, <1>j, <3>1, NewJoins
  <2>2. Joined(f, f)
    BY <1>1, <1>2 DEF Joined
  <2> QED
    BY <1>0, <1>7, <2>1, <2>2 DEF KnownJoined
<1>10. CASE UNCHANGED <<slot, tail>>
  <2>1. RingOrder' /\ HeadIsNewer'
    BY <1>3, <1>10 DEF StrInv, RingOrder, Age, HeadIsNewer, Str!IsEmpty
  <2> QED
    BY <1>4, <1>6, <1>8, <1>9, <2>1 DEF StrInv
<1>11. CASE slot' = [slot EXCEPT ![tail] = f] /\ tail' = Str!NumLoop(tail)
  <2>0. /\ tail \in Str!Index /\ slot'[tail] = f
        /\ \A i \in Str!Index \ {tail} : slot'[i] = slot[i]
    BY <1>0, <1>11 DEF Str!TypeOK
  <2>1. RingOrder'
    <3>1. ASSUME NEW i \in Str!Index, NEW j \in Str!Index, Age(i)' < Age(j)', slot'[i] # None
          PROVE  slot'[j] # None /\ slot'[i].id < slot'[j].id
      <4>1. /\ Age(i)' = IF i = tail THEN N - 1 ELSE Age(i) - 1
            /\ Age(j)' = IF j = tail THEN N - 1 ELSE Age(j) - 1
            /\ Age(i) \in 0 .. N - 1 /\ Age(j) \in 0 .. N - 1
        BY <1>0, <1>11, AgePut, AgeNext
      <4>2. i # tail
        BY <3>1, <4>1
      <4>3. CASE j = tail
        <5>1. slot[i] \in Known
          BY <1>0, <2>0, <3>1, <4>2, KnownType
        <5> QED
          BY <1>0, <1>2, <2>0, <4>2, <4>3, <5>1 DEF KnownMade, WasMade
      <4>4. CASE j # tail
        <5>1. Age(i) < Age(j)
          BY <3>1, <4>1, <4>2, <4>4
        <5> QED
          BY <2>0, <3>1, <4>2, <4>4, <5>1 DEF StrInv, RingOrder
      <4> QED
        BY <4>3, <4>4
    <3> QED
      BY <3>1 DEF RingOrder
  <2>2. HeadIsNewer'
    <3>1. CASE head = tail
      <4>1. cur # None => cur.id < made
        BY <1>0, KnownType DEF KnownMade, WasMade
      <4> QED
        BY <1>2, <1>3, <2>0, <3>1, <4>1 DEF HeadIsNewer
    <3>2. CASE head # tail
      <4>1. slot'[head] = slot[head]
        BY <1>0, <2>0, <3>2 DEF Str!TypeOK
      <4> QED
        BY <1>3, <3>2, <4>1 DEF StrInv, HeadIsNewer, Str!IsEmpty
    <3> QED
      BY <3>1, <3>2
  <2> QED
    BY <1>4, <1>6, <1>8, <1>9, <2>1, <2>2 DEF StrInv
<1> QED
  BY <1>5, <1>10, <1>11

(* Steps that neither write the ring nor take a picture from it.           *)
LEMMA RoundKeeps ==
    ASSUME StrInv, UNCHANGED <<made, last, Str!ring, start, seq, cur>>,
           Str!Setup \/ Str!Play \/ Str!Pause \/ Str!Poll \/ Str!NoWindow \/ Str!NotReady \/
               Str!GetTest \/ Str!Build
    PROVE  StrInv'
<1>0. Str!TypeOK /\ HandOver
  BY DEF StrInv
<1>1. KnownMade' /\ KnownJoined' /\ RingOrder' /\ SeqIsCounted'
  <2>1. Known' = Known
    BY DEF Known, Str!ring
  <2>2. KnownMade' /\ KnownJoined'
    BY <2>1, FewerKnown DEF StrInv
  <2> QED
    BY <2>2 DEF Str!ring, StrInv, RingOrder, Age, SeqIsCounted
<1>2. HeadIsNewer'
  <2>1. (~Str!IsEmpty)' <=> ~Str!IsEmpty
    BY DEF Str!IsEmpty, Str!ring
  <2>2. pc' = "take" => ~Str!IsEmpty \/ pc = "take"
    BY DEF Str!Setup, Str!Play, Str!Pause, Str!Poll, Str!NoWindow, Str!NotReady, Str!GetTest,
           Str!Build
  <2> QED
    BY <2>1, <2>2 DEF StrInv, HeadIsNewer, Str!ring
<1>3. CASE Str!Setup \/ Str!Play \/ Str!Pause
  <2>1. UNCHANGED <<sendFlag, sendDone, btx, left, pc>>
    BY <1>3 DEF Str!Setup, Str!Play, Str!Pause, Str!tx
  <2>2. video' \in BOOLEAN
    BY <1>0, <1>3, Zenon DEF Str!Setup, Str!Play, Str!Pause, Str!TypeOK
  <2>3. state' \in {"init", "ready", "play", "pause"}
    BY <1>3 DEF Str!Setup, Str!Play, Str!Pause
  <2>4. Str!TypeOK'
    BY <1>0, <2>1, <2>2, <2>3 DEF Str!TypeOK, Str!ring
  <2>5. HandOver'
    BY <1>0, <2>1 DEF HandOver
  <2> QED
    BY <1>1, <1>2, <2>4, <2>5 DEF StrInv
<1>4. CASE Str!Poll
  <2>1. UNCHANGED <<state, video, btx, left>> /\ pc' \in {"idle", "send"}
    BY <1>4 DEF Str!Poll
  <2>2. \/ sendDone' = FALSE /\ sendFlag' = TRUE /\ btx = "ready"
        \/ UNCHANGED <<sendDone, sendFlag>>
    BY <1>0, <1>4 DEF Str!Poll, Str!TypeOK
  <2>3. sendDone' \in BOOLEAN /\ sendFlag' \in BOOLEAN
    BY <1>0, <2>2, Zenon DEF Str!TypeOK
  <2>4. sendFlag' => ~sendDone' /\ btx = "ready"
    BY <1>0, <2>2, Zenon DEF HandOver
  <2>5. btx = "doing" => ~sendDone' /\ ~sendFlag'
    BY <1>0, <2>2 DEF Str!TypeOK
  <2>6. Str!TypeOK'
    BY <1>0, <2>1, <2>3, <2>5 DEF Str!TypeOK, Str!ring
  <2>7. HandOver'
    BY <2>1, <2>4 DEF HandOver
  <2> QED
    BY <1>1, <1>2, <2>6, <2>7 DEF StrInv
<1>5. CASE Str!NoWindow
  <2>1. UNCHANGED <<state, video, sendFlag, sendDone, btx, left>> /\ pc' = "idle"
    BY <1>5 DEF Str!NoWindow, Str!tx
  <2> QED
    BY <1>0, <1>1, <1>2, <2>1 DEF StrInv, Str!TypeOK, HandOver, Str!ring
<1>6. CASE Str!NotReady
  <2>1. UNCHANGED <<state, video, sendFlag, btx, left>> /\ pc' = "idle" /\ sendDone' = TRUE
        /\ btx = "ready" /\ ~sendFlag
    BY <1>6 DEF Str!NotReady
  <2> QED
    BY <1>0, <1>1, <1>2, <2>1 DEF StrInv, Str!TypeOK, HandOver, Str!ring
<1>7. CASE Str!GetTest
  <2>1. UNCHANGED <<state, video, sendDone, btx, left>> /\ pc' \in {"idle", "take"}
        /\ sendFlag' = FALSE /\ sendFlag /\ btx = "ready"
    BY <1>7 DEF Str!GetTest
  <2> QED
    BY <1>0, <1>1, <1>2, <2>1 DEF StrInv, Str!TypeOK, HandOver, Str!ring
<1>8. CASE Str!Build
  <2>1. UNCHANGED <<state, video, sendFlag>> /\ pc' = "idle" /\ btx = "doing"
        /\ left' = left - 1
    BY <1>0, <1>8 DEF Str!Build, HandOver
  <2>2. left \in 1 .. Packets /\ ~sendFlag /\ ~sendDone
    BY <1>0, <2>1 DEF Str!TypeOK
  <2>3. CASE left' = 0
    <3>1. btx' = "ready" /\ sendDone' = TRUE
      BY <1>8, <2>3 DEF Str!Build
    <3> QED
      BY <1>0, <1>1, <1>2, <2>1, <2>2, <2>3, <3>1 DEF StrInv, Str!TypeOK, HandOver, Str!ring
  <2>4. CASE left' # 0
    <3>1. UNCHANGED <<btx, sendDone>>
      BY <1>8, <2>4 DEF Str!Build
    <3>2. left' \in 1 .. Packets
      BY <2>1, <2>2, <2>4
    <3> QED
      BY <1>0, <1>1, <1>2, <2>1, <2>2, <3>1, <3>2 DEF StrInv, Str!TypeOK, HandOver, Str!ring
  <2> QED
    BY <2>3, <2>4
<1> QED
  BY <1>3, <1>4, <1>5, <1>6, <1>7, <1>8

(* The detector's number, after a picture that is not lost.                *)
LEMMA DetectType ==
    ASSUME NEW f \in Str!Frame
    PROVE  /\ Str!Detect(f) \in Nat \cup {None}
           /\ Str!Detect(f) # None => Str!Detect(f) = Counted(f)
  BY DEF Str!Detect, Counted, Str!Frame

(* The sender takes a picture.                                             *)
LEMMA TakeKeeps == ASSUME StrInv, Str!Take PROVE StrInv'
<1>0. Str!TypeOK
  BY DEF StrInv
<1> DEFINE f == slot[head]
           waiting == ~start /\ f.slice = "P"
           lost == ~waiting /\ Str!Detect(f) = None
<1>1. pc = "take" /\ head' = Str!NumLoop(head) /\ pc' \in {"idle", "build"}
      /\ UNCHANGED <<made, last, state, video, slot, tail, sendFlag>>
  BY DEF Str!Take
<1>2. f \in Str!Frame /\ f # None /\ head \in Str!Index /\ (cur # None => cur.id < f.id)
  BY <1>0, <1>1 DEF StrInv, Str!TypeOK, HeadIsNewer
<1>3. ~sendDone /\ ~sendFlag /\ btx = "ready" /\ left = 0
  BY <1>0, <1>1 DEF StrInv, HandOver, Str!TypeOK
<1>4. seq' = (IF waiting THEN seq ELSE Str!Detect(f)) /\ start' = (~waiting /\ ~lost)
  BY DEF Str!Take
<1>5. (waiting \/ lost) =>
        sendDone' = TRUE /\ pc' = "idle" /\ UNCHANGED <<btx, left, cur>>
  BY DEF Str!Take
<1>6. ~(waiting \/ lost) =>
        /\ btx' = "doing" /\ left' = Packets /\ cur' = f /\ pc' = "build"
        /\ UNCHANGED sendDone
  BY DEF Str!Take
<1>7. waiting \in BOOLEAN /\ lost \in BOOLEAN
  OBVIOUS
<1>8. ~waiting /\ ~lost => Str!Detect(f) = Counted(f)
  BY <1>2, DetectType
<1>9. seq' \in Nat \cup {None}
  BY <1>0, <1>2, <1>4, DetectType DEF Str!TypeOK
<1>10. KnownMade' /\ KnownJoined'
  <2>1. Known' \subseteq Known
    BY <1>1, <1>2, <1>5, <1>6 DEF Known
  <2> QED
    BY <1>1, <2>1, FewerKnown DEF StrInv
<1> HIDE DEF f, waiting, lost
<1>11. Str!TypeOK'
  <2>1. head' \in Str!Index
    BY <1>1, <1>2, NumLoopType
  <2>2. CASE waiting \/ lost
    BY <1>0, <1>1, <1>3, <1>4, <1>5, <1>7, <1>9, <2>1, <2>2 DEF Str!TypeOK
  <2>3. CASE ~(waiting \/ lost)
    <3>1. Packets \in 0 .. Packets /\ Packets > 0
      OBVIOUS
    <3> QED
      BY <1>0, <1>1, <1>2, <1>3, <1>4, <1>6, <1>7, <1>9, <2>1, <2>3, <3>1 DEF Str!TypeOK
  <2> QED
    BY <2>2, <2>3
<1>12. HandOver'
  BY <1>1, <1>3, <1>5, <1>6 DEF HandOver
<1>13. RingOrder'
  BY <1>1 DEF StrInv, RingOrder, Age
<1>14. SeqIsCounted'
  <2>1. CASE waiting \/ lost
    BY <1>4, <2>1 DEF SeqIsCounted
  <2>2. CASE ~(waiting \/ lost)
    BY <1>2, <1>4, <1>6, <1>8, <2>2 DEF SeqIsCounted
  <2> QED
    BY <2>1, <2>2
<1>15. HeadIsNewer'
  <2>1. SUFFICES ASSUME head' # tail'
                 PROVE  slot[head'] # None /\ (cur' # None => cur'.id < slot[head'].id)
    BY <1>1 DEF HeadIsNewer, Str!IsEmpty
  <2>2. head' \in Str!Index /\ Age(head') = Age(head) + 1 /\ Age(head) \in 0 .. N - 1
    BY <1>0, <1>1, <1>2, <2>1, AgeNext, NumLoopType
  <2>3. slot[head'] # None /\ f.id < slot[head'].id
    BY <1>2, <2>2 DEF StrInv, RingOrder, f
  <2>4. slot[head'] \in Str!Frame
    BY <1>0, <2>2, <2>3 DEF Str!TypeOK
  <2>5. CASE waiting \/ lost
    <3>1. cur # None => cur \in Str!Frame
      BY <1>0 DEF Str!TypeOK
    <3> QED
      BY <1>2, <1>5, <2>3, <2>4, <2>5, <3>1 DEF Str!Frame
  <2>6. CASE ~(waiting \/ lost)
    BY <1>6, <2>3, <2>6
  <2> QED
    BY <2>5, <2>6
<1> QED
  BY <1>10, <1>11, <1>12, <1>13, <1>14, <1>15 DEF StrInv

(* A new connection gets the entry.                                        *)
LEMMA ReconnectKeeps == ASSUME StrInv, Str!Reconnect PROVE StrInv'
<1>0. Str!TypeOK
  BY DEF StrInv
<1>1. slot' = [i \in Str!Index |-> None] /\ head' = 0 /\ tail' = 0 /\ made' = made /\ last' = last
      /\ pc' = "idle" /\ cur' = None /\ seq' = None /\ ~start' /\ ~sendFlag'
  BY Zenon DEF Str!Reconnect, Str!Fresh
<1>2. Str!TypeOK'
  <2>1. state' \in {"init", "ready", "play", "pause"} /\ video' \in BOOLEAN
        /\ sendFlag' \in BOOLEAN /\ sendDone' \in BOOLEAN /\ start' \in BOOLEAN
    BY Zenon DEF Str!Reconnect, Str!Fresh
  <2>2. btx' = "ready" /\ left' = 0
    BY DEF Str!Reconnect, Str!Fresh
  <2>3. slot' \in [Str!Index -> Str!Frame \cup {None}] /\ 0 \in Str!Index /\ 0 \in 0 .. Packets
    BY <1>1 DEF Str!Index
  <2> QED
    BY <1>0, <1>1, <2>1, <2>2, <2>3 DEF Str!TypeOK
<1>3. HandOver' /\ SeqIsCounted'
  BY <1>1 DEF HandOver, SeqIsCounted
<1>4. RingOrder' /\ HeadIsNewer'
  BY <1>1 DEF RingOrder, HeadIsNewer, Str!IsEmpty
<1>5. KnownMade' /\ KnownJoined'
  <2>1. Known' \subseteq Known
    BY <1>1 DEF Known
  <2> QED
    BY <1>1, <2>1, FewerKnown DEF StrInv
<1> QED
  BY <1>2, <1>3, <1>4, <1>5 DEF StrInv

(* Any step.                                                               *)
LEMMA StrInvStep == StrInv /\ [Str!Next]_stream => StrInv'
<1> SUFFICES ASSUME StrInv, [Str!Next]_stream PROVE StrInv'
  OBVIOUS
<1>1. CASE Str!Encode
  BY <1>1, PutKeeps
<1>2. CASE Str!Setup \/ Str!Play \/ Str!Pause \/ Str!Poll \/ Str!NoWindow \/ Str!NotReady \/
           Str!GetTest \/ Str!Build
  <2>1. UNCHANGED <<made, last, Str!ring, start, seq, cur>>
    BY <1>2 DEF Str!Setup, Str!Play, Str!Pause, Str!Poll, Str!NoWindow, Str!NotReady,
           Str!GetTest, Str!Build, Str!tx
  <2> QED
    BY <1>2, <2>1, RoundKeeps
<1>3. CASE Str!Take
  BY <1>3, TakeKeeps
<1>4. CASE Str!Reconnect
  BY <1>4, ReconnectKeeps
<1>5. CASE UNCHANGED stream
  <2>1. UNCHANGED <<made, last, state, video, Str!ring, sendFlag, sendDone, btx, left, start, seq,
                    cur, pc>>
    BY <1>5 DEF stream, ring, tx, Str!ring
  <2>2. Str!TypeOK' /\ HandOver'
    BY <2>1 DEF StrInv, Str!TypeOK, HandOver, Str!ring
  <2>3. RingOrder' /\ HeadIsNewer' /\ SeqIsCounted'
    BY <2>1 DEF StrInv, RingOrder, Age, HeadIsNewer, Str!IsEmpty, SeqIsCounted, Str!ring
  <2>4. Known' = Known
    BY <2>1 DEF Known, Str!ring
  <2>5. KnownMade' /\ KnownJoined'
    BY <2>1, <2>4, FewerKnown DEF StrInv
  <2> QED
    BY <2>2, <2>3, <2>5 DEF StrInv
<1> QED
  BY <1>1, <1>2, <1>3, <1>4, <1>5 DEF Str!Next, Str!Request, Str!Send

(* The invariant holds always.                                             *)
LEMMA StrAlways == Str!Spec => []StrInv
  BY StrInvInit, StrInvStep, PTL DEF Str!Spec, Str!stream, Str!ring, Str!tx, stream, ring, tx

(* Only Take sends a new picture, and it sends the one at head.            *)
LEMMA SendsHead ==
    ASSUME StrInv, Str!Next, Sends
    PROVE  Str!Take /\ cur' = slot[head] /\ pc = "take" /\ start' = TRUE
<1>1. Str!Take
  BY DEF Str!Next, Str!Request, Str!Send, Sends, Str!Encode, Str!EncodeDone, Str!Setup, Str!Play, Str!Pause,
         Str!Reconnect, Str!Fresh, Str!Poll,
         Str!NoWindow, Str!NotReady, Str!GetTest, Str!Build, Str!tx
<1> QED
  BY <1>1 DEF Str!Take, Sends

-----------------------------------------------------------------------------
(* Theorems.                                                               *)

(* Every variable keeps its type, and a picture is being sent exactly while*)
(* packets of it are left.                                                 *)
THEOREM StrTypes == Str!Spec => []Str!TypeOK
<1>1. StrInv => Str!TypeOK
  BY DEF StrInv
<1> QED
  BY <1>1, StrAlways, PTL

(* The viewer is never sent a picture twice, or an older one, though       *)
(* sbuf_put never tests for room.                                          *)
THEOREM NeverSentBackwards == Str!Spec => NeverBackwards
<1>1. ASSUME StrInv, [Str!Next]_stream PROVE [Sends /\ cur # None => cur'.id > cur.id]_stream
  <2>1. ASSUME Str!Next, Sends, cur # None PROVE cur'.id > cur.id
    <3>1. cur' = slot[head] /\ pc = "take"
      BY <1>1, <2>1, SendsHead
    <3>2. slot[head] # None /\ cur.id < slot[head].id
      BY <1>1, <2>1, <3>1 DEF StrInv, HeadIsNewer
    <3>3. slot[head] \in Str!Frame /\ cur \in Str!Frame
      BY <1>1, <2>1, <3>2 DEF StrInv, Str!TypeOK
    <3> QED
      BY <3>1, <3>2, <3>3 DEF Str!Frame
  <2> QED
    BY <1>1, <2>1
<1> QED
  BY <1>1, StrAlways, PTL DEF Str!Spec, Str!stream, Str!ring, Str!tx, stream, ring, tx,
         NeverBackwards

(* What a P picture does not follow on is missing in whole groups, as long *)
(* as the numbers went on: every other loss is found out by them.          *)
THEOREM LossIsWholeGroups == Str!Spec => OnlyWholeGroups
<1>1. ASSUME StrInv, [Str!Next]_stream
      PROVE  [SendsP => /\ cur # None
                        /\ cur'.run = cur.run
                              => (cur'.id - cur.id) % cur.gop = 1 % cur.gop]_stream
  <2>1. ASSUME Str!Next, SendsP
        PROVE  cur # None /\ (cur'.run = cur.run => (cur'.id - cur.id) % cur.gop = 1 % cur.gop)
    <3> DEFINE f == slot[head]
    <3>1. Str!Take /\ cur' = f /\ pc = "take" /\ start' = TRUE /\ f.slice = "P"
      BY <1>1, <2>1, SendsHead DEF SendsP
    <3>2. f # None /\ (cur # None => cur.id < f.id) /\ head \in Str!Index
      BY <1>1, <3>1 DEF StrInv, HeadIsNewer, Str!TypeOK
    <3>3. start /\ Str!Detect(f) # None
      BY <3>1 DEF Str!Take
    <3>4. cur # None /\ seq = Counted(cur)
      BY <1>1, <3>3 DEF StrInv, SeqIsCounted
    <3>5. cur \in Str!Frame /\ f \in Str!Frame /\ WasMade(f) /\ WasMade(cur) /\ Joined(cur, f)
      BY <1>1, <3>2, <3>4, KnownType DEF StrInv, KnownMade, KnownJoined
    <3>6. f.num = Counted(cur) + 1
      BY <3>1, <3>3, <3>4 DEF Str!Detect
    <3>7. ASSUME f.run = cur.run PROVE (f.id - cur.id) % cur.gop = 1 % cur.gop
      <4>1. Apart(cur, f)
        BY <3>2, <3>4, <3>5, <3>7 DEF Joined
      <4>2. Counted(cur) = cur.num
        BY <4>1 DEF Counted, Apart, Str!InTurn
      <4> DEFINE d == f.id - cur.id
      <4>3. cur.num \in Nat /\ cur.gop \in Nat \ {0} /\ cur.num < cur.gop /\ d \in Nat /\ d > 0
        BY <3>2, <3>4, <3>5 DEF Str!Frame, WasMade
      <4>4. (cur.num + d) % cur.gop = cur.num + 1
        BY <3>6, <4>1, <4>2 DEF Apart
      <4> HIDE DEF d
      <4>5. d % cur.gop = 1 /\ 1 % cur.gop = 1
        BY <4>3, <4>4, ModAhead
      <4> QED
        BY <4>5 DEF d
    <3> QED
      BY <3>1, <3>4, <3>7
  <2> QED
    BY <1>1, <2>1
<1> QED
  BY <1>1, StrAlways, PTL DEF Str!Spec, Str!stream, Str!ring, Str!tx, stream, ring, tx,
         OnlyWholeGroups

(* The detector stops a sender that has lost nothing only where the number *)
(* of a P picture is not one above the one it goes on from: behind an I    *)
(* picture out of turn, and where the user changed the distance.           *)
THEOREM NoLossNoStop == Str!Spec => NoFalseAlarm
<1>1. ASSUME StrInv, [Str!Next]_stream
      PROVE  [Stops => \/ slot[head].id # cur.id + 1
                       \/ cur.slice = "I" /\ cur.num # 0
                       \/ slot[head].gop # cur.gop]_stream
  <2>1. ASSUME Str!Next, Stops, slot[head].id = cur.id + 1, ~(cur.slice = "I" /\ cur.num # 0),
               slot[head].gop = cur.gop
        PROVE  FALSE
    <3> DEFINE f == slot[head]
    <3>1. start /\ pc = "take" /\ ~start'
      BY <2>1 DEF Stops
    <3>2. Str!Take
      BY <2>1, <3>1 DEF Str!Next, Str!Request, Str!Send, Str!Encode, Str!EncodeDone, Str!Setup,
             Str!Play, Str!Pause, Str!Reconnect, Str!Poll,
            Str!NoWindow, Str!NotReady, Str!GetTest, Str!Build, Str!tx
    <3>3. f # None /\ head \in Str!Index
      BY <1>1, <3>1 DEF StrInv, HeadIsNewer, Str!TypeOK
    <3>4. Str!Detect(f) = None
      BY <3>1, <3>2 DEF Str!Take
    <3>5. cur # None /\ seq = Counted(cur)
      BY <1>1, <3>1 DEF StrInv, SeqIsCounted
    <3>6. cur \in Str!Frame /\ f \in Str!Frame /\ WasMade(f) /\ WasMade(cur) /\ Joined(cur, f)
      BY <1>1, <3>3, <3>5, KnownType DEF StrInv, KnownMade, KnownJoined
    <3>7. f.slice # "I" /\ ~(seq # None /\ f.num = seq + 1)
      BY <3>4, <3>6 DEF Str!Detect, Str!Frame
    <3>8. Counted(cur) = cur.num /\ cur.num \in Nat
      BY <2>1, <3>6 DEF Counted, Str!Frame
    <3>9. f.num # 0
      BY <3>6, <3>7 DEF WasMade
    <3>10. f.num = cur.num + 1
      BY <2>1, <3>6, <3>7, <3>9 DEF Joined, Str!InLine, Str!MayFollow
    <3> QED
      BY <3>5, <3>7, <3>8, <3>10
  <2> QED
    BY <1>1, <2>1
<1> QED
  BY <1>1, StrAlways, PTL DEF Str!Spec, Str!stream, Str!ring, Str!tx, stream, ring, tx,
         NoFalseAlarm

(* A module that extends this one cites what it needs.                     *)
HIDE NAssumption
HIDE GroupsAssumption
HIDE PacketsAssumption
HIDE MaxFramesAssumption
HIDE NoneIsNoFrame
=============================================================================
