-------------------------- MODULE IdrControlProofs --------------------------
(***************************************************************************)
(* Theorems about IdrControl, for every threshold, distance and multiple:  *)
(* the numbers the senders rely on follow one another, and a distance that *)
(* is shortened is kept.                                                   *)
(***************************************************************************)
EXTENDS EncoderPart, Remainders, TLAPS

USE ThresholdAssumption, MaxPeriodAssumption, GopsAssumption, PeriodsAssumption,
    SpacedAssumption, MaxRequestsAssumption

-----------------------------------------------------------------------------
(* Types.                                                                  *)

(* What h264_enc_start chooses is a distance, and pic stays below maxFrame *)
(* of the longest one.                                                     *)
LEMMA ClampType == ASSUME NEW p \in Nat PROVE Enc!Clamp(p) \in Enc!Distances
  BY DEF Enc!Clamp, Enc!Distances

LEMMA MaxFrameType == ASSUME NEW d \in Enc!Distances
                      PROVE  d * Gops \in Nat /\ d * Gops >= 1 /\ d * Gops <= MaxPeriod * Gops
<1>1. d \in Nat /\ 1 <= d /\ d <= MaxPeriod /\ Gops \in Nat /\ Gops >= 1
  BY DEF Enc!Distances
<1>2. d * Gops \in Nat /\ d * Gops <= MaxPeriod * Gops
  BY <1>1, TimesKeeps
<1>3. 1 * Gops <= d * Gops
  BY <1>1, TimesKeeps
<1> QED
  BY <1>1, <1>2, <1>3

(* The state after boot has its types.                                     *)
LEMMA EncTypesInit == Enc!Init => Enc!TypeOK
<1> SUFFICES ASSUME NEW p \in Periods,
                    /\ pic = 0
                    /\ interval = Enc!Clamp(p) /\ asked = Enc!Clamp(p)
                    /\ maxFrame = Enc!Clamp(p) * Gops
                    /\ connect = 0 /\ saved = 0
                    /\ avi = FALSE
                    /\ frame = [slice |-> "none", num |-> 0, gop |-> Enc!Clamp(p)]
                    /\ requests = 0
             PROVE  Enc!TypeOK
  BY DEF Enc!Init
<1> DEFINE d == Enc!Clamp(p)
<1>1. d \in Enc!Distances /\ d \in 1 .. MaxPeriod
  BY ClampType DEF Enc!Distances
<1> HIDE DEF d
<1>2. 0 \in 0 .. MaxPeriod * Gops - 1
  BY <1>1, MaxFrameType
<1>3. frame \in [slice : {"none", "I", "P"}, num : 0 .. MaxPeriod - 1, gop : Enc!Distances]
      /\ frame.num < frame.gop
  BY <1>1 DEF d
<1>4. maxFrame \in {e * Gops : e \in Enc!Distances}
  BY <1>1 DEF d
<1>5. avi \in BOOLEAN
  BY Zenon
<1> QED
  BY <1>1, <1>2, <1>3, <1>4, <1>5 DEF Enc!TypeOK, d

(* A picture that is coded has its types, and is numbered within the       *)
(* distance chosen.                                                        *)
LEMMA EmitType ==
    ASSUME Enc!TypeOK, NEW s \in {"I", "P"}, Enc!Emit(s), interval' \in Enc!Distances
    PROVE  /\ pic' \in 0 .. MaxPeriod * Gops - 1
           /\ maxFrame' \in {d * Gops : d \in Enc!Distances}
           /\ frame' \in [slice : {"none", "I", "P"}, num : 0 .. MaxPeriod - 1,
               gop : Enc!Distances]
           /\ frame'.num < frame'.gop
           /\ avi' \in BOOLEAN /\ asked' \in Enc!Distances /\ requests' \in 0 .. MaxRequests
<1>1. pic \in Nat /\ interval' \in Nat \ {0} /\ interval' <= MaxPeriod
  <2>1. pic \in 0 .. MaxPeriod * Gops - 1 /\ MaxPeriod * Gops \in Nat
    BY TimesKeeps DEF Enc!TypeOK
  <2> QED
    BY <2>1 DEF Enc!Distances
<1>2. pic' \in 0 .. MaxPeriod * Gops - 1
  <2>1. PICK d \in Enc!Distances : maxFrame = d * Gops
    BY DEF Enc!TypeOK
  <2>2. d * Gops \in Nat /\ 1 <= d * Gops /\ d * Gops <= MaxPeriod * Gops
    BY MaxFrameType
  <2>3. MaxPeriod * Gops \in Nat
    BY TimesKeeps
  <2>4. pic' = IF pic + 1 >= maxFrame THEN 0 ELSE pic + 1
    BY DEF Enc!Emit
  <2> QED
    BY <1>1, <2>1, <2>2, <2>3, <2>4
<1>3. pic % interval' \in 0 .. interval' - 1
  BY <1>1, ModRange
<1>4. PICK m \in 0 .. interval' - 1 :
        frame' = [slice |-> s, num |-> m, gop |-> interval']
  <2>1. CASE interval' = 1
    <3>1. 0 \in 0 .. interval' - 1
      BY <2>1
    <3> QED
      BY <2>1, <3>1 DEF Enc!Emit
  <2>2. CASE interval' # 1
    BY <1>3, <2>2 DEF Enc!Emit
  <2> QED
    BY <2>1, <2>2
<1>5. m \in 0 .. MaxPeriod - 1 /\ m < interval'
  <2>1. \A i \in Nat \ {0} : i <= MaxPeriod =>
          \A k \in 0 .. i - 1 : k \in 0 .. MaxPeriod - 1 /\ k < i
    OBVIOUS
  <2> QED
    BY <1>1, <2>1
<1>6. frame' \in [slice : {"none", "I", "P"}, num : 0 .. MaxPeriod - 1, gop : Enc!Distances]
      /\ frame'.num < frame'.gop
  BY <1>4, <1>5
<1> QED
  BY <1>2, <1>6 DEF Enc!Emit, Enc!request, Enc!TypeOK

(* The encoder's step.                                                     *)
LEMMA EncTypesCode == Enc!TypeOK /\ Enc!EncStart => Enc!TypeOK'
<1> SUFFICES ASSUME Enc!TypeOK, Enc!EncStart PROVE Enc!TypeOK'
  OBVIOUS
<1>0. Enc!Slice \in {"I", "P"}
  BY DEF Enc!Slice
<1>1. Short \in Enc!Distances
  BY DEF Enc!Distances
<1>2. CASE Enc!Shorten
  <2>1. interval' \in Enc!Distances /\ saved' \in {0} \cup Enc!Distances
        /\ connect' = 2 /\ Enc!Emit("I")
    BY <1>1, <1>2 DEF Enc!Shorten, Enc!MayShorten, Enc!TypeOK
  <2> QED
    BY <2>1, EmitType DEF Enc!TypeOK
<1>3. CASE Enc!CountI
  <2>1. interval' \in Enc!Distances /\ saved' \in {0} \cup Enc!Distances
        /\ connect' \in 0 .. 4 /\ Enc!Emit("I")
    BY <1>3 DEF Enc!CountI, Enc!TypeOK
  <2> QED
    BY <2>1, EmitType DEF Enc!TypeOK
<1>4. CASE Enc!PutBack
  <2>1. interval' \in Enc!Distances /\ saved' \in {0} \cup Enc!Distances
        /\ connect' \in 0 .. 4 /\ Enc!Emit("I")
    BY <1>4 DEF Enc!PutBack, Enc!TypeOK, Enc!Distances
  <2> QED
    BY <2>1, EmitType DEF Enc!TypeOK
<1>5. CASE Enc!Plain
  <2>1. interval' \in Enc!Distances /\ saved' \in {0} \cup Enc!Distances
        /\ connect' \in 0 .. 4 /\ Enc!Emit(Enc!Slice)
    BY <1>5 DEF Enc!Plain, Enc!TypeOK
  <2> QED
    BY <1>0, <2>1, EmitType DEF Enc!TypeOK
<1> QED
  BY <1>2, <1>3, <1>4, <1>5 DEF Enc!EncStart

(* Any step.                                                               *)
LEMMA EncTypesStep == Enc!TypeOK /\ [Enc!Next]_encoder => Enc!TypeOK'
<1> SUFFICES ASSUME Enc!TypeOK, [Enc!Next]_encoder PROVE Enc!TypeOK'
  OBVIOUS
<1>1. CASE Enc!Play
  BY <1>1 DEF Enc!Play, Enc!Requested, Enc!TypeOK
<1>2. CASE Enc!Leave
  BY <1>2 DEF Enc!Leave, Enc!Requested, Enc!TypeOK
<1>3. ASSUME NEW p \in Periods, Enc!SetPeriod(p) PROVE Enc!TypeOK'
  <2> DEFINE d == Enc!Clamp(p)
  <2>1. d \in Enc!Distances
    BY ClampType
  <2>2. interval' = d /\ maxFrame' = d * Gops /\ asked' = d
    BY <1>3 DEF Enc!SetPeriod
  <2>3. UNCHANGED <<pic, connect, saved, avi, frame>> /\ requests' \in 0 .. MaxRequests
    BY <1>3 DEF Enc!SetPeriod, Enc!Requested, Enc!TypeOK
  <2> HIDE DEF d
  <2> QED
    BY <2>1, <2>2, <2>3 DEF Enc!TypeOK
<1>4. CASE Enc!SetSave
  BY <1>4, Zenon DEF Enc!SetSave, Enc!request, Enc!TypeOK
<1>5. CASE Enc!EncStart
  BY <1>5, EncTypesCode
<1>6. CASE UNCHANGED encoder
  BY <1>6 DEF encoder, request, Enc!request, Enc!TypeOK
<1> QED
  BY <1>1, <1>2, <1>3, <1>4, <1>5, <1>6 DEF Enc!Next

(* Every variable keeps its type: the count of I pictures never leaves     *)
(* 0 .. 4, pic never its range, and a number never reaches its distance.   *)
THEOREM EncTypes == Enc!Spec => []Enc!TypeOK
  BY EncTypesInit, EncTypesStep, PTL DEF Enc!Spec, Enc!encoder, Enc!request, encoder, request

-----------------------------------------------------------------------------
(* The numbers follow.                                                     *)

(* The last picture has the number before that of pic, for its distance.   *)
NumInv == pic > 0 => /\ frame.slice # "none"
                     /\ frame.num = IF frame.gop = 1 THEN 0 ELSE (pic - 1) % frame.gop

(* It stays so: pic and the last picture change only together.             *)
LEMMA NumInvStep == Enc!TypeOK /\ NumInv /\ [Enc!Next]_encoder => NumInv'
<1> SUFFICES ASSUME Enc!TypeOK, NumInv, [Enc!Next]_encoder PROVE NumInv'
  OBVIOUS
<1>1. CASE UNCHANGED <<pic, frame>>
  BY <1>1 DEF NumInv
<1>2. CASE Enc!EncStart
  <2>1. PICK s \in {"I", "P"} : Enc!Emit(s)
    BY <1>2 DEF Enc!EncStart, Enc!Shorten, Enc!CountI, Enc!PutBack, Enc!Plain, Enc!Slice
  <2>2. pic \in Nat
    BY TimesKeeps DEF Enc!TypeOK
  <2>3. frame' = [slice |-> s, num |-> IF interval' = 1 THEN 0 ELSE pic % interval',
                  gop |-> interval']
    BY <2>1 DEF Enc!Emit
  <2>4. pic' = 0 \/ pic' = pic + 1
    BY <2>1 DEF Enc!Emit
  <2>5. CASE pic' = 0
    BY <2>5 DEF NumInv
  <2>6. CASE pic' = pic + 1
    <3>1. pic' - 1 = pic
      BY <2>2, <2>6
    <3> QED
      BY <2>3, <3>1 DEF NumInv
  <2> QED
    BY <2>4, <2>5, <2>6
<1> QED
  BY <1>1, <1>2 DEF Enc!Next, Enc!Play, Enc!Leave, Enc!SetPeriod, Enc!SetSave, encoder

(* A P picture is numbered one above the picture before it, as long as the *)
(* distance is the same, whatever the distances and their multiples are:   *)
(* numbers do not jump where pic wraps, nor where a distance is shortened. *)
THEOREM NumbersAlwaysFollow == Enc!Spec => NumbersFollow
<1>1. Enc!Init => NumInv
  BY DEF Enc!Init, NumInv
<1>2. Enc!Spec => []NumInv
  BY <1>1, NumInvStep, EncTypes, PTL DEF Enc!Spec, Enc!encoder, Enc!request, encoder, request
<1>3. ASSUME Enc!TypeOK, NumInv, Enc!Next, pic' # pic, frame'.slice = "P", frame'.gop = frame.gop
      PROVE  frame.slice # "none" /\ frame'.num = frame.num + 1
  <2>1. Enc!EncStart
    BY <1>3 DEF Enc!Next, Enc!Play, Enc!Leave, Enc!SetPeriod, Enc!SetSave
  <2>2. Enc!Plain /\ Enc!Slice = "P"
    BY <1>3, <2>1 DEF Enc!EncStart, Enc!Shorten, Enc!CountI, Enc!PutBack, Enc!Plain, Enc!Emit
  <2>3. pic \in Nat /\ interval \in Nat \ {0}
    BY <1>3, TimesKeeps DEF Enc!TypeOK, Enc!Distances
  <2>4. pic % interval # 0
    BY <2>2 DEF Enc!Slice
  <2>5. interval' = interval /\ frame'.gop = interval
        /\ frame'.num = IF interval = 1 THEN 0 ELSE pic % interval
    BY <2>2 DEF Enc!Plain, Enc!Emit
  <2>6. pic # 0 /\ interval # 1
    BY <2>3, <2>4
  <2>7. frame.slice # "none" /\ frame.num = (pic - 1) % interval
    BY <1>3, <2>3, <2>5, <2>6 DEF NumInv
  <2>8. pic - 1 \in Nat /\ (pic - 1) + 1 = pic
    BY <2>3, <2>6
  <2>9. pic % interval = ((pic - 1) % interval) + 1
    BY <2>3, <2>4, <2>8, ModSteps
  <2> QED
    BY <2>5, <2>6, <2>7, <2>9
<1>4. Enc!TypeOK /\ NumInv /\ [Enc!Next]_encoder =>
        [pic' # pic /\ frame'.slice = "P" /\ frame'.gop = frame.gop
           => frame.slice # "none" /\ frame'.num = frame.num + 1]_encoder
  BY <1>3
<1> QED
  BY <1>2, <1>4, EncTypes, PTL DEF Enc!Spec, Enc!encoder, Enc!request, encoder, request,
         NumbersFollow

-----------------------------------------------------------------------------
(* The borrowed distance.                                                  *)

(* A request comes only when nothing is borrowed.                          *)
Borrowed ==
    /\ asked < MaxPeriod
    /\ connect \in 0 .. 1 => interval = asked
    /\ connect \in 2 .. 4 => interval = Short /\ saved = asked

(* It stays so.                                                            *)
LEMMA BorrowedStep ==
    ASSUME Spaced, \A p \in Periods : p < MaxPeriod
    PROVE  Enc!TypeOK /\ Borrowed /\ [Enc!Next]_encoder => Borrowed'
<1> SUFFICES ASSUME Enc!TypeOK, Borrowed, [Enc!Next]_encoder PROVE Borrowed'
  OBVIOUS
<1>1. CASE Enc!Play
  BY <1>1 DEF Enc!Play, Enc!Requested, Borrowed
<1>2. CASE Enc!Leave
  BY <1>2 DEF Enc!Leave, Enc!Requested, Borrowed
<1>3. ASSUME NEW p \in Periods, Enc!SetPeriod(p) PROVE Borrowed'
  <2>1. Enc!Clamp(p) < MaxPeriod
    BY DEF Enc!Clamp
  <2> QED
    BY <1>3, <2>1 DEF Enc!SetPeriod, Enc!Requested, Borrowed
<1>4. CASE Enc!Shorten
  BY <1>4 DEF Enc!Shorten, Enc!MayShorten, Enc!Emit, Enc!request, Borrowed
<1>5. CASE Enc!CountI
  BY <1>5 DEF Enc!CountI, Enc!Emit, Enc!request, Enc!TypeOK, Borrowed
<1>6. CASE Enc!PutBack
  BY <1>6 DEF Enc!PutBack, Enc!Emit, Enc!request, Enc!TypeOK, Enc!Distances, Borrowed
<1>7. CASE Enc!Plain
  BY <1>7 DEF Enc!Plain, Enc!Emit, Enc!request, Borrowed
<1>8. CASE Enc!SetSave \/ UNCHANGED encoder
  BY <1>8 DEF Enc!SetSave, encoder, request, Enc!request, Borrowed
<1> QED
  BY <1>1, <1>2, <1>3, <1>4, <1>5, <1>6, <1>7, <1>8 DEF Enc!Next, Enc!EncStart

(* When requests come one after the other, and nobody asks for the longest *)
(* distance, the encoder works with another distance than was asked for    *)
(* only while it counts, and what was asked for is kept.                   *)
THEOREM BorrowedIsKept ==
    ASSUME Spaced, \A p \in Periods : p < MaxPeriod
    PROVE  Enc!Spec => []BorrowedIsOwed
<1>1. Enc!Init => Borrowed
  <2>1. \A p \in Periods : Enc!Clamp(p) < MaxPeriod
    BY DEF Enc!Clamp
  <2> QED
    BY <2>1 DEF Enc!Init, Borrowed
<1>2. Enc!TypeOK /\ Borrowed /\ [Enc!Next]_encoder => Borrowed'
  BY BorrowedStep
<1>3. Enc!TypeOK /\ Borrowed => BorrowedIsOwed
  BY DEF Enc!TypeOK, Borrowed, BorrowedIsOwed
<1> QED
  BY <1>1, <1>2, <1>3, EncTypes, PTL DEF Enc!Spec, Enc!encoder, Enc!request, encoder, request

(* A module that extends this one cites what it needs.                     *)
HIDE ThresholdAssumption
HIDE MaxPeriodAssumption
HIDE GopsAssumption
HIDE PeriodsAssumption
HIDE SpacedAssumption
HIDE MaxRequestsAssumption
=============================================================================
