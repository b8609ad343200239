----------------------------- MODULE IdrControl -----------------------------
(***************************************************************************)
(* The distance of I pictures of one H.264 channel of CPU0.  A viewer that *)
(* joins has to wait for an I picture, so a PLAY makes the encoder put one *)
(* in at once and work with a short distance for a while; the distance the *)
(* user asked for is kept in Rtsp_idr and put back later.                  *)
(*                                                                         *)
(*  - gen_rtsp_response sets Rtsp_connect to 1 for a PLAY, and to 0 for a  *)
(*    PAUSE or a TEARDOWN, of any session of the channel;                  *)
(*  - h264_enc_start chooses the slice type of each picture, counts the I  *)
(*    pictures of the short distance in Rtsp_connect, and numbers the      *)
(*    picture in its header;                                               *)
(*  - enx_h264_set_idrframe_period carries out a change by the user;       *)
(*  - the recorder turns avi_save on and off.                              *)
(*                                                                         *)
(* Each of them runs as a whole: the handlers belong to one main loop, and *)
(* the change of the period locks the encoder's interrupt out.             *)
(***************************************************************************)
EXTENDS IdrState

Clamp(p) == IF p < 1 THEN 1 ELSE IF p > MaxPeriod THEN MaxPeriod ELSE p

Init == \E p \in Periods :
    /\ pic = 0
    /\ interval = Clamp(p) /\ asked = Clamp(p)
    /\ maxFrame = Clamp(p) * Gops
    /\ connect = 0 /\ saved = 0
    /\ avi = FALSE
    /\ frame = [slice |-> "none", num |-> 0, gop |-> Clamp(p)]
    /\ requests = 0

-----------------------------------------------------------------------------
(* Requests, handled in the main loop.                                     *)

Requested == /\ requests < MaxRequests
             /\ Spaced => connect = 0
             /\ requests' = requests + 1

Play ==
    /\ Requested
    /\ connect' = 1
    /\ UNCHANGED <<pic, interval, maxFrame, saved, avi, frame, asked>>

(* PAUSE and TEARDOWN.                                                     *)
Leave ==
    /\ Requested
    /\ connect' = 0
    /\ UNCHANGED <<pic, interval, maxFrame, saved, avi, frame, asked>>

SetPeriod(p) ==
    /\ Requested
    /\ interval' = Clamp(p)
    /\ maxFrame' = Clamp(p) * Gops
    /\ asked' = Clamp(p)
    /\ UNCHANGED <<pic, connect, saved, avi, frame>>

SetSave ==
    /\ avi' = ~avi
    /\ UNCHANGED <<pic, interval, maxFrame, connect, saved, frame, request>>

-----------------------------------------------------------------------------
(* h264_enc_start, one disjunct of EncStart for each way through it.       *)

Slice == IF pic % interval = 0 THEN "I" ELSE "P"

(* Mutant: the number is made before the distance changes.                 *)
EmitStale(s) ==
    /\ frame' = [slice |-> s, num |-> IF interval = 1 THEN 0 ELSE pic % interval,
                 gop |-> interval']
    /\ pic' = IF pic + 1 >= maxFrame THEN 0 ELSE pic + 1
    /\ UNCHANGED <<maxFrame, avi, request>>

(* The picture is coded, with a number of the distance that was chosen.    *)
Emit(s) ==
    /\ frame' = [slice |-> s, num |-> IF interval' = 1 THEN 0 ELSE pic % interval',
                 gop |-> interval']
    /\ pic' = IF pic + 1 >= maxFrame THEN 0 ELSE pic + 1
    /\ UNCHANGED <<maxFrame, avi, request>>

(* Mutant: the viewer is looked for at I pictures only.                    *)
MayShortenAtI == Slice = "I" /\ connect = 1 /\ interval > Threshold /\ ~avi

MayShorten == Slice = "P" /\ connect = 1 /\ interval > Threshold /\ ~avi

(* Mutant: the distance is not kept.                                       *)
ShortenForgets ==
    /\ MayShorten
    /\ interval' = Short
    /\ connect' = connect + 1
    /\ Emit("I")
    /\ UNCHANGED saved

Shorten ==
    /\ MayShorten
    /\ saved' = interval
    /\ interval' = Short
    /\ connect' = connect + 1
    /\ Emit("I")

CountI ==
    /\ Slice = "I" /\ connect > 1 /\ connect <= 3
    /\ connect' = connect + 1
    /\ UNCHANGED <<interval, saved>>
    /\ Emit("I")

(* MaxPeriod itself is not put back, though the user may ask for it.       *)
PutBack ==
    /\ Slice = "I" /\ connect > 3
    /\ connect' = 0
    /\ interval' = IF saved > 0 /\ saved < MaxPeriod THEN saved ELSE interval
    /\ UNCHANGED saved
    /\ Emit("I")

Plain ==
    /\ ~MayShorten
    /\ Slice = "I" => connect <= 1
    /\ UNCHANGED <<interval, connect, saved>>
    /\ Emit(Slice)

EncStart == Shorten \/ CountI \/ PutBack \/ Plain

-----------------------------------------------------------------------------
Next == Play \/ Leave \/ (\E p \in Periods : SetPeriod(p)) \/ SetSave \/ EncStart

Spec == Init /\ [][Next]_encoder

(* The sensor delivers pictures for ever; nothing makes a viewer, the user *)
(* or the recorder act.                                                    *)
LiveSpec == Spec /\ WF_encoder(EncStart)

-----------------------------------------------------------------------------
(* Properties.                                                             *)

(* Every variable has its type: connect never counts beyond 4, and a       *)
(* picture is numbered below its distance.                                 *)
TypeOK ==
    /\ pic \in 0 .. MaxPeriod * Gops - 1
    /\ interval \in Distances /\ asked \in Distances
    /\ maxFrame \in {d * Gops : d \in Distances}
    /\ connect \in 0 .. 4
    /\ saved \in {0} \cup Distances
    /\ avi \in BOOLEAN
    /\ frame \in [slice : {"none", "I", "P"}, num : 0 .. MaxPeriod - 1, gop : Distances]
    /\ frame.num < frame.gop
    /\ requests \in 0 .. MaxRequests
=============================================================================
