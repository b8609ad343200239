----------------------------- MODULE VideoPath ------------------------------
(***************************************************************************)
(* From the encoder to one viewer: IdrControl and RtspStream joined by the *)
(* two stages of the encoder and by the requests of the viewers.           *)
(*                                                                         *)
(*  - h264_enc_start starts a picture in the encoder, and the picture      *)
(*    before it in the entropy coder (VLC), whose interrupt puts that      *)
(*    picture in the rings of the sessions that play;                      *)
(*  - PLAY, PAUSE and TEARDOWN of the viewer's session change the session  *)
(*    and Rtsp_connect, which all sessions of the channel share; other     *)
(*    viewers of the channel send PLAY, PAUSE and TEARDOWN as well.        *)
(***************************************************************************)
EXTENDS Naturals

CONSTANTS N, Packets, MaxFrames, None,
          Threshold, Short, MaxPeriod, Gops, Periods, MaxRequests

VARIABLES pic, interval, maxFrame, connect, saved, avi, frame, asked, requests,
          made, last, state, video, slot, head, tail, sendFlag, sendDone, btx, left,
          start, seq, cur, pc,
          vlc,     \* the picture in the entropy coder
          waited   \* P pictures put since PLAY, or None once an I picture was

Enc == INSTANCE IdrControl WITH Spaced <- FALSE
Str == INSTANCE RtspStream WITH Groups <- Enc!Distances, MaxTurns <- MaxFrames

encoder == <<pic, interval, maxFrame, connect, saved, avi, frame, asked, requests>>
stream  == <<made, last, state, video, slot, head, tail, sendFlag, sendDone, btx, left,
             start, seq, cur, pc>>
vars == <<encoder, stream, vlc, waited>>

Init == Enc!Init /\ Str!Init /\ vlc = None /\ waited = None

-----------------------------------------------------------------------------
(* The two stages of the encoder.                                          *)

EncStart ==
    /\ made < MaxFrames
    /\ vlc = None
    /\ Enc!EncStart
    /\ vlc' = IF frame.slice = "none" THEN None ELSE frame
    /\ UNCHANGED <<stream, waited>>

VlcDone ==
    /\ vlc # None
    /\ Str!EncodeDone(vlc)
    /\ vlc' = None
    /\ waited' = IF waited = None \/ vlc.slice = "I" THEN None ELSE waited + 1
    /\ UNCHANGED encoder

-----------------------------------------------------------------------------
(* Requests.                                                               *)

Setup == Str!Setup /\ waited' = None /\ UNCHANGED <<encoder, vlc>>

Play ==
    /\ video
    /\ Str!Play /\ Enc!Play
    /\ waited' = IF avi THEN None ELSE IF state = "play" THEN waited ELSE 0
    /\ UNCHANGED vlc

Pause == Str!Pause /\ Enc!Leave /\ waited' = None /\ UNCHANGED vlc

(* TEARDOWN, or a connection that just ends.                               *)
Teardown == Str!Reconnect /\ Enc!Leave /\ waited' = None /\ UNCHANGED vlc
HangUp   == Str!Reconnect /\ waited' = None /\ UNCHANGED <<encoder, vlc>>

OtherPlays == Enc!Play /\ UNCHANGED <<stream, vlc, waited>>

(* The viewers share Rtsp_connect: the early I picture may not come.       *)
OtherLeaves == Enc!Leave /\ waited' = None /\ UNCHANGED <<stream, vlc>>

(* The wait is counted for a distance that stays.                          *)
SetPeriod(p) == Enc!SetPeriod(p) /\ waited' = None /\ UNCHANGED <<stream, vlc>>

(* The recorder needs whole groups, and nobody gets an early I picture.    *)
SetSave == Enc!SetSave /\ waited' = None /\ UNCHANGED <<stream, vlc>>

-----------------------------------------------------------------------------
Round == (Str!Poll \/ Str!NoWindow \/ Str!Send) /\ UNCHANGED <<encoder, vlc, waited>>

Next == \/ EncStart \/ VlcDone
        \/ Setup \/ Play \/ Pause \/ Teardown \/ HangUp \/ OtherPlays \/ OtherLeaves
        \/ (\E p \in Periods : SetPeriod(p)) \/ SetSave
        \/ Round

Spec == Init /\ [][Next]_vars

-----------------------------------------------------------------------------
(* Properties.                                                             *)

(* However long the distance of I pictures is, a viewer that starts to     *)
(* play is given one after at most as many P pictures as the longest       *)
(* distance that is not shortened has, and the two that were in the        *)
(* encoder already, as long as nothing is recorded, the distance is not    *)
(* changed and no other viewer leaves.                                     *)
JoinIsQuick == waited # None => waited <= Threshold + 1
=============================================================================
