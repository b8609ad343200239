----------------------------- MODULE RtspStream -----------------------------
(***************************************************************************)
(* One viewer of the H.264 stream: the pictures the encoder's interrupt    *)
(* puts in the session's ring (sbuf_put), and the sender in the main loop  *)
(* that takes them (sbuf_get) and sends them in RTP packets.               *)
(*                                                                         *)
(*  - sbuf_put does not test for room: when the sender is slow, tail       *)
(*    passes head and the backlog is gone;                                 *)
(*  - the sender notices lost pictures by the numbers in their headers,    *)
(*    which restart at every I picture, and then passes over the pictures  *)
(*    up to the next I;                                                    *)
(*  - sendFlag and sendDone hand over between rtp_media_streamming, which  *)
(*    sees that there is a picture, and getH264Image, which sends one.     *)
(*                                                                         *)
(* The interrupt may come between any two steps of the main loop but the   *)
(* ones sbuf_get protects.                                                 *)
(*                                                                         *)
(* The encoder may do here what it does in IdrControl: put I pictures in   *)
(* out of turn, whose number need not be 0, and change the distance.       *)
(* VideoPath joins the two modules.                                        *)
(***************************************************************************)
EXTENDS StreamState

(* num_loop; a store of N cannot be seen by the other side, which is       *)
(* locked out or is not running.                                           *)
NumLoop(i) == IF i + 1 >= N THEN 0 ELSE i + 1

(* rtsp_add_user and rtsp_accept clear the session.                        *)
Fresh ==
    [state |-> "init", video |-> FALSE, slot |-> [i \in Index |-> None], head |-> 0,
     tail |-> 0, sendFlag |-> FALSE, sendDone |-> TRUE, btx |-> "ready", left |-> 0,
     start |-> FALSE, seq |-> None, cur |-> None]

Init ==
    /\ made = 0 /\ last = None
    /\ state = Fresh.state /\ video = Fresh.video
    /\ slot = Fresh.slot /\ head = Fresh.head /\ tail = Fresh.tail
    /\ sendFlag = Fresh.sendFlag /\ sendDone = Fresh.sendDone
    /\ btx = Fresh.btx /\ left = Fresh.left
    /\ start = Fresh.start /\ seq = Fresh.seq /\ cur = Fresh.cur
    /\ pc = "idle"

-----------------------------------------------------------------------------
(* The encoder's interrupt.                                                *)

(* A picture as it is coded.                                               *)
Pictures == UNION {[slice : {"I", "P"}, num : 0 .. g - 1, gop : {g}] : g \in Groups}

(* The number restarts at I pictures, and only there.                      *)
InTurn(f) == f.slice = "I" <=> f.num = 0

InLine(e, f) ==
    /\ f.gop = e.gop
    /\ InTurn(e) /\ InTurn(f)
    /\ f.num = IF e.num + 1 = e.gop THEN 0 ELSE e.num + 1

(* What h264_enc_start lets follow: an I picture wherever a viewer joined  *)
(* or the distance came back, and after a change by the user any number.   *)
MayFollow(e, f) == f.slice = "I" \/ f.gop # e.gop \/ f.num = e.num + 1

CanFollow(f) ==
    /\ f.num = 0 => f.slice = "I"
    /\ IF last = None THEN f.num = 0
                      ELSE InLine(last, f) \/ (MayFollow(last, f) /\ last.run < MaxTurns)

(* put_video_streams: the picture gets its place.                          *)
EncodeDone(f) ==
    /\ made < MaxFrames
    /\ made' = made + 1
    /\ last' = [id |-> made, slice |-> f.slice, num |-> f.num, gop |-> f.gop,
                run |-> IF last = None THEN 0
                        ELSE IF InLine(last, f) THEN last.run ELSE last.run + 1]
    /\ IF state = "play" /\ video
         THEN /\ slot' = [slot EXCEPT ![tail] = last']
              /\ tail' = NumLoop(tail)
         ELSE UNCHANGED <<slot, tail>>
    /\ UNCHANGED <<state, video, head, tx, pc>>

Encode == \E f \in Pictures : CanFollow(f) /\ EncodeDone(f)

-----------------------------------------------------------------------------
(* Requests of the viewer, handled between two rounds of the sender.       *)

Setup ==
    /\ pc = "idle"
    /\ state' = "ready" /\ video' = TRUE
    /\ UNCHANGED <<made, last, ring, tx, pc>>

Play ==
    /\ pc = "idle"
    /\ state' = "play"
    /\ UNCHANGED <<made, last, video, ring, tx, pc>>

(* The pictures in the ring stay there.                                    *)
Pause ==
    /\ pc = "idle" /\ state = "play"
    /\ state' = "pause"
    /\ UNCHANGED <<made, last, video, ring, tx, pc>>

(* The connection ends, and a new one gets the same entry of rtsp_list.    *)
Reconnect ==
    /\ pc = "idle" /\ state # "init"
    /\ state' = Fresh.state /\ video' = Fresh.video
    /\ slot' = Fresh.slot /\ head' = Fresh.head /\ tail' = Fresh.tail
    /\ sendFlag' = Fresh.sendFlag /\ sendDone' = Fresh.sendDone
    /\ btx' = Fresh.btx /\ left' = Fresh.left
    /\ start' = Fresh.start /\ seq' = Fresh.seq /\ cur' = Fresh.cur
    /\ UNCHANGED <<made, last, pc>>

-----------------------------------------------------------------------------
(* rtp_media_streamming: one round of the main loop for this session.      *)

Poll ==
    /\ pc = "idle" /\ state = "play"
    /\ IF ~IsEmpty /\ sendDone
         THEN sendDone' = FALSE /\ sendFlag' = TRUE
         ELSE UNCHANGED <<sendDone, sendFlag>>
    /\ pc' = IF video THEN "send" ELSE "idle"
    /\ UNCHANGED <<made, last, state, video, ring, btx, left, start, seq, cur>>

(* No room in the send buffer of TCP, or no pbuf.                          *)
NoWindow ==
    /\ pc = "send"
    /\ pc' = "idle"
    /\ UNCHANGED <<made, last, state, video, ring, tx>>

(* Mutant: getH264Image does not take the flag back.                       *)
NotReadyStays ==
    /\ pc = "send" /\ btx = "ready" /\ ~sendFlag
    /\ pc' = "idle"
    /\ UNCHANGED <<made, last, state, video, ring, tx>>

(* getH264Image with nothing to do.                                        *)
NotReady ==
    /\ pc = "send" /\ btx = "ready" /\ ~sendFlag
    /\ sendDone' = TRUE
    /\ pc' = "idle"
    /\ UNCHANGED <<made, last, state, video, ring, sendFlag, btx, left, start, seq, cur>>

(* sbuf_get tests the ring again, without a lock.                          *)
GetTest ==
    /\ pc = "send" /\ btx = "ready" /\ sendFlag
    /\ sendFlag' = FALSE
    /\ pc' = IF IsEmpty THEN "idle" ELSE "take"
    /\ UNCHANGED <<made, last, state, video, ring, sendDone, btx, left, start, seq, cur>>

(* Mutant: an I picture does not restart the numbers.                      *)
DetectOn(f) == IF f.slice = "I" THEN (IF seq = None THEN 0 ELSE seq)
               ELSE IF seq # None /\ f.num = seq + 1 THEN f.num ELSE None

(* h264_print_frame_num.                                                   *)
Detect(f) == IF f.slice = "I" THEN 0
             ELSE IF seq # None /\ f.num = seq + 1 THEN f.num ELSE None

(* Mutant: the index is advanced before the slot is read.                  *)
TakeNext ==
    /\ pc = "take"
    /\ head' = NumLoop(head)
    /\ cur' = slot[NumLoop(head)]
    /\ seq' = 0 /\ start' = TRUE
    /\ btx' = "doing" /\ left' = Packets
    /\ pc' = "build"
    /\ UNCHANGED <<made, last, state, video, slot, tail, sendFlag, sendDone>>

(* Mutant: every picture is sent.                                          *)
TakeBlindly ==
    /\ pc = "take"
    /\ head' = NumLoop(head)
    /\ cur' = slot[head] /\ seq' = Detect(slot[head])
    /\ start' = TRUE
    /\ btx' = "doing" /\ left' = Packets
    /\ pc' = "build"
    /\ UNCHANGED <<made, last, state, video, slot, tail, sendFlag, sendDone>>

(* The rest of sbuf_get, and what getH264Image makes of the picture.       *)
Take ==
    /\ pc = "take"
    /\ head' = NumLoop(head)
    /\ LET f == slot[head]
           waiting == ~start /\ f.slice = "P"
           lost == ~waiting /\ Detect(f) = None
       IN  /\ seq' = IF waiting THEN seq ELSE Detect(f)
           /\ start' = (~waiting /\ ~lost)
           /\ IF waiting \/ lost
                THEN /\ sendDone' = TRUE
                     /\ pc' = "idle"
                     /\ UNCHANGED <<btx, left, cur>>
                ELSE /\ btx' = "doing" /\ left' = Packets
                     /\ cur' = f
                     /\ pc' = "build"
                     /\ UNCHANGED sendDone
    /\ UNCHANGED <<made, last, state, video, slot, tail, sendFlag>>

(* buildPacket, in the round of Take or in a later one.                    *)
Build ==
    /\ pc = "build" \/ (pc = "send" /\ btx = "doing")
    /\ left' = left - 1
    /\ IF left' = 0 THEN btx' = "ready" /\ sendDone' = TRUE
                    ELSE UNCHANGED <<btx, sendDone>>
    /\ pc' = "idle"
    /\ UNCHANGED <<made, last, state, video, ring, sendFlag, start, seq, cur>>

-----------------------------------------------------------------------------
Request == Setup \/ Play \/ Pause \/ Reconnect
Send == NotReady \/ GetTest \/ Take \/ Build
Next == Request \/ Poll \/ NoWindow \/ Send \/ Encode

Spec == Init /\ [][Next]_stream

(* The main loop comes round for ever, and the network takes packets again *)
(* and again.  Nothing makes the viewer or the encoder act.                *)
LiveSpec == Spec /\ WF_stream(Poll) /\ WF_stream(NoWindow \/ Send) /\ SF_stream(Send)

-----------------------------------------------------------------------------
(* Properties.                                                             *)

(* Every variable has its type; a picture is being sent exactly while      *)
(* packets of it are left, and then the hand-over is not done.             *)
TypeOK ==
    /\ made \in 0 .. MaxFrames
    /\ last \in Frame \cup {None}
    /\ state \in {"init", "ready", "play", "pause"} /\ video \in BOOLEAN
    /\ slot \in [Index -> Frame \cup {None}]
    /\ head \in Index /\ tail \in Index
    /\ sendFlag \in BOOLEAN /\ sendDone \in BOOLEAN
    /\ btx \in {"ready", "doing"} /\ left \in 0 .. Packets
    /\ start \in BOOLEAN
    /\ seq \in Nat \cup {None}
    /\ cur \in Frame \cup {None}
    /\ pc \in {"idle", "send", "take", "build"}
    /\ btx = "doing" <=> left > 0
    /\ btx = "doing" => ~sendDone /\ ~sendFlag
=============================================================================
