----------------------------- MODULE StreamState -----------------------------
(* The state of RtspStream, its parameters with what is assumed of them,   *)
(* and what is said about the state; RtspStream has the steps.             *)
EXTENDS Naturals

CONSTANTS N,         \* slots of the ring (NUM_H264_SBUF, 60)
          Groups,    \* distances of I pictures
          MaxTurns,  \* bound: pictures whose number does not go on from the one before
          Packets,   \* RTP packets of a picture
          MaxFrames, \* bound: pictures the encoder makes
          None

ASSUME NAssumption == N \in Nat /\ N > 1
ASSUME GroupsAssumption == Groups \subseteq Nat \ {0} /\ MaxTurns \in Nat
ASSUME PacketsAssumption == Packets \in Nat \ {0}
ASSUME MaxFramesAssumption == MaxFrames \in Nat

(* A picture: its place in the stream, slice type, number in the header,   *)
(* the distance it was coded for, and which run it belongs to of pictures  *)
(* numbered on without a break.                                            *)
Frame == [id : 0 .. MaxFrames - 1, slice : {"I", "P"}, num : Nat, gop : Nat \ {0},
          run : 0 .. MaxTurns]
Index == 0 .. N - 1

ASSUME NoneAssumption == None \notin Frame /\ None \notin Nat

VARIABLES made,        \* pictures the encoder has made
          last,        \* the last of them
          state,       \* cur_state of the session
          video,       \* SETUP has asked for video
          slot, head, tail,    \* sbuf_video
          sendFlag, sendDone,  \* the hand-over
          btx, left,   \* btx_st; packets of the picture still to send
          start,       \* an I picture was sent, and no loss noticed since
          seq,         \* sequence_num of the detector
          cur,         \* the picture sent last
          pc           \* where the main loop is

ring == <<slot, head, tail>>
tx == <<sendFlag, sendDone, btx, left, start, seq, cur>>
stream == <<made, last, state, video, ring, tx, pc>>

IsEmpty == head = tail

-----------------------------------------------------------------------------
Sends == cur' # cur /\ cur' # None
SendsP == Sends /\ cur'.slice = "P"

(* However often the encoder laps the sender, and though sbuf_get tests    *)
(* the ring before it locks the interrupt out, a viewer is never sent a    *)
(* picture twice, or one that is older than the one before it.             *)
NeverBackwards == [][Sends /\ cur # None => cur'.id > cur.id]_stream

(* When a P picture does not follow the picture sent before it, whole      *)
(* groups are missing, as long as the distance was not changed and no I    *)
(* picture came out of turn: all other losses are noticed by the numbers.  *)
OnlyWholeGroups ==
    [][SendsP => /\ cur # None
                 /\ cur'.run = cur.run => (cur'.id - cur.id) % cur.gop = 1 % cur.gop]_stream

(* A sender that has lost nothing stops for the next I picture only where  *)
(* the numbers themselves break off: behind an I picture out of turn whose *)
(* number is not the 0 the detector goes on from, or for a P picture of    *)
(* another distance than the picture before it.                            *)
Stops == start /\ pc = "take" /\ ~start'
NoFalseAlarm ==
    [][Stops => \/ slot[head].id # cur.id + 1
                \/ cur.slice = "I" /\ cur.num # 0
                \/ slot[head].gop # cur.gop]_stream

(* The hand-over never gets stuck: as long as the session plays, a picture *)
(* in the ring is taken in the end.                                        *)
BacklogIsTaken == (state = "play" /\ video /\ ~IsEmpty) ~> (IsEmpty \/ state # "play")

(* A P picture is sent only right after the picture it builds on ("if an   *)
(* error appears in sequence_num, pass until the next I").                 *)
SentDecodable == [][SendsP => cur # None /\ cur'.id = cur.id + 1]_stream
=============================================================================
