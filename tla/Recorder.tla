------------------------------ MODULE Recorder ------------------------------
(***************************************************************************)
(* The AVI recorder of CPU1.                                               *)
(*                                                                         *)
(*  - IsrH264Enc puts every picture in the rings of both recorders,        *)
(*    "normal" and "event".  A full ring is moved on to its next I picture *)
(*    before (sbuf_put);                                                   *)
(*  - muxer_avienc_task writes the ring of one recorder to a file.  An     *)
(*    event takes the card from the normal recorder until its file is full;*)
(*  - CheckSDstate starts and stops the recorders when it sees, at its next*)
(*    poll, that the user has turned recording on or off.                  *)
(*                                                                         *)
(* The task runs muxer_avienc_process, a switch whose cases fall through;  *)
(* it may be preempted, or wait for the card, between any two steps here.  *)
(* A picture is its slice type: what a file must not do is go on with a P  *)
(* picture after a gap.  Audio blocks, which are in the rings as well, are *)
(* like P pictures.  Errors of the card and its removal are left out, and  *)
(* so is a change of the frame rate.                                       *)
(***************************************************************************)
EXTENDS Sequences, FiniteSetsExt, Naturals

CONSTANTS N,      \* slots of a ring
          Gop,    \* the longest distance of I pictures
          Spaced  \* a request waits until the one before was taken up

Recorders == {"normal", "event"}
Slices == {"I", "P"}

VARIABLES on,     \* gtUser.bSdAviSave
          card,   \* bSD_State: "idle" or "save"
          check,  \* where CheckSDstate is
          rec,    \* recording
          state,  \* state of each recorder
          file,   \* its file is open
          buf,    \* its ring
          gap,    \* the file holds nothing the picture at the head builds on
          since,  \* P pictures since the last I picture
          sem,    \* bufSem
          pc, me, \* the task, and the recorder it works for
          mode    \* nAvienc_Mode_now and nAvienc_Mode_old

settings == <<on, card, check>>
rings == <<buf, gap, since, sem>>
task == <<pc, me, mode>>
vars == <<settings, rec, state, file, rings, task>>

Init ==
    /\ on = TRUE /\ card = "save" /\ check = "poll"
    /\ rec = [r \in Recorders |-> r = "normal"]
    /\ state = [r \in Recorders |-> "IDLE"]
    /\ file = [r \in Recorders |-> FALSE]
    /\ buf = [r \in Recorders |-> <<>>] /\ gap = [r \in Recorders |-> TRUE]
    /\ since = Gop - 1 /\ sem = 0
    /\ pc = "wait" /\ me = "normal"
    /\ mode = [now |-> "normal", old |-> "none"]

Stopped == \A r \in Recorders : ~rec[r]
AllStop == rec' = [r \in Recorders |-> FALSE]

-----------------------------------------------------------------------------
(* IsrH264Enc.                                                             *)

IsFull(s) == Len(s) = N - 1

(* Mutant: a full ring is moved on by one picture only.                    *)
PutOne(s, x) == Append(IF IsFull(s) THEN Tail(s) ELSE s, x)

(* sbuf_put.                                                               *)
Put(s, x) ==
    IF ~IsFull(s) THEN Append(s, x)
    ELSE LET later == {i \in 2 .. Len(s) : s[i] = "I"}
         IN  Append(IF later = {} THEN <<>> ELSE SubSeq(s, Min(later), Len(s)), x)

Picture(x) ==
    /\ x = "P" => since < Gop - 1
    /\ since' = IF x = "I" THEN 0 ELSE since + 1
    /\ buf' = [r \in Recorders |-> Put(buf[r], x)]
    /\ gap' = [r \in Recorders |-> gap[r] \/ IsFull(buf[r])]
    /\ sem' = IF sem < N THEN sem + 1 ELSE sem
    /\ UNCHANGED <<settings, rec, state, file, task>>

-----------------------------------------------------------------------------
(* The user, by the shell, the web or ONVIF.                               *)

TakenUp == IF on THEN card = "save" /\ check = "poll" /\ ~(rec["event"] /\ rec["normal"])
           ELSE card = "idle" /\ Stopped /\ pc = "wait"

Turn ==
    /\ Spaced => TakenUp
    /\ on' = ~on
    /\ UNCHANGED <<card, check, rec, state, file, rings, task>>

(* saveevt.                                                                *)
Event ==
    /\ on /\ ~rec["event"]
    /\ Spaced => TakenUp
    /\ rec' = [rec EXCEPT !["event"] = TRUE]
    /\ UNCHANGED <<settings, state, file, rings, task>>

-----------------------------------------------------------------------------
(* CheckSDstate.                                                           *)

SeeOn ==
    /\ check = "poll" /\ card = "idle" /\ on
    /\ card' = "save" /\ check' = "go"
    /\ state' = [r \in Recorders |-> "IDLE"]
    /\ UNCHANGED <<on, rec, file, rings, task>>

(* Mutant: the recorders are not started.                                  *)
GoForgets ==
    /\ check = "go"
    /\ check' = "poll"
    /\ UNCHANGED <<on, card, rec, state, file, rings, task>>

Go ==
    /\ check = "go"
    /\ check' = "poll"
    /\ rec' = [rec EXCEPT !["normal"] = TRUE]
    /\ UNCHANGED <<on, card, state, file, rings, task>>

SeeOff ==
    /\ check = "poll" /\ card = "save" /\ ~on
    /\ card' = "idle"
    /\ state' = [r \in Recorders |-> "EXIT"]
    /\ UNCHANGED <<on, check, rec, file, rings, task>>

-----------------------------------------------------------------------------
(* muxer_avienc_task.                                                      *)

Goto(p) == pc' = p
SetState(r, s) == state' = [state EXCEPT ![r] = s]
From(p) == pc = p /\ UNCHANGED <<settings, since>>

(* muxer_avienc_sbuf_depth_sum is zero.                                    *)
Nothing == \A r \in Recorders : buf[r] = <<>>

(* xSemaphoreTake and muxer_avienc.                                        *)
Wake ==
    /\ From("wait") /\ sem > 0
    /\ sem' = sem - 1
    /\ \/ (Nothing \/ Stopped) /\ UNCHANGED <<me, pc>>
       \/ /\ ~Nothing /\ rec["event"]
          /\ me' = "event" /\ Goto(IF rec["normal"] THEN "preempt" ELSE "process")
       \/ /\ ~Nothing /\ ~rec["event"] /\ rec["normal"]
          /\ me' = "normal" /\ Goto("process")
    /\ UNCHANGED <<rec, state, file, buf, gap, mode>>

(* Mutant: the file of a recorder that has not found its first I picture   *)
(* yet is not closed.                                                      *)
PreemptWriter ==
    /\ From("preempt")
    /\ IF state["normal"] = "WRITE"
         THEN SetState("normal", "CLOSE") /\ Goto("closeNormal") /\ UNCHANGED rec
         ELSE rec' = [rec EXCEPT !["normal"] = FALSE] /\ Goto("process") /\ UNCHANGED state
    /\ UNCHANGED <<file, buf, gap, sem, me, mode>>

Preempt ==
    /\ From("preempt")
    /\ IF state["normal"] \in {"OPEN", "FIRST", "NEXT", "WRITE"}
         THEN SetState("normal", "CLOSE") /\ Goto("closeNormal") /\ UNCHANGED rec
         ELSE rec' = [rec EXCEPT !["normal"] = FALSE] /\ Goto("process") /\ UNCHANGED state
    /\ UNCHANGED <<file, buf, gap, sem, me, mode>>

(* What muxer_avienc_close leaves behind, for the recorder r.              *)
Closed(r) ==
    /\ file' = [file EXCEPT ![r] = FALSE]
    /\ SetState(r, "IDLE")
    /\ UNCHANGED <<buf, gap, sem, me, mode>>

CloseNormal ==
    /\ From("closeNormal")
    /\ Closed("normal")
    /\ rec' = [rec EXCEPT !["normal"] = FALSE]
    /\ Goto("process")

(* A full file; that of an event gives the card back.                      *)
CloseFull ==
    /\ From("closeFull")
    /\ Closed(me)
    /\ rec' = IF me = "event" THEN [rec EXCEPT !["event"] = FALSE, !["normal"] = TRUE] ELSE rec
    /\ Goto("wait")

CloseExit ==
    /\ From("closeExit")
    /\ Closed(me)
    /\ AllStop
    /\ Goto("wait")

(* The switch of muxer_avienc_process: where a recorder goes on.           *)
GoesOn(s) == CASE s = "FIRST" -> "first"
               [] s = "NEXT" -> "next"
               [] s = "WRITE" -> "write"
               [] s = "EXIT" -> "closeExit"
               [] OTHER -> "wait"

Process ==
    /\ From("process")
    /\ \/ state[me] = "IDLE" /\ ~on /\ AllStop /\ Goto("wait") /\ UNCHANGED state
       \/ state[me] = "IDLE" /\ on /\ SetState(me, "OPEN") /\ Goto("open") /\ UNCHANGED rec
       \/ state[me] # "IDLE" /\ Goto(GoesOn(state[me])) /\ UNCHANGED <<state, rec>>
    /\ UNCHANGED <<file, buf, gap, sem, me, mode>>

Open ==
    /\ From("open")
    /\ file' = [file EXCEPT ![me] = TRUE]
    /\ gap' = [gap EXCEPT ![me] = TRUE]
    /\ SetState(me, "FIRST")
    /\ mode' = [now |-> me, old |-> mode.now]
    /\ Goto("first")
    /\ UNCHANGED <<rec, buf, sem, me>>

(* The head of the ring is taken, and written to the file or not.          *)
Get(written) ==
    /\ buf' = [buf EXCEPT ![me] = Tail(@)]
    /\ gap' = [gap EXCEPT ![me] = ~written]

(* muxer_avienc_frist_video, and FIRST_NEXT if it comes next.              *)
First ==
    /\ From("first")
    /\ IF buf[me] # <<>> /\ Head(buf[me]) = "I"
         THEN IF mode.now = mode.old
                THEN Get(TRUE) /\ SetState(me, "WRITE") /\ Goto("write")
                ELSE Get(FALSE) /\ SetState(me, "NEXT") /\ Goto("next")
         ELSE /\ IF buf[me] # <<>> THEN Get(FALSE) ELSE UNCHANGED <<buf, gap>>
              /\ Goto("wait") /\ UNCHANGED state
    /\ UNCHANGED <<rec, file, sem, me, mode>>

(* muxer_avienc_nextI_video: a recorder that was preempted, or preempts,   *)
(* leaves out what comes before the next I picture.                        *)
NextI ==
    /\ From("next")
    /\ IF buf[me] = <<>>
         THEN Goto("wait") /\ UNCHANGED <<buf, gap, state>>
         ELSE IF Head(buf[me]) = "I"
                THEN Get(TRUE) /\ SetState(me, "WRITE") /\ Goto("wait")
                ELSE Get(FALSE) /\ UNCHANGED <<pc, state>>
    /\ UNCHANGED <<rec, file, sem, me, mode>>

(* The tests of the loop of WRITE.                                         *)
WriteTest ==
    /\ From("write") \/ From("written")
    /\ IF state[me] \in {"IDLE", "CLOSE", "EXIT"} /\ (on \/ pc = "written")
         THEN Goto("wait") /\ UNCHANGED state
         ELSE IF on THEN Goto("peek") /\ UNCHANGED state
                    ELSE SetState(me, "EXIT") /\ Goto("wait")
    /\ UNCHANGED <<rec, file, buf, gap, sem, me, mode>>

(* sbuf_peek; at an I picture the file may have reached its length.        *)
Peek ==
    /\ From("peek")
    /\ \/ buf[me] = <<>> /\ Goto("wait") /\ UNCHANGED state
       \/ buf[me] # <<>> /\ Goto("get") /\ UNCHANGED state
       \/ /\ buf[me] # <<>> /\ Head(buf[me]) = "I"
          /\ SetState(me, "CLOSE") /\ Goto("closeFull")
    /\ UNCHANGED <<rec, file, buf, gap, sem, me, mode>>

Write ==
    /\ From("get")
    /\ Get(TRUE)
    /\ Goto("written")
    /\ UNCHANGED <<rec, state, file, sem, me, mode>>

-----------------------------------------------------------------------------
Task == Wake \/ Preempt \/ CloseNormal \/ CloseFull \/ CloseExit \/ Process
        \/ Open \/ First \/ NextI \/ WriteTest \/ Peek \/ Write
Check == SeeOn \/ Go \/ SeeOff
Next == (\E x \in Slices : Picture(x)) \/ Turn \/ Event \/ Check \/ Task

Spec == Init /\ [][Next]_vars

(* Pictures keep coming, an I picture among them every Gop; the tasks run  *)
(* and CheckSDstate polls.  Nothing makes the user act.                    *)
LiveSpec == Spec /\ WF_vars(\E x \in Slices : Picture(x)) /\ WF_vars(Check) /\ WF_vars(Task)

-----------------------------------------------------------------------------
(* Properties.                                                             *)

(* Every variable has its type.                                            *)
TypeOK ==
    /\ on \in BOOLEAN /\ card \in {"idle", "save"} /\ check \in {"poll", "go"}
    /\ rec \in [Recorders -> BOOLEAN]
    /\ state \in [Recorders -> {"IDLE", "OPEN", "FIRST", "NEXT", "WRITE", "CLOSE", "EXIT"}]
    /\ file \in [Recorders -> BOOLEAN]
    /\ buf \in [Recorders -> Seq(Slices)] /\ \A r \in Recorders : Len(buf[r]) < N
    /\ gap \in [Recorders -> BOOLEAN]
    /\ since \in 0 .. Gop - 1 /\ sem \in 0 .. N
    /\ pc \in {"wait", "preempt", "closeNormal", "process", "open", "first", "next",
               "write", "peek", "get", "written", "closeFull", "closeExit"}
    /\ me \in Recorders
    /\ mode \in [now : Recorders, old : Recorders \cup {"none"}]

(* A P picture is written only right after the picture it builds on, in    *)
(* the same file, however far the card is behind and whenever the          *)
(* interrupt moves the ring on, also between sbuf_peek and sbuf_get.       *)
FilesDecodable == [][pc = "get" /\ pc' = "written" /\ Head(buf[me]) = "P" => ~gap[me]]_vars

(* A file that is opened is not open already: such a file would never be   *)
(* closed, and what was written to it would be lost.                       *)
NoFileLost == pc = "open" => ~file[me]

(* When recording is turned off, all files are closed in the end.          *)
OffCloses == ~on ~> (on \/ \A r \in Recorders : ~file[r])

(* While recording is on, there is a file again and again that is complete *)
(* up to the head of the ring: neither the end of a file nor an event, nor *)
(* turning off and on, ends the recording.                                 *)
OnRecords == on ~> (~on \/ \E r \in Recorders : file[r] /\ ~gap[r])
=============================================================================
