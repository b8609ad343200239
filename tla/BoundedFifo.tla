---------------------------- MODULE BoundedFifo ----------------------------
(***************************************************************************)
(* What the two processors of the EN673 expect of a pair of job rings in   *)
(* shared memory: for each direction a bounded FIFO of commands, from      *)
(* which one consumer takes the oldest one.  The rings of dev/msg.c are    *)
(* shown to implement this (module PassMsg).                               *)
(***************************************************************************)
EXTENDS Naturals, Sequences

CONSTANTS Dirs,      \* the directions
          Msg,       \* the commands
          NoMsg,     \* "nothing taken yet"
          Capacity   \* the most commands a direction holds

VARIABLES queue,     \* queue[d]: the commands posted and not yet taken
          taken      \* taken[d]: the last command the consumer of d got

fifoVars == <<queue, taken>>

Init == /\ queue = [d \in Dirs |-> <<>>]
        /\ taken = [d \in Dirs |-> NoMsg]

Put(d, m) == /\ Len(queue[d]) < Capacity
             /\ queue' = [queue EXCEPT ![d] = Append(@, m)]
             /\ UNCHANGED taken

Get(d) == /\ queue[d] # <<>>
          /\ taken' = [taken EXCEPT ![d] = Head(queue[d])]
          /\ queue' = [queue EXCEPT ![d] = Tail(@)]

(* A step that makes no queue longer is no Put, whatever the command.      *)
Grows(d) == Len(queue'[d]) > Len(queue[d])

Next == \E d \in Dirs : Get(d) \/ (Grows(d) /\ \E m \in Msg : Put(d, m))

Spec == Init /\ [][Next]_fifoVars
=============================================================================
