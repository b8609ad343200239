------------------------------ MODULE SideQueue -----------------------------
(***************************************************************************)
(* RTSP over HTTP.  The web server of CPU1 takes the HTTP requests of a    *)
(* viewer and hands their connections to CPU0: http_tunnel_send puts the   *)
(* connection in the queue gptMsgTunnel, and then a command without an     *)
(* argument in the job ring; for each such command CPU0 takes one          *)
(* connection from the queue.  Both queues are under CS_PASSMSG, which     *)
(* PassMsg describes; a step here is one use of a queue.                   *)
(*                                                                         *)
(* The web server tries again until it has the key and finds room.  CPU0   *)
(* tries once: when it does not get the key the command is gone, and the   *)
(* connection waits for the command of a later one.                        *)
(***************************************************************************)
EXTENDS Naturals, Sequences, FiniteSets

CONSTANTS Capacity,     \* connections gptMsgTunnel can hold (9)
          JobCapacity,  \* commands the job ring can hold (61)
          MaxTunnels    \* bound: requests of viewers

VARIABLES tunnels,  \* gptMsgTunnel
          jobs,     \* gptMsgCpu1to0: "tunnel", or "other" for any other command
          sender,   \* where http_tunnel_send is
          sent,     \* connections so far
          cmd,      \* CPU0's command
          missed    \* times CPU0 did not get the key

vars == <<tunnels, jobs, sender, sent, cmd, missed>>

Init ==
    /\ tunnels = <<>> /\ jobs = <<>>
    /\ sender = "idle" /\ sent = 0
    /\ cmd = "none" /\ missed = 0

-----------------------------------------------------------------------------
(* CPU1.                                                                   *)

Request ==
    /\ sender = "idle" /\ sent < MaxTunnels
    /\ sender' = "put" /\ sent' = sent + 1
    /\ UNCHANGED <<tunnels, jobs, cmd, missed>>

(* Mutant: one attempt to put the connection.                              *)
PutTunnelOnce ==
    /\ sender = "put"
    /\ tunnels' = IF Len(tunnels) < Capacity THEN Append(tunnels, sent) ELSE tunnels
    /\ sender' = "post"
    /\ UNCHANGED <<jobs, sent, cmd, missed>>

PutTunnel ==
    /\ sender = "put" /\ Len(tunnels) < Capacity
    /\ tunnels' = Append(tunnels, sent)
    /\ sender' = "post"
    /\ UNCHANGED <<jobs, sent, cmd, missed>>

PostTunnel ==
    /\ sender = "post" /\ Len(jobs) < JobCapacity
    /\ jobs' = Append(jobs, "tunnel")
    /\ sender' = "idle"
    /\ UNCHANGED <<tunnels, sent, cmd, missed>>

(* Any other task.                                                         *)
PostOther ==
    /\ Len(jobs) < JobCapacity
    /\ jobs' = Append(jobs, "other")
    /\ UNCHANGED <<tunnels, sender, sent, cmd, missed>>

-----------------------------------------------------------------------------
(* CPU0: RuntimeMsg.                                                       *)

GetJob ==
    /\ cmd # "tunnel" /\ jobs # <<>>
    /\ cmd' = Head(jobs) /\ jobs' = Tail(jobs)
    /\ UNCHANGED <<tunnels, sender, sent, missed>>

TakeTunnel ==
    /\ cmd = "tunnel"
    /\ tunnels' = IF tunnels = <<>> THEN tunnels ELSE Tail(tunnels)
    /\ cmd' = "none"
    /\ UNCHANGED <<jobs, sender, sent, missed>>

(* Somebody else has the key.                                              *)
KeyBusy ==
    /\ cmd = "tunnel"
    /\ missed' = missed + 1
    /\ cmd' = "none"
    /\ UNCHANGED <<tunnels, jobs, sender, sent>>

-----------------------------------------------------------------------------
Next == Request \/ PutTunnel \/ PostTunnel \/ PostOther \/ GetJob \/ TakeTunnel \/ KeyBusy

Spec == Init /\ [][Next]_vars

-----------------------------------------------------------------------------
(* Properties.                                                             *)

TypeOK ==
    /\ tunnels \in Seq(1 .. MaxTunnels) /\ Len(tunnels) <= Capacity
    /\ jobs \in Seq({"tunnel", "other"}) /\ Len(jobs) <= JobCapacity
    /\ sender \in {"idle", "put", "post"} /\ sent \in 0 .. MaxTunnels
    /\ cmd \in {"none", "tunnel", "other"} /\ missed \in 0 .. MaxTunnels

(* The commands among q that announce a connection.                        *)
Announced(q) == {k \in 1 .. Len(q) : q[k] = "tunnel"}

OnTheWay ==
    Cardinality(Announced(jobs))
      + (IF cmd = "tunnel" THEN 1 ELSE 0) + (IF sender = "post" THEN 1 ELSE 0)

(* The two queues stay in step: every command finds a connection, and no   *)
(* connection is left behind but one for each time CPU0 did not get the    *)
(* key; those are left for ever.                                           *)
InStep == Len(tunnels) = missed + OnTheWay
=============================================================================
