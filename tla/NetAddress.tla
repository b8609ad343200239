----------------------------- MODULE NetAddress -----------------------------
(***************************************************************************)
(* The camera's IP address.  Three places hold it: gtUser, CPU1's network  *)
(* interface and CPU0's.  A request of the user changes gtUser and starts  *)
(* a task, enx_ipchange_task, which stops or starts the DHCP client, sets  *)
(* the address of the interface and posts it to CPU0.  Beside it lwIP's    *)
(* thread does the same when the cable is plugged in or out and when the   *)
(* DHCP client gets or loses its lease: every change of the interface's    *)
(* address calls network_ethif_status_cb, which under DHCP copies it to    *)
(* gtUser and posts it.                                                    *)
(*                                                                         *)
(* The task's netifapi calls run in lwIP's thread, which stands still      *)
(* while it waits for CS_PASSMSG or room.  Commands are posted together    *)
(* under that key (PassMsg): one post is one step.  Mask, gateway and name *)
(* servers go the way of the address and are left out; so are CPU0's link  *)
(* flag, which nothing there tests, the link local address lwIP may take   *)
(* while DHCP gets no answer, and iputil.                                  *)
(***************************************************************************)
EXTENDS Naturals, Sequences

CONSTANTS Addrs,        \* addresses, other than 0
          Tasks,        \* enx_ipchange_tasks that can run at a time
          Capacity,     \* posts the ring can hold
          Spaced,       \* whether requests wait for the task of the one before
          MaxRequests,  \* bound: requests
          MaxPlugs      \* bound: times the cable is plugged in

VARIABLES dhcp, ip,     \* gtUser.bUseDhcp, gtUser.nIpAddr
          key,          \* unIPAddressChangeFlag, a subset of {"dhcp", "ip"}
          pc, arg, local, \* by task: where it is, its changeflag and ipaddr
          link, addr,   \* gtMyNetIf of CPU1: NETIF_FLAG_LINK_UP, ip_addr
          client,       \* its DHCP client; "off" has a socket still, "none" not
          net,          \* lwIP's thread: "idle", or which callback is to post
          ring,         \* posts on the way to CPU0
          addr0,        \* the interface of CPU0: ip_addr
          broken,       \* dhcp_release has been called with no socket
          requests, plugs

vars == <<dhcp, ip, key, pc, arg, local, link, addr, client, net, ring, addr0,
          broken, requests, plugs>>

gtUser == <<dhcp, ip>>
task   == <<key, pc, arg, local>>
netif  == <<link, addr, client>>
bounds == <<requests, plugs>>

Init ==
    /\ dhcp \in BOOLEAN /\ ip \in Addrs
    /\ key = {}
    /\ pc = [t \in Tasks |-> "none"]
    /\ arg = [t \in Tasks |-> {}] /\ local = [t \in Tasks |-> 0]
    /\ link = FALSE /\ addr = 0 /\ client = "none"
    /\ net = "idle" /\ ring = <<>>
    /\ addr0 = 0
    /\ broken = FALSE /\ requests = 0 /\ plugs = 0

HasRoom == Len(ring) < Capacity

(* Mutant: lwIP's own netif_set_ipaddr, without a callback.                *)
SetAddrQuietly(a) == addr' = a /\ UNCHANGED <<ip, net>>

(* netif_set_ipaddr in lwIP's thread, with the status callback.            *)
SetAddr(a) ==
    /\ addr' = a
    /\ IF link /\ dhcp THEN ip' = a /\ net' = "post" ELSE UNCHANGED <<ip, net>>

Goto(t, place) == pc' = [pc EXCEPT ![t] = place]

-----------------------------------------------------------------------------
(* The user.  The web server runs in lwIP's thread.                        *)

Request(d, a) ==
    LET changed == {x \in {"dhcp", "ip"} : IF x = "dhcp" THEN d # dhcp ELSE a # ip}
    IN  /\ ~broken /\ requests < MaxRequests /\ net = "idle"
        /\ Spaced => \A t \in Tasks : pc[t] = "none"
        /\ changed # {}
        /\ dhcp' = d /\ ip' = a /\ key' = changed
        /\ \E t \in Tasks : pc[t] = "none" /\ Goto(t, "start")
        /\ requests' = requests + 1
        /\ UNCHANGED <<arg, local, netif, net, ring, addr0, broken, plugs>>

-----------------------------------------------------------------------------
(* enx_ipchange_task.                                                      *)

(* With DHCP on an address is refused, though it is in gtUser already.     *)
Start(t) ==
    /\ pc[t] = "start"
    /\ arg' = [arg EXCEPT ![t] = key]
    /\ Goto(t, IF key = {} THEN "none"
               ELSE IF ~dhcp THEN "wait"
               ELSE IF "dhcp" \in key THEN "dhcp" ELSE "clear")
    /\ UNCHANGED <<gtUser, key, local, netif, net, ring, addr0, broken, bounds>>

Wait(t) ==
    /\ pc[t] = "wait" /\ link
    /\ Goto(t, IF "dhcp" \in arg[t] THEN "release" ELSE "read")
    /\ UNCHANGED <<gtUser, key, arg, local, netif, net, ring, addr0, broken, bounds>>

(* dhcp_release without a socket writes through a null pointer: what comes *)
(* after it is not defined, and the model ends.                            *)
Release(t) ==
    /\ pc[t] = "release" /\ net = "idle"
    /\ IF client = "none"
       THEN broken' = TRUE /\ UNCHANGED <<ip, addr, client, net>>
       ELSE client' = "off" /\ SetAddr(0) /\ UNCHANGED broken
    /\ Goto(t, "stop")
    /\ UNCHANGED <<dhcp, key, arg, local, link, ring, addr0, bounds>>

Stop(t) ==
    /\ pc[t] = "stop" /\ net = "idle"
    /\ client' = "none"
    /\ Goto(t, "read")
    /\ UNCHANGED <<gtUser, key, arg, local, link, addr, net, ring, addr0, broken, bounds>>

Read(t) ==
    /\ pc[t] = "read"
    /\ local' = [local EXCEPT ![t] = ip]
    /\ Goto(t, "set")
    /\ UNCHANGED <<gtUser, key, arg, netif, net, ring, addr0, broken, bounds>>

Set(t) ==
    /\ pc[t] = "set" /\ net = "idle"
    /\ SetAddr(local[t])
    /\ Goto(t, "post")
    /\ UNCHANGED <<dhcp, key, arg, local, link, client, ring, addr0, broken, bounds>>

Post(t) ==
    /\ pc[t] = "post" /\ HasRoom
    /\ ring' = Append(ring, local[t])
    /\ Goto(t, "clear")
    /\ UNCHANGED <<gtUser, key, arg, local, netif, net, addr0, broken, bounds>>

DhcpStart(t) ==
    /\ pc[t] = "dhcp" /\ net = "idle"
    /\ client' = "asking"
    /\ Goto(t, "clear")
    /\ UNCHANGED <<gtUser, key, arg, local, link, addr, net, ring, addr0, broken, bounds>>

Clear(t) ==
    /\ pc[t] = "clear"
    /\ key' = {}
    /\ Goto(t, "none")
    /\ UNCHANGED <<gtUser, arg, local, netif, net, ring, addr0, broken, bounds>>

Step(t) == ~broken /\ (\/ Start(t) \/ Wait(t) \/ Release(t) \/ Stop(t) \/ Read(t)
                       \/ Set(t) \/ Post(t) \/ DhcpStart(t) \/ Clear(t))

-----------------------------------------------------------------------------
(* lwIP's thread.                                                          *)

Running == client \in {"asking", "bound"}

(* netif_set_link_up: a client that runs asks again, also when DHCP was    *)
(* turned off and the task has yet to stop it.                             *)
LinkUp ==
    /\ net = "idle" /\ ~link /\ plugs < MaxPlugs
    /\ link' = TRUE /\ plugs' = plugs + 1
    /\ client' = IF dhcp \/ Running THEN "asking" ELSE client
    /\ IF dhcp THEN UNCHANGED <<addr, net>> ELSE addr' = ip /\ net' = "post"
    /\ UNCHANGED <<gtUser, task, ring, addr0, broken, requests>>

LinkDown ==
    /\ net = "idle" /\ link
    /\ link' = FALSE /\ net' = "down"
    /\ UNCHANGED <<gtUser, task, addr, client, ring, addr0, broken, bounds>>

(* What network_ethif_link_cb does then; DHCP may have been turned on or   *)
(* off since.                                                              *)
PostDown ==
    /\ net = "down" /\ HasRoom
    /\ ring' = Append(ring, 0)
    /\ net' = "idle" /\ addr' = 0
    /\ client' = IF dhcp THEN "none" ELSE client
    /\ broken' = (dhcp /\ client = "none")
    /\ UNCHANGED <<gtUser, task, link, addr0, bounds>>

(* The callbacks read gtUser again for each command.                       *)
PostNet ==
    /\ net = "post" /\ HasRoom
    /\ ring' = Append(ring, ip)
    /\ net' = "idle"
    /\ UNCHANGED <<gtUser, task, netif, addr0, broken, bounds>>

(* A lease, or the renewal of one.  The probe of an offered address ends   *)
(* by a timer, whether the cable is in or not.                             *)
Bind(a) ==
    /\ net = "idle" /\ (link \/ ~dhcp)
    /\ client = "asking" \/ (client = "bound" /\ a = addr)
    /\ client' = "bound"
    /\ SetAddr(a)
    /\ UNCHANGED <<dhcp, task, link, ring, addr0, broken, bounds>>

(* The server refuses, or a lease cannot be renewed in time.               *)
Nak ==
    /\ net = "idle" /\ Running
    /\ client' = "asking"
    /\ SetAddr(0)
    /\ UNCHANGED <<dhcp, task, link, ring, addr0, broken, bounds>>

-----------------------------------------------------------------------------
(* CPU0.                                                                   *)

Apply ==
    /\ ring # <<>>
    /\ addr0' = Head(ring) /\ ring' = Tail(ring)
    /\ UNCHANGED <<gtUser, task, netif, net, broken, bounds>>

-----------------------------------------------------------------------------
Thread == LinkUp \/ LinkDown \/ PostDown \/ PostNet \/ Nak \/ \E a \in Addrs : Bind(a)

Next ==
    /\ ~broken
    /\ \/ \E d \in BOOLEAN, a \in Addrs : Request(d, a)
       \/ \E t \in Tasks : Step(t)
       \/ Thread
       \/ Apply

Spec == Init /\ [][Next]_vars

-----------------------------------------------------------------------------
(* Properties.                                                             *)

TypeOK ==
    /\ dhcp \in BOOLEAN /\ ip \in Addrs \cup {0} /\ key \subseteq {"dhcp", "ip"}
    /\ pc \in [Tasks -> {"none", "start", "wait", "release", "stop", "read", "set", "post",
                        "dhcp", "clear"}]
    /\ arg \in [Tasks -> SUBSET {"dhcp", "ip"}] /\ local \in [Tasks -> Addrs \cup {0}]
    /\ link \in BOOLEAN /\ addr \in Addrs \cup {0}
    /\ client \in {"none", "off", "asking", "bound"}
    /\ net \in {"idle", "post", "down"}
    /\ ring \in Seq(Addrs \cup {0}) /\ Len(ring) <= Capacity
    /\ addr0 \in Addrs \cup {0} /\ broken \in BOOLEAN

AtRest ==
    /\ ~broken /\ net = "idle" /\ ring = <<>>
    /\ \A t \in Tasks : pc[t] = "none"

(* When everything is done the two processors have the same address,       *)
(* whatever the cable and the DHCP server did between the steps of the     *)
(* task: the one of gtUser, with no DHCP client left that could change it, *)
(* or the one of the lease.                                                *)
AddressesAgree ==
    AtRest =>
      /\ link /\ (dhcp => client = "bound") => addr0 = addr
      /\ ~dhcp => ~Running /\ (link => addr = ip)
=============================================================================
