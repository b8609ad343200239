---------------------------- MODULE PartsProofs -----------------------------
(***************************************************************************)
(* Theorems about the components that MCParts sets side by side, for every *)
(* size of their rings, queues and tables.  A part that moves makes a step *)
(* of its component; what a component keeps, from its own initial states,  *)
(* is kept by the whole.                                                   *)
(***************************************************************************)
EXTENDS MCParts, IdrControlProofs, RtspStreamProofs, RtspUsersProofs, SettingsProofs,
        Remainders, SequenceTheorems, FiniteSetTheorems, WellFoundedInduction, TLAPS

-----------------------------------------------------------------------------
(* The transmitter.                                                        *)

USE PauseAssumption

(* Behind CS_ETHERNET.                                                     *)
EthInside(c) == epc[c] \notin {"idle", "key"}

(* One processor is behind the key.  Nobody but it makes tx_pause smaller, *)
(* so the count it has found is still there to be counted down; and it     *)
(* stays until its synchronous copy is done.                               *)
EthInv ==
    /\ Eth!TypeOK
    /\ \A c, d \in Eth!Cpus : EthInside(c) /\ EthInside(d) => c = d
    /\ pause <= MaxCount
    /\ \A c \in Eth!Cpus : epc[c] = "dec" => pause # 0
    /\ epc["cpu1"] = "store" => reg \in 1 .. MaxCount
    /\ epc["cpu0"] \notin {"store", "zero", "go", "clear"}
    /\ \A c \in Eth!Cpus : dma[c] = "sync" => epc[c] = "wait"

(* A count that is not 0 does not wrap.                                    *)
LEMMA EthCountsDown == ASSUME NEW k \in 1 .. MaxCount PROVE Eth!Minus1(k) = k - 1
<1>1. /\ k + Word - 1 \in Nat /\ Word \in Nat \ {0} /\ k - 1 \in 0 .. Word - 1
      /\ k + Word - 1 = Word * 1 + (k - 1)
  OBVIOUS
<1>2. (k + Word - 1) % Word = k - 1
  BY <1>1, ModUnique
<1> QED
  BY <1>2 DEF Eth!Minus1

(* Nobody sends in the beginning.                                          *)
LEMMA EthInit == Eth!Init => EthInv
<1> SUFFICES ASSUME Eth!Init PROVE EthInv
  OBVIOUS
<1>1. key \in BOOLEAN /\ go \in BOOLEAN /\ ~key
  BY Zenon DEF Eth!Init
<1>2. \A c \in Eth!Cpus : epc[c] = "idle" /\ dma[c] = "none"
  BY DEF Eth!Init
<1>3. /\ epc \in [Eth!Cpus -> {"idle"}] /\ emode \in [Eth!Cpus -> Eth!Modes]
      /\ dma \in [Eth!Cpus -> {"none"}]
  BY DEF Eth!Init, Eth!Modes
<1>4. Eth!TypeOK
  BY <1>1, <1>2, <1>3 DEF Eth!Init, Eth!TypeOK
<1> QED
  BY <1>2, <1>4 DEF Eth!Init, EthInv, EthInside, Eth!Cpus

(* A pause frame, a go frame and the end of a copy.                        *)
LEMMA EthDevices ==
    ASSUME EthInv,
           (\E k \in 1 .. MaxCount : Eth!PauseFrame(k)) \/ Eth!StorePause \/ Eth!GoFrame
             \/ \E c \in Eth!Cpus : Eth!CopyDone(c)
    PROVE  EthInv'
<1> USE DEF Eth!TypeOK, EthInside, Eth!Cpus, Eth!Modes, Eth!senders
<1>1. ASSUME NEW k \in 1 .. MaxCount, Eth!PauseFrame(k) PROVE EthInv'
  <2>1. go' \in BOOLEAN
    BY <1>1, Zenon DEF Eth!PauseFrame
  <2>2. /\ isr' = k /\ pauses' = pauses + 1 /\ pauses < MaxPauses
        /\ UNCHANGED <<key, epc, emode, reg, dma, pause>>
    BY <1>1 DEF Eth!PauseFrame
  <2> QED
    BY <2>1, <2>2 DEF EthInv
<1>2. CASE Eth!StorePause
  BY <1>2 DEF EthInv, Eth!StorePause
<1>3. CASE Eth!GoFrame
  BY <1>3 DEF EthInv, Eth!GoFrame
<1>4. ASSUME NEW c \in Eth!Cpus, Eth!CopyDone(c) PROVE EthInv'
  BY <1>4 DEF EthInv, Eth!CopyDone
<1> QED
  BY <1>1, <1>2, <1>3, <1>4

(* Taking the key and giving it back, and the two ends of the copy.        *)
LEMMA EthSends ==
    ASSUME EthInv, NEW c \in Eth!Cpus,
           (\E m \in Eth!Modes : Eth!Send(c, m)) \/ Eth!TakeKey(c) \/ Eth!RoomInMac(c)
             \/ Eth!StartCopy(c) \/ Eth!AwaitCopy(c) \/ Eth!FreeKey(c)
    PROVE  EthInv'
<1> USE DEF EthInv, Eth!TypeOK, EthInside, Eth!Cpus, Eth!Modes, Eth!At, Eth!To
<1>1. ASSUME NEW m \in Eth!Modes, Eth!Send(c, m) PROVE EthInv'
  BY <1>1 DEF Eth!Send
<1>2. CASE Eth!TakeKey(c)
  BY <1>2 DEF Eth!TakeKey
<1>3. CASE Eth!RoomInMac(c)
  BY <1>3 DEF Eth!RoomInMac
<1>4. CASE Eth!StartCopy(c)
  BY <1>4 DEF Eth!StartCopy
<1>5. CASE Eth!AwaitCopy(c)
  BY <1>5 DEF Eth!AwaitCopy
<1>6. CASE Eth!FreeKey(c)
  BY <1>6 DEF Eth!FreeKey
<1> QED
  BY <1>1, <1>2, <1>3, <1>4, <1>5, <1>6

(* The loop that counts tx_pause down, in one piece or in pieces.          *)
LEMMA EthCounts ==
    ASSUME EthInv, NEW c \in Eth!Cpus, Eth!Counting(c)
    PROVE  EthInv'
<1> USE DEF EthInv, Eth!TypeOK, EthInside, Eth!Cpus, Eth!Modes, Eth!At, Eth!To
<1>1. CASE Eth!PauseTest(c)
  BY <1>1 DEF Eth!PauseTest
<1>2. CASE Eth!CountDown
  BY <1>2, EthCountsDown DEF Eth!CountDown
<1>3. CASE Eth!DecLoad
  BY <1>3 DEF Eth!DecLoad
<1>4. CASE Eth!DecStore
  BY <1>4, EthCountsDown DEF Eth!DecStore
<1>5. CASE Eth!ZeroTest
  BY <1>5 DEF Eth!ZeroTest
<1>6. CASE Eth!GoTest
  BY <1>6 DEF Eth!GoTest
<1>7. CASE Eth!ClearPause
  BY <1>7 DEF Eth!ClearPause
<1> QED
  BY <1>1, <1>2, <1>3, <1>4, <1>5, <1>6, <1>7 DEF Eth!Counting

(* Every step of the transmitter.                                          *)
LEMMA EthStep == EthInv /\ [Eth!Next]_ethtx => EthInv'
<1> SUFFICES ASSUME EthInv, [Eth!Next]_ethtx PROVE EthInv'
  OBVIOUS
<1>1. CASE Eth!Next
  BY <1>1, EthDevices, EthSends, EthCounts DEF Eth!Next, Eth!Steps
<1>2. CASE UNCHANGED ethtx
  BY <1>2 DEF ethtx, EthInv, Eth!TypeOK, EthInside
<1> QED
  BY <1>1, <1>2

(* A copy starts only behind the key, and who does a synchronous copy      *)
(* stands there until it is over.                                          *)
LEMMA EthCopies ==
    ASSUME EthInv, [Eth!Next]_ethtx, NEW c \in Eth!Cpus, NEW d \in Eth!Cpus,
           dma[c] = "none", dma'[c] # "none"
    PROVE  dma[d] # "sync"
<1>1. Eth!StartCopy(c)
  BY DEF Eth!Next, Eth!Steps, Eth!Counting, ethtx, EthInv, Eth!TypeOK, Eth!senders,
         Eth!PauseFrame, Eth!StorePause, Eth!GoFrame, Eth!Send, Eth!TakeKey,
         Eth!RoomInMac, Eth!PauseTest, Eth!CountDown, Eth!DecLoad, Eth!DecStore,
         Eth!ZeroTest, Eth!GoTest, Eth!ClearPause, Eth!StartCopy, Eth!AwaitCopy,
         Eth!FreeKey, Eth!CopyDone
<1> QED
  BY <1>1 DEF Eth!StartCopy, Eth!At, EthInv, EthInside

HIDE PauseAssumption

-----------------------------------------------------------------------------
(* The queue of tunnels.                                                   *)

USE TunnelAssumption

(* The queues in step, and no more connections than requests: what CPU0    *)
(* has missed is among them.                                               *)
TunInv ==
    /\ Tun!TypeOK /\ Tun!InStep
    /\ Len(tunnels) + (IF sender = "put" THEN 1 ELSE 0) <= sent

(* Both modules mean the same by the size of a set.                        *)
LEMMA TunCardinality == \A S : Tun!Cardinality(S) = Cardinality(S)
  BY DEF Tun!Cardinality, Cardinality

(* The announcements are finitely many.                                    *)
LEMMA TunFinite ==
    ASSUME NEW q \in Seq({"tunnel", "other"})
    PROVE  /\ IsFiniteSet(Tun!Announced(q)) /\ Tun!Announced(q) \subseteq 1 .. Len(q)
           /\ Cardinality(Tun!Announced(q)) \in Nat
<1>1. IsFiniteSet(1 .. Len(q))
  BY FS_Interval
<1>2. Tun!Announced(q) \subseteq 1 .. Len(q)
  BY DEF Tun!Announced
<1> QED
  BY <1>1, <1>2, FS_Subset, FS_CardinalityType

(* A command that is posted counts when it announces a connection.         *)
LEMMA TunAppend ==
    ASSUME NEW q \in Seq({"tunnel", "other"}), NEW j \in {"tunnel", "other"}
    PROVE  Cardinality(Tun!Announced(Append(q, j)))
             = Cardinality(Tun!Announced(q)) + (IF j = "tunnel" THEN 1 ELSE 0)
<1>1. CASE j = "tunnel"
  <2>1. Tun!Announced(Append(q, j)) = Tun!Announced(q) \cup {Len(q) + 1}
    BY <1>1 DEF Tun!Announced
  <2>2. Len(q) + 1 \notin Tun!Announced(q)
    BY DEF Tun!Announced
  <2> QED
    BY <1>1, <2>1, <2>2, TunFinite, FS_AddElement
<1>2. CASE j = "other"
  <2>1. Tun!Announced(Append(q, j)) = Tun!Announced(q)
    BY <1>2 DEF Tun!Announced
  <2> QED
    BY <1>2, <2>1, TunFinite
<1> QED
  BY <1>1, <1>2

(* The same for a command that is taken: the others move up by one.        *)
LEMMA TunTake ==
    ASSUME NEW q \in Seq({"tunnel", "other"}), q # <<>>
    PROVE  Cardinality(Tun!Announced(q))
             = Cardinality(Tun!Announced(Tail(q))) + (IF Head(q) = "tunnel" THEN 1 ELSE 0)
<1> DEFINE S == Tun!Announced(Tail(q))
           T == Tun!Announced(q) \ {1}
           up == [k \in S |-> k + 1]
<1>1. Tail(q) \in Seq({"tunnel", "other"}) /\ Len(Tail(q)) = Len(q) - 1
      /\ \A k \in 1 .. Len(q) - 1 : Tail(q)[k] = q[k + 1]
  OBVIOUS
<1>2. up \in Bijection(S, T)
  <2>1. \A k \in S : k \in Nat /\ k + 1 \in T
    BY <1>1 DEF Tun!Announced
  <2>2. \A t \in T : t - 1 \in S /\ t \in Nat
    BY <1>1 DEF Tun!Announced
  <2>3. up \in [S -> T] /\ \A k \in S : up[k] = k + 1
    BY <2>1
  <2>4. up \in Injection(S, T)
    <3> HIDE DEF up, S, T
    <3> QED
      BY <2>1, <2>3 DEF Injection, IsInjective
  <2>5. up \in Surjection(S, T)
    <3> HIDE DEF up, S, T
    <3>1. ASSUME NEW t \in T PROVE t - 1 \in S /\ up[t - 1] = t
      BY <2>2, <2>3
    <3>2. \A t \in T : \E k \in S : up[k] = t
      BY <3>1
    <3> QED
      BY <2>3, <3>2 DEF Surjection
  <2> QED
    BY <2>4, <2>5 DEF Bijection
<1>3. Cardinality(T) = Cardinality(S) /\ IsFiniteSet(T)
  <2> HIDE DEF up, T
  <2> QED
    BY <1>1, <1>2, TunFinite, FS_Bijection DEF ExistsBijection
<1>4. 1 \in Tun!Announced(q) <=> Head(q) = "tunnel"
  BY DEF Tun!Announced
<1>5. Cardinality(T) = IF 1 \in Tun!Announced(q) THEN Cardinality(Tun!Announced(q)) - 1
                                               ELSE Cardinality(Tun!Announced(q))
  BY TunFinite, FS_RemoveElement
<1> HIDE DEF S, T
<1>6. Cardinality(S) \in Nat /\ Cardinality(Tun!Announced(q)) \in Nat
  BY <1>1, TunFinite DEF S
<1> QED
  BY <1>3, <1>4, <1>5, <1>6 DEF S

(* Both queues are empty.                                                  *)
LEMMA TunInit == Tun!Init => TunInv
<1> SUFFICES ASSUME Tun!Init PROVE TunInv
  OBVIOUS
<1>1. Tun!Announced(tjobs) = {}
  BY DEF Tun!Init, Tun!Announced
<1>2. Cardinality(Tun!Announced(tjobs)) = 0
  BY <1>1, FS_EmptySet
<1>3. Tun!InStep
  BY <1>2, TunCardinality DEF Tun!Init, Tun!InStep, Tun!OnTheWay
<1>4. Tun!TypeOK
  BY DEF Tun!Init, Tun!TypeOK
<1> QED
  BY <1>3, <1>4 DEF Tun!Init, TunInv

(* A request, a command that is posted or taken, and CPU0 at the key.       *)
LEMMA TunStep == TunInv /\ [Tun!Next]_tunnel => TunInv'
<1> SUFFICES ASSUME TunInv, [Tun!Next]_tunnel PROVE TunInv'
  OBVIOUS
<1> DEFINE jn == Cardinality(Tun!Announced(tjobs))
<1>1. /\ tjobs \in Seq({"tunnel", "other"}) /\ Len(tjobs) <= JobCapacity
      /\ tunnels \in Seq(1 .. MaxTunnels) /\ Len(tunnels) <= Capacity
      /\ sender \in {"idle", "put", "post"} /\ sent \in 0 .. MaxTunnels
      /\ tcmd \in {"none", "tunnel", "other"} /\ missed \in 0 .. MaxTunnels
      /\ Len(tunnels) + (IF sender = "put" THEN 1 ELSE 0) <= sent
  BY DEF TunInv, Tun!TypeOK
<1>2. jn \in Nat
  BY <1>1, TunFinite
<1>3. Len(tunnels) = missed + (jn + (IF tcmd = "tunnel" THEN 1 ELSE 0)
                               + (IF sender = "post" THEN 1 ELSE 0))
  BY TunCardinality DEF TunInv, Tun!InStep, Tun!OnTheWay
<1> SUFFICES
      /\ tjobs' \in Seq({"tunnel", "other"}) /\ Len(tjobs') <= JobCapacity
      /\ tunnels' \in Seq(1 .. MaxTunnels) /\ Len(tunnels') <= Capacity
      /\ sender' \in {"idle", "put", "post"} /\ sent' \in 0 .. MaxTunnels
      /\ tcmd' \in {"none", "tunnel", "other"} /\ missed' \in 0 .. MaxTunnels
      /\ Len(tunnels') + (IF sender' = "put" THEN 1 ELSE 0) <= sent'
      /\ Len(tunnels') = missed' + (jn' + (IF tcmd' = "tunnel" THEN 1 ELSE 0)
                                     + (IF sender' = "post" THEN 1 ELSE 0))
  BY TunCardinality DEF TunInv, Tun!TypeOK, Tun!InStep, Tun!OnTheWay
<1>4. tjobs' = tjobs => jn' = jn
  OBVIOUS
<1>5. ASSUME NEW j \in {"tunnel", "other"}, tjobs' = Append(tjobs, j)
      PROVE  jn' = jn + (IF j = "tunnel" THEN 1 ELSE 0)
  BY <1>1, <1>5, TunAppend
<1>6. ASSUME tjobs # <<>>, tjobs' = Tail(tjobs)
      PROVE  jn = jn' + (IF Head(tjobs) = "tunnel" THEN 1 ELSE 0) /\ jn' \in Nat
  <2>1. tjobs' \in Seq({"tunnel", "other"})
    BY <1>1, <1>6
  <2> QED
    BY <1>1, <1>6, <2>1, TunTake, TunFinite
<1> HIDE DEF jn
<1>7. CASE Tun!Request
  BY <1>1, <1>2, <1>3, <1>4, <1>7 DEF Tun!Request
<1>8. CASE Tun!PutTunnel
  BY <1>1, <1>2, <1>3, <1>4, <1>8 DEF Tun!PutTunnel
<1>9. CASE Tun!PostTunnel
  BY <1>1, <1>2, <1>3, <1>5, <1>9 DEF Tun!PostTunnel
<1>10. CASE Tun!PostOther
  BY <1>1, <1>2, <1>3, <1>5, <1>10 DEF Tun!PostOther
<1>11. CASE Tun!GetJob
  <2>1. Head(tjobs) \in {"tunnel", "other"} /\ Tail(tjobs) \in Seq({"tunnel", "other"})
        /\ Len(Tail(tjobs)) = Len(tjobs) - 1
    BY <1>1, <1>11 DEF Tun!GetJob
  <2>2. /\ tcmd # "tunnel" /\ tcmd' = Head(tjobs) /\ tjobs' = Tail(tjobs)
        /\ tunnels' = tunnels /\ sender' = sender /\ sent' = sent /\ missed' = missed
        /\ jn = jn' + (IF tcmd' = "tunnel" THEN 1 ELSE 0) /\ jn' \in Nat
    BY <1>6, <1>11 DEF Tun!GetJob
  <2>3. /\ tjobs' \in Seq({"tunnel", "other"}) /\ Len(tjobs') <= JobCapacity
        /\ tcmd' \in {"none", "tunnel", "other"}
    BY <1>1, <2>1, <2>2
  <2>4. Len(tunnels) = missed + (jn' + (IF tcmd' = "tunnel" THEN 1 ELSE 0)
                                 + (IF sender = "post" THEN 1 ELSE 0))
    <3>1. jn' \in Nat /\ missed \in Nat /\ Len(tunnels) \in Nat
      BY <1>1, <2>2
    <3>2. tcmd # "tunnel"
      BY <2>2
    <3>3. Len(tunnels) = missed + (jn + (IF sender = "post" THEN 1 ELSE 0))
      BY <1>2, <1>3, <3>1, <3>2
    <3>4. jn = jn' + (IF tcmd' = "tunnel" THEN 1 ELSE 0)
      BY <2>2
    <3> QED
      BY <3>1, <3>3, <3>4
  <2> QED
    BY <1>1, <2>2, <2>3, <2>4
<1>12. CASE Tun!TakeTunnel
  <2>1. tunnels # <<>>
    BY <1>1, <1>2, <1>3, <1>12 DEF Tun!TakeTunnel
  <2>2. Tail(tunnels) \in Seq(1 .. MaxTunnels) /\ Len(Tail(tunnels)) = Len(tunnels) - 1
    BY <1>1, <2>1
  <2> QED
    BY <1>1, <1>2, <1>3, <1>4, <1>12, <2>1, <2>2 DEF Tun!TakeTunnel
<1>13. CASE Tun!KeyBusy
  BY <1>1, <1>2, <1>3, <1>4, <1>13 DEF Tun!KeyBusy
<1>14. CASE UNCHANGED tunnel
  BY <1>1, <1>2, <1>3, <1>4, <1>14 DEF tunnel
<1> QED
  BY <1>7, <1>8, <1>9, <1>10, <1>11, <1>12, <1>13, <1>14 DEF Tun!Next

HIDE TunnelAssumption

-----------------------------------------------------------------------------
(* The address.                                                            *)

USE AddressAssumption

(* A sequence of length 0 is empty.                                        *)
LEMMA EmptyIfNoLen == \A S : \A r \in Seq(S) : Len(r) = 0 => r = <<>>
<1> TAKE S
<1> TAKE r \in Seq(S)
<1> QED
  OBVIOUS

(* The address CPU0 has when it has taken all posts.                       *)
AdrLast(q, a) == IF q = <<>> THEN a ELSE q[Len(q)]

(* A task that is going to stop the DHCP client.                           *)
AdrStops == \E t \in AddressTasks :
                \/ npc[t] = "start" /\ "dhcp" \in nkey
                \/ npc[t] = "wait" /\ "dhcp" \in narg[t]
                \/ npc[t] = "release"

(* One task runs, and without DHCP only it or the link change the address: *)
(* from "set" on it is that of gtUser, and it is posted after.             *)
AdrTurns ==
    /\ \A t, u \in AddressTasks : npc[t] # "none" /\ npc[u] # "none" => t = u
    /\ \A t \in AddressTasks : npc[t] = "start" => nkey # {}
    /\ \A t \in AddressTasks :
          npc[t] \in {"wait", "release", "stop", "read", "set", "post"} => ~ndhcp
    /\ \A t \in AddressTasks : npc[t] = "dhcp" => ndhcp
    /\ \A t \in AddressTasks : npc[t] \in {"set", "post"} => nlocal[t] = nip
    /\ nnet = "post" => nip = naddr
    /\ nnet = "down" => ~nlink
    /\ ~ndhcp /\ nclient \in {"asking", "bound"} => AdrStops
    /\ ~ndhcp /\ nlink =>
          \/ naddr = nip
          \/ \E t \in AddressTasks : npc[t] \in {"start", "wait", "release", "stop", "read", "set"}
    /\ nlink /\ nnet = "idle" /\ (ndhcp => nclient = "bound") =>
          \/ AdrLast(nring, naddr0) = naddr
          \/ ~ndhcp /\ \E t \in AddressTasks :
               npc[t] \in {"start", "wait", "release", "stop", "read", "set", "post"}

(* The types are kept also when requests overlap.                          *)
AdrInv == Adr!TypeOK /\ (AddressSpaced => AdrTurns)

(* A post comes last.                                                      *)
LEMMA AdrAppend ==
    ASSUME NEW S, NEW q \in Seq(S), NEW e \in S, NEW a
    PROVE  /\ Append(q, e) \in Seq(S) /\ Len(Append(q, e)) = Len(q) + 1
           /\ AdrLast(Append(q, e), a) = e
  BY DEF AdrLast

(* Applying a post does not change what comes last.                        *)
LEMMA AdrTake ==
    ASSUME NEW S, NEW q \in Seq(S), q # <<>>, NEW a
    PROVE  /\ Head(q) \in S /\ Tail(q) \in Seq(S) /\ Len(Tail(q)) = Len(q) - 1
           /\ AdrLast(Tail(q), Head(q)) = AdrLast(q, a)
<1>1. /\ Head(q) = q[1] /\ Head(q) \in S /\ Tail(q) \in Seq(S) /\ Len(Tail(q)) = Len(q) - 1
      /\ \A k \in 1 .. Len(q) - 1 : Tail(q)[k] = q[k + 1]
      /\ Len(q) \in Nat /\ Len(q) > 0
  OBVIOUS
<1>2. CASE Len(q) = 1
  <2>1. Tail(q) = <<>>
    <3>1. Tail(q) \in Seq(S) /\ Len(Tail(q)) = 0
      BY <1>1, <1>2
    <3> QED
      BY <3>1, EmptyIfNoLen, Zenon
  <2> QED
    BY <1>1, <1>2, <2>1 DEF AdrLast
<1>3. CASE Len(q) > 1
  <2>1. Tail(q) # <<>>
    <3>1. Len(Tail(q)) # 0
      BY <1>1, <1>3
    <3>2. Len(<<>>) = 0
      OBVIOUS
    <3> QED
      BY <3>1, <3>2, Zenon
  <2>2. Tail(q)[Len(Tail(q))] = q[Len(q)]
    <3>1. Len(q) - 1 \in 1 .. Len(q) - 1 /\ Len(q) - 1 + 1 = Len(q)
      BY <1>1, <1>3
    <3>2. Tail(q)[Len(q) - 1] = q[Len(q) - 1 + 1]
      BY <1>1, <3>1, Zenon
    <3> QED
      BY <1>1, <3>1, <3>2, Zenon
  <2> QED
    BY <1>1, <2>1, <2>2, Zenon DEF AdrLast
<1> QED
  BY <1>1, <1>2, <1>3

(* gtUser and the link in the beginning.                                   *)
LEMMA AdrInit == Adr!Init => AdrInv
<1> SUFFICES ASSUME Adr!Init PROVE AdrInv
  OBVIOUS
<1>1. ndhcp \in BOOLEAN /\ nlink \in BOOLEAN /\ nbroken \in BOOLEAN /\ ~nlink
  BY Zenon DEF Adr!Init
<1>2. \A t \in AddressTasks : npc[t] = "none"
  BY DEF Adr!Init
<1>3. Adr!TypeOK
  BY <1>1 DEF Adr!Init, Adr!TypeOK
<1> QED
  BY <1>1, <1>2, <1>3 DEF Adr!Init, AdrInv, AdrTurns

(* The types, step by step.                                                *)
LEMMA AdrTypes == ASSUME Adr!TypeOK, Adr!Next PROVE Adr!TypeOK'
<1> USE DEF Adr!TypeOK, Adr!Goto, Adr!gtUser, Adr!task, Adr!netif, Adr!bounds
<1>1. ASSUME NEW d \in BOOLEAN, NEW a \in Addrs, Adr!Request(d, a) PROVE Adr!TypeOK'
  <2>1. /\ ndhcp' = d /\ nip' = a /\ nkey' \subseteq {"dhcp", "ip"}
        /\ \E t \in AddressTasks : npc' = [npc EXCEPT ![t] = "start"]
        /\ UNCHANGED <<narg, nlocal, nlink, naddr, nclient, nnet, nring, naddr0, nbroken>>
    BY <1>1 DEF Adr!Request
  <2>2. ndhcp' \in BOOLEAN /\ nlink' \in BOOLEAN /\ nbroken' \in BOOLEAN
    BY <2>1, Zenon
  <2> QED
    BY <2>1, <2>2
<1>2. ASSUME NEW t \in AddressTasks, Adr!Step(t) PROVE Adr!TypeOK'
  <2>1. CASE Adr!Start(t)
    BY <2>1 DEF Adr!Start
  <2>2. CASE Adr!Wait(t)
    BY <2>2 DEF Adr!Wait
  <2>3. CASE Adr!Release(t)
    BY <2>3 DEF Adr!Release, Adr!SetAddr
  <2>4. CASE Adr!Stop(t)
    BY <2>4 DEF Adr!Stop
  <2>5. CASE Adr!Read(t)
    BY <2>5 DEF Adr!Read
  <2>6. CASE Adr!Set(t)
    BY <2>6 DEF Adr!Set, Adr!SetAddr
  <2>7. CASE Adr!Post(t)
    BY <2>7, AdrAppend DEF Adr!Post, Adr!HasRoom
  <2>8. CASE Adr!DhcpStart(t)
    BY <2>8 DEF Adr!DhcpStart
  <2>9. CASE Adr!Clear(t)
    BY <2>9 DEF Adr!Clear
  <2> QED
    BY <1>2, <2>1, <2>2, <2>3, <2>4, <2>5, <2>6, <2>7, <2>8, <2>9 DEF Adr!Step
<1>3. CASE Adr!LinkUp
  BY <1>3 DEF Adr!LinkUp, Adr!Running
<1>4. CASE Adr!LinkDown
  BY <1>4 DEF Adr!LinkDown
<1>5. CASE Adr!PostDown
  BY <1>5, AdrAppend DEF Adr!PostDown, Adr!HasRoom
<1>6. CASE Adr!PostNet
  BY <1>6, AdrAppend DEF Adr!PostNet, Adr!HasRoom
<1>7. CASE Adr!Nak
  BY <1>7 DEF Adr!Nak, Adr!SetAddr, Adr!Running
<1>8. CASE Adr!Apply
  BY <1>8, AdrTake DEF Adr!Apply
<1>9. ASSUME NEW a \in Addrs, Adr!Bind(a) PROVE Adr!TypeOK'
  BY <1>9 DEF Adr!Bind, Adr!SetAddr, Adr!Running
<1> QED
  BY <1>1, <1>2, <1>3, <1>4, <1>5, <1>6, <1>7, <1>8, <1>9 DEF Adr!Next, Adr!Thread

(* A request comes while no task runs, and starts one.                     *)
LEMMA AdrRequest ==
    ASSUME AddressSpaced, Adr!TypeOK, AdrTurns, ~nbroken,
           NEW d \in BOOLEAN, NEW a \in Addrs, Adr!Request(d, a)
    PROVE  AdrTurns'
<1>1. /\ \A t \in AddressTasks : npc[t] = "none"
      /\ nnet = "idle" /\ ndhcp' = d /\ nip' = a /\ nkey' # {} /\ nkey' \subseteq {"dhcp", "ip"}
      /\ d # ndhcp => "dhcp" \in nkey'
      /\ \E t \in AddressTasks : npc' = [npc EXCEPT ![t] = "start"]
      /\ UNCHANGED <<narg, nlocal, nlink, naddr, nclient, nnet, nring, naddr0, nbroken>>
  BY DEF Adr!Request, Adr!Goto, Adr!netif
<1>2. PICK t \in AddressTasks : npc' = [npc EXCEPT ![t] = "start"]
  BY <1>1
<1>4. npc'[t] = "start" /\ \A u \in AddressTasks : u # t => npc'[u] = "none"
  BY <1>1, <1>2 DEF AdrTurns, Adr!TypeOK
<1>5. (~ndhcp)' /\ nclient' \in {"asking", "bound"} => AdrStops'
  BY <1>1, <1>4 DEF AdrTurns, AdrStops
<1> QED
  BY <1>1, <1>4, <1>5 DEF AdrTurns

(* The steps of the task.                                                  *)
LEMMA AdrTask ==
    ASSUME Adr!TypeOK, AdrTurns, ~nbroken, NEW t \in AddressTasks, Adr!Step(t)
    PROVE  AdrTurns'
<1>1. CASE Adr!Start(t)
  <2>2. /\ npc[t] = "start" /\ npc'[t] \in {"none", "wait", "dhcp", "clear"}
        /\ npc'[t] = "wait" <=> ~ndhcp
        /\ narg' = [narg EXCEPT ![t] = nkey] /\ UNCHANGED nclient
        /\ UNCHANGED <<ndhcp, nip, nkey, nlocal, nlink, naddr, nnet, nring, naddr0>>
    BY <1>1 DEF AdrTurns, Adr!TypeOK, Adr!Start, Adr!Goto, Adr!gtUser, Adr!netif
  <2>3. \A u \in AddressTasks : u # t => npc[u] = "none" /\ npc'[u] = "none"
    BY <1>1, <2>2 DEF AdrTurns, Adr!TypeOK, Adr!Start, Adr!Goto
  <2>4. narg'[t] = IF npc[t] = "start" THEN nkey ELSE narg[t]
    BY <2>2 DEF AdrTurns, Adr!TypeOK
  <2>5. ~ndhcp /\ nclient' \in {"asking", "bound"} => AdrStops'
    BY <2>2, <2>3, <2>4 DEF AdrTurns, AdrStops
  <2> QED
    BY <2>2, <2>3, <2>5 DEF AdrTurns
<1>2. CASE Adr!Wait(t)
  BY <1>2 DEF AdrTurns, Adr!TypeOK, AdrStops, Adr!Wait, Adr!Goto, Adr!gtUser, Adr!task,
       Adr!netif, Adr!bounds
<1>3. CASE Adr!Release(t)
  BY <1>3 DEF AdrTurns, Adr!TypeOK, AdrStops, Adr!Release, Adr!SetAddr, Adr!Goto,
       Adr!gtUser, Adr!task, Adr!netif, Adr!bounds
<1>4. CASE Adr!Stop(t)
  BY <1>4 DEF AdrTurns, Adr!TypeOK, AdrStops, Adr!Stop, Adr!Goto, Adr!gtUser, Adr!task,
       Adr!netif, Adr!bounds
<1>5. CASE Adr!Read(t)
  BY <1>5 DEF AdrTurns, Adr!TypeOK, AdrStops, Adr!Read, Adr!Goto, Adr!gtUser, Adr!task,
       Adr!netif, Adr!bounds
<1>6. CASE Adr!Set(t)
  BY <1>6 DEF AdrTurns, Adr!TypeOK, AdrStops, Adr!Set, Adr!SetAddr, Adr!Goto, Adr!gtUser, Adr!task,
       Adr!netif, Adr!bounds
<1>7. CASE Adr!Post(t)
  BY <1>7, AdrAppend DEF AdrTurns, Adr!TypeOK, AdrStops, Adr!Post, Adr!HasRoom, Adr!Goto,
       Adr!gtUser, Adr!task, Adr!netif, Adr!bounds
<1>8. CASE Adr!DhcpStart(t)
  <2>2. /\ npc[t] = "dhcp" /\ npc'[t] = "clear"
        /\ narg' = narg /\ nclient' = "asking" /\ nnet = "idle"
        /\ UNCHANGED <<ndhcp, nip, nkey, nlocal, nlink, naddr, nnet, nring, naddr0>>
    BY <1>8 DEF AdrTurns, Adr!TypeOK, Adr!DhcpStart, Adr!Goto, Adr!gtUser, Adr!netif
  <2>3. \A u \in AddressTasks : u # t => npc[u] = "none" /\ npc'[u] = "none"
    BY <1>8, <2>2 DEF AdrTurns, Adr!TypeOK, Adr!DhcpStart, Adr!Goto
  <2>4. narg'[t] = IF npc[t] = "start" THEN nkey ELSE narg[t]
    BY <2>2 DEF AdrTurns, Adr!TypeOK
  <2>5. ~ndhcp /\ nclient' \in {"asking", "bound"} => AdrStops'
    BY <2>2, <2>3, <2>4 DEF AdrTurns, AdrStops
  <2> QED
    BY <2>2, <2>3, <2>5 DEF AdrTurns
<1>9. CASE Adr!Clear(t)
  BY <1>9 DEF AdrTurns, Adr!TypeOK, AdrStops, Adr!Clear, Adr!Goto, Adr!gtUser, Adr!task,
       Adr!netif, Adr!bounds
<1> QED
  BY <1>1, <1>2, <1>3, <1>4, <1>5, <1>6, <1>7, <1>8, <1>9 DEF Adr!Step

(* lwIP's thread, and CPU0.                                                *)
LEMMA AdrThread ==
    ASSUME Adr!TypeOK, AdrTurns, ~nbroken, Adr!Thread \/ Adr!Apply PROVE AdrTurns'
<1> USE DEF AdrTurns, Adr!TypeOK, AdrStops, Adr!gtUser, Adr!task, Adr!netif, Adr!bounds
<1>1. CASE Adr!LinkUp
  BY <1>1 DEF Adr!LinkUp, Adr!Running
<1>2. CASE Adr!LinkDown
  BY <1>2 DEF Adr!LinkDown
<1>3. CASE Adr!PostDown
  BY <1>3, AdrAppend DEF Adr!PostDown, Adr!HasRoom
<1>4. CASE Adr!PostNet
  BY <1>4, AdrAppend, SMTT(30) DEF Adr!PostNet, Adr!HasRoom
<1>5. CASE Adr!Nak
  BY <1>5 DEF Adr!Nak, Adr!SetAddr, Adr!Running
<1>6. CASE Adr!Apply
  BY <1>6, AdrTake DEF Adr!Apply
<1>7. ASSUME NEW a \in Addrs, Adr!Bind(a) PROVE AdrTurns'
  BY <1>7 DEF Adr!Bind, Adr!SetAddr, Adr!Running
<1> QED
  BY <1>1, <1>2, <1>3, <1>4, <1>5, <1>6, <1>7 DEF Adr!Thread

(* Every step of the address.                                              *)
LEMMA AdrStep == AdrInv /\ [Adr!Next]_address => AdrInv'
<1> SUFFICES ASSUME AdrInv, [Adr!Next]_address PROVE AdrInv'
  OBVIOUS
<1>1. CASE Adr!Next
  <2>1. Adr!TypeOK'
    BY <1>1, AdrTypes DEF AdrInv
  <2>2. ASSUME AddressSpaced PROVE AdrTurns'
    BY <1>1, <2>2, AdrRequest, AdrTask, AdrThread DEF AdrInv, Adr!Next
  <2> QED
    BY <2>1, <2>2 DEF AdrInv
<1>2. CASE UNCHANGED address
  BY <1>2 DEF address, AdrInv, AdrTurns, Adr!TypeOK, AdrStops
<1> QED
  BY <1>1, <1>2

(* At rest there is no task that could be the exception.                   *)
LEMMA AdrAgrees == AddressSpaced /\ AdrInv => AddressesAgree
  BY DEF AdrInv, AdrTurns, AddressesAgree, Adr!AddressesAgree, Adr!AtRest, Adr!Running, AdrLast,
         AdrStops

HIDE AddressAssumption

-----------------------------------------------------------------------------
(* The recorder.                                                           *)

USE RecorderAssumption

(* A set of numbers that is not empty has a least one: the smallest of the *)
(* intervals from 0 to its numbers ends there.                             *)
LEMMA RecLeast == ASSUME NEW S \in SUBSET Nat, S # {} PROVE Rec!Min(S) \in S
<1> DEFINE T == {0 .. x : x \in S}
           R == StrictSubsetOrdering(Nat)
<1>1. T \subseteq FiniteSubsetsOf(Nat) /\ T # {}
  <2>1. \A x \in S : 0 .. x \in FiniteSubsetsOf(Nat)
    BY FS_Interval DEF FiniteSubsetsOf
  <2> QED
    BY <2>1
<1>2. \E A \in T : \A B \in T : ~ (<<B, A>> \in R)
  <2>1. IsWellFoundedOn(R, FiniteSubsetsOf(Nat))
    BY FS_StrictSubsetOrderingWellFounded, Zenon
  <2> HIDE DEF T, R
  <2> QED
    BY <1>1, <2>1, WFMin, Zenon
<1>3. PICK m \in S : \A y \in S : ~ (<<0 .. y, 0 .. m>> \in R)
  BY <1>2
<1>4. ASSUME NEW y \in S PROVE m =< y
  <2>1. m \in Nat /\ y \in Nat
    OBVIOUS
  <2>2. CASE y < m
    <3>1. 0 .. y \in SUBSET Nat /\ 0 .. m \in SUBSET Nat /\ 0 .. y \subseteq 0 .. m
          /\ m \in 0 .. m /\ m \notin 0 .. y
      BY <2>1, <2>2
    <3> QED
      BY <1>3, <3>1 DEF StrictSubsetOrdering
  <2> QED
    BY <2>1, <2>2
<1> QED
  BY <1>4 DEF Rec!Min

(* The last I picture of a ring is where the interrupt's count has it, if  *)
(* it still is in the ring.                                                *)
RecLastI(s, d) == d < Len(s) => s[Len(s) - d] = "I"

(* A picture is put into a ring: the ring keeps its room.  If it was full  *)
(* and holds a group of pictures, it now begins with an I picture.         *)
LEMMA RecPut ==
    ASSUME NEW s \in Seq(Rec!Slices), Len(s) < RecSlots, NEW x \in Rec!Slices,
           NEW d \in 0 .. RecGop - 1, x = "P" => d < RecGop - 1
    PROVE  /\ Rec!Put(s, x) \in Seq(Rec!Slices) /\ Rec!Put(s, x) # <<>>
           /\ Len(Rec!Put(s, x)) < RecSlots
           /\ ~Rec!IsFull(s) /\ s # <<>> => Head(Rec!Put(s, x)) = Head(s)
           /\ RecGop < RecSlots /\ RecLastI(s, d) =>
                /\ RecLastI(Rec!Put(s, x), IF x = "I" THEN 0 ELSE d + 1)
                /\ Rec!IsFull(s) => Head(Rec!Put(s, x)) = "I"
<1> DEFINE later == {i \in 2 .. Len(s) : s[i] = "I"}
           m == Rec!Min(later)
<1>1. Len(s) \in Nat /\ (s = <<>> <=> Len(s) = 0)
  OBVIOUS
<1>2. CASE ~Rec!IsFull(s)
  <2>1. Rec!Put(s, x) = Append(s, x)
    BY <1>2 DEF Rec!Put
  <2> QED
    BY <1>1, <1>2, <2>1 DEF Rec!IsFull, RecLastI
<1>3. CASE Rec!IsFull(s) /\ later = {}
  <2>1. Rec!Put(s, x) = Append(<<>>, x)
    BY <1>3 DEF Rec!Put
  <2>2. RecGop < RecSlots /\ RecLastI(s, d) => x = "I"
    <3>1. SUFFICES ASSUME RecGop < RecSlots, RecLastI(s, d), x = "P" PROVE FALSE
      BY DEF Rec!Slices
    <3>2. Len(s) - d \in 2 .. Len(s)
      BY <1>1, <1>3, <3>1 DEF Rec!IsFull
    <3>3. s[Len(s) - d] = "I"
      BY <1>1, <3>1, <3>2 DEF RecLastI
    <3> QED
      BY <1>3, <3>2, <3>3
  <2> QED
    BY <1>3, <2>1, <2>2 DEF Rec!IsFull, RecLastI
<1>4. CASE Rec!IsFull(s) /\ later # {}
  <2>1. m \in 2 .. Len(s) /\ s[m] = "I"
    <3>1. later \in SUBSET Nat
      OBVIOUS
    <3> QED
      BY <1>4, <3>1, RecLeast
  <2> DEFINE t == SubSeq(s, m, Len(s))
  <2>2. Rec!Put(s, x) = Append(t, x)
    BY <1>4 DEF Rec!Put
  <2>3. /\ t \in Seq(Rec!Slices) /\ Len(t) = Len(s) - m + 1 /\ Head(t) = "I"
        /\ \A k \in 1 .. Len(t) : t[k] = s[m + k - 1]
    <3> HIDE DEF m
    <3> QED
      BY <1>1, <2>1
  <2> HIDE DEF t, m
  <2> DEFINE u == Append(t, x)
  <2>4. /\ u \in Seq(Rec!Slices) /\ Len(u) = Len(t) + 1 /\ u[Len(t) + 1] = x
        /\ \A k \in 1 .. Len(t) : u[k] = t[k]
        /\ Len(t) \in Nat /\ Len(t) > 0 /\ Head(u) = u[1] /\ Head(t) = t[1]
    <3>1. Len(t) \in Nat /\ Len(t) > 0
      BY <1>1, <2>1, <2>3
    <3>2. u \in Seq(Rec!Slices) /\ Len(u) = Len(t) + 1 /\ u[Len(t) + 1] = x
          /\ \A k \in 1 .. Len(t) : u[k] = t[k]
      BY <2>3, <3>1, AppendProperties
    <3> HIDE DEF u
    <3>3. Head(t) = t[1] /\ Head(u) = u[1]
      BY <2>3, <3>1, <3>2
    <3> QED
      BY <3>1, <3>2, <3>3
  <2> HIDE DEF u
  <2>5. RecLastI(s, d) => RecLastI(u, IF x = "I" THEN 0 ELSE d + 1)
    <3>1. CASE x = "I"
      BY <2>3, <2>4, <3>1 DEF RecLastI
    <3>2. CASE x = "P"
      <4> DEFINE k == Len(t) - d
      <4>1. CASE d < Len(t)
        <5>1. k \in 1 .. Len(t) /\ m + k - 1 = Len(s) - d /\ d < Len(s) /\ Len(u) - (d + 1) = k
          <6>1. d \in Nat /\ Len(t) \in Nat /\ Len(s) \in Nat /\ m \in Nat /\ m >= 2
                /\ Len(t) = Len(s) - m + 1 /\ Len(u) = Len(t) + 1
            BY <1>1, <2>1, <2>3, <2>4
          <6> QED
            BY <4>1, <6>1, SMTT(30)
        <5> HIDE DEF k
        <5>2. u[k] = t[k] /\ t[k] = s[m + k - 1]
          BY <2>3, <2>4, <5>1
        <5>3. RecLastI(s, d) => s[Len(s) - d] = "I"
          BY <5>1 DEF RecLastI
        <5> QED
          BY <3>2, <5>1, <5>2, <5>3 DEF RecLastI
      <4>2. CASE ~(d < Len(t))
        BY <2>4, <3>2, <4>2 DEF RecLastI
      <4> QED
        BY <4>1, <4>2
    <3> QED
      BY <3>1, <3>2 DEF Rec!Slices
  <2> QED
    <3>1. Rec!Put(s, x) = u
      BY <2>2 DEF u
    <3>2. u # <<>> /\ Len(u) < RecSlots
      BY <1>1, <1>4, <2>1, <2>3, <2>4 DEF Rec!IsFull
    <3> QED
      BY <1>4, <2>3, <2>4, <2>5, <3>1, <3>2
<1> QED
  BY <1>2, <1>3, <1>4

(* A recorder whose file misses something goes on with an I picture.       *)
RecWhole(r) == gap[r] => buf[r] # <<>> /\ Head(buf[r]) = "I"

(* The rings, and what a file goes on with while it is written to.         *)
RecRings ==
    /\ \A r \in Rec!Recorders : RecLastI(buf[r], since)
    /\ \A r \in Rec!Recorders : rstate[r] = "WRITE" => RecWhole(r)
    /\ rpc \in {"write", "peek", "get", "written"} => RecWhole(me)

(* Where the task is.                                                      *)
RecAt ==
    /\ rpc = "get" => buf[me] # <<>>
    /\ rpc = "first" => rstate[me] \in {"FIRST", "EXIT", "IDLE"}
    /\ rpc = "next" => rstate[me] \in {"NEXT", "EXIT", "IDLE"}
    /\ rpc = "open" => rstate[me] \in {"OPEN", "EXIT", "IDLE"}

RecOther == IF me = "event" THEN "normal" ELSE "event"

(* Whose file is open, and when both recorders run.                        *)
RecFiles ==
    /\ \A r \in Rec!Recorders : file[r] => rec[r]
    /\ \A r \in Rec!Recorders : rstate[r] = "IDLE" => ~file[r]
    /\ rpc = "open" => ~file[me]
    /\ rpc # "wait" => rec[me]
    /\ rpc \in {"preempt", "closeNormal"} => me = "event" /\ rec["normal"]
    /\ rpc \notin {"wait", "preempt", "closeNormal"} => ~file[RecOther]
    /\ \A r \in Rec!Recorders : rstate[r] = "CLOSE" =>
          \/ rpc = "closeNormal" /\ r = "normal"
          \/ rpc = "closeFull" /\ r = me

(* What a request that is taken up leaves behind.                          *)
RecTurns ==
    /\ rec["normal"] /\ rec["event"] => on /\ card = "save" /\ check = "poll"
    /\ on /\ card = "save" => \A r \in Rec!Recorders : rstate[r] # "EXIT"
    /\ (on /\ card = "idle") \/ check = "go" => Rec!Stopped /\ rpc = "wait"
    /\ check = "go" => on /\ card = "save"

(* The rings have to be long enough for a group, and for the files         *)
(* requests have to wait; neither needs the other.                         *)
RecInv ==
    /\ Rec!TypeOK /\ RecAt
    /\ RecGop < RecSlots => RecRings
    /\ RecSpaced => RecFiles /\ RecTurns

(* Both rings are empty, and no file is open.                              *)
LEMMA RecInit == Rec!Init => RecInv
<1> SUFFICES ASSUME Rec!Init PROVE RecInv
  OBVIOUS
<1>1. Rec!TypeOK
  BY DEF Rec!Init, Rec!TypeOK, Rec!Recorders, Rec!Slices
<1>2. RecRings
  BY DEF Rec!Init, RecRings, RecLastI, RecWhole, Rec!Recorders
<1>3. RecFiles
  BY DEF Rec!Init, RecFiles, RecOther, Rec!Recorders
<1>4. RecTurns
  BY DEF Rec!Init, RecTurns, Rec!Stopped, Rec!Recorders
<1>5. RecAt
  BY DEF Rec!Init, RecAt
<1> QED
  BY <1>1, <1>2, <1>3, <1>4, <1>5 DEF RecInv

(* A picture comes: a ring that is not full keeps its head.                *)
LEMMA RecPicture == ASSUME RecInv, NEW x \in Rec!Slices, Rec!Picture(x) PROVE RecInv'
<1>1. /\ x = "P" => since < RecGop - 1
      /\ since' = IF x = "I" THEN 0 ELSE since + 1
      /\ buf' = [r \in Rec!Recorders |-> Rec!Put(buf[r], x)]
      /\ gap' = [r \in Rec!Recorders |-> gap[r] \/ Rec!IsFull(buf[r])]
      /\ sem' = IF sem < RecSlots THEN sem + 1 ELSE sem
      /\ UNCHANGED <<on, card, check, rec, rstate, file, rpc, me, rmode>>
  BY DEF Rec!Picture, Rec!settings, Rec!task
<1>2. /\ \A r \in Rec!Recorders : buf[r] \in Seq(Rec!Slices) /\ Len(buf[r]) < RecSlots
                                  /\ (RecGop < RecSlots => RecLastI(buf[r], since))
      /\ since \in 0 .. RecGop - 1
  BY DEF RecInv, RecRings, Rec!TypeOK
<1>3. ASSUME NEW r \in Rec!Recorders
      PROVE  /\ buf'[r] \in Seq(Rec!Slices) /\ buf'[r] # <<>> /\ Len(buf'[r]) < RecSlots
             /\ RecGop < RecSlots => /\ RecLastI(buf'[r], since')
                                     /\ Rec!IsFull(buf[r]) => Head(buf'[r]) = "I"
             /\ ~Rec!IsFull(buf[r]) /\ buf[r] # <<>> => Head(buf'[r]) = Head(buf[r])
             /\ gap'[r] <=> gap[r] \/ Rec!IsFull(buf[r])
  <2>1. buf'[r] = Rec!Put(buf[r], x) /\ (gap'[r] <=> gap[r] \/ Rec!IsFull(buf[r]))
    BY <1>1, Zenon
  <2> QED
    BY <1>1, <1>2, <2>1, RecPut
<1>4. RecGop < RecSlots => \A r \in Rec!Recorders : RecWhole(r) => RecWhole(r)'
  BY <1>3 DEF RecWhole
<1>5. Rec!TypeOK'
  <2>1. gap' \in [Rec!Recorders -> BOOLEAN]
    BY <1>1, Zenon DEF Rec!IsFull
  <2> QED
    BY <1>1, <1>3, <2>1 DEF RecInv, Rec!TypeOK, Rec!Slices
<1>6. (RecGop < RecSlots => RecRings') /\ RecAt'
  BY <1>1, <1>3, <1>4 DEF RecInv, RecRings, RecAt, Rec!TypeOK
<1>7. RecSpaced => RecFiles' /\ RecTurns'
  BY <1>1 DEF RecInv, RecFiles, RecOther, RecTurns, Rec!Stopped
<1> QED
  BY <1>5, <1>6, <1>7 DEF RecInv

(* The user and CheckSDstate; a request waits for the one before.          *)
LEMMA RecUser == ASSUME RecInv, Rec!Turn \/ Rec!Event \/ Rec!Check PROVE RecInv'
<1> USE DEF RecInv, Rec!TypeOK, RecRings, RecAt, RecFiles, RecTurns, RecOther, RecWhole,
        Rec!Stopped, Rec!TakenUp, Rec!settings, Rec!rings, Rec!task, Rec!Recorders
<1>1. CASE Rec!Turn
  BY <1>1 DEF Rec!Turn
<1>2. CASE Rec!Event
  BY <1>2 DEF Rec!Event
<1>3. CASE Rec!SeeOn
  BY <1>3 DEF Rec!SeeOn
<1>4. CASE Rec!Go
  BY <1>4 DEF Rec!Go
<1>5. CASE Rec!SeeOff
  BY <1>5 DEF Rec!SeeOff
<1> QED
  BY <1>1, <1>2, <1>3, <1>4, <1>5 DEF Rec!Check

(* Where a recorder goes on, and where it waits.                           *)
LEMMA RecGoesOn ==
    ASSUME NEW s \in {"OPEN", "FIRST", "NEXT", "WRITE", "CLOSE", "EXIT"}
    PROVE  /\ s = "FIRST" => Rec!GoesOn(s) = "first"
           /\ s = "NEXT" => Rec!GoesOn(s) = "next"
           /\ s = "WRITE" => Rec!GoesOn(s) = "write"
           /\ s = "EXIT" => Rec!GoesOn(s) = "closeExit"
           /\ s \in {"OPEN", "CLOSE"} => Rec!GoesOn(s) = "wait"
  BY Zenon DEF Rec!GoesOn

(* A picture is taken from a ring: the last I picture stays where it is.   *)
LEMMA RecTail ==
    ASSUME NEW s \in Seq(Rec!Slices), s # <<>>, NEW d \in Nat
    PROVE  /\ Tail(s) \in Seq(Rec!Slices) /\ Len(Tail(s)) = Len(s) - 1
           /\ RecLastI(s, d) => RecLastI(Tail(s), d)
<1>1. /\ Tail(s) \in Seq(Rec!Slices) /\ Len(Tail(s)) = Len(s) - 1
      /\ \A k \in 1 .. Len(s) - 1 : Tail(s)[k] = s[k + 1]
      /\ Len(s) \in Nat
  OBVIOUS
<1>2. ASSUME RecLastI(s, d), d < Len(Tail(s)) PROVE Tail(s)[Len(Tail(s)) - d] = "I"
  <2>1. Len(s) - 1 - d \in 1 .. Len(s) - 1 /\ (Len(s) - 1 - d) + 1 = Len(s) - d /\ d < Len(s)
    BY <1>1, <1>2
  <2>2. RecLastI(s, d) => s[Len(s) - d] = "I"
    BY <2>1 DEF RecLastI
  <2> QED
    BY <1>1, <1>2, <2>1, <2>2
<1> QED
  BY <1>1, <1>2 DEF RecLastI

(* The same for the recorder that is worked for.                           *)
LEMMA RecGet ==
    ASSUME RecInv, NEW w \in BOOLEAN, Rec!Get(w), buf[me] # <<>>, UNCHANGED since
    PROVE  /\ \A r \in Rec!Recorders : buf'[r] \in Seq(Rec!Slices) /\ Len(buf'[r]) < RecSlots
                                       /\ (RecGop < RecSlots => RecLastI(buf'[r], since'))
           /\ \A r \in Rec!Recorders \ {me} : buf'[r] = buf[r] /\ gap'[r] = gap[r]
           /\ gap' \in [Rec!Recorders -> BOOLEAN] /\ (gap'[me] <=> ~w)
<1>1. gap' = [gap EXCEPT ![me] = ~w] /\ since' = since /\ me \in Rec!Recorders
      /\ gap \in [Rec!Recorders -> BOOLEAN] /\ since \in Nat
  BY DEF Rec!Get, RecInv, Rec!TypeOK
<1>2. /\ \A r \in Rec!Recorders : buf[r] \in Seq(Rec!Slices) /\ Len(buf[r]) < RecSlots
                                  /\ (RecGop < RecSlots => RecLastI(buf[r], since))
      /\ Tail(buf[me]) \in Seq(Rec!Slices) /\ Len(Tail(buf[me])) = Len(buf[me]) - 1
      /\ (RecGop < RecSlots => RecLastI(Tail(buf[me]), since))
  <2>1. \A r \in Rec!Recorders : buf[r] \in Seq(Rec!Slices) /\ Len(buf[r]) < RecSlots
                                 /\ (RecGop < RecSlots => RecLastI(buf[r], since))
    BY DEF RecInv, Rec!TypeOK, RecRings
  <2> QED
    BY <1>1, <2>1, RecTail, Zenon
<1>3. buf' = [buf EXCEPT ![me] = Tail(buf[me])] /\ DOMAIN buf = Rec!Recorders
  BY DEF Rec!Get, RecInv, Rec!TypeOK
<1>4. \A r \in Rec!Recorders : buf'[r] = IF r = me THEN Tail(buf[me]) ELSE buf[r]
  BY <1>1, <1>3
<1>5. ASSUME NEW r \in Rec!Recorders
      PROVE  /\ buf'[r] \in Seq(Rec!Slices) /\ Len(buf'[r]) < RecSlots
             /\ (RecGop < RecSlots => RecLastI(buf'[r], since'))
  <2>1. CASE r = me
    <3>1. Len(buf[me]) \in Nat /\ Len(buf[me]) < RecSlots
      BY <1>1, <1>2
    <3>2. Len(Tail(buf[me])) < RecSlots
      BY <1>2, <3>1
    <3> QED
      BY <1>1, <1>2, <1>4, <2>1, <3>2, Zenon
  <2>2. CASE r # me
    BY <1>1, <1>2, <1>4, <2>2, Zenon
  <2> QED
    BY <2>1, <2>2
<1> QED
  BY <1>1, <1>4, <1>5

(* The steps of the task that take no picture.                             *)
LEMMA RecTask ==
    ASSUME RecInv, Rec!Wake \/ Rec!Preempt \/ Rec!CloseNormal \/ Rec!CloseFull \/ Rec!CloseExit
                     \/ Rec!Process \/ Rec!Open \/ Rec!WriteTest \/ Rec!Peek
    PROVE  RecInv'
<1> USE DEF Rec!TypeOK, Rec!From, Rec!Goto, Rec!SetState, Rec!Recorders, Rec!settings, Rec!rings
<1>1. CASE Rec!Wake
  <2> USE <1>1 DEF Rec!Wake, Rec!Nothing
  <2>1. Rec!TypeOK'
    BY DEF RecInv
  <2>2. (RecGop < RecSlots => RecRings') /\ RecAt'
    BY DEF RecInv, RecAt, RecRings, RecWhole
  <2>3. RecSpaced => RecFiles'
    BY DEF RecInv, RecAt, RecFiles, RecTurns, RecOther, Rec!Stopped
  <2>4. RecSpaced => RecTurns'
    BY DEF RecInv, RecAt, RecFiles, RecTurns, Rec!Stopped
  <2> QED
    BY <2>1, <2>2, <2>3, <2>4 DEF RecInv
<1>2. CASE Rec!Preempt
  <2> USE <1>2 DEF Rec!Preempt
  <2>1. Rec!TypeOK'
    <3>1. CASE rstate["normal"] \in {"OPEN", "FIRST", "NEXT", "WRITE"}
      BY <3>1 DEF RecInv
    <3>2. CASE rstate["normal"] \notin {"OPEN", "FIRST", "NEXT", "WRITE"}
      <4>1. /\ rec' = [rec EXCEPT !["normal"] = FALSE] /\ rpc' = "process"
            /\ UNCHANGED <<on, card, check, since, rstate, file, buf, gap, sem, me, rmode>>
        BY <3>2, Zenon
      <4> HIDE DEF Rec!Preempt
      <4> QED
        BY <4>1 DEF RecInv
    <3> QED
      BY <3>1, <3>2
  <2>2. (RecGop < RecSlots => RecRings') /\ RecAt'
    BY DEF RecInv, RecAt, RecRings, RecWhole
  <2>3. RecSpaced => RecFiles'
    BY DEF RecInv, RecAt, RecFiles, RecTurns, RecOther, Rec!Stopped
  <2>4. RecSpaced => RecTurns'
    BY DEF RecInv, RecAt, RecFiles, RecTurns, Rec!Stopped
  <2> QED
    BY <2>1, <2>2, <2>3, <2>4 DEF RecInv
<1>3. CASE Rec!CloseNormal
  <2> USE <1>3 DEF Rec!CloseNormal, Rec!Closed
  <2>1. Rec!TypeOK'
    BY DEF RecInv
  <2>2. (RecGop < RecSlots => RecRings') /\ RecAt'
    BY DEF RecInv, RecAt, RecRings, RecWhole
  <2>3. RecSpaced => RecFiles'
    BY DEF RecInv, RecAt, RecFiles, RecTurns, RecOther, Rec!Stopped
  <2>4. RecSpaced => RecTurns'
    BY DEF RecInv, RecAt, RecFiles, RecTurns, Rec!Stopped
  <2> QED
    BY <2>1, <2>2, <2>3, <2>4 DEF RecInv
<1>4. CASE Rec!CloseFull
  <2> USE <1>4 DEF Rec!CloseFull, Rec!Closed
  <2>1. Rec!TypeOK'
    <3>1. CASE me = "event"
      BY <3>1 DEF RecInv
    <3>2. CASE me # "event"
      BY <3>2 DEF RecInv
    <3> QED
      BY <3>1, <3>2
  <2>2. (RecGop < RecSlots => RecRings') /\ RecAt'
    BY DEF RecInv, RecAt, RecRings, RecWhole
  <2>3. RecSpaced => RecFiles'
    BY DEF RecInv, RecAt, RecFiles, RecTurns, RecOther, Rec!Stopped
  <2>4. RecSpaced => RecTurns'
    BY DEF RecInv, RecAt, RecFiles, RecTurns, Rec!Stopped
  <2> QED
    BY <2>1, <2>2, <2>3, <2>4 DEF RecInv
<1>5. CASE Rec!CloseExit
  <2> USE <1>5 DEF Rec!CloseExit, Rec!Closed, Rec!AllStop
  <2>1. Rec!TypeOK'
    BY DEF RecInv
  <2>2. (RecGop < RecSlots => RecRings') /\ RecAt'
    BY DEF RecInv, RecAt, RecRings, RecWhole
  <2>3. RecSpaced => RecFiles'
    BY DEF RecInv, RecAt, RecFiles, RecTurns, RecOther, Rec!Stopped
  <2>4. RecSpaced => RecTurns'
    BY DEF RecInv, RecAt, RecFiles, RecTurns, Rec!Stopped
  <2> QED
    BY <2>1, <2>2, <2>3, <2>4 DEF RecInv
<1>6. CASE Rec!Process
  <2> USE <1>6 DEF Rec!Process, Rec!AllStop
  <2>0. rstate[me] # "IDLE" => rpc' \in {"first", "next", "write", "closeExit", "wait"}
    BY RecGoesOn DEF RecInv
  <2>1. Rec!TypeOK'
    <3>1. CASE rstate[me] = "IDLE" /\ ~on
      BY <3>1 DEF RecInv
    <3>2. CASE rstate[me] = "IDLE" /\ on
      BY <3>2 DEF RecInv
    <3>3. CASE rstate[me] # "IDLE"
      BY <2>0, <3>3 DEF RecInv
    <3> QED
      BY <3>1, <3>2, <3>3
  <2>2. (RecGop < RecSlots => RecRings') /\ RecAt'
    BY RecGoesOn DEF RecInv, RecAt, RecRings, RecWhole
  <2>3. RecSpaced => RecFiles'
    BY RecGoesOn DEF RecInv, RecAt, RecFiles, RecTurns, RecOther, Rec!Stopped
  <2>4. RecSpaced => RecTurns'
    BY RecGoesOn DEF RecInv, RecAt, RecFiles, RecTurns, Rec!Stopped
  <2> QED
    BY <2>1, <2>2, <2>3, <2>4 DEF RecInv
<1>7. CASE Rec!Open
  <2> USE <1>7 DEF Rec!Open
  <2>1. Rec!TypeOK'
    BY DEF RecInv
  <2>2. (RecGop < RecSlots => RecRings') /\ RecAt'
    BY DEF RecInv, RecAt, RecRings, RecWhole
  <2>3. RecSpaced => RecFiles'
    BY DEF RecInv, RecAt, RecFiles, RecTurns, RecOther, Rec!Stopped
  <2>4. RecSpaced => RecTurns'
    BY DEF RecInv, RecAt, RecFiles, RecTurns, Rec!Stopped
  <2> QED
    BY <2>1, <2>2, <2>3, <2>4 DEF RecInv
<1>8. CASE Rec!WriteTest
  <2> USE <1>8 DEF Rec!WriteTest
  <2>1. Rec!TypeOK'
    BY DEF RecInv
  <2>2. (RecGop < RecSlots => RecRings') /\ RecAt'
    BY DEF RecInv, RecAt, RecRings, RecWhole
  <2>3. RecSpaced => RecFiles'
    BY DEF RecInv, RecAt, RecFiles, RecTurns, RecOther, Rec!Stopped
  <2>4. RecSpaced => RecTurns'
    BY DEF RecInv, RecAt, RecFiles, RecTurns, Rec!Stopped
  <2> QED
    BY <2>1, <2>2, <2>3, <2>4 DEF RecInv
<1>9. CASE Rec!Peek
  <2> USE <1>9 DEF Rec!Peek
  <2>1. Rec!TypeOK'
    BY DEF RecInv
  <2>2. (RecGop < RecSlots => RecRings') /\ RecAt'
    BY DEF RecInv, RecAt, RecRings, RecWhole
  <2>3. RecSpaced => RecFiles'
    BY DEF RecInv, RecAt, RecFiles, RecTurns, RecOther, Rec!Stopped
  <2>4. RecSpaced => RecTurns'
    BY DEF RecInv, RecAt, RecFiles, RecTurns, Rec!Stopped
  <2> QED
    BY <2>1, <2>2, <2>3, <2>4 DEF RecInv
<1> QED
  BY <1>1, <1>2, <1>3, <1>4, <1>5, <1>6, <1>7, <1>8, <1>9

(* The steps of the task that may take a picture.                          *)
LEMMA RecTake == ASSUME RecInv, Rec!First \/ Rec!NextI \/ Rec!Write PROVE RecInv'
<1> USE DEF Rec!From, Rec!Goto, Rec!SetState, Rec!settings
<1>1. UNCHANGED <<on, card, check, rec, file, sem, me, rmode, since>>
  BY DEF Rec!First, Rec!NextI, Rec!Write
<1>2. \/ UNCHANGED <<buf, gap>>
      \/ buf[me] # <<>> /\ \E w \in BOOLEAN : Rec!Get(w)
  BY DEF Rec!First, Rec!NextI, Rec!Write, RecInv, RecAt
<1>3. /\ buf' \in [Rec!Recorders -> Seq(Rec!Slices)] /\ gap' \in [Rec!Recorders -> BOOLEAN]
      /\ \A r \in Rec!Recorders :
            Len(buf'[r]) < RecSlots /\ (RecGop < RecSlots => RecLastI(buf'[r], since'))
      /\ \A r \in Rec!Recorders \ {me} : buf'[r] = buf[r] /\ gap'[r] = gap[r]
  <2>1. CASE UNCHANGED <<buf, gap>>
    BY <1>1, <2>1 DEF RecInv, Rec!TypeOK, RecRings
  <2>2. ASSUME buf[me] # <<>>, NEW w \in BOOLEAN, Rec!Get(w)
        PROVE  /\ buf' \in [Rec!Recorders -> Seq(Rec!Slices)] /\ gap' \in [Rec!Recorders -> BOOLEAN]
               /\ \A r \in Rec!Recorders :
                     Len(buf'[r]) < RecSlots /\ (RecGop < RecSlots => RecLastI(buf'[r], since'))
               /\ \A r \in Rec!Recorders \ {me} : buf'[r] = buf[r] /\ gap'[r] = gap[r]
    <3>1. buf' \in [Rec!Recorders -> Seq(Rec!Slices)]
      <4>1. buf' = [buf EXCEPT ![me] = Tail(buf[me])] /\ buf \in [Rec!Recorders -> Seq(Rec!Slices)]
            /\ me \in Rec!Recorders
        BY <2>2 DEF Rec!Get, RecInv, Rec!TypeOK
      <4> QED
        BY <2>2, <4>1
    <3> QED
      BY <1>1, <2>2, <3>1, RecGet
  <2> QED
    BY <1>2, <2>1, <2>2
<1> USE DEF Rec!First, Rec!NextI, Rec!Write, Rec!Get
<1>4. Rec!TypeOK'
  BY <1>1, <1>3 DEF RecInv, Rec!TypeOK, Rec!Recorders
<1>5. (RecGop < RecSlots => RecRings') /\ RecAt'
  <2>1. RecGop < RecSlots => \A r \in Rec!Recorders : rstate'[r] = "WRITE" => RecWhole(r)'
    BY <1>1, <1>3 DEF RecInv, Rec!TypeOK, RecAt, RecRings, RecWhole, Rec!Recorders
  <2>2. RecGop < RecSlots /\ rpc' \in {"write", "peek", "get", "written"} => RecWhole(me)'
    BY <1>1, <1>3 DEF RecInv, Rec!TypeOK, RecAt, RecRings, RecWhole, Rec!Recorders
  <2> QED
    BY <1>1, <1>3, <2>1, <2>2 DEF RecInv, Rec!TypeOK, RecAt, RecRings, Rec!Recorders
<1>6. RecSpaced => RecFiles'
  BY <1>1 DEF RecInv, Rec!TypeOK, RecAt, RecFiles, RecOther, Rec!Recorders
<1>7. RecSpaced => RecTurns'
  BY <1>1 DEF RecInv, Rec!TypeOK, RecAt, RecFiles, RecTurns, Rec!Stopped, Rec!Recorders
<1> QED
  BY <1>4, <1>5, <1>6, <1>7 DEF RecInv

(* Every step of the recorder.                                             *)
LEMMA RecStep == RecInv /\ [Rec!Next]_recorder => RecInv'
<1> SUFFICES ASSUME RecInv, [Rec!Next]_recorder PROVE RecInv'
  OBVIOUS
<1>1. CASE \E x \in Rec!Slices : Rec!Picture(x)
  BY <1>1, RecPicture
<1>2. CASE Rec!Turn \/ Rec!Event \/ Rec!Check
  BY <1>2, RecUser
<1>3. CASE Rec!Task
  BY <1>3, RecTask, RecTake DEF Rec!Task
<1>4. CASE UNCHANGED recorder
  BY <1>4 DEF recorder, RecInv, Rec!TypeOK, RecAt, RecRings, RecFiles, RecTurns, RecOther, RecWhole,
       Rec!Stopped
<1> QED
  BY <1>1, <1>2, <1>3, <1>4 DEF Rec!Next

(* At the start of a file nothing is open; the next picture that is taken  *)
(* follows what the file holds, or is an I picture.                        *)
LEMMA RecKeeps ==
    RecInv => /\ RecSpaced => Rec!NoFileLost
              /\ RecGop < RecSlots /\ rpc = "get" /\ rpc' = "written" /\ Head(buf[me]) = "P"
                   => ~gap[me]
  BY DEF RecInv, RecRings, RecWhole, RecFiles, Rec!NoFileLost

HIDE RecorderAssumption

-----------------------------------------------------------------------------
(* The timers.                                                             *)

USE TimerAssumption

(* The main loop is arming the timer of the sensor.                        *)
TmrArming == tpc \in {"seek", "fill", "take", "name"}

(* An entry whose callback has run; one that has got its callback.         *)
TmrRan(s) == (tpc = "finish" /\ s = id) \/ (TmrArming /\ s = caller)
TmrLive(s) == ~expired[s] /\ ~(tpc = "name" /\ s = id)

(* When a timer should run is what its entry says; no two entries that are *)
(* taken have the same callback, unless that of one of them has run.       *)
TmrDue == \A s \in Tmr!Entries : TmrLive(s) /\ ~TmrRan(s) => due[cb[s]] = tleft[s]
TmrAlone == \A s, r \in Tmr!Entries : TmrLive(s) /\ TmrLive(r) /\ cb[s] = cb[r] /\ s # r =>
               cb[s] # "sys" /\ (TmrRan(s) \/ TmrRan(r))

(* The entries of each timer.                                              *)
TmrOf ==
    /\ \A s \in Tmr!Entries : TmrLive(s) /\ ~TmrRan(s) /\ cb[s] = "eth" => ethId = s
    /\ \A s \in Tmr!Entries : TmrLive(s) /\ type[s] = "periodic" => cb[s] = "sys"
    /\ TmrArming => /\ \A s \in Tmr!Entries : TmrLive(s) /\ cb[s] = "isp" => s = caller
                    /\ caller # 0 => TmrLive(caller) /\ cb[caller] = "isp"

(* The entry the main loop is at.                                          *)
TmrAt ==
    /\ tpc \in {"fill", "take"} => expired[id]
    /\ tpc \in {"take", "name"} => type[id] = "oneshot" /\ tleft[id] = due["isp"]
    /\ tpc = "call" => ~expired[id] /\ tleft[id] = 0
    /\ tpc \in {"name", "finish"} => ~expired[id]

TmrEntries == TmrDue /\ TmrAlone /\ TmrOf /\ TmrAt

(* As long as the interrupt has not taken an entry from the main loop.     *)
TmrInv ==
    /\ Tmr!TypeOK
    /\ tpc \in {"fill", "take", "name"} => id \in Tmr!Entries
    /\ ~TmrArming => caller = 0
    /\ raced \/ TmrEntries

(* The longest time is one of the three.                                   *)
LEMMA TmrLongest ==
    /\ Tmr!Longest \in Nat /\ SysTime <= Tmr!Longest /\ IspTime <= Tmr!Longest
    /\ EthTime <= Tmr!Longest /\ Tmr!Off = Tmr!Longest + 1
<1> DEFINE T == {Tmr!Time[k] : k \in Tmr!Timers}
<1>1. /\ Tmr!Time["sys"] = SysTime /\ Tmr!Time["isp"] = IspTime /\ Tmr!Time["eth"] = EthTime
      /\ Tmr!Timers = {"sys", "isp", "eth"}
  BY DEF Tmr!Time, Tmr!Timers
<1>2. T = {SysTime, IspTime, EthTime}
  BY <1>1
<1>3. \E t \in T : \A k \in Tmr!Timers : Tmr!Time[k] <= t
  <2>1. \E t \in {SysTime, IspTime, EthTime} : SysTime <= t /\ IspTime <= t /\ EthTime <= t
    OBVIOUS
  <2> QED
    BY <1>1, <1>2, <2>1
<1>4. Tmr!Longest \in T /\ \A k \in Tmr!Timers : Tmr!Time[k] <= Tmr!Longest
  BY <1>3 DEF Tmr!Longest
<1> QED
  BY <1>1, <1>2, <1>4 DEF Tmr!Off

(* The first timer is armed.                                               *)
LEMMA TmrInit == Tmr!Init => TmrInv
<1> SUFFICES ASSUME Tmr!Init PROVE TmrInv
  OBVIOUS
<1>1. Tmr!TypeOK
  <2>1. expired \in [Tmr!Entries -> BOOLEAN] /\ raced \in BOOLEAN
    BY Zenon DEF Tmr!Init
  <2>2. due \in [Tmr!Timers -> 0 .. Tmr!Off]
    BY TmrLongest DEF Tmr!Init, Tmr!Timers
  <2>3. /\ tleft \in [Tmr!Entries -> 0 .. Tmr!Longest] /\ tick \in [Tmr!Entries -> 0 .. Tmr!Longest]
        /\ cb \in [Tmr!Entries -> Tmr!Timers]
    BY TmrLongest DEF Tmr!Init, Tmr!Timers
  <2>4. id \in Tmr!Entries /\ caller \in 0 .. Size /\ ethId \in 0 .. Size
    BY DEF Tmr!Init, Tmr!Entries
  <2>5. type \in [Tmr!Entries -> {"periodic", "oneshot"}]
    BY DEF Tmr!Init
  <2> QED
    BY <2>1, <2>2, <2>3, <2>4, <2>5 DEF Tmr!Init, Tmr!TypeOK
<1>2. TmrEntries
  BY DEF Tmr!Init, TmrEntries, TmrDue, TmrAlone, TmrOf, TmrAt, TmrArming, TmrLive,
       TmrRan, Tmr!Entries, Tmr!Timers
<1> QED
  BY <1>1, <1>2 DEF TmrInv, TmrArming, Tmr!Init

(* The types, step by step.                                                *)
LEMMA TmrTypes == ASSUME TmrInv, Tmr!Next PROVE Tmr!TypeOK'
<1> USE TmrLongest DEF Tmr!Timers, Tmr!table
<1>1. CASE Tmr!Tick
  <2> USE <1>1 DEF Tmr!Tick, Tmr!Down
  <2>1. expired' \in [Tmr!Entries -> BOOLEAN] /\ raced' \in BOOLEAN
    BY DEF TmrInv, Tmr!TypeOK
  <2>2. tleft' \in [Tmr!Entries -> 0 .. Tmr!Longest] /\ due' \in [Tmr!Timers -> 0 .. Tmr!Off]
    BY DEF TmrInv, Tmr!TypeOK
  <2>3. /\ id' \in Tmr!Entries \/ (tpc' = "seek" /\ id' = Size + 1)
        /\ caller' \in 0 .. Size /\ ethId' \in 0 .. Size
        /\ tpc' \in {"seek", "fill", "take", "name", "test", "call", "finish"}
    BY SMTT(30) DEF TmrInv, Tmr!TypeOK, Tmr!Entries
  <2>4. /\ tick' \in [Tmr!Entries -> 0 .. Tmr!Longest] /\ cb' \in [Tmr!Entries -> Tmr!Timers]
        /\ type' \in [Tmr!Entries -> {"periodic", "oneshot"}]
    BY DEF TmrInv, Tmr!TypeOK
  <2> QED
    BY <2>1, <2>2, <2>3, <2>4, Zenon DEF Tmr!TypeOK
<1>2. CASE Tmr!ArmEth
  <2> USE <1>2 DEF Tmr!ArmEth
  <2>1. expired' \in [Tmr!Entries -> BOOLEAN] /\ raced' \in BOOLEAN
    <3>1. raced' \in BOOLEAN
      BY Zenon
    <3> QED
      BY <3>1 DEF TmrInv, Tmr!TypeOK
  <2>2. tleft' \in [Tmr!Entries -> 0 .. Tmr!Longest] /\ due' \in [Tmr!Timers -> 0 .. Tmr!Off]
    BY DEF TmrInv, Tmr!TypeOK
  <2>3. /\ id' \in Tmr!Entries \/ (tpc' = "seek" /\ id' = Size + 1)
        /\ caller' \in 0 .. Size /\ ethId' \in 0 .. Size
        /\ tpc' \in {"seek", "fill", "take", "name", "test", "call", "finish"}
    BY SMTT(30) DEF TmrInv, Tmr!TypeOK, Tmr!Entries
  <2>4. /\ tick' \in [Tmr!Entries -> 0 .. Tmr!Longest] /\ cb' \in [Tmr!Entries -> Tmr!Timers]
        /\ type' \in [Tmr!Entries -> {"periodic", "oneshot"}]
    BY DEF TmrInv, Tmr!TypeOK
  <2> QED
    BY <2>1, <2>2, <2>3, <2>4, Zenon DEF Tmr!TypeOK
<1>3. CASE Tmr!Seek
  <2> USE <1>3 DEF Tmr!Seek, Tmr!Return
  <2>1. expired' \in [Tmr!Entries -> BOOLEAN] /\ raced' \in BOOLEAN
    BY DEF TmrInv, Tmr!TypeOK
  <2>2. tleft' \in [Tmr!Entries -> 0 .. Tmr!Longest] /\ due' \in [Tmr!Timers -> 0 .. Tmr!Off]
    BY DEF TmrInv, Tmr!TypeOK
  <2>3. /\ id' \in Tmr!Entries \/ (tpc' = "seek" /\ id' = Size + 1)
        /\ caller' \in 0 .. Size /\ ethId' \in 0 .. Size
        /\ tpc' \in {"seek", "fill", "take", "name", "test", "call", "finish"}
    <3>1. /\ id \in 1 .. Size + 1 /\ caller \in 0 .. Size /\ ethId \in 0 .. Size
          /\ caller' \in {0, caller} /\ ethId' = ethId
      BY SMTT(30) DEF TmrInv, Tmr!TypeOK, Tmr!Entries
    <3>2. \/ id > Size /\ tpc' = "test" /\ id' = 1
          \/ id > Size /\ tpc' = "finish" /\ id' = caller /\ caller # 0
          \/ ~(id > Size) /\ tpc' = "fill" /\ id' = id
          \/ ~(id > Size) /\ tpc' = "seek" /\ id' = id + 1
      OBVIOUS
    <3> QED
      BY <3>1, <3>2 DEF Tmr!Entries
  <2>4. /\ tick' \in [Tmr!Entries -> 0 .. Tmr!Longest] /\ cb' \in [Tmr!Entries -> Tmr!Timers]
        /\ type' \in [Tmr!Entries -> {"periodic", "oneshot"}]
    BY DEF TmrInv, Tmr!TypeOK
  <2> QED
    BY <2>1, <2>2, <2>3, <2>4, Zenon DEF Tmr!TypeOK
<1>4. CASE Tmr!Fill
  <2> USE <1>4 DEF Tmr!Fill
  <2>1. expired' \in [Tmr!Entries -> BOOLEAN] /\ raced' \in BOOLEAN
    BY DEF TmrInv, Tmr!TypeOK
  <2>2. tleft' \in [Tmr!Entries -> 0 .. Tmr!Longest] /\ due' \in [Tmr!Timers -> 0 .. Tmr!Off]
    BY DEF TmrInv, Tmr!TypeOK
  <2>3. /\ id' \in Tmr!Entries \/ (tpc' = "seek" /\ id' = Size + 1)
        /\ caller' \in 0 .. Size /\ ethId' \in 0 .. Size
        /\ tpc' \in {"seek", "fill", "take", "name", "test", "call", "finish"}
    BY SMTT(30) DEF TmrInv, Tmr!TypeOK, Tmr!Entries
  <2>4. /\ tick' \in [Tmr!Entries -> 0 .. Tmr!Longest] /\ cb' \in [Tmr!Entries -> Tmr!Timers]
        /\ type' \in [Tmr!Entries -> {"periodic", "oneshot"}]
    BY DEF TmrInv, Tmr!TypeOK
  <2> QED
    BY <2>1, <2>2, <2>3, <2>4, Zenon DEF Tmr!TypeOK
<1>5. CASE Tmr!Take
  <2> USE <1>5 DEF Tmr!Take
  <2>1. expired' \in [Tmr!Entries -> BOOLEAN] /\ raced' \in BOOLEAN
    BY DEF TmrInv, Tmr!TypeOK
  <2>2. tleft' \in [Tmr!Entries -> 0 .. Tmr!Longest] /\ due' \in [Tmr!Timers -> 0 .. Tmr!Off]
    BY DEF TmrInv, Tmr!TypeOK
  <2>3. /\ id' \in Tmr!Entries \/ (tpc' = "seek" /\ id' = Size + 1)
        /\ caller' \in 0 .. Size /\ ethId' \in 0 .. Size
        /\ tpc' \in {"seek", "fill", "take", "name", "test", "call", "finish"}
    BY SMTT(30) DEF TmrInv, Tmr!TypeOK, Tmr!Entries
  <2>4. /\ tick' \in [Tmr!Entries -> 0 .. Tmr!Longest] /\ cb' \in [Tmr!Entries -> Tmr!Timers]
        /\ type' \in [Tmr!Entries -> {"periodic", "oneshot"}]
    BY DEF TmrInv, Tmr!TypeOK
  <2> QED
    BY <2>1, <2>2, <2>3, <2>4, Zenon DEF Tmr!TypeOK
<1>6. CASE Tmr!Name
  BY <1>6, SMTT(30) DEF TmrInv, Tmr!TypeOK, Tmr!Entries, Tmr!Name, Tmr!Return
<1>7. CASE Tmr!Test
  <2> USE <1>7 DEF Tmr!Test, Tmr!NextEntry
  <2>1. expired' \in [Tmr!Entries -> BOOLEAN] /\ raced' \in BOOLEAN
    BY DEF TmrInv, Tmr!TypeOK
  <2>2. tleft' \in [Tmr!Entries -> 0 .. Tmr!Longest] /\ due' \in [Tmr!Timers -> 0 .. Tmr!Off]
    BY DEF TmrInv, Tmr!TypeOK
  <2>3. /\ id' \in Tmr!Entries \/ (tpc' = "seek" /\ id' = Size + 1)
        /\ caller' \in 0 .. Size /\ ethId' \in 0 .. Size
        /\ tpc' \in {"seek", "fill", "take", "name", "test", "call", "finish"}
    BY SMTT(30) DEF TmrInv, Tmr!TypeOK, Tmr!Entries
  <2>4. /\ tick' \in [Tmr!Entries -> 0 .. Tmr!Longest] /\ cb' \in [Tmr!Entries -> Tmr!Timers]
        /\ type' \in [Tmr!Entries -> {"periodic", "oneshot"}]
    BY DEF TmrInv, Tmr!TypeOK
  <2> QED
    BY <2>1, <2>2, <2>3, <2>4, Zenon DEF Tmr!TypeOK
<1>8. CASE Tmr!Call
  <2> USE <1>8 DEF Tmr!Call
  <2>1. expired' \in [Tmr!Entries -> BOOLEAN] /\ raced' \in BOOLEAN
    BY DEF TmrInv, Tmr!TypeOK
  <2>2. tleft' \in [Tmr!Entries -> 0 .. Tmr!Longest] /\ due' \in [Tmr!Timers -> 0 .. Tmr!Off]
    BY DEF TmrInv, Tmr!TypeOK
  <2>3. /\ id' \in Tmr!Entries \/ (tpc' = "seek" /\ id' = Size + 1)
        /\ caller' \in 0 .. Size /\ ethId' \in 0 .. Size
        /\ tpc' \in {"seek", "fill", "take", "name", "test", "call", "finish"}
    BY SMTT(30) DEF TmrInv, Tmr!TypeOK, Tmr!Entries
  <2>4. /\ tick' \in [Tmr!Entries -> 0 .. Tmr!Longest] /\ cb' \in [Tmr!Entries -> Tmr!Timers]
        /\ type' \in [Tmr!Entries -> {"periodic", "oneshot"}]
    BY DEF TmrInv, Tmr!TypeOK
  <2> QED
    BY <2>1, <2>2, <2>3, <2>4, Zenon DEF Tmr!TypeOK
<1>9. CASE Tmr!CallAgain
  <2> USE <1>9 DEF Tmr!CallAgain
  <2>1. expired' \in [Tmr!Entries -> BOOLEAN] /\ raced' \in BOOLEAN
    BY DEF TmrInv, Tmr!TypeOK
  <2>2. tleft' \in [Tmr!Entries -> 0 .. Tmr!Longest] /\ due' \in [Tmr!Timers -> 0 .. Tmr!Off]
    BY DEF TmrInv, Tmr!TypeOK
  <2>3. /\ id' \in Tmr!Entries \/ (tpc' = "seek" /\ id' = Size + 1)
        /\ caller' \in 0 .. Size /\ ethId' \in 0 .. Size
        /\ tpc' \in {"seek", "fill", "take", "name", "test", "call", "finish"}
    BY SMTT(30) DEF TmrInv, Tmr!TypeOK, Tmr!Entries
  <2>4. /\ tick' \in [Tmr!Entries -> 0 .. Tmr!Longest] /\ cb' \in [Tmr!Entries -> Tmr!Timers]
        /\ type' \in [Tmr!Entries -> {"periodic", "oneshot"}]
    BY DEF TmrInv, Tmr!TypeOK
  <2> QED
    BY <2>1, <2>2, <2>3, <2>4, Zenon DEF Tmr!TypeOK
<1>10. CASE Tmr!Finish
  <2> USE <1>10 DEF Tmr!Finish, Tmr!NextEntry
  <2>1. expired' \in [Tmr!Entries -> BOOLEAN] /\ raced' \in BOOLEAN
    BY DEF TmrInv, Tmr!TypeOK
  <2>2. tleft' \in [Tmr!Entries -> 0 .. Tmr!Longest] /\ due' \in [Tmr!Timers -> 0 .. Tmr!Off]
    BY DEF TmrInv, Tmr!TypeOK
  <2>3. /\ id' \in Tmr!Entries \/ (tpc' = "seek" /\ id' = Size + 1)
        /\ caller' \in 0 .. Size /\ ethId' \in 0 .. Size
        /\ tpc' \in {"seek", "fill", "take", "name", "test", "call", "finish"}
    BY SMTT(30) DEF TmrInv, Tmr!TypeOK, Tmr!Entries
  <2>4. /\ tick' \in [Tmr!Entries -> 0 .. Tmr!Longest] /\ cb' \in [Tmr!Entries -> Tmr!Timers]
        /\ type' \in [Tmr!Entries -> {"periodic", "oneshot"}]
    BY DEF TmrInv, Tmr!TypeOK
  <2> QED
    BY <2>1, <2>2, <2>3, <2>4, Zenon DEF Tmr!TypeOK
<1> QED
  BY <1>1, <1>2, <1>3, <1>4, <1>5, <1>6, <1>7, <1>8, <1>9, <1>10 DEF Tmr!Next, Tmr!MainLoop

(* The main loop arms a timer at an entry of the table, and is back from   *)
(* the callback then.                                                      *)
LEMMA TmrPlaces ==
    ASSUME TmrInv, Tmr!Next
    PROVE  /\ tpc' \in {"fill", "take", "name"} => id' \in Tmr!Entries
           /\ (~TmrArming)' => caller' = 0
<1> USE DEF TmrInv, Tmr!TypeOK, TmrArming
<1>1. CASE Tmr!Seek
  <2>1. tpc' = "fill" => id \in 1 .. Size + 1 /\ id' = id /\ ~(id > Size)
    BY <1>1 DEF Tmr!Seek, Tmr!Return, Tmr!Entries
  <2>2. tpc' \in {"test", "finish", "seek", "fill"} /\ (tpc' \in {"test", "finish"} => caller' = 0)
    BY <1>1 DEF Tmr!Seek, Tmr!Return
  <2> QED
    BY <2>1, <2>2 DEF Tmr!Entries
<1>2. CASE Tmr!Tick \/ Tmr!ArmEth
  BY <1>2 DEF Tmr!Tick, Tmr!ArmEth
<1>3. CASE Tmr!Fill \/ Tmr!Take \/ Tmr!Name
  BY <1>3 DEF Tmr!Fill, Tmr!Take, Tmr!Name, Tmr!Return
<1>4. CASE Tmr!Test \/ Tmr!Call \/ Tmr!CallAgain \/ Tmr!Finish
  BY <1>4 DEF Tmr!Test, Tmr!Call, Tmr!CallAgain, Tmr!Finish
<1> QED
  BY <1>1, <1>2, <1>3, <1>4 DEF Tmr!Next, Tmr!MainLoop

(* The entries, step by step, as long as nothing races.                    *)
LEMMA TmrSteps ==
    ASSUME TmrInv, Tmr!Next, ~raced'
    PROVE  TmrEntries'
<1> USE TmrLongest DEF Tmr!Timers, Tmr!table, TmrEntries, TmrDue, TmrAlone, TmrOf, TmrAt,
        TmrArming, TmrLive, TmrRan
<1>1. CASE Tmr!Tick
  BY <1>1 DEF TmrInv, Tmr!TypeOK, Tmr!Tick, Tmr!Down
<1>2. CASE Tmr!ArmEth
  <2>1. PICK e \in Tmr!Entries :
          /\ expired[e] /\ expired' = [expired EXCEPT ![e] = FALSE]
          /\ tleft' = [tleft EXCEPT ![e] = EthTime] /\ type' = [type EXCEPT ![e] = "oneshot"]
          /\ cb' = [cb EXCEPT ![e] = "eth"] /\ ethId' = e
          /\ raced' = (raced \/ (tpc \in {"fill", "take"} /\ e = id))
    BY <1>2 DEF Tmr!ArmEth
  <2>2. /\ due' = [due EXCEPT !["eth"] = EthTime] /\ UNCHANGED <<tpc, id, caller>>
        /\ ethId = 0 /\ TmrEntries
        /\ expired \in [Tmr!Entries -> BOOLEAN] /\ tleft \in [Tmr!Entries -> 0 .. Tmr!Longest]
        /\ type \in [Tmr!Entries -> {"periodic", "oneshot"}] /\ cb \in [Tmr!Entries -> Tmr!Timers]
        /\ due \in [Tmr!Timers -> 0 .. Tmr!Off]
    BY <1>2, <2>1 DEF Tmr!ArmEth, TmrInv, Tmr!TypeOK
  <2>3. /\ \A s \in Tmr!Entries : s # 0
        /\ tpc \in {"fill", "take"} => e # id
        /\ tpc \in {"name", "call", "finish"} => e # id
        /\ TmrArming => e # caller
    <3>1. \A s \in Tmr!Entries : s # 0
      BY DEF Tmr!Entries
    <3>2. tpc \in {"name", "call", "finish"} => ~expired[id]
      BY <2>2
    <3>3. TmrArming /\ caller # 0 => ~expired[caller]
      BY <2>2
    <3>4. tpc \in {"fill", "take"} => e # id
      BY <2>1
    <3> QED
      BY <2>1, <3>1, <3>2, <3>3, <3>4
  <2>4. ASSUME NEW s \in Tmr!Entries, s # e
        PROVE  /\ TmrLive(s)' <=> TmrLive(s)
               /\ TmrRan(s)' <=> TmrRan(s)
               /\ cb'[s] = cb[s] /\ tleft'[s] = tleft[s] /\ type'[s] = type[s]
    BY <2>1, <2>2, <2>4
  <2>5. ASSUME NEW s \in Tmr!Entries, TmrLive(s), cb[s] = "eth"
        PROVE  TmrRan(s)
    BY <2>2, <2>3, <2>5
  <2>6. /\ TmrLive(e)' /\ ~TmrLive(e) /\ ~TmrRan(e)'
        /\ cb'[e] = "eth" /\ tleft'[e] = EthTime /\ type'[e] = "oneshot" /\ due'["eth"] = EthTime
    BY <2>1, <2>2, <2>3
  <2>7. TmrAt'
    BY <2>1, <2>2, <2>3
  <2>8. \A t \in Tmr!Timers : t # "eth" => due'[t] = due[t]
    BY <2>2
  <2>9. TmrDue'
    <3> SUFFICES ASSUME NEW s \in Tmr!Entries, TmrLive(s)', ~(TmrRan(s)')
                 PROVE  due'[cb'[s]] = tleft'[s]
      BY DEF TmrDue
    <3>1. CASE s = e
      BY <2>6, <3>1, Zenon
    <3>2. CASE s # e
      <4> HIDE DEF TmrLive, TmrRan, TmrAt, TmrArming
      <4> QED
        BY <2>2, <2>4, <2>5, <2>8, <3>2
    <3> QED
      BY <3>1, <3>2
  <2>10. TmrAlone'
    <3> SUFFICES ASSUME NEW s \in Tmr!Entries, NEW r \in Tmr!Entries, TmrLive(s)', TmrLive(r)',
                        cb'[s] = cb'[r], s # r
                 PROVE  cb'[s] # "sys" /\ (TmrRan(s)' \/ TmrRan(r)')
      BY DEF TmrAlone
    <3> HIDE DEF TmrLive, TmrRan, TmrAt, TmrArming
    <3> QED
      BY <2>2, <2>4, <2>5, <2>6
  <2>11. TmrOf'
    <3>1. TmrArming => /\ \A s \in Tmr!Entries : TmrLive(s) /\ cb[s] = "isp" => s = caller
                       /\ caller # 0 => TmrLive(caller)' /\ cb'[caller] = "isp"
      BY <2>1, <2>2, <2>3
    <3>2. TmrArming' <=> TmrArming
      BY <2>2
    <3> HIDE DEF TmrLive, TmrRan, TmrAt, TmrArming
    <3> QED
      BY <2>1, <2>2, <2>4, <2>5, <2>6, <3>1, <3>2
  <2> QED
    BY <1>2, <2>1, <2>2, <2>3, <2>7, <2>9, <2>10, <2>11 DEF TmrInv
<1>3. CASE Tmr!Seek
  <2>1. /\ UNCHANGED <<expired, tleft, tick, type, cb, ethId, due>> /\ tpc = "seek"
        /\ id \in 1 .. Size + 1 /\ TmrEntries
    BY <1>3 DEF Tmr!Seek, TmrInv, Tmr!TypeOK, Tmr!Entries
  <2>2. \/ tpc' = "test" /\ caller = 0 /\ caller' = 0
        \/ tpc' = "finish" /\ id' = caller /\ caller # 0 /\ caller' = 0
        \/ tpc' = "fill" /\ id' = id /\ expired[id] /\ ~(id > Size) /\ caller' = caller
        \/ tpc' = "seek" /\ caller' = caller
    BY <1>3 DEF Tmr!Seek, Tmr!Return
  <2>3. \A s \in Tmr!Entries : s # 0
    BY DEF Tmr!Entries
  <2>4. \A s \in Tmr!Entries : (TmrLive(s)' <=> TmrLive(s)) /\ (TmrRan(s)' <=> TmrRan(s))
    BY <2>1, <2>2, <2>3
  <2>5. TmrDue' /\ TmrAlone'
    <3> HIDE DEF TmrLive, TmrRan, TmrOf, TmrAt
    <3> QED
      BY <2>1, <2>4
  <2>6. TmrOf'
    <3>1. \A s \in Tmr!Entries : TmrLive(s) /\ cb[s] = "isp" => s = caller
      BY <2>1
    <3>2. TmrArming' => caller' = caller /\ (caller # 0 => TmrLive(caller)' /\ cb[caller] = "isp")
      BY <2>1, <2>2
    <3> HIDE DEF TmrLive, TmrRan, TmrAt, TmrArming
    <3> QED
      BY <2>1, <2>4, <3>1, <3>2
  <2>7. TmrAt'
    BY <2>1, <2>2
  <2> QED
    BY <2>1, <2>2, <2>5, <2>6, <2>7 DEF Tmr!Entries
<1>4. CASE Tmr!Fill
  BY <1>4 DEF TmrInv, Tmr!TypeOK, Tmr!Fill
<1>5. CASE Tmr!Take
  BY <1>5 DEF TmrInv, Tmr!TypeOK, Tmr!Take
<1>6. CASE Tmr!Name
  <2>1. PICK e \in Tmr!Entries : e = id
    BY <1>6 DEF TmrInv, Tmr!Name
  <2>2. /\ UNCHANGED <<expired, tleft, tick, type, ethId, due>> /\ tpc = "name"
        /\ cb' = [cb EXCEPT ![e] = "isp"] /\ caller' = 0
        /\ \/ tpc' = "test" /\ caller = 0
           \/ tpc' = "finish" /\ id' = caller /\ caller # 0
        /\ TmrEntries /\ cb \in [Tmr!Entries -> Tmr!Timers]
    BY <1>6, <2>1 DEF Tmr!Name, Tmr!Return, TmrInv, Tmr!TypeOK
  <2>3. (\A s \in Tmr!Entries : s # 0) /\ e # caller
    BY <2>1, <2>2 DEF Tmr!Entries
  <2>4. ASSUME NEW s \in Tmr!Entries, s # e
        PROVE  /\ TmrLive(s)' <=> TmrLive(s)
               /\ TmrRan(s)' <=> TmrRan(s)
               /\ cb'[s] = cb[s] /\ (cb[s] = "isp" /\ TmrLive(s) => TmrRan(s))
    BY <2>1, <2>2, <2>3, <2>4
  <2>5. /\ TmrLive(e)' /\ ~TmrLive(e) /\ ~TmrRan(e)' /\ cb'[e] = "isp" /\ due["isp"] = tleft[e]
        /\ type[e] = "oneshot"
    BY <2>1, <2>2, <2>3
  <2>6. TmrAt' /\ ~(TmrArming')
    BY <2>2
  <2>7. TmrDue' /\ TmrAlone' /\ TmrOf'
    <3> HIDE DEF TmrLive, TmrRan, TmrAt, TmrArming
    <3> QED
      BY <2>2, <2>4, <2>5, <2>6
  <2> QED
    BY <2>2, <2>6, <2>7
<1>7. CASE Tmr!Test
  BY <1>7 DEF TmrInv, Tmr!TypeOK, Tmr!Test, Tmr!NextEntry
<1>8. CASE Tmr!Call
  BY <1>8 DEF TmrInv, Tmr!TypeOK, Tmr!Call
<1>9. CASE Tmr!CallAgain
  BY <1>9 DEF TmrInv, Tmr!TypeOK, Tmr!CallAgain
<1>10. CASE Tmr!Finish
  BY <1>10 DEF TmrInv, Tmr!TypeOK, Tmr!Finish, Tmr!NextEntry
<1> QED
  BY <1>1, <1>2, <1>3, <1>4, <1>5, <1>6, <1>7, <1>8, <1>9, <1>10 DEF Tmr!Next, Tmr!MainLoop

(* Every step of the timers.                                               *)
LEMMA TmrStep == TmrInv /\ [Tmr!Next]_timers => TmrInv'
<1> SUFFICES ASSUME TmrInv, [Tmr!Next]_timers PROVE TmrInv'
  OBVIOUS
<1>1. CASE Tmr!Next
  <2>1. Tmr!TypeOK'
    BY <1>1, TmrTypes
  <2>2. CASE ~raced'
    BY <1>1, <2>1, <2>2, TmrPlaces, TmrSteps DEF TmrInv
  <2>3. CASE raced'
    BY <1>1, <2>1, <2>3, TmrPlaces DEF TmrInv
  <2> QED
    BY <2>2, <2>3
<1>2. CASE UNCHANGED timers
  BY <1>2 DEF timers, TmrInv, Tmr!TypeOK, TmrEntries, TmrDue, TmrAlone, TmrOf, TmrAt,
       TmrArming, TmrLive, TmrRan
<1> QED
  BY <1>1, <1>2

(* The entry that is called is one that is taken.                          *)
LEMMA TmrOnTime == TmrInv /\ tpc = "call" => due[cb[id]] = 0 \/ raced
  BY DEF TmrInv, Tmr!TypeOK, TmrEntries, TmrDue, TmrAt, TmrArming, TmrLive, TmrRan

HIDE TimerAssumption

-----------------------------------------------------------------------------
(* The encoder and a viewer.                                               *)

USE JoinAssumption

(* P pictures that were started and are not in the ring yet, and those the *)
(* distance asks for before the next I picture.                            *)
PthComing == (IF vlc # None THEN 1 ELSE 0) + (IF pframe.slice = "P" THEN 1 ELSE 0)
PthToI == IF ppic % pinterval = 0 THEN 0 ELSE pinterval - (ppic % pinterval)

(* While a viewer waits, no P picture is to come beyond those that JoinIsQuick *)
(* counts: an I picture is in one of the two stages, or it is the next one, or *)
(* the distance is not above the threshold.                                *)
PthInv ==
    /\ pinterval \in Nat \ {0} /\ ppic \in Nat /\ psaved \in Nat
    /\ vlc # None => vlc.slice \in {"I", "P"}
    /\ pframe \in [slice : {"none", "I", "P"}, num : Nat, gop : Nat]
    /\ waited # None =>
         /\ waited \in Nat /\ waited <= JoinThreshold + 1 /\ ~pavi
         /\ vlc # None /\ vlc.slice = "P" => waited + 1 <= JoinThreshold + 1
         /\ (vlc = None \/ vlc.slice = "P") /\ pframe.slice # "I" =>
              /\ waited + PthComing <= JoinThreshold + 1
              /\ IF pinterval > JoinThreshold
                 THEN pconnect = 1
                 ELSE waited + PthComing + PthToI <= JoinThreshold + 1

(* The distance that comes of what the user asks for.                      *)
LEMMA PthClamp == ASSUME NEW p \in JoinPeriods PROVE Pth!Enc!Clamp(p) \in Nat \ {0}
<1>1. p \in Nat /\ JoinMax \in Nat \ {0}
  OBVIOUS
<1> QED
  BY <1>1 DEF Pth!Enc!Clamp

(* Nobody waits in the beginning.                                          *)
LEMMA PthInit == Pth!Init => PthInv
<1> SUFFICES ASSUME Pth!Init PROVE PthInv
  OBVIOUS
<1>1. PICK p \in JoinPeriods :
         /\ ppic = 0 /\ pinterval = Pth!Enc!Clamp(p) /\ psaved = 0
         /\ pframe = [slice |-> "none", num |-> 0, gop |-> Pth!Enc!Clamp(p)]
  BY DEF Pth!Init, Pth!Enc!Init
<1>2. vlc = None /\ waited = None
  BY DEF Pth!Init
<1> QED
  BY <1>1, <1>2, PthClamp DEF PthInv

(* The encoder codes a P picture only within the distance, and not when it *)
(* may shorten it.                                                         *)
LEMMA PthCodes ==
    ASSUME PthInv, Pth!Enc!EncStart
    PROVE  /\ pinterval' \in Nat \ {0} /\ ppic' \in Nat /\ psaved' \in Nat
           /\ pframe' \in [slice : {"I", "P"}, num : Nat, gop : Nat] /\ pavi' = pavi
           /\ pframe'.slice = "P" =>
                /\ pinterval' = pinterval /\ pconnect' = pconnect
                /\ ppic % pinterval # 0 /\ ppic' \in {0, ppic + 1}
                /\ ~(pconnect = 1 /\ pinterval > JoinThreshold /\ ~pavi)
<1>1. ASSUME NEW s \in {"I", "P"}, Pth!Enc!Emit(s), pinterval' \in Nat \ {0}
      PROVE  /\ pframe' \in [slice : {"I", "P"}, num : Nat, gop : Nat] /\ pframe'.slice = s
             /\ ppic' \in {0, ppic + 1} /\ pavi' = pavi
  <2> DEFINE m == IF pinterval' = 1 THEN 0 ELSE ppic % pinterval'
  <2>1. pframe' = [slice |-> s, num |-> m, gop |-> pinterval']
    BY <1>1 DEF Pth!Enc!Emit
  <2>2. m \in Nat
    <3>1. ppic % pinterval' \in 0 .. pinterval' - 1
      BY <1>1, ModRange, Zenon DEF PthInv
    <3>2. \A d \in Nat \ {0} : \A k \in 0 .. d - 1 : k \in Nat
      OBVIOUS
    <3>3. ppic % pinterval' \in Nat
      BY <1>1, <3>1, <3>2, Zenon
    <3> QED
      BY <3>3
  <2>3. ppic' \in {0, ppic + 1} /\ pavi' = pavi
    BY <1>1 DEF Pth!Enc!Emit
  <2> HIDE DEF m
  <2> QED
    BY <1>1, <2>1, <2>2, <2>3
<1>2. ppic \in Nat /\ ppic + 1 \in Nat /\ 0 \in Nat /\ JoinShort \in Nat \ {0}
  BY DEF PthInv
<1>3. CASE Pth!Enc!Shorten
  <2>1. pinterval' = JoinShort /\ psaved' = pinterval /\ Pth!Enc!Emit("I")
    BY <1>3 DEF Pth!Enc!Shorten
  <2> QED
    BY <1>1, <1>2, <2>1 DEF PthInv
<1>4. CASE Pth!Enc!CountI
  <2>1. pinterval' = pinterval /\ psaved' = psaved /\ Pth!Enc!Emit("I")
    BY <1>4 DEF Pth!Enc!CountI
  <2> QED
    BY <1>1, <1>2, <2>1 DEF PthInv
<1>5. CASE Pth!Enc!PutBack
  <2>1. /\ pinterval' = (IF psaved > 0 /\ psaved < JoinMax THEN psaved ELSE pinterval)
        /\ psaved' = psaved /\ Pth!Enc!Emit("I")
    BY <1>5 DEF Pth!Enc!PutBack
  <2> QED
    BY <1>1, <1>2, <2>1 DEF PthInv
<1>6. CASE Pth!Enc!Plain
  <2>1. /\ UNCHANGED <<pinterval, pconnect, psaved>> /\ Pth!Enc!Emit(Pth!Enc!Slice)
        /\ ~(Pth!Enc!Slice = "P" /\ pconnect = 1 /\ pinterval > JoinThreshold /\ ~pavi)
    BY <1>6 DEF Pth!Enc!Plain, Pth!Enc!MayShorten
  <2>2. Pth!Enc!Slice = IF ppic % pinterval = 0 THEN "I" ELSE "P"
    BY DEF Pth!Enc!Slice
  <2> QED
    BY <1>1, <1>2, <2>1, <2>2 DEF PthInv
<1> QED
  BY <1>3, <1>4, <1>5, <1>6 DEF Pth!Enc!EncStart

(* After a P picture there is one less to come.                            *)
LEMMA PthOneLess ==
    ASSUME NEW a \in Nat, NEW d \in Nat \ {0}, a % d # 0, NEW b \in {0, a + 1}
    PROVE  /\ (IF b % d = 0 THEN 0 ELSE d - (b % d)) \in Nat
           /\ (IF b % d = 0 THEN 0 ELSE d - (b % d)) + 1 <= d - (a % d)
<1>1. a % d \in 0 .. d - 1 /\ b % d \in 0 .. d - 1
  BY ModRange
<1>2. b % d = 0 \/ b % d = (a % d) + 1
  <2>1. CASE b = 0
    <3>1. 0 = d * 0 + 0 /\ 0 \in 0 .. d - 1
      OBVIOUS
    <3> QED
      BY <2>1, <3>1, ModUnique
  <2>2. CASE b = a + 1
    BY <2>2, ModSteps
  <2> QED
    BY <2>1, <2>2
<1> QED
  BY <1>1, <1>2

(* A picture goes from the encoder to the entropy coder, and one is coded. *)
LEMMA PthStart == ASSUME PthInv, Pth!EncStart PROVE PthInv'
<1>1. /\ vlc = None /\ Pth!Enc!EncStart /\ waited' = waited
      /\ vlc' = IF pframe.slice = "none" THEN None ELSE pframe
  BY DEF Pth!EncStart
<1>2. /\ pinterval' \in Nat \ {0} /\ ppic' \in Nat /\ psaved' \in Nat
      /\ pframe' \in [slice : {"I", "P"}, num : Nat, gop : Nat] /\ pavi' = pavi
      /\ pframe'.slice = "P" =>
           /\ pinterval' = pinterval /\ pconnect' = pconnect
           /\ ppic % pinterval # 0 /\ ppic' \in {0, ppic + 1}
           /\ ~(pconnect = 1 /\ pinterval > JoinThreshold /\ ~pavi)
  BY <1>1, PthCodes
<1>3. /\ vlc' # None => vlc' = pframe /\ vlc'.slice \in {"I", "P"}
      /\ pframe.slice # "none" => vlc' # None
  BY <1>1 DEF PthInv
<1>4. ASSUME waited # None
      PROVE  /\ waited \in Nat /\ waited <= JoinThreshold + 1 /\ ~pavi
             /\ pframe.slice # "I" =>
                  waited + PthComing <= JoinThreshold + 1
  BY <1>1, <1>4 DEF PthInv
<1>5. ASSUME waited # None, pframe'.slice = "P", pframe.slice # "I"
      PROVE  /\ pinterval' <= JoinThreshold
             /\ waited + PthComing' + PthToI' <= JoinThreshold + 1
             /\ PthComing' \in Nat /\ PthToI' \in Nat
  <2>1. /\ pinterval <= JoinThreshold /\ pinterval' = pinterval
        /\ waited + PthComing + PthToI <= JoinThreshold + 1 /\ ppic % pinterval # 0
    BY <1>1, <1>2, <1>5 DEF PthInv
  <2>2. PthToI' \in Nat /\ PthToI' + 1 <= PthToI
    <3>1. /\ ppic \in Nat /\ pinterval \in Nat \ {0} /\ ppic' \in {0, ppic + 1}
      BY <1>2, <1>5 DEF PthInv
    <3> QED
      BY <2>1, <3>1, PthOneLess DEF PthToI
  <2>3. PthComing = (IF pframe.slice = "P" THEN 1 ELSE 0)
    BY <1>1 DEF PthComing
  <2>4. PthComing' \in Nat /\ PthComing' <= 1 + PthComing
    <3>1. vlc' # None => pframe.slice = "P"
      BY <1>3, <1>5
    <3> QED
      BY <1>5, <2>3, <3>1 DEF PthComing
  <2>5. PthToI \in Nat /\ PthComing \in Nat /\ waited \in Nat
    <3>1. ppic % pinterval \in 0 .. pinterval - 1
      BY ModRange DEF PthInv
    <3> QED
      BY <1>4, <1>5, <2>3, <3>1 DEF PthToI, PthInv
  <2>6. \A w, c, d, e, f, t \in Nat :
           w + c + d <= t + 1 /\ f + 1 <= d /\ e <= 1 + c => w + e + f <= t + 1
    OBVIOUS
  <2>7. waited + PthComing' + PthToI' <= JoinThreshold + 1
    BY <2>1, <2>2, <2>4, <2>5, <2>6, Zenon
  <2> QED
    BY <2>1, <2>2, <2>4, <2>7
<1>6. ASSUME waited # None, vlc' # None, vlc'.slice = "P" PROVE waited + 1 <= JoinThreshold + 1
  <2>1. PthComing = 1
    BY <1>1, <1>3, <1>6 DEF PthComing
  <2>2. pframe.slice # "I"
    BY <1>3, <1>6
  <2> QED
    BY <1>4, <1>6, <2>1, <2>2
<1>7. ASSUME waited' # None, vlc' = None \/ vlc'.slice = "P", pframe'.slice # "I"
      PROVE  /\ waited' + PthComing' <= JoinThreshold + 1
             /\ IF pinterval' > JoinThreshold
                THEN pconnect' = 1
                ELSE waited' + PthComing' + PthToI' <= JoinThreshold + 1
  <2>1. pframe.slice # "I"
    BY <1>1, <1>3, <1>7 DEF PthInv
  <2>2. pframe'.slice = "P"
    BY <1>2, <1>7
  <2>3. /\ pinterval' <= JoinThreshold
        /\ waited + PthComing' + PthToI' <= JoinThreshold + 1
        /\ PthComing' \in Nat /\ PthToI' \in Nat /\ waited \in Nat
    BY <1>1, <1>4, <1>5, <1>7, <2>1, <2>2, Zenon
  <2>4. pinterval' \in Nat /\ waited' = waited
    BY <1>1, <1>2
  <2>5. ~(pinterval' > JoinThreshold)
    BY <2>3, <2>4
  <2>6. \A w, c, d, t \in Nat : w + c + d <= t + 1 => w + c <= t + 1
    OBVIOUS
  <2>7. waited + PthComing' <= JoinThreshold + 1 /\ JoinThreshold \in Nat
    BY <2>3, <2>6, Zenon
  <2> QED
    BY <2>3, <2>4, <2>5, <2>7, Zenon
<1> QED
  BY <1>1, <1>2, <1>3, <1>4, <1>6, <1>7 DEF PthInv

(* The entropy coder is done, and the picture is in the rings.             *)
LEMMA PthDone == ASSUME PthInv, Pth!VlcDone PROVE PthInv'
<1>1. /\ vlc # None /\ vlc' = None
      /\ waited' = (IF waited = None \/ vlc.slice = "I" THEN None ELSE waited + 1)
      /\ UNCHANGED <<pinterval, ppic, psaved, pframe, pavi, pconnect>>
  BY DEF Pth!VlcDone, Pth!encoder
<1>2. PthToI' = PthToI
  BY <1>1 DEF PthToI
<1>3. PthComing = PthComing' + 1 /\ PthComing' \in {0, 1}
  BY <1>1 DEF PthComing
<1>4. CASE waited' = None
  BY <1>1, <1>4 DEF PthInv
<1>5. CASE waited' # None
  <2>1. /\ waited # None /\ vlc.slice = "P" /\ waited' = waited + 1
        /\ waited \in Nat /\ waited + 1 <= JoinThreshold + 1 /\ ~pavi
        /\ pframe.slice # "I" =>
             /\ waited + PthComing <= JoinThreshold + 1
             /\ IF pinterval > JoinThreshold
                THEN pconnect = 1
                ELSE waited + PthComing + PthToI <= JoinThreshold + 1
    BY <1>1, <1>5 DEF PthInv
  <2>2. PthToI \in Nat
    <3>1. ppic % pinterval \in 0 .. pinterval - 1
      BY ModRange DEF PthInv
    <3> QED
      BY <3>1 DEF PthToI, PthInv
  <2>3. pframe.slice # "I" =>
             /\ waited' + PthComing' <= JoinThreshold + 1
             /\ IF pinterval > JoinThreshold
                THEN pconnect = 1
                ELSE waited' + PthComing' + PthToI <= JoinThreshold + 1
    <3>1. pframe' = pframe /\ vlc # None /\ vlc' = None /\ waited' = waited + 1 /\ waited \in Nat
      BY <1>1, <2>1
    <3>2. /\ waited + PthComing <= JoinThreshold + 1 => waited' + PthComing' <= JoinThreshold + 1
          /\ waited + PthComing + PthToI <= JoinThreshold + 1
                => waited' + PthComing' + PthToI <= JoinThreshold + 1
      BY <2>2, <3>1 DEF PthComing
    <3> QED
      BY <2>1, <3>2
  <2>4. waited' \in Nat /\ waited' <= JoinThreshold + 1
    BY <2>1
  <2> HIDE DEF PthComing, PthToI
  <2> QED
    BY <1>1, <1>2, <2>1, <2>3, <2>4 DEF PthInv
<1> QED
  BY <1>4, <1>5

(* A PLAY starts the wait with at most two P pictures on their way.        *)
LEMMA PthPlays == ASSUME PthInv, Pth!Play \/ Pth!OtherPlays PROVE PthInv'
<1>1. /\ pconnect' = 1 /\ UNCHANGED <<pinterval, ppic, psaved, pframe, pavi, vlc>>
      /\ waited' = waited \/ waited' = None \/ (waited' = 0 /\ ~pavi)
  BY DEF Pth!Play, Pth!OtherPlays, Pth!Enc!Play
<1>2. PthToI' = PthToI /\ PthComing' = PthComing /\ PthComing \in 0 .. 2
  BY <1>1 DEF PthToI, PthComing
<1>3. CASE waited' = waited \/ waited' = None
  <2> HIDE DEF PthComing, PthToI
  <2> QED
    BY <1>1, <1>2, <1>3 DEF PthInv
<1>4. CASE waited' = 0 /\ ~pavi
  <2>1. PthToI \in Nat /\ (pinterval <= JoinThreshold => PthToI + 1 <= JoinThreshold)
    <3>1. ppic % pinterval \in 0 .. pinterval - 1 /\ pinterval \in Nat \ {0}
      BY ModRange DEF PthInv
    <3> QED
      BY <3>1 DEF PthToI
  <2>2. pinterval \in Nat
    BY DEF PthInv
  <2> HIDE DEF PthComing, PthToI
  <2>3. /\ waited' + PthComing <= JoinThreshold + 1
        /\ ~(pinterval > JoinThreshold) => waited' + PthComing + PthToI <= JoinThreshold + 1
        /\ waited' + 1 <= JoinThreshold + 1 /\ waited' \in Nat /\ waited' <= JoinThreshold + 1
    BY <1>2, <1>4, <2>1, <2>2
  <2> QED
    BY <1>1, <1>2, <1>4, <2>3 DEF PthInv
<1> QED
  BY <1>1, <1>3, <1>4

(* Any step.                                                               *)
LEMMA PthStep == ASSUME PthInv, [Pth!Next]_path PROVE PthInv'
<1>1. CASE Pth!EncStart
  BY <1>1, PthStart
<1>2. CASE Pth!VlcDone
  BY <1>2, PthDone
<1>3. CASE Pth!Play \/ Pth!OtherPlays
  BY <1>3, PthPlays
<1>4. CASE Pth!Setup \/ Pth!Pause \/ Pth!Teardown \/ Pth!HangUp \/ Pth!SetSave
           \/ Pth!OtherLeaves
  <2>1. waited' = None /\ UNCHANGED <<pinterval, ppic, psaved, pframe, vlc>>
    BY <1>4 DEF Pth!Setup, Pth!Pause, Pth!Teardown, Pth!HangUp, Pth!SetSave, Pth!OtherLeaves,
                Pth!encoder, Pth!Enc!Leave, Pth!Enc!SetSave
  <2> QED
    BY <2>1 DEF PthInv
<1>5. ASSUME NEW p \in JoinPeriods, Pth!SetPeriod(p) PROVE PthInv'
  <2>1. /\ waited' = None /\ UNCHANGED <<ppic, psaved, pframe, vlc>>
        /\ pinterval' = Pth!Enc!Clamp(p)
    BY <1>5 DEF Pth!SetPeriod, Pth!Enc!SetPeriod
  <2> QED
    BY <2>1, PthClamp DEF PthInv
<1>6. CASE Pth!Round \/ UNCHANGED path
  <2>1. UNCHANGED <<pinterval, ppic, psaved, pframe, pconnect, pavi, vlc, waited>>
    BY <1>6 DEF Pth!Round, Pth!encoder, path
  <2> QED
    BY <2>1 DEF PthInv, PthComing, PthToI
<1> QED
  BY <1>1, <1>2, <1>3, <1>4, <1>5, <1>6 DEF Pth!Next

(* A picture of the encoder is one that may stand in the stream.           *)
PthFrames == {f \in Pth!Str!Pictures : f.num = 0 => f.slice = "I"}
PthFollows(e, f) == f.slice = "I" \/ f.gop # e.gop \/ f.num = e.num + 1

(* The picture that is put in the rings next.                              *)
PthHead == IF vlc # None THEN vlc ELSE pframe

(* The pictures in the two stages follow one another and what was put      *)
(* last; the newest has the number before that of ppic, for its distance.  *)
PthNums ==
    /\ pinterval \in 1 .. JoinMax
    /\ pframe.slice # "none" => pframe \in PthFrames
    /\ vlc # None => vlc \in PthFrames /\ pframe.slice # "none" /\ PthFollows(vlc, pframe)
    /\ ppic > 0 => /\ pframe.slice # "none"
                   /\ pframe.num = IF pframe.gop = 1 THEN 0 ELSE (ppic - 1) % pframe.gop
    /\ PthHead.slice # "none" =>
         IF plast = None THEN PthHead.num = 0 ELSE PthFollows(plast, PthHead)
    /\ pmade \in Nat
    /\ plast # None => plast.run \in Nat /\ plast.run < pmade

(* What may stand in the stream has its types.                             *)
LEMMA PthFrameType ==
    ASSUME NEW f \in PthFrames
    PROVE  /\ f.slice \in {"I", "P"} /\ f.num \in Nat /\ f.gop \in Nat \ {0} /\ f # None
           /\ f.num = 0 => f.slice = "I"
           /\ f \in Pth!Str!Pictures
<1>1. PICK g \in 1 .. JoinMax : f \in [slice : {"I", "P"}, num : 0 .. g - 1, gop : {g}]
  BY DEF PthFrames, Pth!Str!Pictures, Pth!Enc!Distances
<1>2. f \in [slice : {"none", "I", "P"}, num : Nat, gop : Nat]
  BY <1>1
<1> QED
  BY <1>1, <1>2 DEF PthFrames

(* The encoder codes a picture that may follow the one before it.          *)
LEMMA PthNumbers ==
    ASSUME PthInv, PthNums, Pth!Enc!EncStart
    PROVE  /\ pinterval' \in 1 .. JoinMax
           /\ pframe' \in PthFrames
           /\ IF pframe.slice = "none" THEN pframe'.num = 0 /\ pframe'.slice = "I"
                                       ELSE PthFollows(pframe, pframe')
           /\ ppic' > 0 =>
                pframe'.num = IF pframe'.gop = 1 THEN 0 ELSE (ppic' - 1) % pframe'.gop
<1>1. PICK s \in {"I", "P"} : Pth!Enc!Emit(s) /\ (s = "P" => Pth!Enc!Plain /\ Pth!Enc!Slice = "P")
  BY DEF Pth!Enc!EncStart, Pth!Enc!Shorten, Pth!Enc!CountI, Pth!Enc!PutBack, Pth!Enc!Plain,
         Pth!Enc!Slice
<1>2. pinterval' \in 1 .. JoinMax
  <2>1. pinterval \in 1 .. JoinMax /\ psaved \in Nat
    BY DEF PthInv, PthNums
  <2>2. JoinShort \in 1 .. JoinMax
    OBVIOUS
  <2> QED
    BY <2>1, <2>2 DEF Pth!Enc!EncStart, Pth!Enc!Shorten, Pth!Enc!CountI, Pth!Enc!PutBack,
                      Pth!Enc!Plain
<1> DEFINE m == IF pinterval' = 1 THEN 0 ELSE ppic % pinterval'
<1>3. pframe' = [slice |-> s, num |-> m, gop |-> pinterval'] /\ ppic' \in {0, ppic + 1}
  BY <1>1 DEF Pth!Enc!Emit
<1>4. ppic \in Nat
  BY DEF PthInv
<1>5. m \in 0 .. pinterval' - 1 /\ (ppic = 0 => m = 0)
  <2>1. \A d \in 1 .. JoinMax : d \in Nat \ {0} /\ 0 < d
    OBVIOUS
  <2>2. ppic % pinterval' \in 0 .. pinterval' - 1
    BY <1>2, <1>4, <2>1, ModRange, Zenon
  <2>3. ppic = 0 => ppic % pinterval' = 0
    BY <1>2, <1>4, <2>1, ModSmall, Zenon
  <2> QED
    BY <1>2, <2>2, <2>3
<1>6. ASSUME s = "P"
      PROVE  /\ pinterval' = pinterval /\ ppic % pinterval # 0 /\ ppic # 0 /\ pinterval # 1
             /\ m = ppic % pinterval
  <2>1. pinterval' = pinterval /\ ppic % pinterval # 0
    BY <1>1, <1>6 DEF Pth!Enc!Plain, Pth!Enc!Slice
  <2>2. ppic # 0 /\ pinterval # 1
    BY <1>2, <1>4, <2>1
  <2> QED
    BY <2>1, <2>2
<1>7. ASSUME s = "P" PROVE pframe.slice # "none" /\ PthFollows(pframe, pframe')
  <2>1. ppic > 0
    BY <1>4, <1>6, <1>7
  <2>2. /\ pframe.slice # "none"
        /\ pframe.num = IF pframe.gop = 1 THEN 0 ELSE (ppic - 1) % pframe.gop
    BY <2>1 DEF PthNums
  <2>3. ASSUME pframe.gop = pinterval PROVE m = pframe.num + 1
    <3>1. ppic - 1 \in Nat /\ (ppic - 1) + 1 = ppic
      BY <1>4, <2>1
    <3>2. ppic % pinterval = ((ppic - 1) % pinterval) + 1
      BY <1>2, <1>6, <1>7, <3>1, ModSteps
    <3> QED
      BY <1>6, <1>7, <2>2, <2>3, <3>2
  <2>4. pframe'.gop = pinterval /\ pframe'.num = m
    BY <1>3, <1>6, <1>7
  <2> QED
    BY <2>2, <2>3, <2>4 DEF PthFollows
<1>8. m = 0 => s = "I"
  BY <1>1, <1>6
<1>9. ASSUME ppic' > 0
      PROVE  pframe'.num = IF pframe'.gop = 1 THEN 0 ELSE (ppic' - 1) % pframe'.gop
  <2> HIDE DEF m
  <2>1. ppic' - 1 = ppic
    <3>1. ppic' = 0 \/ ppic' = ppic + 1
      BY <1>3, Zenon
    <3>2. CASE ppic' = 0
      BY <1>9, <3>2
    <3>3. CASE ppic' = ppic + 1
      BY <1>4, <3>3
    <3> QED
      BY <3>1, <3>2, <3>3
  <2>2. pframe'.gop = pinterval' /\ pframe'.num = m
    BY <1>3
  <2>3. (ppic' - 1) % pframe'.gop = ppic % pinterval'
    BY <2>1, <2>2, Zenon
  <2>4. CASE pinterval' = 1
    BY <2>2, <2>4, Zenon DEF m
  <2>5. CASE pinterval' # 1
    BY <2>2, <2>3, <2>5, Zenon DEF m
  <2> QED
    BY <2>4, <2>5
<1>10. pframe.slice = "none" => m = 0 /\ s = "I"
  BY <1>1, <1>4, <1>5, <1>7 DEF PthNums
<1> HIDE DEF m
<1>11. pframe' \in PthFrames
  <2>1. pframe' \in [slice : {"I", "P"}, num : 0 .. pinterval' - 1, gop : {pinterval'}]
    BY <1>3, <1>5
  <2>2. pframe' \in Pth!Str!Pictures
    BY <1>2, <2>1 DEF Pth!Str!Pictures, Pth!Enc!Distances
  <2> QED
    BY <1>3, <1>8, <2>2 DEF PthFrames
<1>12. IF pframe.slice = "none" THEN pframe'.num = 0 /\ pframe'.slice = "I"
                                ELSE PthFollows(pframe, pframe')
  BY <1>1, <1>3, <1>7, <1>10 DEF PthFollows
<1> QED
  BY <1>2, <1>9, <1>11, <1>12

(* The beginning.                                                          *)
LEMMA PthNumsInit == Pth!Init => PthNums
<1> SUFFICES ASSUME Pth!Init PROVE PthNums
  OBVIOUS
<1>1. PICK p \in JoinPeriods :
         /\ ppic = 0 /\ pinterval = Pth!Enc!Clamp(p)
         /\ pframe = [slice |-> "none", num |-> 0, gop |-> Pth!Enc!Clamp(p)]
  BY DEF Pth!Init, Pth!Enc!Init
<1>2. vlc = None /\ pmade = 0 /\ plast = None
  BY DEF Pth!Init, Pth!Str!Init
<1>3. pinterval \in 1 .. JoinMax
  BY <1>1 DEF Pth!Enc!Clamp
<1> QED
  BY <1>1, <1>2, <1>3 DEF PthNums, PthHead

(* A picture is started.                                                   *)
LEMMA PthNumsStart == ASSUME PthInv, PthNums, Pth!EncStart PROVE PthNums'
<1>1. /\ vlc = None /\ Pth!Enc!EncStart
      /\ vlc' = IF pframe.slice = "none" THEN None ELSE pframe
      /\ pmade' = pmade /\ plast' = plast
  BY DEF Pth!EncStart, Pth!stream
<1>2. /\ pinterval' \in 1 .. JoinMax
      /\ pframe' \in PthFrames
      /\ IF pframe.slice = "none" THEN pframe'.num = 0 /\ pframe'.slice = "I"
                                  ELSE PthFollows(pframe, pframe')
      /\ ppic' > 0 => pframe'.num = IF pframe'.gop = 1 THEN 0 ELSE (ppic' - 1) % pframe'.gop
  BY <1>1, PthNumbers
<1>3. pframe'.slice # "none" /\ pframe' # None
  BY <1>2, PthFrameType
<1>4. CASE pframe.slice = "none"
  <2>1. vlc' = None /\ PthHead' = pframe'
    BY <1>1, <1>4 DEF PthHead
  <2>2. IF plast' = None THEN PthHead'.num = 0 ELSE PthFollows(plast', PthHead')
    BY <1>2, <1>4, <2>1 DEF PthFollows
  <2> QED
    BY <1>1, <1>2, <1>3, <2>1, <2>2 DEF PthNums
<1>5. CASE pframe.slice # "none"
  <2>1. pframe \in PthFrames /\ vlc' = pframe
    BY <1>1, <1>5 DEF PthNums
  <2>2. vlc' # None /\ PthHead' = pframe /\ PthHead = pframe
    BY <1>1, <2>1, PthFrameType DEF PthHead
  <2>3. IF plast' = None THEN PthHead'.num = 0 ELSE PthFollows(plast', PthHead')
    BY <1>1, <1>5, <2>2 DEF PthNums, PthFollows
  <2>4. PthFollows(vlc', pframe')
    BY <1>2, <1>5, <2>1
  <2> QED
    BY <1>1, <1>2, <1>3, <2>1, <2>3, <2>4 DEF PthNums
<1> QED
  BY <1>4, <1>5

(* The picture that leaves the entropy coder may follow what was put last. *)
LEMMA PthPuts == ASSUME PthInv, PthNums, Pth!VlcDone PROVE Pth!Str!Encode
<1>1. vlc # None /\ vlc \in PthFrames /\ Pth!Str!EncodeDone(vlc)
  BY DEF Pth!VlcDone, PthNums
<1>2. PthHead = vlc /\ vlc.slice # "none"
  BY <1>1, PthFrameType DEF PthHead
<1>3. plast # None => plast.run < JoinFrames
  <2>1. pmade < JoinFrames /\ pmade \in Nat
    BY <1>1 DEF Pth!Str!EncodeDone, PthNums
  <2> QED
    BY <2>1 DEF PthNums
<1>4. IF plast = None THEN vlc.num = 0 ELSE Pth!Str!MayFollow(plast, vlc)
  BY <1>2 DEF PthNums, PthFollows, Pth!Str!MayFollow
<1>5. Pth!Str!CanFollow(vlc)
  BY <1>1, <1>3, <1>4, PthFrameType DEF Pth!Str!CanFollow
<1> QED
  BY <1>1, <1>5, PthFrameType DEF Pth!Str!Encode

(* It is in the rings, and the next one may follow it.                     *)
LEMMA PthNumsDone == ASSUME PthInv, PthNums, Pth!VlcDone PROVE PthNums'
<1>1. /\ vlc # None /\ vlc' = None /\ Pth!Str!EncodeDone(vlc)
      /\ UNCHANGED <<pinterval, ppic, pframe>>
  BY DEF Pth!VlcDone, Pth!encoder
<1>2. vlc \in PthFrames /\ pframe.slice # "none" /\ PthFollows(vlc, pframe)
  BY <1>1 DEF PthNums
<1> DEFINE r == IF plast = None THEN 0
                ELSE IF Pth!Str!InLine(plast, vlc) THEN plast.run ELSE plast.run + 1
<1>3. /\ pmade' = pmade + 1
      /\ plast' = [id |-> pmade, slice |-> vlc.slice, num |-> vlc.num, gop |-> vlc.gop,
                   run |-> r]
  BY <1>1 DEF Pth!Str!EncodeDone
<1>4. pmade \in Nat /\ r \in Nat /\ r < pmade + 1
  BY DEF PthNums
<1> HIDE DEF r
<1>5. plast' # None /\ plast'.run = r
  <2>1. plast' \in [id : Nat, slice : {"I", "P"}, num : Nat, gop : Nat, run : Nat]
    BY <1>2, <1>3, <1>4, PthFrameType
  <2> QED
    BY <1>3, <2>1, PutAssumption
<1>6. PthHead' = pframe /\ PthFollows(plast', pframe)
  BY <1>1, <1>2, <1>3 DEF PthHead, PthFollows
<1> QED
  BY <1>1, <1>3, <1>4, <1>5, <1>6 DEF PthNums, PthFollows

(* Any step.                                                               *)
LEMMA PthNumsStep == ASSUME PthInv, PthNums, [Pth!Next]_path PROVE PthNums'
<1>1. CASE Pth!EncStart
  BY <1>1, PthNumsStart
<1>2. CASE Pth!VlcDone
  BY <1>2, PthNumsDone
<1>3. ASSUME UNCHANGED <<ppic, pframe, vlc, pmade, plast>>, pinterval' \in 1 .. JoinMax
      PROVE  PthNums'
  BY <1>3 DEF PthNums, PthHead, PthFollows
<1>4. CASE Pth!Setup \/ Pth!Play \/ Pth!OtherPlays \/ Pth!Pause \/ Pth!Teardown \/ Pth!HangUp
           \/ Pth!OtherLeaves \/ Pth!SetSave \/ Pth!Round \/ UNCHANGED path
  <2>1. UNCHANGED <<ppic, pframe, vlc, pinterval>>
    BY <1>4 DEF Pth!Setup, Pth!Play, Pth!OtherPlays, Pth!Pause, Pth!Teardown, Pth!HangUp,
                Pth!OtherLeaves, Pth!SetSave, Pth!Round, path, Pth!encoder, Pth!Enc!Play, Pth!Enc!Leave,
                Pth!Enc!SetSave
  <2>2. UNCHANGED <<pmade, plast>>
    BY <1>4 DEF Pth!Setup, Pth!Play, Pth!OtherPlays, Pth!Pause, Pth!Teardown, Pth!HangUp,
                Pth!OtherLeaves, Pth!SetSave, Pth!Round, path, Pth!stream, Pth!Str!Setup, Pth!Str!Play,
                Pth!Str!Pause, Pth!Str!Reconnect, Pth!Str!Poll, Pth!Str!NoWindow, Pth!Str!Send,
                Pth!Str!NotReady, Pth!Str!GetTest, Pth!Str!Take, Pth!Str!Build
  <2> QED
    BY <1>3, <2>1, <2>2 DEF PthNums
<1>5. ASSUME NEW p \in JoinPeriods, Pth!SetPeriod(p) PROVE PthNums'
  <2>1. UNCHANGED <<ppic, pframe, vlc, pmade, plast>> /\ pinterval' = Pth!Enc!Clamp(p)
    BY <1>5 DEF Pth!SetPeriod, Pth!Enc!SetPeriod, Pth!stream
  <2>2. Pth!Enc!Clamp(p) \in 1 .. JoinMax
    BY DEF Pth!Enc!Clamp
  <2> QED
    BY <1>3, <2>1, <2>2
<1> QED
  BY <1>1, <1>2, <1>3, <1>4, <1>5 DEF Pth!Next

(* What a step of the whole path does to the stream is a step of it.       *)
LEMMA PthStreams == ASSUME PthInv, PthNums, [Pth!Next]_path PROVE [Pth!Str!Next]_(Pth!stream)
<1>1. CASE Pth!VlcDone
  BY <1>1, PthPuts DEF Pth!Str!Next
<1>2. CASE Pth!Setup \/ Pth!Play \/ Pth!Pause \/ Pth!Teardown \/ Pth!HangUp
  BY <1>2 DEF Pth!Setup, Pth!Play, Pth!Pause, Pth!Teardown, Pth!HangUp, Pth!Str!Next,
              Pth!Str!Request
<1>3. CASE Pth!Round
  BY <1>3 DEF Pth!Round, Pth!Str!Next
<1>4. CASE Pth!EncStart \/ Pth!OtherPlays \/ Pth!OtherLeaves \/ Pth!SetSave
  BY <1>4 DEF Pth!EncStart, Pth!OtherPlays, Pth!OtherLeaves, Pth!SetSave
<1>5. ASSUME NEW p \in JoinPeriods, Pth!SetPeriod(p) PROVE UNCHANGED Pth!stream
  BY <1>5 DEF Pth!SetPeriod
<1>6. CASE UNCHANGED path
  BY <1>6 DEF path, Pth!stream
<1> QED
  BY <1>1, <1>2, <1>3, <1>4, <1>5, <1>6 DEF Pth!Next

HIDE JoinAssumption

-----------------------------------------------------------------------------
(* The parts side by side.                                                 *)

PartsInv == /\ Enc!TypeOK /\ StrInv /\ UsrInv /\ Set!TypeOK /\ Set!MarksHaveTask
            /\ EthInv /\ TunInv /\ AdrInv /\ RecInv /\ TmrInv /\ PthInv
            /\ PthNums

(* The part that moves makes a step of its component, the others none.     *)
LEMMA PartSteps ==
    ASSUME [Next]_vars
    PROVE  /\ [Eth!Next]_ethtx /\ [Tun!Next]_tunnel /\ [Adr!Next]_address
           /\ [Rec!Next]_recorder /\ [Tmr!Next]_timers /\ [Pth!Next]_path
           /\ [Enc!Next]_encoder /\ [Str!Next]_stream /\ [Usr!Next]_users
           /\ [Set!Next]_change
<1>1. CASE UNCHANGED vars
  BY <1>1 DEF vars
<1>2. CASE Encoder(Enc!Next) \/ Stream(Str!Next) \/ Users(Usr!Next)
  BY <1>2 DEF Encoder, Stream, Users
<1>3. CASE Timers(Tmr!Next)
  BY <1>3 DEF Timers
<1>4. CASE Transmit(Eth!Next)
  BY <1>4 DEF Transmit
<1>5. CASE Record(Rec!Next)
  BY <1>5 DEF Record
<1>6. CASE Hand(Tun!Next)
  BY <1>6 DEF Hand
<1>7. CASE Address(Adr!Next)
  BY <1>7 DEF Address
<1>8. CASE Path(Pth!Next)
  BY <1>8 DEF Path
<1>9. CASE Change(Set!Next)
  BY <1>9 DEF Change
<1> QED
  BY <1>1, <1>2, <1>3, <1>4, <1>5, <1>6, <1>7, <1>8, <1>9 DEF Next

(* Every part keeps what its component keeps.                              *)
LEMMA Invariant == Spec => []PartsInv
<1>1. Init => PartsInv
  BY EncTypesInit, StrInvInit, UsrInvInit, SetTypesInit, SetMarksInit, EthInit, TunInit,
     AdrInit, RecInit, TmrInit, PthInit, PthNumsInit DEF Init, PartsInv
<1>2. PartsInv /\ [Next]_vars => PartsInv'
  BY PartSteps, EncTypesStep, StrInvStep, UsrInvStep, SetTypesStep, SetMarksStep, EthStep,
     TunStep, AdrStep, RecStep, TmrStep, PthStep, PthNumsStep DEF PartsInv
<1> QED
  BY <1>1, <1>2, PTL DEF Spec

-----------------------------------------------------------------------------
(* The theorems.                                                           *)

(* Side by side, each part is the component: the whole implements the      *)
(* specification of each, so what is proved of a component is true here.   *)
THEOREM PartsAreComponents ==
    Spec => /\ Enc!Spec /\ Str!Spec /\ Usr!Spec /\ Set!Spec /\ Pth!Spec
            /\ Tmr!Spec /\ Eth!Spec /\ Rec!Spec /\ Tun!Spec /\ Adr!Spec
<1>1. Init => /\ Enc!Init /\ Str!Init /\ Usr!Init /\ Set!Init /\ Pth!Init
              /\ Tmr!Init /\ Eth!Init /\ Rec!Init /\ Tun!Init /\ Adr!Init
  BY DEF Init
<1>2. ASSUME [Next]_vars
      PROVE  /\ [Enc!Next]_Enc!encoder /\ [Str!Next]_Str!stream
             /\ [Usr!Next]_Usr!users /\ [Set!Next]_Set!change
  BY <1>2, PartSteps
     DEF Enc!encoder, Enc!request, encoder, request, Str!stream, Str!ring, Str!tx, stream,
         ring, tx, Usr!users, users, Set!change, change
<1>3. ASSUME [Next]_vars PROVE [Pth!Next]_Pth!vars /\ [Tmr!Next]_Tmr!vars
  BY <1>3, PartSteps
     DEF Pth!vars, Pth!encoder, Pth!stream, path, Tmr!vars, Tmr!table, timers
<1>4. ASSUME [Next]_vars
      PROVE  /\ [Eth!Next]_Eth!vars /\ [Rec!Next]_Rec!vars
             /\ [Tun!Next]_Tun!vars /\ [Adr!Next]_Adr!vars
  BY <1>4, PartSteps
     DEF Eth!vars, Eth!senders, ethtx, Rec!vars, Rec!settings, Rec!rings, Rec!task, recorder,
         Tun!vars, tunnel, Adr!vars, address
<1> QED
  BY <1>1, <1>2, <1>3, <1>4, PTL
     DEF Spec, Enc!Spec, Str!Spec, Usr!Spec, Set!Spec, Pth!Spec, Tmr!Spec, Eth!Spec, Rec!Spec,
         Tun!Spec, Adr!Spec

(* So pictures follow each other by number, are sent in order and missed   *)
(* by whole groups, and the table of the viewers is right.                 *)
THEOREM PartsKeepTheirPromises ==
    Spec => /\ NumbersFollow /\ NeverBackwards /\ OnlyWholeGroups /\ NoFalseAlarm
            /\ []ArgsMatch /\ []UsersCounted
  BY PartsAreComponents, NumbersAlwaysFollow, NeverSentBackwards, LossIsWholeGroups,
     NoLossNoStop, EntriesMatch, CountIsRight, PTL

(* Every part keeps its types: no table, ring, queue or count leaves its   *)
(* bounds, and nobody is at a place the code does not have.                *)
THEOREM AllTypes == Spec => []TypeOK
<1>1. PartsInv => TypeOK
  BY DEF PartsInv, StrInv, UsrInv, EthInv, TunInv, AdrInv, RecInv, TmrInv, TypeOK
<1> QED
  BY <1>1, Invariant, PTL

(* The count of pauses is never counted down below 0: whoever is behind    *)
(* CS_ETHERNET finds it as large as when it was read, or larger.           *)
THEOREM PauseCountsDown == Spec => []PauseNeverWraps
<1>1. PartsInv => PauseNeverWraps
  BY DEF PartsInv, EthInv, PauseNeverWraps, Eth!PauseNeverWraps
<1> QED
  BY <1>1, Invariant, PTL

(* No processor starts a copy while another one copies and waits for it.   *)
THEOREM CopiesAreAlone == Spec => SyncIsAlone
<1>1. ASSUME PartsInv, [Next]_vars
      PROVE  [\A c, d \in Eth!Cpus :
                 dma[c] = "none" /\ dma'[c] # "none" => dma[d] # "sync"]_Eth!vars
  BY <1>1, PartSteps, EthCopies DEF PartsInv
<1> QED
  BY <1>1, Invariant, PTL DEF Spec, SyncIsAlone, Eth!SyncIsAlone

(* A command of the job ring that announces a tunnel finds it in the queue.*)
THEOREM TunnelsStayInStep == Spec => []InStep
<1>1. PartsInv => InStep
  BY DEF PartsInv, TunInv, InStep
<1> QED
  BY <1>1, Invariant, PTL

(* The processors agree on the address whenever nothing is on its way.     *)
THEOREM OneAddress == AddressSpaced /\ Spec => []AddressesAgree
<1> SUFFICES ASSUME AddressSpaced PROVE Spec => []AddressesAgree
  OBVIOUS
<1>1. PartsInv => AddressesAgree
  BY AdrAgrees DEF PartsInv
<1> QED
  BY <1>1, Invariant, PTL

(* A file that is opened is not open already.                              *)
THEOREM FilesAreClosed == RecSpaced /\ Spec => []NoFileLost
<1> SUFFICES ASSUME RecSpaced PROVE Spec => []NoFileLost
  OBVIOUS
<1>1. PartsInv => NoFileLost
  BY RecKeeps DEF PartsInv, NoFileLost
<1> QED
  BY <1>1, Invariant, PTL

(* A P picture is written only right after the picture it builds on, when  *)
(* a ring has more slots than a group has pictures.                        *)
THEOREM PicturesFollow == RecGop < RecSlots /\ Spec => FilesDecodable
<1> SUFFICES ASSUME RecGop < RecSlots PROVE Spec => FilesDecodable
  OBVIOUS
<1>1. PartsInv => [rpc = "get" /\ rpc' = "written" /\ Head(buf[me]) = "P" => ~gap[me]]_Rec!vars
  BY RecKeeps DEF PartsInv
<1> QED
  BY <1>1, Invariant, PTL DEF FilesDecodable, Rec!FilesDecodable

(* A callback runs for a timer that was armed and whose time is over.      *)
THEOREM TimersInTime == Spec => RunsOnTime
<1>1. PartsInv => [tpc = "call" /\ tpc' # "call" => due[cb[id]] = 0 \/ raced]_Tmr!vars
  BY TmrOnTime DEF PartsInv
<1> QED
  BY <1>1, Invariant, PTL DEF RunsOnTime, Tmr!RunsOnTime

(* Whatever viewers, the user and the recorder do to the distance, the     *)
(* encoder with its two stages puts into the ring of a viewer only what    *)
(* RtspStream assumes: so what is proved of RtspStream is true of a viewer *)
(* of the real encoder.                                                    *)
THEOREM PathFollows == Spec => PathIsStream
<1>1. Init => Pth!Str!Init
  BY DEF Init, Pth!Init
<1>2. PartsInv /\ [Next]_vars => [Pth!Str!Next]_(Pth!stream)
  BY PartSteps, PthStreams DEF PartsInv
<1>3. PartsInv /\ [Next]_vars => [Pth!Str!Next]_Pth!Str!stream
  BY <1>2 DEF Pth!stream, Pth!Str!stream, Pth!Str!ring, Pth!Str!tx
<1> QED
  BY <1>1, <1>3, Invariant, PTL DEF Spec, PathIsStream, Pth!Str!Spec

(* A viewer that starts to play is given an I picture after few P pictures:*)
(* for every threshold, distance and short distance.                       *)
THEOREM ViewerSoonSees == Spec => []JoinIsQuick
<1>1. PartsInv => JoinIsQuick
  BY DEF PartsInv, PthInv, JoinIsQuick, Pth!JoinIsQuick
<1> QED
  BY <1>1, Invariant, PTL

(* No mark is left behind when requests overlap.                           *)
THEOREM OverlapKeepsMarks == Spec => []MarksHaveTask
<1>1. PartsInv => MarksHaveTask
  BY SetMarksHere DEF PartsInv
<1> QED
  BY <1>1, Invariant, PTL

=============================================================================
