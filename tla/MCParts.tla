------------------------------ MODULE MCParts -------------------------------
(* Components that share no variable with the job rings, the Ethernet      *)
(* receiver and one another, checked side by side: the initial state says  *)
(* which part moves, and all others stay in their initial states.          *)
(* VideoPath has an encoder and a stream of its own.                       *)
EXTENDS EncoderPart, StreamPart, UsersPart, SettingsPart

CONSTANTS Parts,    \* those that may be chosen
          RecSlots, RecGop, RecSpaced,  \* N, Gop and Spaced of the recorder
          Size, SysTime, IspTime, EthTime,       \* of the timers
          MaxCount, Word, MaxPauses,             \* of the transmitter
          Capacity, JobCapacity, MaxTunnels,     \* of the queue of tunnels
          Addrs, AddressTasks, AddressCapacity, AddressSpaced, MaxPlugs, \* of the address
          JoinThreshold, JoinShort, JoinMax, JoinPeriods, JoinGops, JoinRing, JoinPackets,
          JoinFrames, JoinRequests               \* of the path

(* The counts of a pause frame have 16 bits, tx_pause has 32.              *)
ASSUME RecorderAssumption == /\ RecSlots \in Nat /\ RecSlots > 1 /\ RecGop \in Nat \ {0}
                             /\ RecSpaced \in BOOLEAN
ASSUME TimerAssumption == /\ Size \in Nat \ {0}
                          /\ SysTime \in Nat /\ IspTime \in Nat /\ EthTime \in Nat
ASSUME PauseAssumption == MaxCount \in Nat /\ Word \in Nat /\ MaxCount < Word /\ MaxPauses \in Nat
ASSUME TunnelAssumption == Capacity \in Nat /\ JobCapacity \in Nat /\ MaxTunnels \in Nat
ASSUME AddressAssumption == /\ AddressCapacity \in Nat /\ Addrs # {}
                            /\ AddressSpaced \in BOOLEAN
ASSUME JoinAssumption == /\ JoinThreshold \in Nat /\ JoinShort \in 1 .. JoinThreshold
                         /\ JoinMax \in Nat /\ JoinMax > JoinThreshold
                         /\ JoinPeriods \subseteq Nat /\ JoinPeriods # {}
                         /\ JoinGops \in Nat \ {0} /\ JoinRing \in Nat /\ JoinRing > 1
                         /\ JoinPackets \in Nat \ {0}
                         /\ JoinFrames \in Nat /\ JoinRequests \in Nat
                         /\ None \notin [slice : {"none", "I", "P"}, num : Nat, gop : Nat]
ASSUME PutAssumption == None \notin [id : Nat, slice : {"I", "P"}, num : Nat, gop : Nat,
                                     run : Nat]

VARIABLES part,
    ppic, pinterval, pmaxFrame, pconnect, psaved, pavi, pframe, pasked, prequests,
    pmade, plast, pstate, pvideo, pslot, phead, ptail, psendFlag, psendDone, pbtx, pleft,
    pstart, pseq, pcur, ppc, vlc, waited,
    expired, tleft, tick, type, cb, ethId, tpc, id, caller, due, raced,
    key, epc, emode, reg, dma, isr, pause, go, pauses,
    on, card, check, rec, rstate, file, buf, gap, since, sem, rpc, me, rmode,
    tunnels, tjobs, sender, sent, tcmd, missed,
    ndhcp, nip, nkey, npc, narg, nlocal, nlink, naddr, nclient, nnet, nring, naddr0, nbroken,
    nrequests, nplugs

path == <<ppic, pinterval, pmaxFrame, pconnect, psaved, pavi, pframe, pasked, prequests,
          pmade, plast, pstate, pvideo, pslot, phead, ptail, psendFlag, psendDone, pbtx, pleft,
          pstart, pseq, pcur, ppc, vlc, waited>>
timers == <<expired, tleft, tick, type, cb, ethId, tpc, id, caller, due, raced>>
ethtx == <<key, epc, emode, reg, dma, isr, pause, go, pauses>>
recorder == <<on, card, check, rec, rstate, file, buf, gap, since, sem, rpc, me, rmode>>
tunnel == <<tunnels, tjobs, sender, sent, tcmd, missed>>
address == <<ndhcp, nip, nkey, npc, narg, nlocal, nlink, naddr, nclient, nnet, nring,
             naddr0, nbroken, nrequests, nplugs>>
vars == <<part, encoder, stream, path, users, timers, ethtx, recorder, tunnel, change, address>>

Pth == INSTANCE VideoPath WITH
           pic <- ppic, interval <- pinterval, maxFrame <- pmaxFrame, connect <- pconnect,
           saved <- psaved, avi <- pavi, frame <- pframe, asked <- pasked,
           requests <- prequests, made <- pmade, last <- plast, state <- pstate, video <- pvideo,
           slot <- pslot, head <- phead, tail <- ptail, sendFlag <- psendFlag,
           sendDone <- psendDone, btx <- pbtx, left <- pleft, start <- pstart,
           seq <- pseq, cur <- pcur, pc <- ppc,
           N <- JoinRing, Packets <- JoinPackets, MaxFrames <- JoinFrames,
           Threshold <- JoinThreshold, Short <- JoinShort, MaxPeriod <- JoinMax,
           Gops <- JoinGops, Periods <- JoinPeriods, MaxRequests <- JoinRequests
Tmr == INSTANCE SoftTimer WITH left <- tleft, pc <- tpc
Eth == INSTANCE EthTx WITH pc <- epc, mode <- emode
Rec == INSTANCE Recorder WITH state <- rstate, pc <- rpc, mode <- rmode,
           N <- RecSlots, Gop <- RecGop, Spaced <- RecSpaced
Tun == INSTANCE SideQueue WITH jobs <- tjobs, cmd <- tcmd
Adr == INSTANCE NetAddress WITH
           dhcp <- ndhcp, ip <- nip, key <- nkey, pc <- npc, arg <- narg, local <- nlocal,
           link <- nlink, addr <- naddr, client <- nclient, net <- nnet, ring <- nring,
           addr0 <- naddr0, broken <- nbroken, requests <- nrequests, plugs <- nplugs,
           Tasks <- AddressTasks, Capacity <- AddressCapacity, Spaced <- AddressSpaced

(* The settings of the configurations.                                    *)
PortSizeLogin == <<"port", "size", "login">>

Init ==
    /\ part \in Parts
    /\ Enc!Init /\ (part = "encoder" \/ asked = Enc!Clamp(CHOOSE p \in Periods : TRUE))
    /\ Pth!Init /\ (part = "path" \/ pasked = Pth!Enc!Clamp(CHOOSE p \in JoinPeriods : TRUE))
    /\ Str!Init /\ Usr!Init /\ Tmr!Init /\ Eth!Init /\ Rec!Init /\ Tun!Init /\ Set!Init
    /\ Adr!Init /\ (part = "address" \/ (ndhcp /\ nip = CHOOSE a \in Addrs : TRUE))

Encoder(A)  == part = "encoder" /\ A
                  /\ UNCHANGED <<part, stream, path, users, timers, ethtx, recorder, tunnel, change, address>>
Stream(A)   == part = "stream" /\ A
                  /\ UNCHANGED <<part, encoder, path, users, timers, ethtx, recorder, tunnel, change, address>>
Path(A)     == part = "path" /\ A
                  /\ UNCHANGED <<part, encoder, stream, users, timers, ethtx, recorder, tunnel, change, address>>
Users(A)    == part = "users" /\ A
                  /\ UNCHANGED <<part, encoder, stream, path, timers, ethtx, recorder, tunnel, change, address>>
Timers(A)   == part = "timers" /\ A
                  /\ UNCHANGED <<part, encoder, stream, path, users, ethtx, recorder, tunnel, change, address>>
Transmit(A) == part = "ethtx" /\ A
                  /\ UNCHANGED <<part, encoder, stream, path, users, timers, recorder, tunnel, change, address>>
Record(A)   == part = "recorder" /\ A
                  /\ UNCHANGED <<part, encoder, stream, path, users, timers, ethtx, tunnel, change, address>>
Hand(A)     == part = "tunnel" /\ A
                  /\ UNCHANGED <<part, encoder, stream, path, users, timers, ethtx, recorder, change, address>>
Change(A)   == part = "change" /\ A
                  /\ UNCHANGED <<part, encoder, stream, path, users, timers, ethtx, recorder, tunnel, address>>
Address(A)  == part = "address" /\ A
                  /\ UNCHANGED <<part, encoder, stream, path, users, timers, ethtx, recorder, tunnel, change>>

Next == \/ Encoder(Enc!Next) \/ Stream(Str!Next) \/ Path(Pth!Next) \/ Users(Usr!Next)
        \/ Timers(Tmr!Next) \/ Transmit(Eth!Next) \/ Record(Rec!Next) \/ Hand(Tun!Next)
        \/ Change(Set!Next) \/ Address(Adr!Next)

(* The fairness of each component's LiveSpec, for the part that moves.     *)
Fairness ==
    /\ WF_vars(Encoder(Enc!EncStart))
    /\ WF_vars(Stream(Str!Poll))
    /\ WF_vars(Stream(Str!NoWindow \/ Str!Send))
    /\ SF_vars(Stream(Str!Send))
    /\ \A c \in Conns : WF_vars(Users(Usr!Poll(c)))
    /\ WF_vars(Timers(Tmr!Tick))
    /\ WF_vars(Timers(Tmr!MainLoop))
    /\ WF_vars(Transmit(Eth!StorePause))
    /\ \A c \in Eth!Cpus : /\ SF_vars(Transmit(Eth!TakeKey(c)))
                           /\ WF_vars(Transmit(Eth!Steps(c)))
                           /\ WF_vars(Transmit(Eth!CopyDone(c)))
    /\ WF_vars(Record(\E x \in Rec!Slices : Rec!Picture(x)))
    /\ WF_vars(Record(Rec!Check))
    /\ WF_vars(Record(Rec!Task))

Spec == Init /\ [][Next]_vars
LiveSpec == Spec /\ Fairness

-----------------------------------------------------------------------------
(* The properties of the components, beside those of the state modules.    *)

(* Every part keeps its types.                                             *)
TypeOK == /\ Enc!TypeOK /\ Str!TypeOK /\ Usr!TypeOK /\ Tmr!TypeOK /\ Eth!TypeOK
          /\ Rec!TypeOK /\ Tun!TypeOK /\ Set!TypeOK /\ Adr!TypeOK

(* A viewer that starts to play soon gets an I picture.                    *)
JoinIsQuick == Pth!JoinIsQuick

(* The encoder of IdrControl, with its two stages, puts into the ring of a *)
(* viewer only what RtspStream lets follow one another.                    *)
PathIsStream == Pth!Str!Spec

(* A timer runs when it is due and once for each time it was armed; and it *)
(* does run.                                                               *)
RunsOnTime == Tmr!RunsOnTime
TimersRun == Tmr!TimersRun

(* The count of pauses never runs below 0, no copy starts while another    *)
(* processor copies and waits for it, and a frame is sent in the end.      *)
PauseNeverWraps == Eth!PauseNeverWraps
SyncIsAlone == Eth!SyncIsAlone
FrameIsSent == Eth!FrameIsSent

(* What a file holds can be decoded, no open file is forgotten, and files  *)
(* are closed when recording is turned off.                                *)
FilesDecodable == Rec!FilesDecodable
NoFileLost == Rec!NoFileLost
OffCloses == Rec!OffCloses

(* While it is on, files are written; a recorder that stands still records *)
(* nothing.                                                                *)
OnRecords == part = "recorder" => Rec!OnRecords

(* The queue of the tunnels stays in step with the job ring.               *)
InStep == Tun!InStep

(* The two processors agree on the address.                                *)
AddressesAgree == Adr!AddressesAgree
=============================================================================
