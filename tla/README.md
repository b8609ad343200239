# The EN673 camera firmware in TLA+

The EN673 is a network camera on a chip with two OpenRISC-like processors. CPU0
encodes video and audio, serves RTSP and runs a main loop with interrupts and no
operating system; CPU1 runs FreeRTOS with the web server, the recorder, the
console and the network services. They share memory, a handful of flag words,
two interrupt lines and hardware test-and-set keys. This directory models how
the two processors work together: the parts of the firmware whose correctness
rests on the order of steps that no test forces.

The models are of the Ethernet build (`__ETH__` on, `__WIFI__` and ONVIF off,
`USER_DEFAULT` 1, `ETH_EXCESSIVE_PACKETS_CK` 1, `RTSPoverHTTP` 1). `__EN673M__`
is not defined, so `__H264_MCH__` is off and the encoder is that of `h264.c` and
`h264_core.c`; the soft-timer code of audio is switched off by `#if 0`.

## 1. Inventory

| Part | Code | State | Operations | Hard about it | What makes it correct |
|---|---|---|---|---|---|
| Job rings | `dev/msg.c`, `dev/msg.h` | `gptMsgCpu1to0`, `gptMsgCpu0to1`: slots, head, tail; the key `CS_PASSMSG` | `MsgPut`, `MsgPut_nolock` in a batch, `MsgGet` | two processors and several tasks, one key, a ring that fills up | one holder of the key; nothing lost or overwritten; FIFO; batches together; a post gets through |
| Ethernet receive | `open_eth.c`, `dev/sys.c`, `ethernetif.c`, `networkif.c` | the ring `gptMsgNetworkRX1` without a lock, `CPU_SHARED1`, `CPU_IRQ1`, `ETH_RX_EN`, the semaphore of `if_input` | receive interrupt, `IsrSys1`, `low_level_input`, the timer that turns the receiver on | lock-free across processors, flags changed without a lock, receiver turned off and on by both | no frame lost in the ring; CPU1 never sleeps over work; the receiver comes back |
| Settings change | `cgissi_en673.c`, `videochange.c`, `msgqpass.c`, `rtp_over_rtsp.c`, `timer_task.c` | `gtUser`, `unVideoChangeFlag`, what CPU0 works with | request, `VideoChangeTask`, commands, the RTSP port and its answer | requests overlap tasks, a change is refused, an answer is lost | every marked setting is sent; both processors agree in the end |
| Ethernet transmit | `dev/dma.c`, `ethif.c`, `ethernetif.c` | `CS_ETHERNET`, `tx_go`, `tx_pause`, the FIFO of the MAC | `DmaEthTxCpy` and its variants, pause frames | both processors send; the copy may outlive the key; pause requests from the interrupt | one frame at a time in the MAC's buffer; a pause ends |
| Soft timers | `dev/exr1k_timer.c` | the table of timers, the 32-bit tick | arm, cancel, `timer_poll` | armed in interrupts and in callbacks; tick wrap | no timer lost, no callback of another timer |
| Stream buffers, RTSP | `stream_buffering.c`, `rtp_over_rtsp.c`, `rtp_h264.c`, `rtp_jpeg.c`, `rtp_audio.c`, `rtsp_cmd.c`, `rtcp_recv.c` | a ring per client, the session's state, the table `rtsp_list` | put by encoder interrupts, get and send by the main loop, session commands, connections of lwIP | a slow client, a session that ends while frames are queued, a viewer that is gone | pictures in order; a dropped backlog starts again at an I picture; the table and lwIP agree |
| Encoders | `enx_video` | `imgbuf.pic`, `param.i_interval`, `Rtsp_connect`, `Rtsp_idr` | a picture, PLAY, PAUSE, a new distance of I pictures | the distance is borrowed for viewers that join, and all sessions share the count | a P picture follows its reference; the user's distance comes back; a viewer starts soon |
| Record queue, recorder | `dev/msg.c`, `cpu1/task/avienc` | `gptMsgRecInfo` under its key, two rings, the state of two AVI writers | `MsgRecPut`, `MsgRecGet`, open, write, close, turn on and off, event | interrupts that spin on a key, a ring moved on under its reader, stop requests at any time | files that can be decoded; every opened file is closed |
| Side queues | `dev/msg.c`, `http_tunneling.c`, `http_tunnel.c`, `shell_cmd_isp.c` | `gptMsgTunnel`, `gptMsgTxtOsd` | put in the side queue, then a command in the job ring | two queues that must stay in step | each command finds its payload |
| Console queue | `isp_app_comm.c`, `shell.c` | `gptMsgShell` | a byte, a line, the console's interrupt | no test for a full queue | lines in order |
| Watchdog | `dev/sys.c`, `main.c` | `CPU1_WDT_COUNT` | count, reset | sees dead processors, not a dead queue | a stopped CPU1 reboots the camera |
| Address change | `ipchange.c`, `ethernetif.c`, lwIP's `dhcp.c` and `netif.c` | `gtUser`, a key per interface, the interfaces of both processors, the DHCP client | request, task, cable in and out, lease | the task and lwIP's thread change and post the same address without a lock | both processors end with the same address, and with the fixed one if there is one |
| FTP | `ftp_server.c`, `ftp_data.c` | a mailbox between the processors | commands, data transfer | two connections on two stacks | a transfer ends on both sides |
| Audio | `dev/audio` | registers, stream memory | end-of-frame interrupts | (its queues are above) | |
| WiFi mailbox, ONVIF | `inter_cpu.c`, `wifiif.c`, `onvif` | | | not in this build | |
| Web server, services, SD card, flash, update, boot | see PROJECT.json | | | sequential or pure I/O | |
| FreeRTOS, FatFS, lwIP, RTMP, gSOAP | vendored | | | | assumed |

How they interact: tasks of CPU1 send commands to CPU0 through the job ring, and
CPU0 answers some of them through the other one. CPU0 announces frames, records
and console lines in `CPU_SHARED1` and raises `CPU_IRQ1`; `IsrSys1` looks at the
flags and wakes the tasks. `gtUser` is written by CPU1 and read by both.

What runs when: on CPU0 the main loop, stopped by interrupts that do not nest
(`XsrInt` serves them one after the other). On CPU1 tasks by priority (receive 7,
network stack 6, the others 5, sliced), stopped by interrupts except inside
`portENTER_CRITICAL`. The processors run in parallel.

## 2. Plan

In order of importance; 1 to 10 are done.

1. `PassMsg`, refining `BoundedFifo`: the job rings. Proved.
2. `NetRx`: reception, lock-free. Its safety is proved.
3. `Settings`: what the job rings are for. Its safety is proved. It takes a ring
   as a bounded queue with atomic operations, which is what `BoundedFifo` promises.
4. `RtspStream`: the ring of one viewer between the encoder's interrupt and the
   sender. Its safety is proved.
5. `RtspUsers`: which entry of the table belongs to which connection. Proved.
6. `IdrControl`, and `VideoPath`, which composes it with `RtspStream`. The
   safety of both is proved.
7. `Recorder`: two recorders, one task, one card. Its safety is proved.
8. `EthTx`: `CS_ETHERNET`, pause frames, DMA. `SoftTimer`: the timer table.
9. `SideQueue`: a connection and its command, over `BoundedFifo`.
10. `NetAddress`: the IP address in `gtUser`, CPU1 and CPU0.
11. Left: the record queue under its key (composed with `Recorder`); the console
    queue; the watchdog; FTP; the text overlay's queue; the
    HTTP front end of CPU0; the streams of MJPEG and audio.

Runs: one per question, small instances; components that share no state are
checked side by side in one module (`MCParts`). Every invariant and every action property of the
passing runs has a proof; what is left to TLC is liveness.

## 3. The modules

### PassMsg (and BoundedFifo, PassMsgProofs)

State: `key` is `CS_PASSMSG`, a register whose read returns the old value and
sets it; `head`, `tail` and `slot` are the two rings by direction; `pc` says
where each task of CPU1, CPU0 and the timer task are in `MsgPut`,
`MsgPut_nolock` or `MsgGet`; `msg` and `got` are their commands. An action is one
access to shared memory, so every interleaving of the two processors and of
tasks stopped at any access is covered:

| Action | Code |
|---|---|
| `Post`, `PostBatch` | a task decides to post; `VideoChangeTask` posts a batch |
| `Acquire`, `DropReply` | `MsgLock` succeeds; CPU0's only attempt to answer fails |
| `HasRoom`, `NoRoom` | `cQueue_isfull` |
| `Write`, `AdvanceTail`, `ReleasePut` | the slot, `num_loop`, `MsgUnlock` |
| `HasMsg`, `NoneThere`, `Read`, `AdvanceHead`, `ReleaseGet` | the same in `MsgGet` |

An attempt to get the key that fails changes nothing and is not a step of its
own, except for CPU0's answer, which is then dropped. `num_loop` is one step here:
the others do not look at the index without the key. A command is its poster,
whether it changes the RTSP port (only this one is answered) and how many of its
batch follow. `BoundedFifo` is the promise: a bounded queue per direction. The
command joins the queue when `tail` moves and leaves it when `MsgGet` has read
the slot.

### NetRx

State: frames in the MAC (`fifo`), the receiver (`rxEn`), the ring of CPU1
(`slot`, `head`, `tail`), the number of frames in CPU0's own ring (`rx0`), the flag word
and line (`flags`, `irq1`), the timer (`chk`), the semaphore (`sem`), and where the
receive interrupt, the main loop, `IsrSys1` and `if_input` are. Interrupts do not
nest; a main loop or task moves only when no interrupt of its processor is
running; `portENTER_CRITICAL` keeps `IsrSys1` out. `CPU_SHARED1 |= f` and
`&= ~f` are a read and a write. `num_loop` on a volatile index is two stores, first
of N and then of 0.

Assumptions, none of which the sources show: the MAC holds its interrupt while
its FIFO has a frame (`RxOther` and `RxTake` may start whenever `fifo > 0`, so
`ETH_RX_IRQCLR` after the test for empty loses nothing); `CPU_IRQ1` stays raised
until `CPU_IRQ1_CLR`; while one processor is between the two stores of
`num_loop`, the other uses the ring at most once (`WrapWindow` = 1: the window is
a few instructions, a use copies a frame by DMA); the timer table is never full.
Left out: frames of an illegal length, which end the interrupt at once; pause
frames, which belong to transmission; the other semaphore of `low_level_input`,
which has one user in this build; the reboot after 25 unknown frames in a
second; what the flags of the encoders and the console wake. `RxTake` joins the
copy from the MAC to the test for a full ring, because the copy is to memory
that only the interrupt uses. The test of a flag and the read of its clearing are
one step, since CPU0 only adds flags in between.

### Settings (and SettingsState, SettingsPart, SettingsProofs)

State: `gtUser` (`user`), `unVideoChangeFlag` (`vflag`), the `VideoChangeTask`s
(`vpc`, `at`, `varg`), the key over a batch (`vkey`), the two rings as queues, CPU0's command
(`cpu0`, `cmd`) and what it works with (`applied`, whose `port` is
`gptMsgShare.RtspPort`), and the answer in the timer task (`echo`).
A request is one step up to the start of its task, because it runs in the thread of the network stack,
above all tasks here; a request that also disconnects a client waits in
between (`s_i_kik`), and is left out. The settings are three: the port (answered), an
ordinary one, and the RTSP login, of which CPU0 is given the address at boot.
`Test`, `Load` and `Put` are separate because a request may come between them.
`lost` remembers that CPU0 refused the last port and that its answer was dropped; it
is read by the property only.

### RtspStream (and StreamState, StreamPart, Remainders, RtspStreamProofs)

Where a component's module is split, `*State` holds its constants, variables and
what is said about them, so that a module that sets it side by side with
others can name the same properties; the component itself holds the steps. `*Part` adds
the component as an INSTANCE (`Enc`, `Str`, `Usr`, `Set`). Both `MCParts` and the proofs of the
component EXTEND it, so that what is proved of `Str!Next`, say, is about the very steps that
`MCParts` takes.

State: how many pictures the encoder has `made`, and the `last` of them; the session
(`state`, `video`); its ring `sbuf_video` (`slot`, `head`, `tail`); the hand-over (`sendFlag`,
`sendDone`); the sender's packets (`btx`, `left`), its loss detector (`start`,
`seq`), and the picture sent last (`cur`). A picture is its place in the stream (`id`),
its slice type, the number in its header, the distance of I pictures it was coded for (`gop`), and
the `run` of pictures it belongs to, which is read by properties only: a new run begins where the
number does not go on in turn from the picture before.

What the encoder may do is what `h264_enc_start` does (`CanFollow`): the number is that of the
picture counter modulo the distance, so it goes on in turn (`InLine`), unless an I picture is put in
where a viewer joined or at the end of a shortened distance, or the user changes the distance.
Such an I picture keeps its number, which need not be 0 (`h264_core.c:622`, `:669`), while the
detector goes on from 0 at every I picture (`rtp_over_rtsp.c:203`). So the P picture behind it
stops the sender although nothing was lost; `rtp_h264.c:417` prints this as a possibility ("or
changed IDR(gop)?"). `NoFalseAlarm` says that this and a P picture of another distance are the only
false alarms, and `OnlyWholeGroups` what the detector misses as long as the run goes on. That the
encoder of `IdrControl` does no more than `CanFollow` allows is `PathIsStream`.

| Action | Code |
|---|---|
| `Encode`, `EncodeDone(f)` | the encoder's interrupt: `put_video_streams` of the picture `f`, `sbuf_put`, which never tests for room |
| `Setup`, `Play`, `Pause`, `Reconnect` | requests of the session, `rtsp_add_user` and `rtsp_close` |
| `Poll`, `NoWindow`, `NotReady` | `rtp_media_streamming` and the tests before a packet |
| `GetTest`, `Take` | `sbuf_get`: the test for empty, with interrupts on, and the rest, with the encoder's interrupt off; then `getH264Image` |
| `Build` | `buildPacket` |

The interrupt comes between any two of these. Left out: whether a packet that was
built is really sent (`rtp_h264.c:571`), the streams of MJPEG and audio, RTCP.

### RtspUsers (and UserState, UsersPart, RtspUsersProofs)

State: the entries of `rtsp_list` (`valid`, `tpcb`, `poll`), the counter
`nrtsp_user` (`n`), and of lwIP the state of each pcb and its `callback_arg`. A pcb
that lwIP frees is used again. Actions are whole handlers, as the main loop runs
them: `Accept`, `Refuse` (a full table: the first viewer is thrown out, and the
newcomer is refused all the same), `Heard`, `Leave`, `Abort`, `Closed`, `Poll`, and
the commands `KickOne`, `KickFirst`, `KickAll`. Viewers that come through HTTP tunnels
are added by another way and are left out.

### IdrControl (and IdrState, EncoderPart, IdrControlProofs) and VideoPath (and PartsProofs)

State: `pic`, the counter of pictures; the distance of I pictures the encoder works
with (`interval`, `maxFrame`), the one the user `asked` for and the one in
`Rtsp_idr` (`saved`); `Rtsp_connect` (`connect`); whether the recorder keeps the
distance (`avi`); the last picture (`frame`). `EncStart` is `h264_enc_start`, in one of
four ways: `Shorten`, `CountI`, `PutBack`, `Plain`. `Play`, `Leave`, `SetPeriod` and `SetSave` are the
requests. `Spaced` says that a request waits until the distance is back.

`VideoPath` is `IdrControl` and `RtspStream` together, each an INSTANCE. It adds
the stage between them (`vlc`: a picture is put in the rings by the interrupt of
the entropy coder, while the next one is in the encoder) and joins the requests
to both: a PLAY starts the session and shortens the distance, of which all viewers of
the channel have one. `JoinIsQuick` counts the P pictures a viewer that starts has to pass over.
`PathIsStream` says that what the encoder puts in the ring, with all that viewers, the user and the
recorder do to its distance in between, is what `RtspStream` lets an encoder do (`Str` here takes
every distance and any number of runs): so what is proved of `RtspStream` holds for this encoder.

### Recorder (and PartsProofs)

State: what the user wants (`on`), the card (`bSD_State`), `CheckSDstate`; of each of
the two recorders, "normal" and "event", whether it is recording, its state in the
`switch`, whether its file is open, its ring; the semaphore; the task with the
recorder it works for. `Picture` is `IsrH264Enc`, which moves a full ring on to its
next I picture before it puts the new one. The cases of the `switch` that fall through are
followed in the same call. `gap` remembers that the picture at the head of a ring
does not follow what the file holds; it is read by properties only.

Three facts of the code bound what holds. Recording that is turned off and on again
within the 200 ms of `CheckSDstate`, or off while an event waits for the task's
next picture, leaves the recorders in states nobody leads them out of, or an open file
whose state is reset: with `Spaced = FALSE`, `OnRecords`, `OffCloses` and `NoFileLost` all
fail. `Spaced` makes a request wait until the last one was taken up, which a user at
a web page mostly does and nothing in the code makes him do. `FilesDecodable` holds
without it, but needs a group of pictures to fit in the
ring: with 80 slots and a distance of up to 240, a ring that is moved on can be emptied
altogether, and the next P picture goes to the file without its reference.
No sentence of the repository promises the contrary of any of these, so they are no runs.

Left out: errors and removal of the card, a change of the frame rate, `all_stop` of the
firmware update, drops in the record queue. Audio blocks are like P pictures.

### EthTx (and PartsProofs)

State: `CS_ETHERNET`, where each processor is in `DmaEthTxCpy` or
`DmaEthTxCpy_async`, its DMA engine, `tx_pause`, `tx_go`. The receive interrupt of
CPU0 sets the count (`PauseFrame`, `StorePause`) and the flag (`GoFrame`); the sender
that has the key counts down. CPU0 locks its interrupts out and counts in one
step; CPU1's counting is a load, a store and a test with the interrupt of the other
processor in between. The asynchronous function gives the key back before its copy
has ended, so two asynchronous copies may run at the same time; what must not happen
is a copy that starts while a synchronous one runs.

### SoftTimer (and PartsProofs)

State: the entries of the table (`expired`, `left`, `tick`, `type`, `cb`), the id
`eth_rx_en_check` keeps, the main loop. Three timers stand for all of this build: a
periodic one armed before interrupts are on, one that the main loop arms at the end of
the boot and again in its own callback (`CallAgain`), and one the receive interrupt
arms. An entry keeps the ticks left, so the wrap of the 32-bit tick is not modelled.
`due` and `raced` are read by properties only.

A fact the properties are weakened by: the main loop sees a free entry, fills it and
then takes it, and the receive interrupt may take the same entry in between. The
boot's timer then overwrites that of the receiver (`raced`), whose id is never
reset: the receiver's timer is lost and never armed again. `NetRx` shows
that the receiver comes back without it.

### SideQueue (and PartsProofs)

`gptMsgTunnel` and the commands that announce its connections. The web server puts
the connection and then a command, and tries until it succeeds; CPU0 tries once to take
one for each command. `missed` counts the times CPU0 did not get the key. The property
says what this comes to: after a miss every later command finds the connection of the one
before it, and as nothing makes up for a miss, nine of them fill the queue and
`http_tunnel_send` waits in the web server for ever. `gptMsgTxtOsd` has
the same shape without the key and is left out.

### NetAddress (and PartsProofs)

State: `gtUser`'s `dhcp` and `ip`; the key of the change; the `enx_ipchange_task`s
(`pc`, `arg`, `local`); the interface of CPU1 (`link`, `addr`) and its DHCP
`client`; what lwIP's thread is about to post (`net`); the posts on the way (`ring`)
and the address CPU0 works with (`addr0`).

| Action | Code |
|---|---|
| `Request` | the web page changes `gtUser` and calls `enx_ipchange_proc` |
| `Start`, `Wait`, `Release`, `Stop`, `Read`, `Set`, `Post`, `DhcpStart`, `Clear` | the task, one step for each `netifapi` call and each access to what others write |
| `LinkUp`, `LinkDown`, `PostDown` | the link callback of `ethernetif.c` |
| `SetAddr`, `PostNet` | `netif_set_ipaddr` with the status callback that this lwIP calls at each change |
| `Bind`, `Nak` | the DHCP client gets, renews or loses a lease |
| `Apply` | `MSG_CMD_SET_NET_IP` in `RuntimeMsg` |

`netifapi` calls run in lwIP's thread, which does nothing else while it waits for the key
or room (`net`). Three facts bound what holds. `Spaced` makes a request wait for the task
of the one before: when requests overlap, a task may clear the key of the next one
(`ipchange.c:195`), DHCP turned on and off again then leaves the client running beside a
fixed address, and `AddressesAgree` fails. `dhcp_release` of a client that was never started, or
was stopped when the cable came out, goes on with a null pointer: with DHCP just turned
on and the cable pulled before the task has started the client (`ethernetif.c:121`), or with
DHCP turned off while the cable is out (`ipchange.c:86`). What follows is undefined, so the model
ends there (`broken`) and the properties are about the rest. And CPU0's link flag is posted by
lwIP's callbacks only, so a change from DHCP to a fixed address before the lease came leaves
it down; as nothing in CPU0's stack tests it but announcements, it is left out. No sentence of the
repository promises the contrary, so these are no runs.

### MCPassMsg, MCNetRx, MCSettings, MCParts

They give constants that a configuration cannot write, the symmetry and the bounds.
`MCParts` holds the components that share no variable with the others: the
initial state chooses a `part`, only that part moves, so each is checked in full and the
state space is their sum. In it the encoder runs with the code's own constants (30, 3, 240, 16)
and `VideoPath` with small ones. The sizes of the parts are constants of `MCParts`, with the
assumptions of the components they are given to (`TimerAssumption`, `PauseAssumption`,
`JoinAssumption` and so on), so that `PartsProofs`, which EXTENDS it, is about all sizes. Whether
the requests of the encoder, the settings, the recorder and the address wait for one another is a
constant of its own for each (`Spaced`, `ChangeSpaced`, `RecSpaced`, `AddressSpaced`), which the
theorems that need it name.

## 4. The runs

| Run | Instance | States | Shows |
|---|---|---|---|
| `passmsg_safety` | 3 slots, 2 tasks, batches of 2, symmetry | 812 k | `TypeOK`, `MutualExclusion`, `CheckStillHolds`, `SlotsMatchWindow`, `BatchContiguous`, `StallIsForever`; `IsFifo`: the rings implement `BoundedFifo`, with two commands in a ring |
| `passmsg_queue` | 2 slots, 2 tasks, batches of 1 | 86 k | `PostCompletes`: a retried post gets through |
| `netrx_wake` | 3 slots, frames for CPU1 only, one flag | 198 k | `NoneForgotten`, `EnqueuedIsHandled`, `ReceiverComesBack` |
| `netrx_mixed` | 2 slots, frames for both or none, all three flags, pbufs may run out | 2.6 M | `TypeOK`, `UnreadWindow`, also when the main loop is stopped inside `CPU_SHARED1 \|= f` |
| `settings_spaced` | 3 values, 3 requests, one after the other | 14 k | `SettledAgrees`, `RequestIsCarriedOut` |
| `parts` | ten parts, see below | 368 k | `TypeOK` and the safety of the parts |
| `parts_live` | six of them | 21 k | their liveness |
| `netrx_lost` | 2 slots, with the encoder flag | | `EnqueuedIsHandled` is violated |
| `netrx_pbuf` | 3 slots, pbufs may run out | | `EnqueuedIsHandled` is violated |
| `settings_boot` | 1 request at any time | | `BootIsSent` is violated |
| `idr_stuck` | the code's constants, a distance of 40, 2 requests at any time | | `PeriodComesBack` is violated |
| `stream_blind` | 4 slots, an I picture every 2, one packet | | `SentDecodable` is violated |

What `parts` and `parts_live` say of each part:

| Part | Instance | Safety | Liveness |
|---|---|---|---|
| `encoder` (`IdrControl`) | 30, 3, 240, 16; the user asks for 0 (which becomes 1) and 40; 2 requests that wait | `BorrowedIsOwed`, `NumbersFollow` | `PeriodComesBack` |
| `stream` (`RtspStream`) | 3 slots, distances 1 and 3, 5 pictures in up to 3 runs, 1 packet; for liveness a distance of 2 and 2 packets | `NeverBackwards`, `OnlyWholeGroups`, `NoFalseAlarm` | `BacklogIsTaken` |
| `path` (`VideoPath`) | 2 slots, distances 2 and 6, shortened to 1 above 2, 5 pictures, 2 requests at any time | `JoinIsQuick`, `PathIsStream` | |
| `users` (`RtspUsers`) | 2 entries, 3 connections, a limit of 2 | `ArgsMatch`, `UsersCounted` | `SilentIsDropped` |
| `timers` (`SoftTimer`) | 4 entries, 3 timers of 3, 1 and 2 ticks | `RunsOnTime` | `TimersRun` |
| `ethtx` (`EthTx`) | pauses up to 2, counted modulo 8, 2 of them | `PauseNeverWraps`, `SyncIsAlone` | `FrameIsSent` |
| `recorder` (`Recorder`) | 3 slots, an I picture every 2, requests that wait | `FilesDecodable`, `NoFileLost` | `OffCloses`, `OnRecords` |
| `tunnel` (`SideQueue`) | 2 and 3 places, 5 connections | `InStep` | |
| `change` (`Settings`) | 2 values, 2 requests at any time, a port that may fail | `MarksHaveTask` | |
| `address` (`NetAddress`) | 2 addresses, 2 places, 2 requests that wait, the cable plugged in twice | `AddressesAgree` | |

Bounds. A ring of 2 or 3 slots is empty, in between, full and wrapped, with
producer and consumer on every pair of slots; a longer ring adds slots nobody
touches. A batch of 2 against 2 places meets a full ring at its start and in its
middle; longer batches are covered by the proofs. Two tasks are one that
holds the key and one that waits; with cpu0 and the timer all kinds of
contenders are there. `FifoMax` is 1: the interrupt goes on as long as there are
frames, and one at a time already lets it go on for ever. `OneOther` keeps the encoders'
flag and the console's from being up at once in `netrx_mixed`: each of them meets
that of the receiver. `ChangeRequests` is 3 in `settings_spaced`; requests that
overlap are two in `parts`, one that overtakes a task while it waits or while it posts, and any
number in the proof of `MarksHaveTask`. `MaxFrames` is 5: the sender is
lapped by a ring of 3, finds a picture up to four places behind the one it sent, which is a whole group of
3 too far, and starts again at an I picture; with `MaxTurns` = 2 an I picture is put in out of turn and a
P picture comes behind it, or the distance changes and changes back. `JoinFrames` is 5: an early
I picture, two of the shortened distance, and the distance put back at an I picture whose
number is not 0. Two requests meet each other in the encoder,
and a third finds what the first found. A table of two has a viewer who stays and one who is thrown out,
and the third connection is the newcomer. Four timer entries leave one free when
all three timers are armed. Two pauses are one that is counted and one that
arrives meanwhile. With the recorder's ring of 3 slots, 2 pictures fit, an I and its P:
every full ring is moved on. Two requests turn DHCP on and off again, in both orders, and the cable
is pulled and plugged in once more within them. Five tunnels are two misses, a full queue of two, and one
that waits. The safety properties have proofs that do without these bounds; the runs showed the
properties and their inductive invariants to hold before they were proved. For liveness the bounds are what there is.
`parts_live` has less of each (a threshold of 6 in place of 30; for the recorder rings of 2 slots and I pictures only, so that
its search for the next I picture ends at once), as a round
trip of each part is enough for it; `path`,
`tunnel`, `change` and `address` are in `parts` for their safety only.

Deadlock is checked where the system never stops. It is off
in the runs of `PassMsg`, where a full ring stalls everybody (`StallIsForever`
says so on purpose), and in those of `Settings`, alone and in `parts`, where the requests are
bounded; `NetAddress`, also in `parts`, ends where the code is undefined.

### What the violations mean

- `netrx_lost`. CPU1 reads the flag word to clear `eIP1_RECORD_INFO`
  (`dev/sys.c:126`); CPU0 posts `eIP1_ETH_RX` and raises the interrupt; CPU1
  writes back the word without it. The interrupt that follows finds no flag. The
  frame stays in the ring until another one arrives.
- `netrx_pbuf`. With two frames in the ring and no pbuf for the first,
  `low_level_input` returns NULL and `if_input` waits for the semaphore
  (`networkif.c:175`); when the two were announced by one interrupt, it is used up.
- `settings_boot`. The first web request clears the marks of the boot's task
  (`cgissi_en673.c:742`) before it has posted; the RTSP login never reaches
  CPU0. It takes a request within the life of that task, which is short unless it has to
  wait for the key.
- `idr_stuck`. While the distance is shortened to 3, a second PLAY stores 1 in
  `Rtsp_connect`, and a PAUSE of any viewer stores 0. It is counted up only
  from 2 on, and taken from 1 to 2 only at a distance above 30: the encoder stays
  at 3 until the user sets the distance again (`h264_core.c:622`). A distance
  of 240 is never put back (`h264_core.c:632`), which the model says too; the theorem
  excludes it.
- `stream_blind`. A sender that is lapped by exactly the ring finds its head at
  a picture one lap further on. When the distance of I pictures divides the length of the ring, as the
  default of 30 divides 60, its number is the one expected, and a P picture goes out whose
  reference was never sent. `OnlyWholeGroups` says that this is the only
  case while the numbers go on in turn.

In the same models, without a run because no sentence of the repository promises it:
when requests overlap, a mark that is set behind the place a task has reached is
cleared by it (`videochange.c:89`), and that setting is in `gtUser` and not in CPU0;
and what is said above of the recorder, the timers and the tunnels.

### Fairness

- `PassMsg`: weak for every started access, because both processors go on; strong
  for taking the key, because all who poll it do so with a delay between two
  attempts, so none is unlucky for ever; none for posting.
- `NetRx`: weak for the interrupts, which run when raised; strong for `if_input`,
  which interrupts stop again and again but which has the highest priority of all
  tasks; none for the wire, the encoders or the main loop of CPU0.
- `Settings`: weak for every task, for CPU0 and for the timer task. A task that
  waits for the key is enabled as long as the key is free; in these runs no second batch competes.
- `IdrControl`: weak for the encoder, as the sensor delivers pictures for ever; none for requests.
- `RtspStream`: weak for the main loop, which comes round for ever; strong for the
  sender, because a viewer whose network takes no packets at all is dropped by lwIP, and one
  whose network does takes them again and again. None for the encoder and the viewer.
- `RtspUsers`: weak for `Poll`, which lwIP's timer calls for every connection.
- `SoftTimer`: weak for the tick and for the main loop.
- `EthTx`: as `PassMsg` for the key; weak for a started send, for an engine that
  copies and for the interrupt. Pause frames are bounded: a peer that pauses for ever is obeyed.
- `Recorder`: weak for pictures, for `CheckSDstate` and for the task.

## 5. What is proved

With TLAPS, for all values of the constants that satisfy the named assumptions of
the modules and what the table adds to them. `Spec` is that of the module before `Proofs`:
in `SettingsProofs` it is `Set!Spec`, in `RtspUsersProofs` `Usr!Spec`, in `IdrControlProofs`
`Enc!Spec`, in `RtspStreamProofs` `Str!Spec`, and in `PartsProofs` that of `MCParts`.

| Theorem | Module | States | Under |
|---|---|---|---|
| `TypeCorrect` | `PassMsgProofs` | `Spec => []TypeOK` | |
| `OneHolder` | | `Spec => []MutualExclusion` | |
| `ChecksHold` | | `Spec => []CheckStillHolds` | |
| `NothingLost` | | `Spec => []SlotsMatchWindow` | |
| `RingsAreFifos` | | `Spec => IsFifo`, the refinement of `BoundedFifo` | |
| `BatchesStayTogether` | | `Spec => []BatchContiguous` | |
| `StallNeverEnds` | | `Spec => StallIsForever` | |
| `RxTypeCorrect` | `NetRxProofs` | `Spec => []TypeOK` | |
| `NoFrameOverwritten` | | `Spec => []UnreadWindow` | `WrapWindow = 1` |
| `NobodyForgotten` | | `Spec => []NoneForgotten` | `WrapWindow = 1`, one flag, pbufs do not run out |
| `SetTypes` | `SettingsProofs` | `Spec => []TypeOK` | |
| `NoMarkForgotten` | | `Spec => []MarksHaveTask` | |
| `ProcessorsAgree` | | `Spec => []SettledAgrees` | `ChangeSpaced` |
| `UsrTypes` | `RtspUsersProofs` | `Spec => []TypeOK` | |
| `EntriesMatch` | | `Spec => []ArgsMatch` | |
| `CountIsRight` | | `Spec => []UsersCounted` | |
| `NewcomerHasEntry` | | a newcomer that is let in finds a free entry | |
| `EncTypes` | `IdrControlProofs` | `Spec => []TypeOK` | |
| `NumbersAlwaysFollow` | | `Spec => NumbersFollow` | |
| `BorrowedIsKept` | | `Spec => []BorrowedIsOwed` | `Spaced`, periods below the maximum |
| `StrTypes` | `RtspStreamProofs` | `Spec => []TypeOK` | |
| `NeverSentBackwards` | | `Spec => NeverBackwards` | |
| `LossIsWholeGroups` | | `Spec => OnlyWholeGroups` | |
| `NoLossNoStop` | | `Spec => NoFalseAlarm` | |
| `AllTypes` | `PartsProofs` | `Spec => []TypeOK`, of all components but `VideoPath` | |
| `PartsAreComponents` | | `Spec => Enc!Spec /\ Str!Spec /\ ...`, the refinement of each of the ten components | |
| `PartsKeepTheirPromises` | | `Spec => NumbersFollow`, `NeverBackwards`, `OnlyWholeGroups`, `NoFalseAlarm`, `[]ArgsMatch`, `[]UsersCounted` | |
| `PauseCountsDown` | | `Spec => []PauseNeverWraps` | |
| `CopiesAreAlone` | | `Spec => SyncIsAlone` | |
| `FilesAreClosed` | | `Spec => []NoFileLost` | `RecSpaced` |
| `PicturesFollow` | | `Spec => FilesDecodable` | `RecGop < RecSlots` |
| `TunnelsStayInStep` | | `Spec => []InStep` | |
| `OneAddress` | | `Spec => []AddressesAgree` | `AddressSpaced` |
| `TimersInTime` | | `Spec => RunsOnTime` | |
| `PathFollows` | | `Spec => PathIsStream`, the refinement of `RtspStream` by encoder and session together | |
| `ViewerSoonSees` | | `Spec => []JoinIsQuick` | |
| `OverlapKeepsMarks` | | `Spec => []MarksHaveTask` | |

`Remainders` holds the facts about `%` that the solver does not know.

`PassMsg`. `TypeOK` is inductive. Each step takes the key, frees it or leaves it
and its holder alone (`LockStep`), which makes `MutualExclusion` inductive. While
one actor is behind the key no other moves an index, so what it has tested stays
true: `CheckStillHolds`, with the two before. `SlotsMatchWindow` needs it, because a
slot may be written only when the ring has room. The four together are
`RingInv`. For the refinement one more fact is carried along, that the slot at
`tail` already holds the command about to be posted (`WrittenIsMsg`); then each
step adds a command at the end of `Contents`, takes the first, or leaves it
(`RingStep`), which are the steps of `BoundedFifo`. For the batches: only a
batch posts commands with others to follow (`OnlyBatches`), and the last one
posted has a successor in the hands of the holder (`LastPosted`).

`NetRx`. There is no key, so each side needs a fact the other cannot spoil.
The producer that has found room keeps it (`Room`), because the consumer only
makes more; the consumer that has found a frame keeps it (`Stock`). The index N
is the difficult place. The test for a full ring compares with `head`, and
when `head` is at N it is never equal to it: the producer sees room that is not
there. One use of the ring in that window is harmless, because the consumer has
just freed a slot, and a second is not; this is why `WrapWindow` = 1 is a
condition of the theorem, and `Room` and `Stock` say what one more use would
still find. With `TypeOK`, `Room` and `Stock`, `UnreadWindow` is inductive; eight
steps use the ring and have a lemma each, all others leave it alone
(`OtherSteps`). For `NoneForgotten`, an `Alarm` is anything on its way that will
wake `if_input`: an alarm goes off only to raise the next one (`AlarmStays`), a frame
is written only with an alarm on, and `if_input` leaves its loop without one only over
an empty ring (`InputStaysAwake`). The step that needs the theorem before is the
test for an empty ring, which must mean that no slot is unread. With a second flag
`AlarmStays` is false, as the run `netrx_lost` shows; without pbufs the loop
ends over a frame, as `netrx_pbuf` shows.

`Settings`. `MarksHaveTask` is inductive with `TypeOK`. For `SettledAgrees`, a
change that is not carried out is in one place: a task is going to post it, it is
in the job ring, CPU0 has it in hand, or its answer is on the way back (`OnePlace`).
What is on its way to CPU0 is what `gtUser` shows, and what is on its way back is the
port CPU0 listens on (`Fresh`). A setting that is in none of the places
agrees (`Agrees`). This needs that one task goes on at a time (`OneTask`), which is
what `ChangeSpaced` gives, and that a setting is posted once by a task
(`OrderAssumption`).

`RtspUsers`. The inductive invariant is `TypeOK`, `ArgsMatch` and `UsersCounted`.
All ways to end a session are `Close(C, next)` of a set of connections, so it has the lemmas: by
`ArgsMatch` the entries of `C` are as many as its open connections, distinct
connections have distinct entries, and the counter falls by their number. `Accept` needs a free entry
where the counter is below the maximum, which is `UsersCounted`; this is
`NewcomerHasEntry`, too.

`IdrControl`. `NumInv` says that the last picture has the number before that of
`pic`, for the distance the picture was coded with. A P picture comes only where `pic`
is not a multiple of the distance, and a remainder that is not 0 is one above the
remainder before it; where `pic` wraps, or the distance is shortened, the picture is an
I picture. `BorrowedIsOwed` is inductive once it says where the count is
when nothing is borrowed (`Borrowed`), with what `Spaced` gives: a request comes
only while nothing is counted.

`RtspStream`. The ring is overwritten without a test, so its order cannot be told
from `head`. `RingOrder` tells it from `tail`: with `Age`, how many puts ago a slot would have been
next, the pictures get newer from `tail` on all the way round, and slots that were
never written come first. `HeadIsNewer` says that what the sender takes next is newer than
what it has sent, also when `tail` has passed `head`; it needs `RingOrder` and
`HandOver` (the hand-over and the place of the main loop say together whether a
picture is being taken), and gives `NeverBackwards`. For the detector, `KnownJoined` relates any two
pictures that are known (in the ring, sent last, or made last): one that was made right after the
other follows it as the encoder allows, and within a run their numbers are as far apart as their places,
modulo the distance. While no loss is noticed the detector has the number of the picture sent last, or
0 if that is an I picture (`SeqIsCounted`). So within a run the number it expects means a place that is 1
ahead modulo the group, which is `OnlyWholeGroups`; and a picture made right after the last one that has
another number than expected follows an I picture whose number is not 0, or has another distance, which
is `NoFalseAlarm`.

`PartsProofs` is about the `Spec` of `MCParts`: a step of the whole is a step of one component
and a stutter of the others (`PartSteps`). So the whole implements each component
(`PartsAreComponents`), and what is proved of a component is true of it
(`PartsKeepTheirPromises`). The invariants of the components are proved one by one and put together
in `PartsInv`. Those of the encoder, the stream, the table of viewers and the settings are the ones
above: `IdrControlProofs`, `RtspStreamProofs`, `RtspUsersProofs` and `SettingsProofs` are about the
instances that `MCParts` takes its steps from, and their lemmas are cited as they are
(`EncTypesStep`, `StrInvStep`, `UsrInvStep`, `SetTypesStep`, `SetMarksStep`). The others are proved
here:

- `EthTx` (`EthInv`). One processor is behind `CS_ETHERNET`, and only the one behind it makes
  `tx_pause` smaller. So a count that was tested is still there when it is counted down, and what
  CPU1 has in its register is from 1 to the largest count: `PauseNeverWraps`. A synchronous copy
  runs only while its sender waits behind the key; with one holder this is `SyncIsAlone`.
- `SideQueue` (`TunInv`). `InStep` is inductive with `TypeOK` and one fact more: the
  connections in the queue are no more than those that were sent. A command is put and taken with
  its connection or without (`missed`), and `Announced` of a queue changes by one.
- `NetAddress` (`AdrInv`). One task goes on at a time. Without DHCP, the address of the interface
  is the one asked for, or the task has still to set it; and when the cable is in, the post that
  is last in the ring (or what CPU0 has) is the address of the interface, or the task has still to
  post. (This is `AdrTurns`, under `AddressSpaced`; the types need no condition.)
  A DHCP client that runs although DHCP was turned off is one a task is about to stop.
- `Recorder` (`RecInv`). A file is open only of a recorder that records, and when the task has
  chosen whom to work for the other's file is closed (`RecFiles`); this is `NoFileLost`. It needs to
  know what a request leaves behind when it is taken up (`RecTurns`), and so needs `RecSpaced`.
  `FilesDecodable` does not: the last
  I picture is as far behind the end of a ring as the encoder has gone on since (`RecLastI`), so a
  ring that holds a group holds an I picture, and moving the ring on leaves one at its head. A
  recorder whose file misses something then has an I picture at its head (`RecWhole`), also
  between `sbuf_peek` and `sbuf_get`. With rings too short `RecRings` fails, but not the rest.
- `SoftTimer` (`TmrInv`). As long as the interrupt has not taken an entry from under the main loop
  (`raced`): a taken entry whose callback has not run has as many ticks left as its timer is due in
  (`TmrDue`), no timer has two such entries (`TmrAlone`, `TmrOf`), and the main loop is at an entry
  that fits what it does (`TmrAt`).
- `VideoPath` (`PthInv`). Whoever waits has an I picture in one of the two stages of the encoder, or
  the distance is above the threshold and the next picture will be one
  (`Rtsp_connect` is 1), or the pictures waited for, those in the two stages and what is left of
  the distance are together at most the threshold and one. It is the same for every threshold,
  distance, ring and number of pictures. For `PathIsStream` (`PthNums`): the picture in the encoder may
  follow that in the entropy coder, and this one what was put last; the newest has the number before
  that of `pic`, for its own distance, as in `IdrControl`.

Only model-checked: everything about liveness, because proofs under fairness are beyond the
prover; and the five violations. The theorems with a condition (`BorrowedIsKept`, `ProcessorsAgree`,
`FilesAreClosed`, `PicturesFollow`, `OneAddress`) say nothing without it: where requests overlap, a distance
is not given back, a file can be lost and the processors can disagree, as the findings and section 3 say.

## 6. What is not modelled

- The record queue (`MsgRecPut`, `MsgRecGet`): two interrupts under a key. It empties
  itself whenever a record is announced, and the `Recorder` takes a picture from the
  encoder to the rings in one step. A queue that is full, and the time an interrupt spins on the key, are not covered.
- The console queue: one writer, one reader, and no test for room; lines come at the speed of a
  hand. Its flag is in `NetRx`.
- The watchdog: a counter that one side resets. What it cannot see, the stall of the
  job rings, is `StallIsForever`.
- Of the address change, the link local address that lwIP takes while DHCP gets no answer,
  and the requests of `iputil`.
- FTP: a mailbox between the two network stacks.
- The HTTP front end of CPU0, which adds a viewer without `rtsp_accept` and uses what
  `rtsp_add_user` returns without a test (`http_tunnel.c:161`); MJPEG, audio and RTCP,
  which use the same rings and the same table.
- `timer_cancel_timeout`, which nobody calls on CPU0 in this build, and the wrap of the tick.
- WiFi and ONVIF are not built. The web server, network services, image tuning, the card's
  driver, flash and the firmware update are sequential or pure I/O and share no state
  with the parts above; `UserSave` writes `gtUser` to flash after a change.
- Vendored code is taken to do what its interface says: a semaphore of
  FreeRTOS counts and wakes, a task of higher priority runs first, lwIP calls what it was
  given. Device registers are modelled by how the code uses them.

The repository is large mostly by what is not its own: ONVIF's generated gSOAP code, two copies of
lwIP, FatFS with its code pages, tables and web pages. The lines modelled are
those where the two processors, their interrupts and their tasks meet.
