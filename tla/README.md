# A specification of wh-repeater

TLA+ modules, model-checking configurations and machine-checked proofs for the
control software of an amateur television repeater. The program receives DVB-S/S2
with the two receivers of a Winterhill board (or takes an analogue capture card, or
a gateway's TS from another machine), decides what to retransmit, transcodes it in
a child process and sends it to a PlutoPlus/F5OEO transmitter.

The reference of every definition is the source under `src/`; `PROJECT.json` says
which lines ("map"). This file describes the system, the modules, what has been
checked and proved, and what has not.

## 1. The system

### Components

| Component | Source | State it keeps | Operations |
|---|---|---|---|
| Daemon, local mode | `src/src/daemon.cpp` 967-1357 (`runPiGatewayOrLocal`) | selection, source family, hold of the capture, access notice, `plutoWasConnected` | one loop: poll, scan, poll, select, tell the media child, key the PTT, write TS, tick |
| Daemon, PC gateway mode | `daemon.cpp` 1359-1645 (`runPcGateway`) | activity of gateway and capture, access session, the Pi's PTT | one loop over the gateway's TS instead of receivers |
| `ScanScheduler` | `scan_scheduler.cpp` | a cursor per receiver: target, hang, dwell | `tick` |
| `SeritNimController` | `nim_controller.cpp` | tuners, demodulators, the watch over valid packets, queues of packets | `tune`, `pollStatus`, the USB reader's thread |
| `SignalArbitrator` | `signal_arbitrator.cpp` | the receiver it has chosen | `choose` |
| `MediaProcess` | `media_process.cpp` 1-790 | what the daemon asked for; what the child was last sent; TS not yet accepted | setters, `write`, `tick`, restart and replay |
| `MediaPipeline` | `media_pipeline.cpp` 7080-7950 | mode, input, video, transmit switch, queue of TS, the worker's transcoders | setters, `tick`, `write`; the worker's thread |
| Transcoders | `media_pipeline.cpp` 1570-1640, 3120-5140 | decoder, position, `finished_`, `stopping_`, each with its thread | start, submit, wait, end |
| `FallbackMuxer`, `PersistentRtmpMuxer` | `media_pipeline.cpp` 2380-2700, 5870-7146 | submitted pictures and sound, the output's clock; the mirror's offsets | begin and end a source, submit, write a frame |
| `PlutoSink` | `pluto_sink.cpp` | `configured_`, `transmitEnabled_`, the UDP socket | MQTT control, TS datagrams |
| `PlutoMqttStatusWorker` | `pluto_mqtt_status.cpp` | what the Pluto reports | a thread; `snapshot` |
| `HardwarePtt` | `hardware_ptt.cpp` | the requested GPIO line | `setTransmitEnabled` |
| `ApiServer` | `api_server.cpp` | mailboxes of requests, published status | a thread; `take...` for the loop |
| `TsRouter`, `TsGatewaySink`, `PcGatewayInput` | `ts_*.cpp`, `pc_gateway_input.cpp` | packets of a datagram, activity | TS from the Pi to the PC |
| `GatewayStatusClient` | `gateway_status_client.cpp` | none | HTTP to the Pi, 400 ms a request |
| Config | `config.cpp` | the file | `loadConfig`, `saveConfig`, parsing |
| Media timing, operating hours | `media_timing.cpp`, `daemon.cpp` 100-126 | none | pure functions |
| Ident, I2C lock, GStreamer backend, main, web pages, tools | the rest | | |

### How they interact

The daemon is one thread. In each iteration it takes the dashboard's requests from
the API server's mailboxes, polls the receivers, lets the scan scheduler retune
them, polls again, selects an input and then makes a fixed series of calls to
`MediaProcess`, which is a proxy: it remembers each value, and sends it over a
`SOCK_SEQPACKET` socket to a forked child if it differs from what was last sent.
The child's message loop calls the same methods on a `MediaPipeline`, whose worker
builds, joins and destroys the transcoders. Each transcoder has one or two threads
that submit pictures and sound to the muxer, and the worker writes one frame of the
output at a time from what has been submitted. Encoded TS and transmit decisions end
in `PlutoSink`, which publishes to an MQTT broker; a status worker with a connection
of its own tells the daemon when the Pluto has been away. Nothing comes back from the
child but strings for the status page.

Where the receivers are on a Pi and the transmitter is on a PC, the same program runs
on both. The Pi sends the TS of the selected receiver in UDP datagrams of seven
packets; the PC chooses between that stream and its own capture card, sets the Pi's
PTT line with an HTTP request, and sends on the part of its configuration that the
Pi needs.

Hence *two* copies of almost every fact, in two processes or on two machines, and
inside the child several threads that share the members of the pipeline.

### What is hard about it

* **Crash and restart.** The child may die between any two messages. The parent
  notices at its next send, starts a new child and replays the state through the
  function that is just being executed.
* **Lost messages.** If the child does not read, a message is dropped after 100 ms.
  Datagrams get lost, queues drop their oldest, a request to the Pi is tried once.
* **Snapshots.** The worker of the pipeline decides on a copy of mode, input and
  path, works for a long time without the mutex, and writes results back.
* **Waiting.** Transcoders wait for the output, for room and for TS; the worker waits
  for transcoders. Nobody but the worker can stop one.
* **Ownership.** Sound and pictures of a source outlive it in the muxer's queues.
* **Two deciders.** The parent keys the amplifier from its own view of the video
  and of the input; the child switches the transmitter from its own.
* **Two publishers.** Two threads configure and switch the Pluto without a lock.
* **Timers that interact.** Scan dwell and hang, the grace of the packet watch, the
  hold of the capture, the end of the access notice, the retry delays.
* **Two polls.** One iteration reads the receivers' status twice and acts on both.
* **Late answers.** A request that was given up may still be carried out.

### What makes each component correct

* `MediaProcess`: a skipped send leaves the child with the right value; a new child
  is informed before it acts; what is asked for long enough arrives.
* `MediaPipeline`: one source at a time; the status belongs to the video that plays;
  a selected input gets back on the air; without one the pipeline comes to rest.
* Transcoders: nobody submits to a muxer that is gone; no wait lasts for ever; what a
  source submits ends with it.
* Muxers: sound and picture of the output, of a file and of the mirror stay together,
  and nothing stale is sent.
* `PlutoSink`: the Pluto does what was decided last, with its settings made.
* Scanning: a hang is kept; a false lock does not hold the scan up; a station that
  stays is found.
* Selection: an access is not interrupted; the notice lasts exactly one hang; nobody
  waits for ever.
* PTT: the amplifier is keyed exactly while the Pluto transmits.
* PC mode: the notice tells of the last access; the Pi's line follows the decision.
* Gateway: packets arrive in order and without a backlog; an end is sent and noticed.
* Requests: the last command and the last configuration win, what runs is what is
  saved, and the Pi agrees with the PC.

## 2. The modules

`Mirror` (abstract) <- `MediaProcess` <- `MediaProcessProofs`;
`MediaPipeline` <- `MediaPipelineProofs`;
`MediaPipeline` <- `Transmission` (composes it with the loop and the PTT line);
`Transcoders` <- `TranscodersProofs`; `Muxer` <- `MuxerProofs`;
`Requests` <- `RequestsProofs`; `Gateway` <- `GatewayProofs`;
`Reception`, `Selection` and `Schedule` <- `DaemonProofs`;
`PlutoSink` and `PcGateway` <- `ControlProofs`.
`LoopTime` is what `Reception`, `Selection` and `PcGateway` say about time. `MC*` modules only hold
the values of constants. Each module has a type invariant `TypeOK`. Where one module of proofs
extends two specifications, the usual names of one begin with `Scan` (`Reception`:
`ScanSpec`, `ScanTypeOK`) or `Pc` (`PcGateway`).

### Mirror

What the supervision of the child promises: `want` is what the daemon asks for,
`have` what the other side has been told. It may lose everything at any time
(`Forget`); what it learns is what is wanted at that moment (`Learn`); it keeps
learning until it is closed.

### MediaProcess

State: `desired` = the parent's members, `cache` = the `last...Payload_` members,
`child` = alive, dead and not yet reaped, or destroyed, `view` = what the child has
been told, `stalled` = its socket is full, `buffer` = `transportBuffer_`, `mode` =
`mode_`. A call is the stack `todo` of the sends it still has to make, so a crash can
fall between any two of them; a restart pushes the replay in front of what was
left. `stage` is the position in the daemon's loop. One action per call, one per outcome
of a send: accepted, blocked, child reaped before the send, broken pipe during it.

Read with it: messages that are in the socket are counted as told, since they are
read in order or lost with the child. A replay is never blocked, because its few
short messages fit in the buffer of a new socket (about 200 KB). The status strings
that come back are drained (`Drain`) and not interpreted. The order of `Loop` is that
of local mode with local transcoding.

### MediaPipeline

The members under the mutex, and the worker as three critical sections:
`Snapshot`, `Prepare` (builds and retires transcoders without the mutex), `Check` (looks
whether its transcoder has finished). Retry times are booleans, a transcoder is what it
was created for, and may end, fail or report at any time. `WorkerThrows` is the
exception handler of the worker's loop. Messages come in any order: the daemon makes
its calls in a fixed one, but repeats, suppresses and loses them.

### Transcoders

The same worker, seen from the threads it drives. An iteration is a list of steps
(`todo`) in the order of the branch: join and destroy a transcoder, make the muxer or a
transcoder, append TS, write a frame. `at` is where each thread is: opening, reading,
waiting for the output with a picture or with sound, waiting for room, joining,
finished. `Drop` is `stop()` followed by the destructor that joins. TS is counted in
chunks, sound in frames. `fifo` and `owner` are the muxer's queue of sound and whose it
is. The wait of two seconds in `submitAudioFrame` may end by time (`SubmitLate`), which is
what makes it harmless.

### Muxer

What is written when. `next` and `sound` are the output's clock in frames and in
samples, `index` the worker's own count, `video` and `audio` what has been submitted,
`player` the thread of the source with the bases it has read, `mirror` the RTMP output
with the offset and the last time stamp of each stream. `Write` is one call of `writeFrame`:
it chooses the picture (a file's pictures are due at a time, others are held for five
seconds), then writes as much sound as the picture's end asks for. `Sent` is what the mirror
makes of the packets: the connection may come or go at any of them, and a time
stamp that does not advance moves that stream's offset, by the packet's duration, which the encoder may
leave out. A mirror outlives the muxer (`Restart`).

### PlutoSink

Each publication is one step, since each is an MQTT connection of its own that may
take seconds. Two publications at once may replace each other at the broker (same
client id). The status worker connects, waits for two answers, listens, and notices
the end of its connection by a refused or unanswered ping; the daemon's `Look` compares its
snapshot with the one before and has everything sent again when the Pluto is
back. The Pluto, its restart and the network are external and modelled from how the code
uses them.

### Reception

One receiver in the loop: poll, `ScanScheduler::tick`, poll, sleep; the watch over
valid packets, which reports a lock that delivers nothing as lost; a demodulator, and
the air, where stations come, go, flicker or are carriers without TS. Points in time are the time that is
left.

### Selection

One iteration is one action: debounce of the capture's sync, hold of the capture,
the arbitrator, choice of the family, access notice. `activeSourceFamily` and
`heldAnalogueActive` are one variable; the arbitrator goes on choosing, and sticks to its
choice, while the capture is on the air. `Best` is what the loop of `choose` ends with: the
first usable receiver that none beats. The test of the D number is the same as that of the MER and
is left out; the hang times do not change in a reload.

### Transmission

The loop's steps in their order, each calling the pipeline's action of `MediaPipeline`
through INSTANCE; `asked` is the parent's copy of the video's path and `line` the GPIO
line. The selection is arbitrary and no message is lost. `Disturbances` names the five events after
which the two sides do not agree (section 4), and `disturbed` records that one has
happened.

### PcGateway

The loop of PC mode as two actions per iteration: `Choose` (debounce, choice between
gateway and capture, sessions, notice) and one of the outcomes of `setPiHardwarePtt`:
nothing to do, not sent, answered, refused (which may have set the line all the same: opening
it does, and only setting it once more failed), or given up after 400 ms although the Pi has
the request. `late` holds the requests that wait at the Pi, whose server has one thread and
carries them out in order (`Serve`), `asserted` its lines. `doubt` records that the Pi
did, or will do, something since it last confirmed a level that the PC cannot know. That a line keeps its level
after the Pi's server has closed it again (`gpioWriteLine`, `api_server.cpp` 1075-1111)
is up to the driver and taken for granted.

### Gateway

One packet after the other: from the USB reader into the queue of its receiver
(`Enqueue`, which drops the oldest when it is full), drained in one critical section by the router
(`Route`), written one by one into a datagram (`Write`), sent and perhaps lost
(`Send`), received, passed on or discarded by the PC (`Recv`), which counts its
iterations since the last sign of life (`quiet`). Which receiver is selected, and whether
the capture has a picture, is arbitrary. `Packets` carry the receiver and a number that only the
properties look at. Misaligned and empty datagrams, which only other senders make, are `Stray`. An
empty one ends the pump with the rest unread (`RecvEmpty`), and so does an error of the socket
(`RecvFails`); `PumpCutShort` is what the two share. `missed` holds what had arrived when the PC
decided for its capture, without what a pump that was cut short has left.

### Requests

Two machines, each with an API thread (`Put`, `AskPlay`, `AskStop`) and a loop that is
somewhere in a reload (`stage`): fetch the Pi's configuration, put it back, show,
open the file, write it, use it, then the play and the stop of the same iteration. A
configuration is the part that `piManagedProjection` copies and the rest, of which only
`piStatus.enabled` matters: without it (`"alone"`) a change of the Pi's part is not sent
(`PushesPi`, `LeavesPi`). A write that fails is not noticed and leaves the file torn
(`WriteFails`, `unsaved`). A service is
stopped or killed anywhere and started again from its file (`Stop`, `Start`).

### Schedule

`beaconScheduleActive` and the clock it reads, as definitions, with what they are meant to be;
there is nothing to run, and `DaemonProofs` has the theorems.

## 3. The runs

| Run | Question | Bounds |
|---|---|---|
| `MediaProcess_faults` | Are the caches truthful, is every new child informed first, does the supervision implement `Mirror` with its fairness, and does what is asked for arrive? | one input, one video, one position, a backlog of 1, one crash and one stall |
| `MediaPipeline_worker` | Is there one source at a time and a truthful status, does an input come back, does everything come to rest? | one receiver, one capture, one video, queue of 1, no fallback pictures |
| `PlutoSink_apart` | Does the Pluto follow, if the threads do not publish at once and no outage goes unnoticed? | none: outages and restarts at any time |
| `Reception_scan` | Is a hang kept, the scan not held up, a station found? | two targets, dwell 4, hang 3, patience 2, acquisition 1, iterations up to 2 |
| `Selection_local` | Is the selection uninterrupted, announced for one hang, and fair? | three receivers, two of the same priority, MER absent, below and at the limit; hang times 1, 3, 2 and 2 |
| `Transmission_ptt` | Do the line and the transmitter agree? | one receiver, one video, queue of 1, all disturbances |
| `Transmission_end` | Do they, when videos end by themselves? (no) | the same, one disturbance |
| `PcGateway_ptt` | Does the notice tell of the last access, and does the Pi's line follow? | two lines, debounce 1, hold 3, iterations up to 2, two late requests |
| `Transcoders_threads` | Does a source ever submit without a muxer or beside another, leave sound behind, or hold the worker up? | buffer of TS 2, queue of sound 2, output ahead by 2, one exception |
| `Muxer_output` | Do sound and picture stay together, and is nothing stale sent? | 5 samples and 2 pictures a second, 2 samples in a frame, leads 2 and 5, queues 2, 5 and 10, stale after 2; three frames, two sources, one new muxer |
| `Gateway_stream` | Do packets arrive in order and without a backlog, is the end noticed, and is what the capture hid never shown? | two receivers, queue of 2, datagrams of 2, three packets, two datagrams under way, timeout 1 |
| `Requests_api` | Does the last command and the last configuration win, is what runs saved, does the Pi agree? | two values of the Pi's part, one video, two configurations, two commands, one stop |

Why these bounds are enough to be interesting:

* `MediaProcess_faults`: a crash and a stall in any order, at every send of every call. A
  replay that is itself interrupted needs two crashes; that instance (798 444 states) passes too and
  is left out for its time, and the proofs hold for any number of both.
* `MediaPipeline_worker`: one receiver, the capture and a video are three different
  sources, which is what a stale snapshot can confuse. The proofs cover any number.
* `Reception`: the dwell must exceed the acquisition plus an iteration; otherwise the scan
  leaves before the demodulator can lock and no station is ever found (with a dwell
  of 1, `StationIsFound` fails). The configuration's defaults are seconds against
  iterations of a few hundred milliseconds.
* The three receivers of `Selection` give a higher priority, a tie and a better MER.
* `Transmission` leaves the capture out to stay small; `MediaPipeline` has it.
* `Transcoders`: each buffer holds more than one element, so that every wait can be
  entered both with something and with nothing in it.
* `Muxer`: neither samples per picture (2.5) nor frames per picture are whole numbers, as at 48
  kHz, 25 pictures and 1024 samples, and all limits are reached within the three frames.
* `Gateway`: three packets overflow a queue and leave a half full datagram; with two datagrams
  under way one can be left unread behind an empty one. The theorems hold for any number.
* `Requests`: two configurations, so that one comes while the other is being saved; a stop
  at any step.

`CHECK_DEADLOCK FALSE` is in the runs of `MediaProcess`, `PcGateway` and `Transcoders`, where the
daemon or the worker ends, and of `Gateway`, `Muxer` and `Requests`, where the bounded supply of
packets, frames and requests runs out. All other runs are checked for deadlock.

Every property can be broken: the mutants of `PROJECT.json` are definitions
commented "Fault:" in the modules, each a slip in a function of the code (a reset that is
forgotten, a condition that is dropped, a comparison with the wrong copy).

### Fairness

* `MediaProcess`: weak fairness of the daemon's calls and sends, as its thread does
  nothing else, and of a stalled child's return. Nothing forces crashes, stalls, the
  end of a video or the shutdown.
* `MediaPipeline`: strong fairness of the tick, because every iteration of the daemon ends
  with one however many packets come between; weak fairness of the worker and of time.
  No transcoder need ever end.
* `Transcoders`: the worker and the decoder go on. A file's player and the two threads
  of the capture are only promised to go on once they are told to stop: until then
  a file may be paused by its own timing and a device may deliver nothing.
* `PlutoSink`: both threads, the status worker, the look at the connection in every iteration, and
  strong fairness of the reconfiguration that the look leads to.
* `Reception`: strong fairness of the loop, as a flickering station may disable the
  sleep again and again but not for ever; weak fairness of the demodulator's lock.
* `PcGateway`: the loop and the Pi's server go on, and a Pi that is asked again and again
  answers at last.
* `Gateway`: what the router has drained is written, and the PC's loop goes on.
* `Requests`: both loops go on, and a stopped service is started again (`Restart=on-failure` of systemd).
* `Selection`: the loop goes on. `Transmission`: as the loop and the pipeline above.
* `Muxer`: none; its properties are invariants.

## 4. What does not hold

One disagreement between a statement of the repository and the code is a run that
must fail: `Transmission_end`. When a video ends by itself, the parent goes on believing that
it plays, and keys the amplifier while the child is muted out of hours.

The other disturbances of `Transmission` break `PttAgrees` as well (give
`Disturbances` any one of them to see it): `preemption`, an input that ends a video in
the child but not in the parent; `decoder`, the late failure of a receiver's decoder,
which leaves any mode (`media_pipeline.cpp:7782`), also that of a video just
started; `reconnection`, after which the daemon reconfigures the Pluto with
`beaconAllowed` (`daemon.cpp:1152`) although a video plays; `reload`, in which
the new `HardwarePtt` asks for the line that the old one still holds
(`daemon.cpp:1082`), is refused, and does without the line until the service restarts.
`PttCovers` holds in spite of all of them: the dangerous direction, transmitting
into an amplifier that is not keyed, does not happen as long as the line can be had.

Met while modelling. The properties exclude or qualify these by name:

* `PlutoSink` without the condition on `Overlap`: the writer's configuration publishes its mute after the
  unmute of the controlling thread, and the Pluto stays muted while the program believes
  it transmits (`pluto_sink.cpp:496`).
* `Unnoticed`: an outage of the Pluto that ends before the daemon looked is never repaired
  (`daemon.cpp:1150`), nor one that the status connection outlives. The status worker waits for
  CONNACK and SUBACK without a limit (`pluto_mqtt_status.cpp:344`).
* `Stuck`: `append()` waits for room in the buffer of a decoder that has finished and
  will never read again; the worker, and with it the shutdown, hangs
  (`media_pipeline.cpp:1590`).
* `Closing`: the idle branch, the handler of exceptions and the end of the worker destroy the muxer
  before the transcoders whose threads still submit to it (`media_pipeline.cpp:7891`, 7901,
  7913).
* `StaleIsLive`: the last picture and the sound of a received station can be sent under what
  follows it.
* `MirrorInStep`: when the connection of the mirror is lost between two packets that are moved,
  its streams stay apart until it is made anew (`media_pipeline.cpp:2608`).
* `EveryPictureHasSound` in `MirrorInStep`: at 47 to 50 frames a second, which may be configured
  (`config.cpp:724`), a frame of the sound encoder (1024 of 48000) lasts longer than a
  picture, so a new muxer's first picture may come alone; then only the picture's stream is moved at
  first, and if the connection is made with just that picture and the muxer is made anew before the next, the
  streams stay apart. TLC shows it with a sample rate of 3 and a frame rate and a frame of 2.
* `LastCommandWins`: a play and a stop that come in one iteration are carried out in that
  order, whatever the order in which they came (`daemon.cpp:1423`).
* `unsure` in `LastAcceptedWins`: a configuration that was accepted, and answered with success, is lost if the
  service stops before the loop has saved it.
* `Torn` in `Start`: the file is truncated and then written; a service killed in between does
  not start again (`config.cpp:613`). Nor does it after a write that failed, which `saveConfig` does not
  look at (`config.cpp:617`): `unsaved` in `RunningIsSaved` and `LastAcceptedWins`.
* `apart` in `PiAgrees`: the configuration is sent to the Pi once. A fetch that fails followed by a put that succeeds
  overwrites the Pi's own part with defaults (`daemon.cpp:1392`, 1396), and what an
  operator saves at the Pi between the fetch and the put is overwritten. A change of the Pi's part that is
  saved while `piStatus.enabled` is off is not sent, as `docs/pi-gateway-api.md:241` says; switching
  it on later does not send it either, since each configuration is compared with the one before
  (`daemon.cpp:1379`).
* `Stray` and `RecvFails` in `EndIsNoticed`: misaligned datagrams and errors of the socket keep the input
  active (`pc_gateway_input.cpp:84`).
* `missed` in `CaptureLeavesNothing`: an empty datagram (`pc_gateway_input.cpp:77`) or an error ends `pump()`
  with datagrams unread, and if the capture has gone by then they are shown. What arrives after the
  pump and before the decision to leave the capture is shown anyway (`daemon.cpp:1499`).
* `doubt` in `BelievedIsTrue` and `PiFollows`: a request for the Pi's line that timed out is carried out
  later while `piPttState` keeps the old level; when the decision returns to that level
  nothing is sent, and the line stays wrong until the next change (`daemon.cpp:697`).
  The same after a restart of the Pi, and after a refusal that had set the line
  (`api_server.cpp:1094`, 1103).

Stated by no property:

* `media_process.cpp:8-10` says the child is restarted if it "stops accepting messages"; it is
  only replaced when it exits or its socket breaks (677).
* A play, stop, seek or reconfiguration that is dropped because the child's socket is
  full is never sent again, although the parent takes it for done
  (`media_process.cpp:468`).
* A video that has ended is played from its start by the next child
  (`media_process.cpp:781`).
* A notice that is repeated after a replay resets the end tone in the child, while the
  parent's cache says it was delivered; so `NoStrayTone` has one direction only.
* TS buffered for one receiver is sent after the selection of another
  (`media_process.cpp:741`), and a receiver that follows another directly is decoded by
  the transcoder of the first (`media_pipeline.cpp:7715`). A datagram of the gateway may hold
  packets of two receivers (`ts_gateway_sink.cpp:65`): on a direct change the tail of one
  transmission is sent as the first packets of the next.
* Without fallback pictures, a reconfiguration with the beacon allowed leaves the idle
  transmitter unmuted (`media_pipeline.cpp:7227`).
* A capture whose sound thread still runs after the picture's thread has failed is not seen as
  finished, and is not replaced (`media_pipeline.cpp:4806`).
* The pictures of a file are written only while two frames of its sound wait: where the sound
  ends first, the last picture stands until the file ends (`media_pipeline.cpp:6250`).
* A lock that only the second poll of an iteration sees is selected, but gets no hang when it
  is lost (`daemon.cpp:1130`); a lock that is acquired between the first poll and the
  scan is retuned away.
* README.md:303-304 says the line is forced inactive on reload and shutdown. In PC
  mode a reload only forgets the state (`daemon.cpp:1418`), so a line that the new configuration
  does not name stays asserted; the release at shutdown is one request that
  may fail (1643).
* A client that connects and sends nothing holds the API's only thread, and `stop()`
  (`api_server.cpp:888`).

## 5. What is proved

TLAPS checks every theorem of the modules below to the last leaf. The only assumptions are the
named ones of the constants, which TLC evaluates in the runs.

### MediaProcessProofs

For any sets of inputs, notices, videos and positions and any bounds on backlog,
crashes and stalls:

| Theorem | Statement |
|---|---|
| `TypeCorrect` | `Spec => []TypeOK` |
| `CachesAreCoherent` | `Spec => []CacheCoherent` |
| `NoToneIsStray` | `Spec => []NoStrayTone` |
| `ChildIsInformedFirst` | `Spec => []InformedFirst` |
| `KeepsItsPromise` | every step of the supervision is a step of `Mirror` or leaves it alone |

The only assumption is `ConstantsAssumption` of `MediaProcess`: the sentinels
(`std::nullopt`, a payload that is not set) are not values, and the bounds are
natural numbers.

The argument. `TypeOK` is inductive; its work is in the stack, whose elements
stay sends however replays are pushed (`RestartTyped` and the lemmas before it).
`Coherent` is `CacheCoherent /\ NoStrayTone`: the first alone is inductive, the second too, but
both are needed where a notice is delivered, which changes the child's tone behind the
cache. `InformedFirst` is not inductive: it says what has been told by the time
something else is sent, and nothing about a replay that is still on the stack. The strengthening
`Informing` says of a living child that each cached kind that is not told
yet is *owed*: its send stands on the stack, and every send before it is one of a cached kind. A restart in the middle of a replay pushes
a complete replay in front, which owes everything again; a send that is accepted pays one
debt; a send that blocks cannot happen while something is owed, as a replay is never
blocked. The video and its position come last in a replay and are not cached: of their own sends
nothing is claimed. For `KeepsItsPromise`, `Known` maps a cached payload to what the other side has
learned; the step that matters is an accepted send, where `Coherent` tells that a kind
whose cache does not change does not change in the child either.

### MediaPipelineProofs

For any receivers, captures and videos, with or without fallback pictures, and for
any length of the queue:

| Theorem | Statement |
|---|---|
| `TypeCorrect` | `Spec => []TypeOK` |
| `SourcesAreExclusive` | `Spec => []OneSource` |
| `StatusIsTrue` | `Spec => []StatusIsPlaying` |
| `SeekIsNotMisapplied` | `Spec => []SeekHitsItsVideo` |
| `QueueIsBounded` | `Spec => []QueueBounded` |

The only assumption is `ConstantsAssumption` of `MediaPipeline`, of which just the
positive bound of the queue is used. The inductive invariant `IInv` adds to the four properties:
`AtMostOne` and `DoneExists`, since `OneSource` counts what has finished and not been retired, which
must be shown to still be what was made; and for the position, which passes through two
copies before it is applied, `SeekIsForPath` (it belongs to the requested video, or none is
pending) and `SnapIsForPath` (the same inside the worker's snapshot, although
mode and path go on changing). The type proof keeps truth values, the other members and the
worker's part separate, because the provers treat them differently.

### RequestsProofs

For any configurations and videos and any number of requests and stops:

| Theorem | Statement |
|---|---|
| `TypeCorrect` | `Spec => []TypeOK` |
| `WhatRunsIsSaved` | `Spec => []RunningIsSaved` |
| `TheLastCommandWins` | `Spec => []LastCommandWins` |

`RunningIsSaved` makes an exception while a machine writes, so it needs `InHand` (what was taken from
the mailbox is in hand in every stage of a reload) and `WrittenFirst` (at the stage `use` the
file holds what is about to be used, or could not be written). `LastCommandWins` speaks of the moment when nothing waits;
`Waiting` says in every state what the waiting commands will come to, and follows a play and a
stop through the stages of an iteration.

### GatewayProofs

For any receivers, and any limits of queues, datagrams and time:

| Theorem | Statement |
|---|---|
| `TypeCorrect` | `Spec => []TypeOK` |
| `PumpCatchesUp` | `Spec => []CaughtUp` |
| `PacketsStayInOrder` | `Spec => []InOrder` |
| `NothingOldIsShown` | `Spec => []CaptureLeavesNothing` |

`PumpCatchesUp` rests on `BatchAssumption`, that a pump takes at least what a queue holds: both are 65536, in
two files (`nim_controller.cpp:120`, `ts_router.hpp:46`), and nothing in the code ties them together. With it `DrainedIsAll`
shows that a drain leaves nothing, and `EnqueuedHolds` that what is enqueued afterwards is newer than
the mark, also in a full queue. The proof treats the Pi, the wire and the PC apart (`PiAlone`,
`PcAlone`), since each step changes only one side and what is under way.

The order of what has been shown follows from `OrderInv`: every stretch of the way, the queues, what the router
has drained, the datagram, the wire and what was shown, is sorted for each receiver, and
*precedes* all that is still behind it. `Queued`, `Drawn`, `Unsent` and `Unread` are these
remainders, each contained in the next, so a step that moves packets from one stretch to the next
only has to show that a sorted sequence precedes its own rest. A reselection clears the
queue of the new receiver, which takes from a remainder and can break nothing. `CaptureLeavesNothing` rests on the
same chain: what is to be discarded precedes all that is not sent yet, and is still under way only
while the capture is on the air and the PC is reading. That is so because a pump that is not cut short
empties the socket; what one that is cut short leaves is no longer counted, and of what arrives
between a pump and the end of the capture the theorem says nothing. Reading a datagram, to show or to
skip it, is one lemma (`HeadIsTaken`).

### TranscodersProofs

For any limits of the buffers and any number of exceptions (`LimitsAssumption`):

| Theorem | Statement |
|---|---|
| `TypeCorrect` | `Spec => []TypeOK` |
| `ProducersAreExclusive` | `Spec => []OneProducer` |
| `TheMuxerOutlivesSources` | `Spec => []SinkOutlivesSources` |
| `SoundIsOwned` | `Spec => []SoundHasOwner` |

Nothing in the worker guards against two sources: it is the order of each branch's steps that keeps them apart. So the
invariant speaks of the steps that are still ahead in `todo`: an iteration makes
one transcoder at most, and every other one is gone or is dropped before that step (`MadeAlone`);
without a muxer, all that comes next is to drop what there is (`DropsFirst`); and a muxer
is closed only in the two sequences that drop everything (`ClosesFirst`). For the sound,
`SoundHasCapture` (the capture's second thread is joined before it ends) and `SoundIsEnded` (a queue
that belongs to a file or capture belongs to one that has begun and not finished).

### MuxerProofs

For any rates, any size of the encoder's frames, any leads, queues and numbers of frames,
sources and muxers:

| Theorem | Statement |
|---|---|
| `TypeCorrect` | `Spec => []TypeOK` |
| `SoundKeepsUp` | `Spec => []SoundCoversPicture` |
| `NothingIsLeft` | `Spec => []StaleIsLive` |
| `FileIsInStep` | `Spec => []InStep` |
| `TheMirrorStaysInStep` | `Spec => []MirrorInStep` |

The assumptions are `RatesAssumption` (positive rates; both queues of sound hold two frames
of the encoder, as `max(sample_rate, 6 frames)` and `2 * sample_rate` do) and `FileAssumption`: the lead that a
file's player allows its sound, and the file's queue, are both a second. Were the queue smaller than the lead, it
would overflow and drop sound that is not overdue.

* `Multiples`, `Quotient` and `Targets` say what integer division does here: pictures end `Target(1)` samples
  apart or one more. With them `SoundIsDue` shows that `SoundDue` is the number of frames that keeps
  `SoundCoversPicture`, which is inductive together with the types and `index = next`.
* `Whose` says whose pictures and sound are queued and that they fit; `StaleIsLive` is part of it.
* `InTime`: what a file has shown was due, and what is heard is at most a frame ahead of the
  output. The other direction of `InStep`, that a player which waits is not behind, uses
  `FileAssumption`.
* `MirrorInv` relates the last time stamps of the mirror to the output's clock: within a muxer both
  streams advance, so neither offset moves; at its start both are moved to after what
  was sent last, and the difference of the offsets changes by what the last frame of sound
  lacked, by less than `Cut`. So it adds up to `restarts * Cut`.
* `After`, the mirror after each packet of a picture, is a recursive function. That it equals the
  closed form `AtOnce` is an induction, which is done without the library's induction theorems: the
  set of packets at which the two differ has a smallest element (`Smallest`, from the well-foundedness of `<` on the
  naturals), which the definition excludes (`AfterIsAtOnce`). The closed form also shows that such a function exists.

### DaemonProofs

For any number of targets and receivers, any priorities and thresholds, and any times (`Spec` is that
of `Selection`):

| Theorem | Statement |
|---|---|
| `ScanTypeCorrect` | `ScanSpec => []ScanTypeOK` |
| `HangsAreKept` | `ScanSpec => HangIsKept`, an action property |
| `LocalTypeCorrect` | `Spec => []TypeOK` |
| `TheNoticeEndsWithTheHang` | `Spec => []NoticeCoversHang` |
| `NobodyIsInterrupted` | `Spec => NotInterrupted`, an action property |
| `OneIntervalADay` | the beacon is on the air for one interval of the day, also over midnight |
| `NightFollowsDay` | two schedules that follow each other share no minute and leave none out |
| `ClockIsAMinute` | valid times are minutes of the day, different ones different minutes |

The assumptions are `ScanAssumption`, `ConstantsAssumption` of `Selection` and `PauseAssumption`: times
are natural numbers and an iteration takes some, the receivers are a finite list, and the sentinels are no
values.

* The scan. `HangIsLeft`: the time since the scanner was told of a lock, and the hang that is left,
  are together at least the hang, unless it is about to be told of a lock (the step `scan` with the
  lock polled) or takes the receiver for locked. A step of `Retune` has neither, so the time is up.
* The selection. `OnAir`: what is on the air is the arbitrator's choice, or the capture; what is left of its hold
  and the time since it lost its sync are together at least its hang, so it is not dropped before. `NoticeLasts`: the notice
  lasts for what is left of the hang of the input that was last. `BestIs` says what `choose` finds: nothing only if no
  receiver is usable, otherwise a usable one that none beats. There is one, as of finitely many one is not beaten
  (`Unbeaten`): "beats" is transitive and no receiver beats itself. That is an induction over
  the number of receivers, done by a least counterexample (`Smallest`), as the library's
  induction theorems are out of reach.

### ControlProofs

For any order of calls, publications, outages and restarts of the Pluto, and for any lines,
times and number of late requests of the PC (`Spec` and `UndisturbedSpec` are those of `PlutoSink`):

| Theorem | Statement |
|---|---|
| `TypeCorrect` | `Spec => []TypeOK` |
| `SettingsComeFirst` | `UndisturbedSpec => []SetBeforeOnAir` |
| `OffIsMuted` | `UndisturbedSpec => []OffIsOff` |
| `PcTypeCorrect` | `PcSpec => []PcTypeOK` |
| `TheNoticeIsOfTheLast` | `PcSpec => []NoticeTellsLastAccess` |
| `TheLevelIsKnown` | `PcSpec => []BelievedIsTrue` |

The Pluto. There are no constants and no assumptions. `SettingsComeFirst` and `OffIsMuted` are about `UndisturbedSpec`, in which the
two threads do not publish at once and no outage goes unnoticed, since the code does not promise them otherwise
(section 4). The properties speak of moments when everything has been dealt with; the
invariant says at every other moment what is still going to happen. `Orders`: what the controlling
thread has left to do is in order (it configures only first, switches on or off only
last, unmutes only if it is going to switch on), and the writer has only steps that mute. `Coming`: the Pluto is
away, or the status worker or the daemon do not know yet that it was, or the
daemon has not reconfigured yet. Outside it, the settings are made or ahead (`SetAhead`),
and the Pluto is muted, or that is ahead, or it is on or about to be (`MuteAhead`). `AwayIsComing`: what the
status worker, the daemon's look and the Pluto do by themselves leaves it `Coming`; only a reconfiguration ends
that, and it puts everything ahead. `WriterWaits` is where `~Overlap` enters: as long as the controlling
thread is going to configure, the writer cannot say that it has.

The loop of a PC, from `PcAssumption` and `PauseAssumption`. `Announced`: a session is that of the active input, and without one the
notice lasts for what is left of the hold; that the hold is positive is needed, since with none the
notice would end with its access. `Believed`: as long as there is no doubt nothing
waits at the Pi. An answer is the last request that the Pi has carried out of a line (`LastServed`), so it
settles the level whatever waited before.

### Only proved, only model-checked

All invariants that the runs check are proved, and so are the action properties. `NoStrayTone`,
`SeekHitsItsVideo`, `QueueBounded` and `TypeOK` are no properties of the runs: the theorems say
more. Only model-checked are the liveness properties (`Converges`, `LiveReturns`,
`Settles`, `PlutoFollows`, `EveryTargetIsTried`, `StationIsFound`, `Served`, `PttFollows`, `PttCovers`,
`PiFollows`, `IterationsEnd`, `ShutdownCompletes`, `EndIsNoticed`, `LastAcceptedWins`, `PiAgrees`)
and the fairness half of `ImplementsMirror`, which need ENABLED, outside what the prover does. `Transmission` has
no other properties; its `TypeOK` was checked with TLC on the instance of its run.

## 6. Not modelled, and the plan

Not modelled: pictures, sound and texts (decoding, scaling, overlays, encoding), HTTP and JSON parsing, the
registers of the chips, `stop()` and `shutdown()` of the receivers, the preview stream, the ident, the status pages,
the histories, the GStreamer backend (an alternative behind the same interface), web pages,
scripts and the inspector of datagrams. They are data or input and output, without a
state that another part relies on.

The plan went from the supervision of the child and the pipeline over the transmitter, scanning,
selection and the PTT to PC mode, and then to the threads of the transcoders, the
muxers, the status worker, the gateway's stream and the requests. The proofs of the invariants and action
properties are complete. What is left:

1. `TypeOK` of `Transmission`, and that each of its steps is one of `MediaPipeline` or leaves it
   alone, so that the theorems of the pipeline hold in the composition.
2. Safety facts about which the liveness of `Transmission` and `PcGateway` rests: while nothing has disturbed
   it, the parent's copy of the video is the child's.
