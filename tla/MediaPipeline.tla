---------------------------- MODULE MediaPipeline ----------------------------
(***************************************************************************)
(* The pipeline inside the media child: class MediaPipeline of             *)
(* src/src/media_pipeline.cpp.                                             *)
(*                                                                         *)
(* Two threads share the members under one mutex.  The message loop of the *)
(* child (runMediaChild) calls the setters, tick() and write(); each is    *)
(* one critical section, but write() queues its packet in a second one.    *)
(* The worker takes a snapshot in one critical section, builds and retires *)
(* transcoders from that snapshot without the mutex, and looks again in a  *)
(* second critical section whether its transcoder has finished.  Between   *)
(* any two of these the other thread may have changed everything.  The     *)
(* transcoders' own threads end when they please.                          *)
(*                                                                         *)
(* The daemon makes its calls in a fixed order, but repeats, suppresses    *)
(* and loses messages, so here they come in any order.  Retry times are    *)
(* booleans: `now' is or is not before them.                               *)
(***************************************************************************)
EXTENDS Naturals, Sequences, FiniteSets

CONSTANTS
  Receivers,        \* inputs whose TS comes through write()
  Captures,         \* inputs that are the analogue capture
  Videos,
  NoInput, NoVideo, \* std::nullopt of each
  Retired,          \* no such transcoder
  FallbackEnabled,  \* config_.fallback.enabled
  MaxQueue          \* maxQueuedBytes, in packets

ASSUME ConstantsAssumption ==
  /\ Receivers \cap Captures = {}
  /\ NoInput \notin Receivers \cup Captures /\ NoVideo \notin Videos
  /\ Retired \notin Receivers \cup Captures \cup {NoInput}
  /\ FallbackEnabled \in BOOLEAN
  /\ MaxQueue \in Nat \ {0}

VARIABLES
  active, beacon, notice,    \* active_, beaconAllowed_, accessNotice_.has_value()
  mode, tx,                  \* mode_, transmitEnabled_: what output_ was told last
  path,                      \* fallbackVideoPath_
  seek,                      \* pendingFallbackVideoSeek_: the video it was meant for
  status,                    \* fallbackVideoStatus_: the video it describes
  queue,                     \* inputQueue_: the receiver of each packet
  liveWait, captureWait,     \* now < liveRetryAfter_, now < analogueRetryAfter_
  writing,                   \* the packet write() is about to queue
  pc, snap,                  \* the worker: its next critical section, its snapshot
  live, video, capture,      \* its transcoders: what each was created for
  done                       \* which of them have finished()

asked == <<active, beacon, notice>>
waits == <<liveWait, captureWait>>
worker == <<pc, snap, live, video, capture, done>>
vars == <<active, beacon, notice, mode, tx, path, seek, status, queue,
          liveWait, captureWait, writing, pc, snap, live, video, capture, done>>

Inputs == Receivers \cup Captures
Modes == {"idle", "retransmit", "analogue", "fallback", "fallbackVideo"}

\* The snapshot of a worker that has none.
Blank == [mode |-> "idle", active |-> NoInput, path |-> NoVideo, seek |-> NoVideo]

TypeOK ==
  /\ active \in Inputs \cup {NoInput} /\ beacon \in BOOLEAN /\ notice \in BOOLEAN
  /\ mode \in Modes /\ tx \in BOOLEAN
  /\ path \in Videos \cup {NoVideo} /\ seek \in Videos \cup {NoVideo}
  /\ status \in Videos \cup {NoVideo}
  /\ queue \in Seq(Receivers)
  /\ liveWait \in BOOLEAN /\ captureWait \in BOOLEAN
  /\ writing \in Receivers \cup {NoInput}
  /\ pc \in {"snapshot", "prepare", "check"}
  /\ snap \in [mode : Modes, active : Inputs \cup {NoInput},
               path : Videos \cup {NoVideo}, seek : Videos \cup {NoVideo}]
  /\ live \in Inputs \cup {NoInput, Retired}
  /\ capture \in Inputs \cup {NoInput, Retired}
  /\ video \in Videos \cup {NoVideo}
  /\ done \subseteq {"live", "video", "capture"}

Init ==
  /\ active = NoInput /\ beacon = TRUE /\ notice = FALSE
  /\ mode = "idle" /\ tx = FALSE
  /\ path = NoVideo /\ seek = NoVideo /\ status = NoVideo
  /\ queue = <<>>
  /\ liveWait = FALSE /\ captureWait = FALSE
  /\ writing = NoInput
  /\ pc = "snapshot" /\ snap = Blank
  /\ live = Retired /\ video = NoVideo /\ capture = Retired /\ done = {}

-----------------------------------------------------------------------------
(* The setters.  The message loop is one thread: none runs inside write().  *)

Idle == writing = NoInput

Select(i) ==
  /\ Idle
  /\ active' = i
  /\ liveWait' = (liveWait /\ i # NoInput)
  /\ UNCHANGED <<beacon, notice, mode, tx, path, seek, status, queue, captureWait, writing, worker>>

SetBeaconAllowed(b) ==
  /\ Idle
  /\ beacon' = b
  /\ UNCHANGED <<active, notice, mode, tx, path, seek, status, queue, waits, writing, worker>>

SetAccessNotice(b) ==
  /\ Idle
  /\ notice' = b
  /\ UNCHANGED <<active, beacon, mode, tx, path, seek, status, queue, waits, writing, worker>>

PlayFallbackVideo(v) ==
  /\ Idle
  /\ mode' = "fallbackVideo" /\ tx' = TRUE
  /\ path' = v
  /\ seek' = NoVideo
  /\ status' = NoVideo
  /\ queue' = <<>>
  /\ UNCHANGED <<asked, waits, writing, worker>>

SeekFallbackVideo ==
  /\ Idle
  /\ seek' = path
  /\ UNCHANGED <<asked, mode, tx, path, status, queue, waits, writing, worker>>

\* The daemon passes its own idea of whether to transmit.
ReconfigurePluto(b) ==
  /\ Idle
  /\ tx' = b
  /\ UNCHANGED <<asked, mode, path, seek, status, queue, waits, writing, worker>>

-----------------------------------------------------------------------------
(* Changes of mode: each leaves members alone when nothing would change.    *)

\* Fault: muted by a reconfiguration, it stays muted.
EnterRetransmitIgnoresMute ==
  /\ mode' = "retransmit" /\ tx' = (tx \/ mode # "retransmit")
  /\ UNCHANGED queue

EnterRetransmit ==
  /\ mode' = "retransmit" /\ tx' = TRUE
  /\ UNCHANGED queue

EnterAnalogue ==
  /\ mode' = "analogue" /\ tx' = TRUE
  /\ queue' = IF mode = "analogue" /\ tx THEN queue ELSE <<>>

EnterFallback(on) ==
  /\ mode' = "fallback" /\ tx' = on
  /\ IF mode = "fallback" /\ tx = on
       THEN UNCHANGED <<seek, status, queue>>
       ELSE seek' = NoVideo /\ status' = NoVideo /\ queue' = <<>>

EnterIdle ==
  /\ mode' = "idle"
  /\ tx' = (tx /\ mode = "idle")
  /\ UNCHANGED <<seek, status, queue>>

StopFallbackVideo ==
  /\ Idle
  /\ IF mode = "fallbackVideo"
       THEN path' = NoVideo /\ EnterFallback(beacon \/ notice)
       ELSE UNCHANGED <<mode, tx, path, seek, status, queue>>
  /\ UNCHANGED <<asked, waits, writing, worker>>

\* An input pre-empts the video, whatever becomes of the mode.
Preempt ==
  IF mode = "fallbackVideo"
    THEN path' = NoVideo /\ seek' = NoVideo /\ status' = NoVideo
    ELSE UNCHANGED <<path, seek, status>>

TickCapture ==
  /\ active \in Captures
  /\ IF captureWait
       THEN EnterFallback(beacon \/ notice) /\ path' = IF mode = "fallbackVideo" THEN NoVideo ELSE path
       ELSE EnterAnalogue /\ Preempt

TickReceiver ==
  /\ active \in Receivers
  /\ IF liveWait
       THEN EnterFallback(TRUE) /\ path' = IF mode = "fallbackVideo" THEN NoVideo ELSE path
       ELSE EnterRetransmit /\ Preempt

\* A video goes on until it ends, is stopped or is pre-empted.
TickNothing ==
  /\ active = NoInput
  /\ IF mode = "fallbackVideo" THEN UNCHANGED <<mode, tx, seek, status, queue>>
     ELSE IF FallbackEnabled THEN EnterFallback(beacon \/ notice) ELSE EnterIdle
  /\ UNCHANGED path

Tick ==
  /\ Idle
  /\ TickCapture \/ TickReceiver \/ TickNothing
  /\ UNCHANGED <<asked, waits, writing, worker>>

\* write(), first critical section.
Write(i) ==
  /\ Idle /\ active # NoInput
  /\ Preempt
  /\ IF liveWait THEN UNCHANGED <<mode, tx, queue, writing>>
     ELSE EnterRetransmit /\ writing' = i
  /\ UNCHANGED <<asked, waits, worker>>

\* write(), second critical section: a full queue is emptied first.
QueueInput ==
  /\ writing # NoInput
  /\ queue' = IF Len(queue) + 1 > MaxQueue THEN <<writing>> ELSE Append(queue, writing)
  /\ writing' = NoInput
  /\ UNCHANGED <<asked, mode, tx, path, seek, status, waits, worker>>

Message ==
  \/ \E i \in Inputs \cup {NoInput} : Select(i)
  \/ \E b \in BOOLEAN : SetBeaconAllowed(b) \/ SetAccessNotice(b) \/ ReconfigurePluto(b)
  \/ \E v \in Videos : PlayFallbackVideo(v)
  \/ SeekFallbackVideo \/ StopFallbackVideo \/ Tick
  \/ \E i \in Receivers : Write(i)

-----------------------------------------------------------------------------
(* The worker.                                                              *)

Snapshot ==
  /\ pc = "snapshot"
  /\ snap' = [mode |-> mode, active |-> active, path |-> path, seek |-> seek]
  /\ seek' = NoVideo
  /\ pc' = "prepare"
  /\ UNCHANGED <<asked, mode, tx, path, status, queue, waits, writing, live, video, capture, done>>

Keep(kinds) == done' = done \cap kinds

\* Fault: a video that is stopped does not withdraw its status.
RetireVideoSilently == video' = NoVideo /\ UNCHANGED status

\* Joining a video's thread makes it publish that nothing is playing.
RetireVideo ==
  /\ video' = NoVideo
  /\ status' = IF video = NoVideo THEN status ELSE NoVideo

RetireAll == live' = Retired /\ capture' = Retired /\ RetireVideo /\ Keep({})

Again == pc' = "snapshot" /\ snap' = Blank

\* Fault: the capture device is kept.
PrepareFallbackKeepsCapture ==
  /\ snap.mode \in {"fallback", "idle"}
  /\ live' = Retired /\ RetireVideo /\ Keep({"capture"})
  /\ Again
  /\ UNCHANGED capture

\* Frames of the generated pictures, or nothing at all.
PrepareFallback ==
  /\ snap.mode \in {"fallback", "idle"}
  /\ RetireAll
  /\ Again

\* A running video is replaced only by another one.
PrepareVideo ==
  /\ snap.mode = "fallbackVideo"
  /\ live' = Retired /\ capture' = Retired
  /\ IF snap.path \in {NoVideo, video}
       THEN UNCHANGED <<video, status>> /\ Keep({"video"})
       ELSE /\ video' = snap.path /\ Keep({})
            /\ status' = IF video = NoVideo THEN status ELSE NoVideo
  /\ pc' = "check" /\ snap' = snap

PrepareCapture ==
  /\ snap.mode = "analogue"
  /\ live' = Retired /\ RetireVideo /\ Keep({"capture"})
  /\ capture' = IF capture = Retired THEN snap.active ELSE capture
  /\ pc' = "check" /\ snap' = snap

\* Fault: the capture goes on under the received picture.
PrepareLiveKeepsCapture ==
  /\ snap.mode = "retransmit"
  /\ RetireVideo /\ Keep({"live", "capture"})
  /\ live' = IF live = Retired THEN snap.active ELSE live
  /\ pc' = "check" /\ snap' = snap
  /\ UNCHANGED capture

PrepareLive ==
  /\ snap.mode = "retransmit"
  /\ capture' = Retired /\ RetireVideo /\ Keep({"live"})
  /\ live' = IF live = Retired THEN snap.active ELSE live
  /\ pc' = "check" /\ snap' = snap

Prepare ==
  /\ pc = "prepare"
  /\ PrepareFallback \/ PrepareVideo \/ PrepareCapture \/ PrepareLive
  /\ UNCHANGED <<asked, mode, tx, path, seek, queue, waits, writing>>

\* Whatever ends, the mode it leaves for the generated pictures.
BackToFallback == mode' = "fallback" /\ tx' = (beacon \/ notice)

CheckVideo ==
  /\ snap.mode = "fallbackVideo"
  /\ IF "video" \in done
       THEN /\ RetireVideo /\ Keep({})
            /\ IF mode = "fallbackVideo" THEN path' = NoVideo /\ BackToFallback
               ELSE UNCHANGED <<mode, tx, path>>
       ELSE UNCHANGED <<mode, tx, path, status, video, done>>
  /\ UNCHANGED <<queue, waits, live, capture>>

CheckCapture ==
  /\ snap.mode = "analogue"
  /\ IF "capture" \in done
       THEN /\ capture' = Retired /\ Keep({})
            /\ IF mode = "analogue" THEN captureWait' = TRUE /\ BackToFallback
               ELSE UNCHANGED <<mode, tx, captureWait>>
       ELSE UNCHANGED <<mode, tx, captureWait, capture, done>>
  /\ UNCHANGED <<path, status, queue, liveWait, live, video>>

\* The queue goes to the decoder, or to nobody if that has failed.  Unlike the
\* other two, this one does not look whether the mode is still its own.
CheckLive ==
  /\ snap.mode = "retransmit"
  /\ queue' = <<>>
  /\ IF "live" \in done
       THEN /\ liveWait' = TRUE /\ mode' = "fallback" /\ tx' = TRUE
            /\ live' = Retired /\ Keep({})
       ELSE UNCHANGED <<mode, tx, liveWait, live, done>>
  /\ UNCHANGED <<path, status, captureWait, video, capture>>

Check ==
  /\ pc = "check"
  /\ CheckVideo \/ CheckCapture \/ CheckLive
  /\ Again
  /\ UNCHANGED <<asked, seek, writing>>

\* A transcoder or the muxer could not be made, or a frame not be written.
WorkerThrows ==
  /\ RetireAll
  /\ Again
  /\ UNCHANGED <<asked, mode, tx, path, seek, queue, waits, writing>>

Worker == Snapshot \/ Prepare \/ Check

-----------------------------------------------------------------------------
(* The transcoders' threads, and time.                                      *)

Running ==
  {k \in {"live", "video", "capture"} :
     /\ k = "live" => live # Retired
     /\ k = "video" => video # NoVideo
     /\ k = "capture" => capture # Retired} \ done

VideoEnds ==
  /\ "video" \in Running
  /\ done' = done \cup {"video"}
  /\ status' = NoVideo
  /\ UNCHANGED <<asked, mode, tx, path, seek, queue, waits, writing, pc, snap, live, video, capture>>

VideoReports ==
  /\ "video" \in Running
  /\ status' = video
  /\ UNCHANGED <<asked, mode, tx, path, seek, queue, waits, writing, worker>>

TranscoderEnds ==
  /\ \E k \in Running \ {"video"} : done' = done \cup {k}
  /\ UNCHANGED <<asked, mode, tx, path, seek, status, queue, waits, writing, pc, snap, live, video, capture>>

\* Five seconds after a decoder failed, two after a capture ended.
ElapseLive ==
  /\ liveWait /\ liveWait' = FALSE
  /\ UNCHANGED <<asked, mode, tx, path, seek, status, queue, captureWait, writing, worker>>

ElapseCapture ==
  /\ captureWait /\ captureWait' = FALSE
  /\ UNCHANGED <<asked, mode, tx, path, seek, status, queue, liveWait, writing, worker>>

Next == Message \/ QueueInput \/ Worker \/ WorkerThrows
          \/ VideoEnds \/ VideoReports \/ TranscoderEnds \/ ElapseLive \/ ElapseCapture

\* The daemon ends every iteration with a tick, so the tick comes again and
\* again between the packets; both threads run, and time passes.  No
\* transcoder need ever end.
Fairness == SF_vars(Tick) /\ WF_vars(QueueInput) /\ WF_vars(Worker)
              /\ WF_vars(ElapseLive) /\ WF_vars(ElapseCapture)

Spec == Init /\ [][Next]_vars /\ Fairness

-----------------------------------------------------------------------------
(* What the pipeline promises.                                              *)

Existing == Running \cup done

\* Only one source can feed the encoder: although the worker acts on a
\* snapshot that may be out of date, two transcoders never exist together.
OneSource == Cardinality(Existing) <= 1

\* The dashboard is never told that a video plays that no transcoder is
\* playing: a report cannot arrive after the stop, end or replacement of it.
StatusIsPlaying == status \in {NoVideo, video}

\* A position is only ever applied to the video it was asked for, although it
\* waits for the worker while videos are started, stopped and finished.
SeekHitsItsVideo ==
  pc = "check" /\ snap.mode = "fallbackVideo" /\ snap.seek # NoVideo
    => video \in {NoVideo, snap.seek}

\* What is held for the decoder is bounded, whoever of the two threads is late
\* (media_pipeline.cpp:7936).
QueueBounded == Len(queue) <= MaxQueue

\* A receiver that stays selected is on the air again and again, however often
\* its decoder fails, the Pluto is reconfigured or a video is started.
LiveReturns ==
  <>[](active \in Receivers) => []<>(mode = "retransmit" /\ tx)

\* Without an input or a video the pipeline comes to rest, and so do its
\* transcoders, even if a late failure of a decoder changes the mode once more.
AtRest == mode = (IF FallbackEnabled THEN "fallback" ELSE "idle") /\ Existing = {}

Settles ==
  <>[](active = NoInput /\ mode # "fallbackVideo") => <>[]AtRest

=============================================================================
