------------------------------ MODULE Transcoders ------------------------------
(***************************************************************************)
(* The worker of the media pipeline and the threads it drives: the decoder *)
(* of a received stream (LiveTranscoder), the player of a fallback video   *)
(* (FallbackVideoTranscoder), the capture with a second thread for its     *)
(* sound (AnalogueCaptureTranscoder).  All submit to one muxer             *)
(* (FallbackMuxer) and are stopped, joined and destroyed by the worker     *)
(* only.  MediaPipeline has the decisions of the worker; this module has   *)
(* what may keep a thread waiting, and who outlives whom.                  *)
(*                                                                         *)
(* TS is counted in chunks of append(), submitted sound in frames of the   *)
(* encoder, one for each frame of video.  What the frames show, and their  *)
(* time stamps, are in Muxer.                                              *)
(***************************************************************************)
EXTENDS Naturals, Sequences

CONSTANTS
  BufferLimit,  \* maxBufferedBytes of BlockingTsInput, in chunks
  FifoLimit,    \* maxSubmittedAudioSamples, in frames
  MaxLead,      \* maxLeadFrames of the player
  MaxThrows     \* bound: how often an encoder fails

ASSUME LimitsAssumption ==
  /\ BufferLimit \in Nat \ {0}
  /\ FifoLimit \in Nat \ {0}
  /\ MaxLead \in Nat \ {0}
  /\ MaxThrows \in Nat

Modes == {"idle", "fallback", "fallbackVideo", "analogue", "retransmit"}

Transcoder == {"live", "video", "capture"}

Thread == Transcoder \cup {"sound"}

Needed(m) == CASE m = "retransmit" -> "live"
               [] m = "fallbackVideo" -> "video"
               [] m = "analogue" -> "capture"
               [] OTHER -> "none"

VARIABLES
  mode,      \* mode_
  stopping,  \* stopping_
  queued,    \* chunks in inputQueue_ (0 or 1: the worker empties it)
  seen,      \* the worker's copy of the mode
  todo,      \* what is left of its iteration
  muxer,     \* fallbackMuxer exists
  at,        \* where each thread is
  halt,      \* stopping_ of each transcoder
  ready,     \* ready_ of the decoder, videoStarted_ of the capture
  buffer,    \* chunks in the BlockingTsInput
  fifo,      \* frames in submittedAudioFifo_
  owner,     \* submittedAudioSource_
  lead,      \* how far the player is ahead of the output, in frames
  throws

vars == <<mode, stopping, queued, seen, todo, muxer, at, halt, ready, buffer,
          fifo, owner, lead, throws>>

pipeline == <<mode, stopping, queued>>
worker == <<seen, todo, muxer, throws>>
sink == <<fifo, owner>>

Alive(k) == at[k] \notin {"none", "finished"}

Init ==
  /\ mode = "idle" /\ stopping = FALSE /\ queued = 0
  /\ seen = "idle" /\ todo = <<>> /\ muxer = FALSE
  /\ at = [k \in Thread |-> "none"]
  /\ halt = [k \in Transcoder |-> FALSE]
  /\ ready = FALSE
  /\ buffer = 0 /\ fifo = 0 /\ owner = "submitted" /\ lead = 0
  /\ throws = 0

Goto(k, where) == at' = [at EXCEPT ![k] = where]

-----------------------------------------------------------------------------
(* The controlling thread.                                                  *)

SetMode(m) ==
  /\ mode' = m
  /\ queued' = IF m = "retransmit" THEN queued ELSE 0
  /\ UNCHANGED <<stopping, worker, at, halt, ready, buffer, sink, lead>>

QueueInput ==
  /\ mode = "retransmit"
  /\ queued' = 1
  /\ UNCHANGED <<mode, stopping, worker, at, halt, ready, buffer, sink, lead>>

StopWorker ==
  /\ stopping' = TRUE
  /\ UNCHANGED <<mode, queued, worker, at, halt, ready, buffer, sink, lead>>

Control == (\E m \in Modes : SetMode(m)) \/ QueueInput \/ StopWorker

-----------------------------------------------------------------------------
(* The sink, under outputMutex_.                                            *)

\* beginSubmittedSource() and a change of source drop what is queued.
Begin(k) == fifo' = 0 /\ owner' = k

\* endSubmittedSource(): only what the source itself has left.
End(k) == /\ fifo' = IF owner = k THEN 0 ELSE fifo
          /\ owner' = IF owner = k THEN "submitted" ELSE owner

\* submitAudioFrame() of the decoder and of the capture.
HasRoom(k) == owner # k \/ fifo < FifoLimit

Submit(k) == fifo' = (IF owner = k THEN fifo ELSE 0) + 1 /\ owner' = k

\* The same after two seconds without room: as much is dropped as is written.
SubmitLate(k) == owner' = k /\ UNCHANGED fifo

\* submitAudioFrame() of the player: the oldest sound gives way.
SubmitOver(k) == owner' = k /\ fifo' = IF owner # k THEN 1
                                       ELSE IF fifo < FifoLimit THEN fifo + 1 ELSE fifo

-----------------------------------------------------------------------------
(* LiveTranscoder.                                                          *)

\* read() and what comes of it: nothing yet, a picture, or sound (dropped until
\* there is a picture).
LiveReads ==
  /\ at["live"] = "read" /\ buffer > 0
  /\ buffer' = buffer - 1
  /\ \E where \in {"read", "picture"} \cup (IF ready THEN {"room"} ELSE {}) :
       Goto("live", where)
  /\ UNCHANGED <<pipeline, worker, halt, ready, sink, lead>>

\* What was read cannot be demultiplexed, or its decoder cannot be had.
LiveFails ==
  /\ at["live"] = "read" /\ buffer > 0
  /\ buffer' = buffer - 1
  /\ Goto("live", "finished")
  /\ UNCHANGED <<pipeline, worker, halt, ready, sink, lead>>

\* Fault: read() waits for data only, stop() does not end its wait.
LiveEndsAsleep ==
  /\ at["live"] = "read" /\ buffer > 0 /\ halt["live"]
  /\ Goto("live", "finished")
  /\ UNCHANGED <<pipeline, worker, halt, ready, buffer, sink, lead>>

\* stop() ends read() when the buffer is empty.
LiveEnds ==
  /\ at["live"] = "read" /\ buffer = 0 /\ halt["live"]
  /\ Goto("live", "finished")
  /\ UNCHANGED <<pipeline, worker, halt, ready, buffer, sink, lead>>

\* drainDecoder(): ready_ first, then the frame, unless stopped in between.
LivePicture ==
  /\ at["live"] = "picture"
  /\ ready' = TRUE
  /\ Goto("live", "read")
  /\ IF halt["live"] THEN UNCHANGED sink
     ELSE IF owner # "live" THEN Begin("live") ELSE UNCHANGED sink
  /\ UNCHANGED <<pipeline, worker, halt, buffer, lead>>

LiveSound ==
  /\ at["live"] = "room"
  /\ Goto("live", "read")
  /\ \/ halt["live"] /\ UNCHANGED sink
     \/ HasRoom("live") /\ Submit("live")
     \/ ~HasRoom("live") /\ SubmitLate("live")
  /\ UNCHANGED <<pipeline, worker, halt, ready, buffer, lead>>

Live == LiveReads \/ LiveFails \/ LiveEnds \/ LivePicture \/ LiveSound

-----------------------------------------------------------------------------
(* FallbackVideoTranscoder.                                                 *)

VideoOpens ==
  /\ at["video"] = "open"
  /\ \/ Goto("video", "ending") /\ UNCHANGED <<sink, lead>>
     \/ Goto("video", "read") /\ Begin("video") /\ lead' = 0
  /\ UNCHANGED <<pipeline, worker, halt, ready, buffer>>

\* seekTo() of the worker is taken before the next packet; the source begins anew.
VideoSeeks ==
  /\ at["video"] = "read" /\ ~halt["video"]
  /\ Begin("video") /\ lead' = 0
  /\ UNCHANGED <<pipeline, worker, at, halt, ready, buffer>>

\* A packet, or the end: of the file, of its time, by an error, on request.
VideoReads ==
  /\ at["video"] = "read"
  /\ \E where \in IF halt["video"] THEN {"ending"}
                  ELSE {"read", "picture", "sound", "ending"} : Goto("video", where)
  /\ UNCHANGED <<pipeline, worker, halt, ready, buffer, sink, lead>>

\* Fault: the wait for the output does not look at stopping_.
VideoPictureDeaf ==
  /\ at["video"] = "picture"
  /\ lead < MaxLead
  /\ Goto("video", "read")
  /\ lead' = lead + 1
  /\ UNCHANGED <<pipeline, worker, halt, ready, buffer, sink>>

\* waitForOutputVideoLead(), then the frame.
VideoPicture ==
  /\ at["video"] = "picture"
  /\ halt["video"] \/ lead < MaxLead
  /\ Goto("video", "read")
  /\ IF halt["video"] THEN UNCHANGED lead ELSE lead' = lead + 1
  /\ UNCHANGED <<pipeline, worker, halt, ready, buffer, sink>>

\* waitForOutputAudioLead(), then the sound.
VideoSound ==
  /\ at["video"] = "sound"
  /\ halt["video"] \/ lead < MaxLead
  /\ Goto("video", "read")
  /\ IF halt["video"] THEN UNCHANGED sink ELSE SubmitOver("video")
  /\ UNCHANGED <<pipeline, worker, halt, ready, buffer, lead>>

VideoEnds ==
  /\ at["video"] = "ending"
  /\ End("video")
  /\ Goto("video", "finished")
  /\ UNCHANGED <<pipeline, worker, halt, ready, buffer, lead>>

Video == VideoOpens \/ VideoSeeks \/ VideoReads \/ VideoPicture \/ VideoSound \/ VideoEnds

-----------------------------------------------------------------------------
(* AnalogueCaptureTranscoder and its thread for sound.                      *)

CaptureOpens ==
  /\ at["capture"] = "open"
  /\ \/ Goto("capture", "finished") /\ UNCHANGED sink
     \/ /\ Begin("capture")
        /\ \E sound \in {"none", "open"} :
             at' = [at EXCEPT !["capture"] = "read", !["sound"] = sound]
  /\ UNCHANGED <<pipeline, worker, halt, ready, buffer, lead>>

\* drainDecoder(): the first picture lets the sound begin.
CapturePicture ==
  /\ at["capture"] = "read" /\ ~halt["capture"]
  /\ ready' = TRUE
  /\ IF owner # "capture" THEN Begin("capture") ELSE UNCHANGED sink
  /\ UNCHANGED <<pipeline, worker, at, halt, buffer, lead>>

\* An error, the end, or stopping_.
CaptureStops ==
  /\ at["capture"] = "read"
  /\ Goto("capture", "join")
  /\ UNCHANGED <<pipeline, worker, halt, ready, buffer, sink, lead>>

\* Fault: the guard that ends the source is destroyed before the thread of the
\* sound is joined.
CaptureEndsBeforeSound ==
  /\ at["capture"] = "join"
  /\ End("capture")
  /\ Goto("capture", "finished")
  /\ UNCHANGED <<pipeline, worker, halt, ready, buffer, lead>>

\* AudioThreadJoiner, then SubmittedSourceGuard.
CaptureEnds ==
  /\ at["capture"] = "join" /\ ~Alive("sound")
  /\ End("capture")
  /\ Goto("capture", "finished")
  /\ UNCHANGED <<pipeline, worker, halt, ready, buffer, lead>>

\* Sound is dropped until there is a picture.
SoundReads ==
  /\ at["sound"] \in {"open", "read"}
  /\ \E where \in IF halt["capture"] THEN {"finished"}
                  ELSE {"read", "finished"} \cup
                       (IF ready /\ at["sound"] = "read" THEN {"room"} ELSE {}) :
       Goto("sound", where)
  /\ UNCHANGED <<pipeline, worker, halt, ready, buffer, sink, lead>>

SoundSubmits ==
  /\ at["sound"] = "room"
  /\ Goto("sound", "read")
  /\ IF HasRoom("capture") THEN Submit("capture") ELSE SubmitLate("capture")
  /\ UNCHANGED <<pipeline, worker, halt, ready, buffer, lead>>

Capture == CaptureOpens \/ CapturePicture \/ CaptureStops \/ CaptureEnds
Sound == SoundReads \/ SoundSubmits

-----------------------------------------------------------------------------
(* The worker: an iteration is a list of steps.                             *)

Step(name, k) == [name |-> name, of |-> k]

\* Fault: the branch of the received stream leaves the player alone.
IterationKeepsPlayer(m) ==
  CASE m = "retransmit" ->
         <<Step("drop", "capture"), Step("need", "live"), Step("check", "live")>>
    [] m = "fallbackVideo" ->
         <<Step("drop", "live"), Step("drop", "capture"),
           Step("file", "video"), Step("check", "video")>>
    [] OTHER -> <<Step("drop", "live"), Step("drop", "video"), Step("drop", "capture"),
                  Step("need", Needed(m)), Step("check", Needed(m))>>

\* The branches of workerLoop().  The player of another file is replaced.
Iteration(m) ==
  CASE m = "fallback" ->
         <<Step("drop", "live"), Step("drop", "video"), Step("drop", "capture"),
           Step("need", "none"), Step("write", "none")>>
    [] m = "fallbackVideo" ->
         <<Step("drop", "live"), Step("drop", "capture"),
           Step("file", "video"), Step("check", "video")>>
    [] m = "analogue" ->
         <<Step("drop", "live"), Step("drop", "video"),
           Step("need", "capture"), Step("check", "capture")>>
    [] m = "retransmit" ->
         <<Step("drop", "capture"), Step("drop", "video"),
           Step("need", "live"), Step("check", "live")>>
    [] m = "idle" ->
         <<Step("close", "none"), Step("drop", "live"), Step("drop", "video"),
           Step("drop", "capture")>>

\* Fault: the handler forgets the capture.
RecoveryForgetsCapture ==
  <<Step("close", "none"), Step("drop", "live"), Step("drop", "video")>>

\* The exception handler and the end of workerLoop() close the muxer first, too.
Recovery ==
  <<Step("close", "none"), Step("drop", "live"), Step("drop", "video"),
    Step("drop", "capture")>>

Shutdown == Recovery \o <<Step("leave", "none")>>

At(name, k) == todo # <<>> /\ Head(todo) = Step(name, k)

Snapshot ==
  /\ todo = <<>> /\ seen # "left"
  /\ IF stopping THEN todo' = Shutdown /\ UNCHANGED seen
                 ELSE seen' = mode /\ todo' = Iteration(mode)
  /\ UNCHANGED <<pipeline, muxer, throws, at, halt, ready, buffer, sink, lead>>

\* stop(), and the destructor that joins the thread.
Drop(k) ==
  /\ At("drop", k)
  /\ \/ at[k] = "none" /\ todo' = Tail(todo) /\ UNCHANGED <<at, halt, buffer, ready, lead>>
     \/ /\ Alive(k) /\ ~halt[k]
        /\ halt' = [halt EXCEPT ![k] = TRUE]
        /\ UNCHANGED <<todo, at, buffer, ready, lead>>
     \/ /\ at[k] = "finished"
        /\ at' = [t \in Thread |-> IF t = k \/ (k = "capture" /\ t = "sound")
                                   THEN "none" ELSE at[t]]
        /\ halt' = [halt EXCEPT ![k] = FALSE]
        /\ buffer' = IF k = "live" THEN 0 ELSE buffer
        /\ ready' = IF k = "video" THEN ready ELSE FALSE
        /\ lead' = IF k = "video" THEN 0 ELSE lead
        /\ todo' = Tail(todo)
  /\ UNCHANGED <<pipeline, seen, muxer, throws, sink>>

\* A player stays if its file is the one that is asked for.
SameFile ==
  /\ At("file", "video")
  /\ \E same \in BOOLEAN :
       todo' = (IF same THEN <<>> ELSE <<Step("drop", "video")>>)
                 \o <<Step("need", "video")>> \o Tail(todo)
  /\ UNCHANGED <<pipeline, seen, muxer, throws, at, halt, ready, buffer, sink, lead>>

\* The muxer and the transcoder, if they are not there yet.  A new muxer has
\* nothing submitted to it.
Need(k) ==
  /\ At("need", k)
  /\ muxer' = TRUE
  /\ IF muxer THEN UNCHANGED sink ELSE Begin("submitted")
  /\ IF k # "none" /\ at[k] = "none"
     THEN Goto(k, IF k = "live" THEN "read" ELSE "open")
     ELSE UNCHANGED at
  /\ todo' = Tail(todo)
  /\ UNCHANGED <<pipeline, seen, throws, halt, ready, buffer, lead>>

\* The wait for the next frame ends at the deadline at the latest.  A player
\* and a capture that have finished change the mode if it is still theirs.
CheckFile(k) ==
  /\ k \in {"video", "capture"} /\ At("check", k)
  /\ IF stopping THEN todo' = Shutdown /\ UNCHANGED mode
     ELSE IF at[k] = "finished"
     THEN /\ todo' = <<Step("drop", k)>>
          /\ mode' = IF Needed(mode) = k THEN "fallback" ELSE mode
     ELSE todo' = <<Step("write", k)>> /\ UNCHANGED mode
  /\ UNCHANGED <<stopping, queued, seen, muxer, throws, at, halt, ready, buffer, sink, lead>>

\* A decoder that has finished changes the mode in any case; otherwise it is
\* given what is queued.
CheckLive ==
  LET Picture == Step("write", IF ready THEN "live" ELSE "none") IN
  /\ At("check", "live")
  /\ queued' = IF stopping THEN queued ELSE 0
  /\ mode' = IF ~stopping /\ at["live"] = "finished" THEN "fallback" ELSE mode
  /\ todo' = IF stopping THEN Shutdown
             ELSE IF at["live"] = "finished"
             THEN <<Picture, Step("drop", "live")>>
             ELSE IF queued > 0 THEN <<Step("append", "live"), Picture>>
             ELSE <<Picture>>
  /\ UNCHANGED <<stopping, seen, muxer, throws, at, halt, ready, buffer, sink, lead>>

\* BlockingTsInput::append() waits for room, and nobody but this thread can
\* call stop().
AppendInput ==
  /\ At("append", "live")
  /\ buffer < BufferLimit
  /\ buffer' = buffer + 1
  /\ todo' = Tail(todo)
  /\ UNCHANGED <<pipeline, seen, muxer, throws, at, halt, ready, sink, lead>>

\* writeFrame(): the output moves on by one frame, and takes submitted sound if
\* it prefers what is submitted.
Write(k) ==
  /\ At("write", k)
  /\ lead' = IF lead > 0 THEN lead - 1 ELSE 0
  /\ fifo' = IF k # "none" /\ fifo > 0 THEN fifo - 1 ELSE fifo
  /\ todo' = Tail(todo)
  /\ UNCHANGED <<pipeline, seen, muxer, throws, at, halt, ready, buffer, owner>>

\* An encoder that cannot be opened or fails.
Throws ==
  /\ todo # <<>> /\ Head(todo).name \in {"need", "write"}
  /\ throws < MaxThrows
  /\ throws' = throws + 1
  /\ todo' = Recovery
  /\ UNCHANGED <<pipeline, seen, muxer, at, halt, ready, buffer, sink, lead>>

CloseMuxer ==
  /\ At("close", "none")
  /\ muxer' = FALSE
  /\ todo' = Tail(todo)
  /\ UNCHANGED <<pipeline, seen, throws, at, halt, ready, buffer, sink, lead>>

Leave ==
  /\ At("leave", "none")
  /\ seen' = "left"
  /\ todo' = <<>>
  /\ UNCHANGED <<pipeline, muxer, throws, at, halt, ready, buffer, sink, lead>>

Worker ==
  \/ Snapshot \/ SameFile \/ Throws \/ CheckLive \/ AppendInput \/ CloseMuxer \/ Leave
  \/ \E k \in Transcoder : Drop(k) \/ CheckFile(k)
  \/ \E k \in Transcoder \cup {"none"} : Need(k) \/ Write(k)

-----------------------------------------------------------------------------

Next == Control \/ Live \/ Video \/ Capture \/ Sound \/ Worker

\* The system runs every thread; the encoders, the demultiplexers and the drivers
\* return.  A file and a capture need not end until they are told to.
Fairness ==
  /\ WF_vars(Worker) /\ WF_vars(Live)
  /\ WF_vars(halt["video"] /\ Video)
  /\ WF_vars(halt["capture"] /\ Capture)
  /\ WF_vars(halt["capture"] /\ Sound)

Spec == Init /\ [][Next]_vars /\ Fairness

-----------------------------------------------------------------------------
(* Properties.                                                              *)

StepNames == {"drop", "file", "need", "check", "append", "write", "close", "leave"}

\* Every variable has its type: the limits of the buffers are kept, and a
\* transcoder that is told to stop exists.
TypeOK ==
  /\ mode \in Modes /\ stopping \in BOOLEAN /\ queued \in 0..1
  /\ seen \in Modes \cup {"left"}
  /\ todo \in Seq([name : StepNames, of : Transcoder \cup {"none"}])
  /\ muxer \in BOOLEAN
  /\ at \in [Thread -> {"none", "open", "read", "picture", "sound", "room", "ending",
                         "join", "finished"}]
  /\ halt \in [Transcoder -> BOOLEAN]
  /\ \A k \in Transcoder : halt[k] => at[k] # "none"
  /\ ready \in BOOLEAN
  /\ buffer \in 0..BufferLimit /\ fifo \in 0..FifoLimit /\ lead \in 0..MaxLead
  /\ owner \in Transcoder \cup {"submitted"}
  /\ throws \in 0..MaxThrows

\* The idle branch, the handler and the end of workerLoop() destroy the muxer
\* before the transcoders that hold a reference to it.
Closing == todo # <<>> /\ \E k \in Transcoder : todo[1] = Step("drop", k)

\* A thread that submits has a muxer to submit to: outside those three
\* sequences no transcoder is alive without it.
SinkOutlivesSources == (\E k \in Transcoder : Alive(k)) => muxer \/ Closing

\* There is never more than one transcoder that submits: a change of branch joins
\* the old one before it makes the new one.
OneProducer == \A k, l \in Transcoder : Alive(k) /\ Alive(l) => k = l

\* Sound of a file or of a capture is not left to whatever is sent next: nothing
\* submits after the source has been ended.
SoundHasOwner == muxer /\ fifo > 0 /\ owner \in {"video", "capture"} => Alive(owner)

\* The worker waits for room in the buffer of a decoder that has finished: it
\* cannot see that it has, and nobody else can stop it.
Stuck == At("append", "live") /\ buffer = BufferLimit /\ at["live"] = "finished"

\* No wait of a transcoder holds the worker up for good: every iteration ends,
\* so that the output and the controlling thread are served again.
IterationsEnd == []<>(todo = <<>> \/ Stuck)

\* stopWorker() returns, whatever the worker and the transcoders are doing.
ShutdownCompletes == stopping ~> (seen = "left" \/ Stuck)
=============================================================================
