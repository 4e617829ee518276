--------------------------------- MODULE Muxer ---------------------------------
(***************************************************************************)
(* The output of the media pipeline (FallbackMuxer): which picture and     *)
(* which sound each frame of the output gets, and at what time; and the    *)
(* mirror that sends the encoded packets to an RTMP server                 *)
(* (PersistentRtmpMuxer).                                                  *)
(*                                                                         *)
(* The output is counted in frames of video and in samples of sound.  A    *)
(* picture of a file is its time stamp relative to the start of the        *)
(* source; of other pictures it matters only whose they are.  There is one *)
(* source at a time (OneProducer in Transcoders); its threads and waits    *)
(* are in that module.                                                     *)
(***************************************************************************)
EXTENDS Integers, Sequences

CONSTANTS
  SampleRate, FrameRate,  \* of the output
  AudioFrame,             \* samples in a frame of the sound encoder
  Lead, SoundLead,        \* maxLeadFrames, maxLeadSamples of the player
  QueueLimit,             \* maxQueuedVideoFrames of a file
  FileFifo, LiveFifo,     \* maxSubmittedAudioSamples of a file, of another source
  StaleAfter,             \* how long a submitted picture is fresh, in frames
  MaxFrames,              \* bound: frames written by one muxer
  MaxRestarts, MaxStarts  \* bounds: how often the muxer and a source are made anew

ASSUME RatesAssumption ==
  /\ {SampleRate, FrameRate, AudioFrame, Lead, SoundLead, QueueLimit} \subseteq Nat \ {0}
  /\ FileFifo \in Nat /\ FileFifo >= 2 * AudioFrame
  /\ LiveFifo \in Nat /\ LiveFifo >= 2 * AudioFrame
  /\ {StaleAfter, MaxFrames, MaxRestarts, MaxStarts} \subseteq Nat

\* Both are a second of sound: max(sample_rate, 2 frames) and max(6 frames, sample_rate)
\* of the encoder, whose frames have 1024 samples of 48000.
ASSUME FileAssumption == SoundLead = FileFifo

VARIABLES
  branch,   \* the mode the worker writes for
  index,    \* fallbackFrameIndex of the worker
  next,     \* nextOutputVideoPts(lastVideoPts_)
  sound,    \* audioSampleIndex_
  video,    \* the submitted pictures
  audio,    \* the submitted sound
  player,   \* the thread of the source
  mirror,   \* PersistentRtmpMuxer
  restarts, starts

vars == <<branch, index, next, sound, video, audio, player, mirror, restarts, starts>>

Least(a, b) == IF a < b THEN a ELSE b
Most(a, b) == IF a > b THEN a ELSE b

\* audioTargetSampleForVideoFrame()
Target(frame) == (frame * SampleRate) \div FrameRate

\* own: the picture was submitted by the thread that is there now; shown: the
\* last picture of the file that was written.
NoVideo(source, base) ==
  [source |-> source, base |-> base, queue |-> <<>>, own |-> TRUE, held |-> FALSE,
   age |-> 0, shown |-> -1]

\* stale: how many of the queued samples are of a thread that is gone.
NoAudio(source) == [source |-> source, fifo |-> 0, stale |-> 0, expected |-> FALSE]

NoPlayer == [at |-> "none", pts |-> 0, heard |-> 0, vbase |-> 0, abase |-> 0]

\* unbroken: the connection was made with a picture and has not been lost.
NoMirror == [on |-> FALSE, voffset |-> 0, aoffset |-> 0, vlast |-> -1, alast |-> -1,
             unbroken |-> TRUE]

Init ==
  /\ branch = "fallback"
  /\ index = 0 /\ next = 0 /\ sound = 0
  /\ video = NoVideo("submitted", 0) /\ audio = NoAudio("submitted")
  /\ player = NoPlayer
  /\ mirror = NoMirror
  /\ restarts = 0 /\ starts = 0

-----------------------------------------------------------------------------
(* Sources begin and end.                                                   *)

\* beginSubmittedSource()
Begin(source) ==
  /\ video' = NoVideo(source, next)
  /\ \E hasAudio \in BOOLEAN : audio' = [NoAudio(source) EXCEPT !.expected = hasAudio]

\* Fault: the sound of a source stays when the source ends.
EndLeavesSound(source) ==
  /\ video' = IF video.source = source THEN NoVideo("submitted", 0)
              ELSE [video EXCEPT !.own = FALSE]
  /\ audio' = [audio EXCEPT !.stale = audio.fifo]

\* endSubmittedSource() of a file and of a capture; nothing of the kind for a
\* received stream.  What is left afterwards is nobody's.
End(source) ==
  /\ video' = IF source # "live" /\ video.source = source THEN NoVideo("submitted", 0)
              ELSE [video EXCEPT !.own = FALSE]
  /\ audio' = IF source # "live" /\ audio.source = source THEN NoAudio("submitted")
              ELSE [audio EXCEPT !.stale = audio.fifo]

\* The worker joins the old transcoder and makes the one of its new branch.
Switch(b) ==
  /\ b # branch /\ starts < MaxStarts
  /\ starts' = starts + 1
  /\ branch' = b
  /\ End(branch)
  /\ player' = IF b = "fallback" THEN NoPlayer ELSE [NoPlayer EXCEPT !.at = "open"]
  /\ UNCHANGED <<index, next, sound, mirror, restarts>>

\* The player of a file and the capture announce themselves; a received stream
\* is shown from its first picture on.
Open ==
  /\ player.at = "open"
  /\ IF branch = "live" THEN UNCHANGED <<video, audio>> ELSE Begin(branch)
  /\ player' = [player EXCEPT !.at = IF branch = "video" THEN "begun" ELSE "play"]
  /\ UNCHANGED <<branch, index, next, sound, mirror, restarts, starts>>

\* outputVideoBasePts and outputAudioBasePts are read after the source has begun.
ReadBases ==
  /\ player.at = "begun"
  /\ player' = [NoPlayer EXCEPT !.at = "play", !.vbase = next, !.abase = sound]
  /\ UNCHANGED <<branch, index, next, sound, video, audio, mirror, restarts, starts>>

\* A seek begins the source anew.
Seek ==
  /\ branch = "video" /\ player.at = "play" /\ starts < MaxStarts
  /\ starts' = starts + 1
  /\ Begin("video")
  /\ player' = [player EXCEPT !.at = "begun"]
  /\ UNCHANGED <<branch, index, next, sound, mirror, restarts>>

-----------------------------------------------------------------------------
(* What sources submit.                                                     *)

\* waitForOutputVideoLead()
PictureMayGo ==
  branch = "video" /\ player.at = "play" /\ player.pts < next - player.vbase + Lead

\* waitForOutputAudioLead()
SoundMayGo ==
  branch = "video" /\ player.at = "play" /\ audio.expected
    /\ player.heard < sound - player.abase + SoundLead

\* submitVideoFrame() of a file waits 100 ms for room, which is the time before this
\* step; a picture that finds none then is dropped.
FilePicture ==
  /\ PictureMayGo
  /\ player' = [player EXCEPT !.pts = @ + 1]
  /\ video' = IF Len(video.queue) < QueueLimit
              THEN [video EXCEPT !.queue = Append(@, player.pts)] ELSE video
  /\ UNCHANGED <<branch, index, next, sound, audio, mirror, restarts, starts>>

\* Fault: the sound of a file may queue like that of other sources.
QueueSoundDeep == Least(audio.fifo + AudioFrame, LiveFifo)

\* The oldest sound gives way to the new.
QueueSound == Least(audio.fifo + AudioFrame, FileFifo)

FileSound ==
  /\ SoundMayGo
  /\ player' = [player EXCEPT !.heard = @ + AudioFrame]
  /\ audio' = [audio EXCEPT !.fifo = QueueSound]
  /\ UNCHANGED <<branch, index, next, sound, video, mirror, restarts, starts>>

\* A received or captured picture replaces the one before.  A change of source
\* drops what is queued; the base stays if the source is the same.
NowPicture ==
  /\ branch \in {"live", "capture"} /\ player.at \in {"play", "ready"}
  /\ IF branch = "live" /\ player.at = "play"
     THEN UNCHANGED <<video, audio>>    \* ready_ comes before the frame
     ELSE /\ video' = [NoVideo(branch, IF video.source = branch THEN video.base ELSE next)
                         EXCEPT !.queue = <<0>>]
          /\ audio' = IF video.source = branch THEN audio
                      ELSE [audio EXCEPT !.fifo = 0, !.stale = 0]
  /\ player' = [player EXCEPT !.at = "ready"]
  /\ UNCHANGED <<branch, index, next, sound, mirror, restarts, starts>>

\* Sound waits for room; after two seconds as much is dropped as is written.
NowSound ==
  LET kept == IF audio.source = branch THEN audio ELSE NoAudio(branch)
      full == kept.fifo + AudioFrame > LiveFifo
      drop == IF full THEN AudioFrame ELSE 0
  IN /\ branch \in {"live", "capture"} /\ player.at = "ready"
     /\ audio' = [kept EXCEPT !.fifo = @ - drop + AudioFrame,
                              !.stale = Most(0, @ - drop)]
     /\ UNCHANGED <<branch, index, next, sound, video, player, mirror, restarts, starts>>

-----------------------------------------------------------------------------
(* The mirror.                                                              *)

\* writePacket(): a time stamp that does not advance moves the stream's offset.
Rebased(off, last, time, duration) ==
  IF last # -1 /\ time + off <= last THEN last + duration - time ELSE off

SendVideo(m, time, duration) ==
  LET off == Rebased(m.voffset, m.vlast, time, duration)
  IN [m EXCEPT !.voffset = off, !.vlast = time + off]

\* Fault: only the time stamps of the pictures are moved on.
SendAudioUnshifted(m, time) == [m EXCEPT !.alast = time + m.aoffset]

SendAudio(m, time) ==
  LET off == Rebased(m.aoffset, m.alast, time, AudioFrame)
  IN [m EXCEPT !.aoffset = off, !.alast = time + off]

\* The duration of a picture's packet is that of a frame, or of one tick where the
\* encoder leaves it out.
Durations == {1, Target(1)}

\* A picture, and then its frames of sound.
Time(i) == IF i = 0 THEN Target(next) ELSE sound + (i - 1) * AudioFrame

\* The mirror after each of these packets, of which it is sent those from `from' on.
After(from, n, duration) ==
  LET m[i \in -1..n] ==
        IF i < from THEN mirror
        ELSE IF i = 0 THEN SendVideo(m[-1], Time(0), duration)
        ELSE SendAudio(m[i - 1], Time(i))
  IN m

\* A picture and n frames of sound, while the connection lasts; it is made and lost
\* with any packet.
SentAs(n, duration) ==
  IF mirror.on
  THEN {After(0, n, duration)[n]}
         \cup {[After(0, n, duration)[i] EXCEPT !.on = FALSE, !.unbroken = FALSE] : i \in 0..n}
  ELSE {mirror}
         \cup {[After(i, n, duration)[n] EXCEPT !.on = TRUE, !.unbroken = @ /\ i = 0] : i \in 0..n}

Sent(n) == UNION {SentAs(n, duration) : duration \in Durations}

-----------------------------------------------------------------------------
(* The worker writes.                                                       *)

\* preferSubmittedVideo
Prefer == \/ branch \in {"video", "capture"}
          \/ branch = "live" /\ player.at = "ready"

\* fallbackVideoAudioReadyLocked()
SoundReady == audio.expected => audio.fifo >= 2 * AudioFrame

Fresh == /\ video.queue # <<>>
         /\ IF video.source = "video" THEN SoundReady ELSE video.age < StaleAfter

\* submittedFrameDuePts()
Due(picture) == video.base + picture

\* What is left of the queue of a file when the pictures that are overtaken have
\* been dropped.
Overtaken == {i \in 2..Len(video.queue) : Due(video.queue[i]) <= index}
Waiting == IF Overtaken = {} THEN video.queue
           ELSE SubSeq(video.queue, CHOOSE i \in Overtaken : \A j \in Overtaken : j <= i,
                       Len(video.queue))

\* writeFrameLocked(): whether what is submitted is written, and what is left.  While
\* the next picture is not due the last one, or black, stands.
FileFrame ==
  IF Due(Head(Waiting)) > index
  THEN [shown |-> TRUE, left |-> [video EXCEPT !.queue = Waiting, !.held = TRUE]]
  ELSE [shown |-> TRUE,
        left |-> [video EXCEPT !.queue = Tail(Waiting), !.shown = Head(Waiting), !.held = TRUE]]

Frame ==
  IF Prefer /\ Fresh
  THEN IF video.source = "video" THEN FileFrame ELSE [shown |-> TRUE, left |-> video]
  ELSE [shown |-> Prefer /\ video.source = "video" /\ video.held, left |-> video]

\* writeAudioUntil(): audioFrameDue() as often as it is true.
SoundDue == (Target(index + 1) - sound) \div AudioFrame

\* encode(): every picture gets the next time stamp of the output, whatever the
\* worker's own count is.
Stamped == next + 1

\* writeAudioFrame(), n times: with a submitted picture goes submitted sound, as far
\* as it fills a frame of the encoder; the rest is silence.
Taken(n) == Least(n, audio.fifo \div AudioFrame) * AudioFrame

\* writeFrame(): a picture, and the sound up to its end.
Write ==
  LET n == SoundDue
      f == Frame
      taken == IF f.shown THEN Taken(n) ELSE 0
  IN /\ next < MaxFrames
     /\ video' = [f.left EXCEPT !.age = Least(@ + 1, StaleAfter)]
     /\ audio' = [audio EXCEPT !.fifo = @ - taken, !.stale = Most(0, @ - taken)]
     /\ mirror' \in Sent(n)
     /\ next' = Stamped
     /\ sound' = sound + n * AudioFrame
     /\ index' = Most(index + 1, Stamped)
     /\ UNCHANGED <<branch, player, restarts, starts>>

\* initialise(): new encoders, whose time begins at 0.
Anew ==
  /\ next' = 0 /\ sound' = 0
  /\ video' = NoVideo("submitted", 0) /\ audio' = NoAudio("submitted")

\* Fault: the worker goes on counting where the old muxer was.
RestartKeepsIndex ==
  /\ restarts < MaxRestarts
  /\ restarts' = restarts + 1
  /\ branch' = "fallback" /\ player' = NoPlayer
  /\ Anew
  /\ UNCHANGED <<index, mirror, starts>>

\* The idle branch and the handler of exceptions destroy the muxer and every
\* transcoder; the mirror stays.
Restart ==
  /\ restarts < MaxRestarts
  /\ restarts' = restarts + 1
  /\ branch' = "fallback" /\ player' = NoPlayer
  /\ index' = 0 /\ Anew
  /\ UNCHANGED <<mirror, starts>>

Next ==
  \/ \E b \in {"fallback", "live", "video", "capture"} : Switch(b)
  \/ Open \/ ReadBases \/ Seek \/ FilePicture \/ FileSound \/ NowPicture \/ NowSound
  \/ Write \/ Restart

Spec == Init /\ [][Next]_vars

-----------------------------------------------------------------------------
(* Properties.                                                              *)

\* Every variable has its type, and the queues keep their limits.
TypeOK ==
  /\ branch \in {"fallback", "live", "video", "capture"}
  /\ index \in Nat /\ next \in 0..MaxFrames /\ sound \in Nat
  /\ Len(video.queue) <= QueueLimit
  /\ audio.fifo \in 0..Most(FileFifo, LiveFifo) /\ audio.stale \in 0..audio.fifo
  /\ player.at \in {"none", "open", "begun", "play", "ready"}
  /\ restarts \in 0..MaxRestarts /\ starts \in 0..MaxStarts

\* The sound of the output ends less than one frame of the encoder before the
\* picture does, whatever is submitted, and also after the muxer is made anew.
SoundCoversPicture == sound <= Target(next) /\ Target(next) - sound < AudioFrame

\* What a source that is gone has left in the queues is a received stream's: the
\* last picture and the sound of a file or of the capture are never sent later.
StaleIsLive ==
  /\ video.queue # <<>> /\ ~video.own => video.source = "live"
  /\ audio.stale > 0 => audio.source = "live"

\* How much of the sound of the file has been sent or dropped.
Heard == player.heard - audio.fifo

Playing == branch = "video" /\ player.at = "play"

\* A picture of a file is not sent before its time on the output's clock and its
\* sound not by more than one frame of the encoder; and a player that waits for
\* the output has its sound in step, however much silence was sent before: what is
\* overdue gives way.
InStep ==
  LET ahead == Heard - (sound - player.abase)
  IN Playing =>
       /\ video.shown # -1 => Due(video.shown) < next
       /\ ahead <= AudioFrame
       /\ audio.expected /\ ~SoundMayGo => ahead >= 0

\* So it is up to 46 frames a second: at 47 to 50, the most that may be configured, a
\* frame of the sound encoder lasts longer than a picture.
EveryPictureHasSound == AudioFrame <= Target(1)

\* As long as its connection holds the mirror shifts sound and picture alike, but
\* for the piece of a frame by which each muxer's sound ended before its picture;
\* where a new muxer's first picture may come without sound, only its picture is
\* shifted at first.
MirrorInStep ==
  LET cut == Target(1) + AudioFrame
  IN EveryPictureHasSound /\ mirror.unbroken
       => mirror.voffset - mirror.aoffset \in -restarts * cut .. restarts * cut
=============================================================================
