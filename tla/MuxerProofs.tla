----------------------------- MODULE MuxerProofs -----------------------------
(***************************************************************************)
(* Proofs about Muxer, for any rates, any frame of the sound encoder and   *)
(* any limits of the queues.                                               *)
(***************************************************************************)
EXTENDS Muxer, SequenceTheorems, WellFoundedInduction, TLAPS

-----------------------------------------------------------------------------
(* Whole numbers of frames.                                                 *)

LEMMA Multiples ==
  ASSUME NEW x \in Int, NEW y \in Int, NEW f \in Nat \ {0}, x * f < y * f + f
  PROVE  x <= y
<1>1. SUFFICES ASSUME x >= y + 1 PROVE FALSE
  OBVIOUS
<1>2. (x - (y + 1)) * f >= 0
  BY <1>1
<1>3. (x - (y + 1)) * f = x * f - (y * f + f)
  OBVIOUS
<1> QED
  BY <1>2, <1>3

LEMMA Quotient ==
  ASSUME NEW x \in Nat, NEW f \in Nat \ {0}
  PROVE  x \div f \in Nat /\ (x \div f) * f <= x /\ x < (x \div f) * f + f
<1>1. x \div f \in Int /\ (x \div f) * f <= x /\ x < (x \div f) * f + f
  OBVIOUS
<1>2. 0 <= x \div f
  BY <1>1, Multiples
<1> QED
  BY <1>1, <1>2

\* The end of a picture in samples: it grows by that of the first, or by one more.
LEMMA Targets ==
  ASSUME NEW k \in Nat
  PROVE  /\ Target(k) \in Nat /\ Target(0) = 0
         /\ Target(k) + Target(1) <= Target(k + 1)
         /\ Target(k + 1) <= Target(k) + Target(1) + 1
<1> DEFINE f == FrameRate
           a == k * SampleRate
           b == SampleRate
<1>1. f \in Nat \ {0} /\ b \in Nat \ {0}
  BY RatesAssumption
<1>2. a \in Nat /\ (k + 1) * SampleRate = a + b /\ 1 * SampleRate = b /\ 0 * SampleRate = 0
  BY <1>1
<1>3. Target(k) = a \div f /\ Target(1) = b \div f /\ Target(k + 1) = (a + b) \div f
      /\ Target(0) = 0 \div f
  BY <1>2 DEF Target
<1> HIDE DEF a, b, f
<1> DEFINE p == a \div f
           q == b \div f
           r == (a + b) \div f
<1>4. p \in Nat /\ p * f <= a /\ a < p * f + f
  BY <1>1, <1>2, Quotient
<1>5. q \in Nat /\ q * f <= b /\ b < q * f + f
  BY <1>1, Quotient
<1>6. r \in Nat /\ r * f <= a + b /\ a + b < r * f + f
  BY <1>1, <1>2, Quotient
<1>7. 0 \div f = 0
  <2>1. 0 \div f \in Nat /\ (0 \div f) * f <= 0
    BY <1>1, Quotient
  <2>2. (0 \div f) * f < 0 * f + f
    BY <1>1, <2>1
  <2> QED
    BY <1>1, <2>1, <2>2, Multiples
<1> HIDE DEF p, q, r
<1>8. p + q <= r
  <2>1. (p + q) * f = p * f + q * f
    BY <1>1, <1>4, <1>5
  <2>2. (p + q) * f < r * f + f
    BY <1>1, <1>2, <1>4, <1>5, <1>6, <2>1
  <2> QED
    BY <1>1, <1>4, <1>5, <1>6, <2>2, Multiples
<1>9. r <= p + q + 1
  <2>1. (p + q + 1) * f = p * f + q * f + f
    BY <1>1, <1>4, <1>5
  <2>2. r * f < (p + q + 1) * f + f
    BY <1>1, <1>2, <1>4, <1>5, <1>6, <2>1
  <2> QED
    BY <1>1, <1>4, <1>5, <1>6, <2>2, Multiples
<1> QED
  BY <1>3, <1>4, <1>5, <1>6, <1>7, <1>8, <1>9 DEF p, q, r

-----------------------------------------------------------------------------
(* Types.                                                                   *)

Sources == {"submitted", "live", "video", "capture"}
Branches == {"fallback", "live", "video", "capture"}

\* The worker counts as the muxer does, whatever became of the muxer before.
Counted ==
  /\ next \in 0..MaxFrames /\ sound \in Nat /\ index = next
  /\ restarts \in 0..MaxRestarts

VideoTyped ==
  video \in [source : Sources, base : Nat, queue : Seq(Nat), own : BOOLEAN,
             held : BOOLEAN, age : Nat, shown : Nat \cup {-1}]

AudioTyped == audio \in [source : Sources, fifo : Nat, stale : Nat, expected : BOOLEAN]

PlayerTyped ==
  player \in [at : {"none", "open", "begun", "play", "ready"},
              pts : Nat, heard : Nat, vbase : Nat, abase : Nat]

\* Which branch has which player.
PlayerFits ==
  /\ branch = "fallback" => player.at = "none"
  /\ player.at = "begun" => branch = "video"
  /\ player.at = "ready" => branch \in {"live", "capture"}

SourceTyped ==
  /\ branch \in Branches /\ starts \in 0..MaxStarts
  /\ VideoTyped /\ AudioTyped /\ PlayerTyped /\ PlayerFits

Typed == Counted /\ SourceTyped /\ SoundCoversPicture

-----------------------------------------------------------------------------
(* What the worker writes.                                                  *)

\* The sound that is due fills the picture but for less than a frame.
LEMMA SoundIsDue ==
  ASSUME Typed
  PROVE  /\ SoundDue \in Nat
         /\ sound + SoundDue * AudioFrame <= Target(next + 1)
         /\ Target(next + 1) < sound + SoundDue * AudioFrame + AudioFrame
         /\ EveryPictureHasSound => SoundDue >= 1
<1> DEFINE x == Target(next + 1) - sound
<1>1. /\ next \in Nat /\ sound \in Nat /\ AudioFrame \in Nat \ {0}
      /\ Target(next) \in Nat /\ Target(1) \in Nat /\ Target(next + 1) \in Nat
      /\ Target(next) + Target(1) <= Target(next + 1) /\ sound <= Target(next)
  <2>1. next \in Nat /\ sound \in Nat /\ AudioFrame \in Nat \ {0} /\ sound <= Target(next)
    BY RatesAssumption DEF Typed, Counted, SoundCoversPicture
  <2>2. Target(1) \in Nat /\ Target(next + 1) \in Nat
    BY <2>1, Targets
  <2> QED
    BY <2>1, <2>2, Targets
<1>2. x \in Nat
  BY <1>1
<1>3. SoundDue = x \div AudioFrame
  BY <1>1 DEF SoundDue, Typed, Counted
<1> HIDE DEF x
<1>4. SoundDue \in Nat /\ SoundDue * AudioFrame <= x /\ x < SoundDue * AudioFrame + AudioFrame
  BY <1>1, <1>2, <1>3, Quotient
<1>5. EveryPictureHasSound => SoundDue >= 1
  <2>1. ASSUME EveryPictureHasSound, SoundDue = 0 PROVE FALSE
    <3>1. SoundDue * AudioFrame = 0 /\ x >= AudioFrame
      BY <1>1, <2>1 DEF x, EveryPictureHasSound
    <3> QED
      BY <1>1, <1>2, <1>4, <3>1
  <2> QED
    BY <1>4, <2>1
<1>6. SoundDue * AudioFrame \in Nat
  BY <1>1, <1>4
<1> QED
  BY <1>1, <1>4, <1>5, <1>6 DEF x

\* As much of the submitted sound is taken as there is, at most what is due.
LEMMA TakenIsThere ==
  ASSUME Typed, NEW n \in Nat
  PROVE  Taken(n) \in Nat /\ Taken(n) <= audio.fifo /\ Taken(n) <= n * AudioFrame
<1> DEFINE q == audio.fifo \div AudioFrame
<1>1. audio.fifo \in Nat /\ AudioFrame \in Nat \ {0}
  BY RatesAssumption DEF Typed, SourceTyped, AudioTyped
<1>2. q \in Nat /\ q * AudioFrame <= audio.fifo
  BY <1>1, Quotient
<1>3. Taken(n) = Least(n, q) * AudioFrame
  BY DEF Taken
<1> HIDE DEF q
<1>4. CASE n < q
  <2>1. Taken(n) = n * AudioFrame
    BY <1>3, <1>4 DEF Least
  <2>2. (q - n) * AudioFrame >= 0 /\ (q - n) * AudioFrame = q * AudioFrame - n * AudioFrame
    BY <1>1, <1>2, <1>4
  <2> QED
    BY <1>1, <1>2, <2>1, <2>2
<1>5. CASE ~(n < q)
  <2>1. Taken(n) = q * AudioFrame
    BY <1>3, <1>5 DEF Least
  <2>2. (n - q) * AudioFrame >= 0 /\ (n - q) * AudioFrame = n * AudioFrame - q * AudioFrame
    BY <1>1, <1>2, <1>5
  <2> QED
    BY <1>1, <1>2, <2>1, <2>2
<1> QED
  BY <1>4, <1>5

\* What waits longest is never beyond the end of the queue.
LEMMA Greatest ==
  ASSUME NEW n \in Nat, NEW S \in SUBSET (0..n), S # {}
  PROVE  \E i \in S : \A j \in S : j <= i
<1> DEFINE T == {k \in Nat : n - k \in S}
           R == OpToRel(<, Nat)
<1>1. PICK s \in S : TRUE
  OBVIOUS
<1>2. n - s \in T
  BY <1>1
<1>3. \E x \in T : \A y \in T : <<y, x>> \notin R
  <2>1. IsWellFoundedOn(R, Nat) /\ T \subseteq Nat /\ T # {}
    BY <1>2, NatLessThanWellFounded
  <2> HIDE DEF T, R
  <2> QED
    BY <2>1, WFMin
<1>4. PICK x \in T : \A y \in T : ~(y < x)
  <2>1. \A x, y \in Nat : y < x => <<y, x>> \in R
    BY DEF OpToRel
  <2> QED
    BY <1>3, <2>1
<1>5. ASSUME NEW j \in S PROVE j <= n - x
  <2>1. n - j \in Nat /\ n - (n - j) = j
    OBVIOUS
  <2>2. n - j \in T
    BY <2>1
  <2>3. x \in Nat /\ ~(n - j < x)
    <3> HIDE DEF T
    <3>1. ~(n - j < x)
      BY <1>4, <2>2
    <3> QED
      BY <3>1 DEF T
  <2> QED
    BY <2>1, <2>3
<1>6. n - x \in S
  BY <1>4
<1> QED
  BY <1>5, <1>6

LEMMA WaitingTyped ==
  ASSUME Typed, video.queue # <<>>
  PROVE  /\ Waiting \in Seq(Nat) /\ Waiting # <<>> /\ Len(Waiting) <= Len(video.queue)
<1>1. video.queue \in Seq(Nat) /\ Len(video.queue) \in Nat \ {0}
  BY DEF Typed, SourceTyped, VideoTyped
<1>2. CASE Overtaken = {}
  BY <1>1, <1>2 DEF Waiting
<1>3. CASE Overtaken # {}
  <2> DEFINE i == CHOOSE k \in Overtaken : \A j \in Overtaken : j <= k
  <2>1. Overtaken \subseteq 2..Len(video.queue)
    BY DEF Overtaken
  <2>2. \E k \in Overtaken : \A j \in Overtaken : j <= k
    <3>1. Overtaken \in SUBSET (0..Len(video.queue))
      BY <1>1, <2>1
    <3> HIDE DEF i
    <3> QED
      BY <1>1, <1>3, <3>1, Greatest
  <2>3. i \in Overtaken
    BY <2>2, Zenon
  <2>4. Waiting = SubSeq(video.queue, i, Len(video.queue))
    BY <1>3 DEF Waiting
  <2> HIDE DEF i
  <2>5. i \in 2..Len(video.queue)
    BY <2>1, <2>3
  <2>6. Waiting \in Seq(Nat) /\ Len(Waiting) = Len(video.queue) - i + 1
    BY <1>1, <2>4, <2>5, SubSeqProperties
  <2> QED
    BY <1>1, <2>5, <2>6
<1> QED
  BY <1>2, <1>3

\* A frame leaves the source as it is, shows nothing before its time and adds nothing
\* to the queue.
LEMMA FrameKeeps ==
  ASSUME Typed
  PROVE  LET v == Frame.left
         IN /\ v \in [source : Sources, base : Nat, queue : Seq(Nat), own : BOOLEAN,
                      held : BOOLEAN, age : Nat, shown : Nat \cup {-1}]
            /\ v.source = video.source /\ v.base = video.base /\ v.own = video.own
            /\ Len(v.queue) <= Len(video.queue)
            /\ v.shown = video.shown \/ v.base + v.shown <= index
<1>1. video.queue \in Seq(Nat) /\ index \in Nat /\ VideoTyped
  BY DEF Typed, SourceTyped, Counted, VideoTyped
<1>2. Frame.left = video \/ (video.queue # <<>> /\ Frame.left = FileFrame.left)
  BY Zenon DEF Frame, Fresh
<1>3. CASE Frame.left = video
  BY <1>1, <1>3 DEF VideoTyped
<1>4. CASE video.queue # <<>> /\ Frame.left = FileFrame.left
  <2>1. Waiting \in Seq(Nat) /\ Waiting # <<>> /\ Len(Waiting) <= Len(video.queue)
    BY <1>4, WaitingTyped
  <2>2. Head(Waiting) \in Nat /\ Tail(Waiting) \in Seq(Nat)
        /\ Len(Tail(Waiting)) <= Len(video.queue)
    BY <1>1, <2>1
  <2>3. CASE Due(Head(Waiting)) > index
    <3>1. Frame.left = [video EXCEPT !.queue = Waiting, !.held = TRUE]
      BY <1>4, <2>3 DEF FileFrame
    <3> QED
      BY <1>1, <2>1, <3>1 DEF VideoTyped
  <2>4. CASE ~(Due(Head(Waiting)) > index)
    <3>1. Frame.left = [video EXCEPT !.queue = Tail(Waiting), !.shown = Head(Waiting),
                                     !.held = TRUE]
      BY <1>4, <2>4 DEF FileFrame
    <3>2. video.base + Head(Waiting) <= index
      BY <1>1, <2>2, <2>4 DEF Due, VideoTyped
    <3> QED
      BY <1>1, <2>2, <3>1, <3>2 DEF VideoTyped
  <2> QED
    BY <2>3, <2>4
<1> QED
  BY <1>2, <1>3, <1>4

\* Everything a step of the worker does, but for the mirror.
LEMMA WriteDoes ==
  ASSUME Typed, Write
  PROVE  /\ next < MaxFrames /\ next' = next + 1 /\ index' = index + 1
         /\ sound' = sound + SoundDue * AudioFrame
         /\ UNCHANGED <<branch, player, restarts, starts>>
         /\ VideoTyped'
         /\ video'.source = video.source /\ video'.base = video.base
         /\ video'.own = video.own /\ Len(video'.queue) <= Len(video.queue)
         /\ video'.shown = video.shown \/ video'.base + video'.shown <= index
         /\ AudioTyped'
         /\ audio'.source = audio.source /\ audio'.expected = audio.expected
         /\ audio'.fifo <= audio.fifo
         /\ audio.fifo - audio'.fifo <= SoundDue * AudioFrame
         /\ audio.stale <= audio.fifo => audio'.stale <= audio'.fifo
         /\ audio'.stale <= audio.stale
<1> DEFINE t == IF Frame.shown THEN Taken(SoundDue) ELSE 0
           v == Frame.left
<1>1. /\ next < MaxFrames /\ next' = Stamped /\ index' = Most(index + 1, Stamped)
      /\ sound' = sound + SoundDue * AudioFrame
      /\ video' = [v EXCEPT !.age = Least(@ + 1, StaleAfter)]
      /\ audio' = [audio EXCEPT !.fifo = @ - t, !.stale = Most(0, @ - t)]
      /\ UNCHANGED <<branch, player, restarts, starts>>
  BY Zenon DEF Write
<1>2. t \in Nat /\ t <= audio.fifo /\ t <= SoundDue * AudioFrame /\ SoundDue * AudioFrame \in Nat
  <2>1. SoundDue \in Nat /\ SoundDue * AudioFrame \in Nat
    BY SoundIsDue, RatesAssumption
  <2>2. audio.fifo \in Nat
    BY DEF Typed, SourceTyped, AudioTyped
  <2>3. Taken(SoundDue) \in Nat /\ Taken(SoundDue) <= audio.fifo
        /\ Taken(SoundDue) <= SoundDue * AudioFrame
    BY <2>1, TakenIsThere
  <2> QED
    BY <2>1, <2>2, <2>3
<1>3. /\ v \in [source : Sources, base : Nat, queue : Seq(Nat), own : BOOLEAN,
                held : BOOLEAN, age : Nat, shown : Nat \cup {-1}]
      /\ v.source = video.source /\ v.base = video.base /\ v.own = video.own
      /\ Len(v.queue) <= Len(video.queue)
      /\ v.shown = video.shown \/ v.base + v.shown <= index
  BY FrameKeeps
<1> HIDE DEF t, v
<1>4. next' = next + 1 /\ index' = index + 1
  BY <1>1 DEF Stamped, Most, Typed, Counted
<1>5. /\ VideoTyped'
      /\ video'.source = video.source /\ video'.base = video.base
      /\ video'.own = video.own /\ Len(video'.queue) <= Len(video.queue)
      /\ video'.shown = video.shown \/ video'.base + video'.shown <= index
  <2>1. \A age \in Nat : Least(age + 1, StaleAfter) \in Nat
    BY RatesAssumption DEF Least
  <2> QED
    BY <1>1, <1>3, <2>1 DEF VideoTyped
<1>6. /\ audio'.source = audio.source /\ audio'.expected = audio.expected
      /\ audio'.fifo = audio.fifo - t /\ audio'.stale = Most(0, audio.stale - t)
      /\ audio \in [source : Sources, fifo : Nat, stale : Nat, expected : BOOLEAN]
      /\ DOMAIN audio' = DOMAIN audio
  BY <1>1 DEF Typed, SourceTyped, AudioTyped
<1>7. Most(0, audio.stale - t) \in Nat /\ Most(0, audio.stale - t) <= audio.stale
      /\ (audio.stale <= audio.fifo => Most(0, audio.stale - t) <= audio.fifo - t)
  BY <1>2, <1>6 DEF Most
<1>8. AudioTyped'
  <2>1. audio.fifo - t \in Nat
    BY <1>2, <1>6
  <2>2. audio' = [audio EXCEPT !.fifo = audio.fifo - t, !.stale = Most(0, audio.stale - t)]
    BY <1>1
  <2> QED
    BY <1>6, <1>7, <2>1, <2>2 DEF AudioTyped
<1> QED
  BY <1>1, <1>2, <1>4, <1>5, <1>6, <1>7, <1>8


-----------------------------------------------------------------------------
(* Types and the clock are kept.                                            *)

\* What sources do; the clock of the output is the worker's.
SourceSteps ==
  \/ \E b \in Branches : Switch(b)
  \/ Open \/ ReadBases \/ Seek \/ FilePicture \/ FileSound \/ NowPicture \/ NowSound

LEMMA Steps ==
  ASSUME [Next]_vars
  PROVE  SourceSteps \/ Write \/ Restart \/ UNCHANGED vars
BY Zenon DEF Next, SourceSteps, Branches

LEMMA ClockLeft ==
  ASSUME SourceSteps
  PROVE  UNCHANGED <<index, next, sound, mirror, restarts>>
BY Zenon
   DEF SourceSteps, Switch, Open, ReadBases, Seek, FilePicture, FileSound, NowPicture, NowSound

LEMMA NothingTyped ==
  ASSUME NEW s \in Sources, NEW b \in Nat
  PROVE  /\ NoVideo(s, b) \in [source : Sources, base : Nat, queue : Seq(Nat), own : BOOLEAN,
                               held : BOOLEAN, age : Nat, shown : Nat \cup {-1}]
         /\ NoVideo(s, b).source = s /\ NoVideo(s, b).queue = <<>> /\ NoVideo(s, b).own
         /\ NoVideo(s, b).shown = -1
         /\ NoAudio(s) \in [source : Sources, fifo : Nat, stale : Nat, expected : BOOLEAN]
         /\ NoAudio(s).source = s /\ NoAudio(s).fifo = 0 /\ NoAudio(s).stale = 0
         /\ NoPlayer \in [at : {"none", "open", "begun", "play", "ready"},
                          pts : Nat, heard : Nat, vbase : Nat, abase : Nat]
BY DEF NoVideo, NoAudio, NoPlayer, Sources

\* What a source leaves is marked.
LEMMA EndDoes ==
  ASSUME Typed, NEW b \in Branches, End(b)
  PROVE  /\ VideoTyped' /\ AudioTyped'
         /\ \/ video' = NoVideo("submitted", 0)
            \/ /\ b = "live" \/ video.source # b
               /\ video'.source = video.source /\ video'.base = video.base
               /\ video'.queue = video.queue /\ video'.shown = video.shown
         /\ \/ audio' = NoAudio("submitted")
            \/ /\ b = "live" \/ audio.source # b
               /\ audio'.source = audio.source /\ audio'.fifo = audio.fifo
               /\ audio'.stale = audio.fifo
<1>1. "submitted" \in Sources
  BY DEF Sources
<1>2. video' = NoVideo("submitted", 0)
      \/ ((b = "live" \/ video.source # b) /\ video' = [video EXCEPT !.own = FALSE])
  BY Zenon DEF End
<1>3. audio' = NoAudio("submitted")
      \/ ((b = "live" \/ audio.source # b) /\ audio' = [audio EXCEPT !.stale = audio.fifo])
  BY Zenon DEF End
<1>4. VideoTyped'
  <2>1. CASE video' = NoVideo("submitted", 0)
    BY <1>1, <2>1, NothingTyped DEF VideoTyped
  <2>2. CASE video' = [video EXCEPT !.own = FALSE]
    BY <2>2 DEF Typed, SourceTyped, VideoTyped
  <2> QED
    BY <1>2, <2>1, <2>2
<1>5. AudioTyped'
  BY <1>1, <1>3, NothingTyped DEF Typed, SourceTyped, AudioTyped
<1> QED
  BY <1>2, <1>3, <1>4, <1>5 DEF Typed, SourceTyped, VideoTyped, AudioTyped

\* A source that begins has nothing queued.
LEMMA BeginDoes ==
  ASSUME Typed, NEW s \in Sources, Begin(s)
  PROVE  /\ VideoTyped' /\ AudioTyped'
         /\ video' = NoVideo(s, next)
         /\ audio'.source = s /\ audio'.fifo = 0 /\ audio'.stale = 0
<1>1. video' = NoVideo(s, next) /\ next \in Nat
  BY DEF Begin, Typed, Counted
<1>2. PICK h \in BOOLEAN : audio' = [NoAudio(s) EXCEPT !.expected = h]
  BY Zenon DEF Begin
<1> QED
  BY <1>1, <1>2, NothingTyped DEF VideoTyped, AudioTyped

\* A picture that has come now is alone.
LEMMA NowPictureDoes ==
  ASSUME Typed, NowPicture
  PROVE  /\ VideoTyped' /\ AudioTyped'
         /\ branch \in {"live", "capture"} /\ player.at \in {"play", "ready"}
         /\ player' = [player EXCEPT !.at = "ready"] /\ UNCHANGED <<branch, starts>>
         /\ \/ UNCHANGED <<video, audio>>
            \/ /\ video'.source = branch /\ video'.own /\ video'.shown = -1
               /\ Len(video'.queue) = 1
               /\ \/ (video.source = branch /\ audio' = audio)
                  \/ audio'.source = audio.source /\ audio'.fifo = 0 /\ audio'.stale = 0
<1>1. /\ branch \in {"live", "capture"} /\ player.at \in {"play", "ready"}
      /\ player' = [player EXCEPT !.at = "ready"] /\ UNCHANGED <<branch, starts>>
  BY Zenon DEF NowPicture
<1> DEFINE base == IF video.source = branch THEN video.base ELSE next
<1>2. \/ UNCHANGED <<video, audio>>
      \/ /\ video' = [NoVideo(branch, base) EXCEPT !.queue = <<0>>]
         /\ (audio' = audio /\ video.source = branch)
             \/ audio' = [audio EXCEPT !.fifo = 0, !.stale = 0]
  BY Zenon DEF NowPicture
<1>3. base \in Nat /\ branch \in Sources
  BY <1>1 DEF Typed, SourceTyped, Counted, VideoTyped, Sources
<1> HIDE DEF base
<1>4. CASE UNCHANGED <<video, audio>>
  BY <1>1, <1>4 DEF Typed, SourceTyped, VideoTyped, AudioTyped
<1>5. CASE /\ video' = [NoVideo(branch, base) EXCEPT !.queue = <<0>>]
           /\ (audio' = audio /\ video.source = branch)
               \/ audio' = [audio EXCEPT !.fifo = 0, !.stale = 0]
  <2>1. /\ VideoTyped' /\ video'.source = branch /\ video'.own /\ video'.shown = -1
        /\ Len(video'.queue) = 1
    <3>1. <<0>> \in Seq(Nat) /\ Len(<<0>>) = 1
      OBVIOUS
    <3>2. video' = [NoVideo(branch, base) EXCEPT !.queue = <<0>>]
      BY <1>5, Zenon
    <3> DEFINE nothing == NoVideo(branch, base)
               one == <<0>>
    <3>3. nothing \in [source : Sources, base : Nat, queue : Seq(Nat), own : BOOLEAN,
                       held : BOOLEAN, age : Nat, shown : Nat \cup {-1}]
          /\ nothing.source = branch /\ nothing.own /\ nothing.shown = -1
      BY <1>3, NothingTyped
    <3>4. one \in Seq(Nat) /\ Len(one) = 1 /\ video' = [nothing EXCEPT !.queue = one]
      BY <3>1, <3>2
    <3> HIDE DEF nothing, one
    <3> QED
      BY <3>3, <3>4 DEF VideoTyped
  <2>2. AudioTyped'
    <3>1. CASE audio' = audio
      BY <3>1 DEF Typed, SourceTyped, AudioTyped
    <3>2. CASE audio' = [audio EXCEPT !.fifo = 0, !.stale = 0]
      BY <3>2 DEF Typed, SourceTyped, AudioTyped
    <3> QED
      BY <1>5, <3>1, <3>2
  <2>3. \/ video.source = branch /\ audio' = audio
        \/ audio'.source = audio.source /\ audio'.fifo = 0 /\ audio'.stale = 0
    BY <1>5 DEF Typed, SourceTyped, AudioTyped
  <2> QED
    BY <1>1, <2>1, <2>2, <2>3
<1> QED
  BY <1>2, <1>4, <1>5

\* Sound keeps its room.
LEMMA NowSoundDoes ==
  ASSUME Typed, NowSound
  PROVE  /\ AudioTyped' /\ UNCHANGED <<branch, starts, video, player>>
         /\ branch \in {"live", "capture"} /\ player.at = "ready"
         /\ audio'.source = branch
         /\ audio.stale <= audio.fifo => audio'.stale <= audio'.fifo
         /\ audio'.stale > 0 => audio.source = branch /\ audio.stale > 0
         /\ (audio.source = branch => audio.fifo <= LiveFifo) => audio'.fifo <= LiveFifo
<1> DEFINE kept == IF audio.source = branch THEN audio ELSE NoAudio(branch)
           full == kept.fifo + AudioFrame > LiveFifo
           drop == IF full THEN AudioFrame ELSE 0
<1>1. /\ branch \in {"live", "capture"} /\ player.at = "ready"
      /\ audio' = [kept EXCEPT !.fifo = @ - drop + AudioFrame, !.stale = Most(0, @ - drop)]
      /\ UNCHANGED <<branch, starts, video, player>>
  BY Zenon DEF NowSound
<1>2. AudioFrame \in Nat \ {0} /\ LiveFifo \in Nat /\ LiveFifo >= 2 * AudioFrame
  BY RatesAssumption
<1>3. /\ kept \in [source : Sources, fifo : Nat, stale : Nat, expected : BOOLEAN]
      /\ kept.source = branch
      /\ (kept = audio /\ audio.source = branch) \/ (kept.fifo = 0 /\ kept.stale = 0)
  <2>1. CASE audio.source = branch
    <3>1. kept = audio
      BY <2>1
    <3> HIDE DEF kept
    <3> QED
      BY <2>1, <3>1 DEF Typed, SourceTyped, AudioTyped
  <2>2. CASE audio.source # branch
    <3>1. branch \in Sources
      BY <1>1 DEF Sources
    <3> QED
      BY <2>2, <3>1, NothingTyped
  <2> QED
    BY <2>1, <2>2
<1>4. drop \in Nat /\ drop <= kept.fifo
      /\ (kept.fifo <= LiveFifo => kept.fifo - drop + AudioFrame <= LiveFifo)
  BY <1>2, <1>3
<1> HIDE DEF kept, full, drop
<1> DEFINE fifo == kept.fifo - drop + AudioFrame
           stale == Most(0, kept.stale - drop)
<1>5. /\ fifo \in Nat /\ stale \in Nat
      /\ kept.stale <= kept.fifo => stale <= fifo
      /\ stale > 0 => kept.stale > 0
      /\ kept.fifo <= LiveFifo => fifo <= LiveFifo
  BY <1>2, <1>3, <1>4 DEF Most
<1>6. audio' = [kept EXCEPT !.fifo = fifo, !.stale = stale]
  BY <1>1
<1> HIDE DEF fifo, stale
<1>7. AudioTyped' /\ audio'.source = branch /\ audio'.fifo = fifo /\ audio'.stale = stale
  BY <1>3, <1>5, <1>6 DEF AudioTyped
<1> QED
  BY <1>1, <1>2, <1>3, <1>5, <1>7

LEMMA SourcesTyped ==
  ASSUME Typed, SourceSteps
  PROVE  SourceTyped'
<1>1. SourceTyped /\ next \in Nat /\ sound \in Nat
  BY DEF Typed, Counted
<1>2. MaxStarts \in Nat /\ AudioFrame \in Nat \ {0} /\ FileFifo \in Nat
  BY RatesAssumption
<1>3. ASSUME NEW b \in Branches, Switch(b) PROVE SourceTyped'
  <2>1. VideoTyped' /\ AudioTyped'
    BY <1>1, <1>3, EndDoes, Zenon DEF Switch, SourceTyped
  <2>2. branch' = b /\ player' = IF b = "fallback" THEN NoPlayer ELSE [NoPlayer EXCEPT !.at = "open"]
    BY <1>3, Zenon DEF Switch
  <2>3. PlayerTyped' /\ PlayerFits'
    BY <1>3, <2>2 DEF PlayerTyped, PlayerFits, Branches, NoPlayer
  <2>4. starts' \in 0..MaxStarts
    BY <1>1, <1>2, <1>3 DEF Switch, SourceTyped
  <2> QED
    BY <2>1, <2>2, <2>3, <2>4 DEF SourceTyped
<1>4. CASE Open
  <2>1. VideoTyped' /\ AudioTyped'
    <3>1. CASE branch = "live"
      BY <1>1, <1>4, <3>1 DEF Open, VideoTyped, AudioTyped, SourceTyped
    <3>2. CASE branch # "live"
      <4>1. Begin(branch)
        BY <1>4, <3>2, Zenon DEF Open
      <4>2. branch \in Sources
        BY <1>1, <1>4, <3>2 DEF Open, SourceTyped, PlayerFits, Branches, Sources
      <4> QED
        BY <4>1, <4>2, BeginDoes
    <3> QED
      BY <3>1, <3>2
  <2>2. PlayerTyped' /\ PlayerFits' /\ branch' = branch /\ starts' = starts
    BY <1>1, <1>4 DEF Open, PlayerTyped, PlayerFits, SourceTyped
  <2> QED
    BY <1>1, <2>1, <2>2 DEF SourceTyped
<1>5. CASE ReadBases
  <2>1. PlayerTyped' /\ PlayerFits'
    BY <1>1, <1>5 DEF ReadBases, PlayerTyped, PlayerFits, SourceTyped, NoPlayer
  <2> QED
    BY <1>1, <1>5, <2>1 DEF ReadBases, SourceTyped, VideoTyped, AudioTyped
<1>6. CASE Seek
  <2>1. VideoTyped' /\ AudioTyped'
    BY <1>6, BeginDoes DEF Seek, Sources
  <2>2. PlayerTyped' /\ PlayerFits' /\ branch' = branch
    BY <1>1, <1>6 DEF Seek, PlayerTyped, PlayerFits, SourceTyped
  <2>3. starts' \in 0..MaxStarts
    BY <1>1, <1>2, <1>6 DEF Seek, SourceTyped
  <2> QED
    BY <1>1, <2>1, <2>2, <2>3 DEF SourceTyped
<1>7. CASE FilePicture
  <2>1. player' = [player EXCEPT !.pts = @ + 1] /\ UNCHANGED <<branch, audio, starts>>
    BY <1>7, Zenon DEF FilePicture
  <2>2. PlayerTyped' /\ PlayerFits'
    BY <1>1, <2>1 DEF PlayerTyped, PlayerFits, SourceTyped
  <2>3. Append(video.queue, player.pts) \in Seq(Nat)
    BY <1>1 DEF SourceTyped, VideoTyped, PlayerTyped
  <2>4. video' \in {video, [video EXCEPT !.queue = Append(video.queue, player.pts)]}
    BY <1>7 DEF FilePicture
  <2>5. VideoTyped'
    BY <1>1, <2>3, <2>4 DEF SourceTyped, VideoTyped
  <2> QED
    BY <1>1, <2>1, <2>2, <2>5 DEF SourceTyped, AudioTyped
<1>8. CASE FileSound
  <2>1. /\ player' = [player EXCEPT !.heard = @ + AudioFrame] /\ UNCHANGED <<branch, video, starts>>
        /\ audio' = [audio EXCEPT !.fifo = QueueSound]
    BY <1>8, Zenon DEF FileSound
  <2>2. PlayerTyped' /\ PlayerFits'
    BY <1>1, <1>2, <2>1 DEF PlayerTyped, PlayerFits, SourceTyped
  <2>3. QueueSound \in Nat
    BY <1>1, <1>2 DEF QueueSound, Least, SourceTyped, AudioTyped
  <2>4. AudioTyped'
    BY <1>1, <2>1, <2>3 DEF SourceTyped, AudioTyped
  <2> QED
    BY <1>1, <2>1, <2>2, <2>4 DEF SourceTyped, VideoTyped
<1>9. CASE NowPicture
  <2>1. PlayerTyped' /\ PlayerFits'
    BY <1>1, <1>9, NowPictureDoes DEF PlayerTyped, PlayerFits, SourceTyped
  <2> QED
    BY <1>1, <1>9, <2>1, NowPictureDoes DEF SourceTyped
<1>10. CASE NowSound
  BY <1>1, <1>10, NowSoundDoes DEF SourceTyped, PlayerTyped, PlayerFits, VideoTyped
<1> QED
  BY <1>3, <1>4, <1>5, <1>6, <1>7, <1>8, <1>9, <1>10, Zenon DEF SourceSteps

LEMMA RestartTyped ==
  ASSUME Typed, Restart
  PROVE  Typed'
<1>1. /\ restarts < MaxRestarts /\ restarts' = restarts + 1
      /\ branch' = "fallback" /\ player' = NoPlayer
      /\ index' = 0 /\ next' = 0 /\ sound' = 0
      /\ video' = NoVideo("submitted", 0) /\ audio' = NoAudio("submitted") /\ starts' = starts
  BY Zenon DEF Restart, Anew
<1>2. SourceTyped'
  <2>1. VideoTyped' /\ AudioTyped'
    BY <1>1, NothingTyped DEF VideoTyped, AudioTyped, Sources
  <2>2. PlayerTyped' /\ PlayerFits'
    BY <1>1 DEF PlayerTyped, PlayerFits, NoPlayer
  <2> QED
    BY <1>1, <2>1, <2>2 DEF SourceTyped, Typed, Branches
<1>3. restarts' \in 0..MaxRestarts /\ next' \in 0..MaxFrames
  BY <1>1, RatesAssumption DEF Typed, Counted
<1>4. SoundCoversPicture'
  BY <1>1, Targets, RatesAssumption DEF SoundCoversPicture
<1> QED
  BY <1>1, <1>2, <1>3, <1>4 DEF Typed, Counted

LEMMA TypedKept ==
  ASSUME Typed, [Next]_vars
  PROVE  Typed'
<1>1. CASE SourceSteps
  <2>1. SourceTyped' /\ UNCHANGED <<index, next, sound, restarts>>
    BY <1>1, SourcesTyped, ClockLeft
  <2> QED
    BY <2>1 DEF Typed, Counted, SoundCoversPicture
<1>2. CASE Write
  <2>1. /\ next < MaxFrames /\ next' = next + 1 /\ index' = index + 1
        /\ sound' = sound + SoundDue * AudioFrame
        /\ UNCHANGED <<branch, player, restarts, starts>> /\ VideoTyped' /\ AudioTyped'
    BY <1>2, WriteDoes
  <2>2. /\ SoundDue \in Nat /\ sound' <= Target(next')
        /\ Target(next') < sound' + AudioFrame
    BY <2>1, SoundIsDue
  <2>3. next' \in 0..MaxFrames /\ index' = next' /\ sound' \in Nat
    BY <2>1, <2>2, RatesAssumption DEF Typed, Counted
  <2>4. SoundCoversPicture'
    <3>1. Target(next') \in Nat /\ AudioFrame \in Nat
      BY <2>3, Targets, RatesAssumption
    <3> QED
      BY <2>2, <2>3, <3>1 DEF SoundCoversPicture
  <2>5. SourceTyped'
    BY <2>1 DEF Typed, SourceTyped, PlayerTyped, PlayerFits
  <2> QED
    BY <2>1, <2>3, <2>4, <2>5 DEF Typed, Counted
<1>3. CASE Restart
  BY <1>3, RestartTyped
<1>4. CASE UNCHANGED vars
  BY <1>4 DEF vars, Typed, Counted, SourceTyped, VideoTyped, AudioTyped, PlayerTyped, PlayerFits,
              SoundCoversPicture
<1> QED
  BY <1>1, <1>2, <1>3, <1>4, Steps

LEMMA TypedAtFirst ==
  ASSUME Init
  PROVE  Typed
<1>1. VideoTyped /\ AudioTyped /\ PlayerTyped
  BY NothingTyped DEF Init, VideoTyped, AudioTyped, PlayerTyped, Sources
<1>2. PlayerFits /\ SoundCoversPicture /\ Counted
  BY Targets, RatesAssumption
     DEF Init, PlayerFits, NoPlayer, SoundCoversPicture, Counted, Branches
<1> QED
  BY <1>1, <1>2, RatesAssumption DEF Typed, SourceTyped, Init, Branches

\* The sound of the output ends less than one frame of the encoder before its picture,
\* for any rates: what is due is the largest number of frames that fits, and a muxer
\* that is made anew counts both from 0, as the worker then does.
THEOREM SoundKeepsUp == Spec => []SoundCoversPicture
<1>1. Typed /\ [Next]_vars => Typed'
  BY TypedKept
<1>2. Typed => SoundCoversPicture
  BY DEF Typed
<1> QED
  BY <1>1, <1>2, TypedAtFirst, PTL DEF Spec

-----------------------------------------------------------------------------
(* Whose the queued pictures and the queued sound are.                      *)

\* The player of a file has announced its file.
FileBegun ==
  branch = "video" /\ player.at \in {"begun", "play"} =>
    video.source = "video" /\ video.own /\ audio.source = "video"

\* What is queued is of the branch or of a received stream, and there is room for it.
QueuedPictures ==
  /\ Len(video.queue) <= QueueLimit
  /\ video.queue # <<>> => video.source \in {branch, "live"}
  /\ video.queue # <<>> /\ ~video.own => video.source = "live"

QueuedSound ==
  /\ audio.fifo <= IF audio.source = "video" THEN FileFifo ELSE LiveFifo
  /\ audio.stale <= audio.fifo
  /\ audio.fifo > 0 => audio.source \in {branch, "live"}
  /\ audio.stale > 0 => audio.source = "live"

Whose == FileBegun /\ QueuedPictures /\ QueuedSound

LEMMA WhoseKept ==
  ASSUME Typed, Whose, [Next]_vars
  PROVE  Whose'
<1> USE DEF Whose
<1>1. /\ VideoTyped /\ AudioTyped /\ PlayerTyped /\ PlayerFits /\ branch \in Branches
      /\ VideoTyped' /\ AudioTyped' /\ PlayerTyped'
  BY TypedKept DEF Typed, SourceTyped
<1>2. /\ AudioFrame \in Nat \ {0} /\ QueueLimit \in Nat \ {0}
      /\ FileFifo \in Nat /\ LiveFifo \in Nat
  BY RatesAssumption
<1>3. ASSUME NEW b \in Branches, Switch(b) PROVE Whose'
  <2>1. branch \in Branches /\ End(branch) /\ branch' = b
        /\ player' = IF b = "fallback" THEN NoPlayer ELSE [NoPlayer EXCEPT !.at = "open"]
    BY <1>1, <1>3, Zenon DEF Switch
  <2>2. FileBegun'
    BY <2>1 DEF FileBegun, NoPlayer
  <2>3. QueuedPictures'
    <3>1. CASE video' = NoVideo("submitted", 0)
      BY <1>2, <3>1 DEF QueuedPictures, NoVideo
    <3>2. CASE video' # NoVideo("submitted", 0)
      BY <1>1, <1>2, <2>1, <3>2, EndDoes DEF QueuedPictures
    <3> QED
      BY <3>1, <3>2
  <2>4. QueuedSound'
    <3>1. CASE audio' = NoAudio("submitted")
      BY <1>2, <3>1 DEF QueuedSound, NoAudio
    <3>2. CASE audio' # NoAudio("submitted")
      BY <1>1, <1>2, <2>1, <3>2, EndDoes DEF QueuedSound, AudioTyped
    <3> QED
      BY <3>1, <3>2
  <2> QED
    BY <2>2, <2>3, <2>4
<1>4. CASE (Open /\ branch # "live") \/ Seek
  <2>1. branch \in Sources /\ Begin(branch) /\ UNCHANGED branch
    BY <1>1, <1>4 DEF Open, Seek, PlayerFits, Branches, Sources
  <2>2. /\ video' = NoVideo(branch, next)
        /\ audio'.source = branch /\ audio'.fifo = 0 /\ audio'.stale = 0
    BY <2>1, BeginDoes
  <2> QED
    BY <1>2, <2>1, <2>2 DEF FileBegun, QueuedPictures, QueuedSound, NoVideo
<1>5. CASE (Open /\ branch = "live") \/ ReadBases
  <2>1. UNCHANGED <<branch, video, audio>> /\ (branch = "live" \/ player.at = "begun")
    BY <1>5, Zenon DEF Open, ReadBases
  <2> QED
    BY <1>1, <2>1 DEF FileBegun, QueuedPictures, QueuedSound, PlayerFits
<1>6. CASE FilePicture
  <2>1. branch = "video" /\ player.at = "play" /\ UNCHANGED <<branch, audio>>
        /\ player' = [player EXCEPT !.pts = @ + 1]
        /\ video' = IF Len(video.queue) < QueueLimit
                    THEN [video EXCEPT !.queue = Append(@, player.pts)] ELSE video
    BY <1>6, Zenon DEF FilePicture, PictureMayGo
  <2>2. video.source = "video" /\ video.own /\ audio.source = "video"
    BY <2>1 DEF FileBegun
  <2>3. video'.source = "video" /\ video'.own /\ Len(video'.queue) <= QueueLimit
    BY <1>1, <1>2, <2>1, <2>2 DEF VideoTyped, QueuedPictures
  <2> QED
    BY <1>1, <2>1, <2>2, <2>3 DEF FileBegun, QueuedPictures, QueuedSound
<1>7. CASE FileSound
  <2>1. branch = "video" /\ player.at = "play" /\ UNCHANGED <<branch, video>>
        /\ audio' = [audio EXCEPT !.fifo = QueueSound]
    BY <1>7, Zenon DEF FileSound, SoundMayGo
  <2>2. video.source = "video" /\ video.own /\ audio.source = "video"
    BY <2>1 DEF FileBegun
  <2>3. audio'.source = "video" /\ audio'.fifo = QueueSound /\ audio'.stale = audio.stale
        /\ audio.stale = 0
    BY <1>1, <2>1, <2>2 DEF AudioTyped, QueuedSound
  <2>4. QueueSound <= FileFifo /\ QueueSound >= 0
    BY <1>1, <1>2 DEF QueueSound, Least, AudioTyped
  <2> QED
    BY <1>1, <1>2, <2>1, <2>2, <2>3, <2>4 DEF FileBegun, QueuedPictures, QueuedSound
<1>8. CASE NowPicture
  <2>1. branch \in {"live", "capture"} /\ branch' = branch
    BY <1>8, NowPictureDoes
  <2>2. FileBegun'
    BY <2>1 DEF FileBegun
  <2>3. QueuedPictures'
    <3>1. CASE video' = video
      BY <2>1, <3>1, Zenon DEF QueuedPictures
    <3>2. CASE video' # video
      <4>1. video'.source = branch /\ video'.own /\ Len(video'.queue) = 1
        BY <1>8, <3>2, NowPictureDoes, Zenon
      <4> QED
        BY <1>2, <2>1, <4>1 DEF QueuedPictures
    <3> QED
      BY <3>1, <3>2
  <2>4. QueuedSound'
    BY <1>2, <1>8, <2>1, NowPictureDoes DEF QueuedSound
  <2> QED
    BY <2>2, <2>3, <2>4
<1>9. CASE NowSound
  <2>1. branch \in {"live", "capture"} /\ branch' = branch /\ video' = video /\ audio'.source = branch
    BY <1>9, NowSoundDoes
  <2>2. FileBegun' /\ QueuedPictures'
    BY <2>1 DEF FileBegun, QueuedPictures
  <2>3. QueuedSound'
    BY <1>1, <1>2, <1>9, <2>1, NowSoundDoes DEF QueuedSound, AudioTyped
  <2> QED
    BY <2>2, <2>3
<1>10. CASE Write
  <2>1. /\ UNCHANGED <<branch, player>> /\ video'.source = video.source /\ video'.own = video.own
        /\ Len(video'.queue) <= Len(video.queue)
        /\ audio'.source = audio.source /\ audio'.fifo <= audio.fifo
        /\ audio.stale <= audio.fifo => audio'.stale <= audio'.fifo
        /\ audio'.stale <= audio.stale
    BY <1>10, WriteDoes
  <2>2. FileBegun'
    BY <2>1 DEF FileBegun
  <2>3. video.queue = <<>> => video'.queue = <<>>
    BY <1>1, <2>1 DEF VideoTyped
  <2>4. QueuedPictures'
    BY <1>1, <1>2, <2>1, <2>3 DEF QueuedPictures, VideoTyped
  <2>5. QueuedSound'
    BY <1>1, <1>2, <2>1 DEF QueuedSound, AudioTyped
  <2> QED
    BY <2>2, <2>4, <2>5
<1>11. CASE Restart
  <2>1. branch' = "fallback" /\ video' = NoVideo("submitted", 0) /\ audio' = NoAudio("submitted")
    BY <1>11, Zenon DEF Restart, Anew
  <2> QED
    BY <1>2, <2>1 DEF FileBegun, QueuedPictures, QueuedSound, NoVideo, NoAudio
<1>12. CASE UNCHANGED vars
  BY <1>12, Zenon DEF vars, FileBegun, QueuedPictures, QueuedSound
<1> QED
  BY <1>3, <1>4, <1>5, <1>6, <1>7, <1>8, <1>9, <1>10, <1>11, <1>12, Steps, Zenon
     DEF SourceSteps

LEMMA WhoseAtFirst ==
  ASSUME Init
  PROVE  Whose
BY RatesAssumption
   DEF Init, Whose, FileBegun, QueuedPictures, QueuedSound, NoVideo, NoAudio, NoPlayer

LEMMA TypedAndWhose == Spec => [](Typed /\ Whose)
<1>1. Typed /\ Whose /\ [Next]_vars => (Typed /\ Whose)'
  BY TypedKept, WhoseKept
<1> QED
  BY <1>1, TypedAtFirst, WhoseAtFirst, PTL DEF Spec

\* Every variable keeps its type and the queues of pictures and of sound their limits,
\* whichever sources begin, seek and end.
THEOREM TypeCorrect == Spec => []TypeOK
<1>1. Typed /\ Whose => TypeOK
  <2> SUFFICES ASSUME Typed, Whose PROVE TypeOK
    OBVIOUS
  <2>1. audio.fifo \in 0..Most(FileFifo, LiveFifo) /\ audio.stale \in 0..audio.fifo
    BY RatesAssumption DEF Typed, SourceTyped, AudioTyped, Whose, QueuedSound, Most
  <2>2. player.at \in {"none", "open", "begun", "play", "ready"}
    BY DEF Typed, SourceTyped, PlayerTyped
  <2>3. index \in Nat /\ next \in 0..MaxFrames /\ sound \in Nat /\ restarts \in 0..MaxRestarts
    BY DEF Typed, Counted
  <2> QED
    BY <2>1, <2>2, <2>3 DEF TypeOK, Typed, SourceTyped, Branches, Whose, QueuedPictures
<1> QED
  BY <1>1, TypedAndWhose, PTL

\* Nothing that a file or the capture has left in the queues is sent after its end:
\* whichever branch follows, what is queued is of the branch itself or of a received
\* stream, which alone does not clear what it leaves.
THEOREM NothingIsLeft == Spec => []StaleIsLive
<1>1. Whose => StaleIsLive
  BY DEF Whose, QueuedPictures, QueuedSound, StaleIsLive
<1> QED
  BY <1>1, TypedAndWhose, PTL

-----------------------------------------------------------------------------
(* The file's picture and sound on the output's clock.                      *)

\* What has been shown was due, and the file's sound is not ahead.
ShownInTime == video.shown # -1 => Due(video.shown) < next

SoundInTime == Playing => Heard - (sound - player.abase) <= AudioFrame

InTime == ShownInTime /\ SoundInTime

LEMMA ShownInTimeKept ==
  ASSUME Typed, ShownInTime, [Next]_vars
  PROVE  ShownInTime'
<1> USE DEF ShownInTime, Due
<1>1. VideoTyped /\ VideoTyped' /\ next \in Nat /\ index = next
  BY TypedKept DEF Typed, Counted, SourceTyped
<1>2. CASE Write
  BY <1>1, <1>2, WriteDoes DEF VideoTyped
<1>3. CASE Restart
  BY <1>3 DEF Restart, Anew, NoVideo
<1>4. CASE SourceSteps
  <2>1. next' = next
    BY <1>4, ClockLeft
  <2>2. video'.shown = -1 \/ (video'.shown = video.shown /\ video'.base = video.base)
    <3>1. ASSUME NEW b \in Branches, Switch(b)
          PROVE  video'.shown = -1 \/ (video'.shown = video.shown /\ video'.base = video.base)
      <4>1. End(branch) /\ branch \in Branches
        BY <3>1, Zenon DEF Switch, Typed, SourceTyped
      <4> QED
        BY <4>1, EndDoes DEF NoVideo
    <3>2. CASE Open
      BY <3>2 DEF Open, Begin, NoVideo
    <3>3. CASE Seek
      BY <3>3 DEF Seek, Begin, NoVideo
    <3>4. CASE FilePicture
      BY <1>1, <3>4 DEF FilePicture, VideoTyped
    <3>5. CASE ReadBases \/ FileSound \/ NowSound
      BY <3>5 DEF ReadBases, FileSound, NowSound
    <3>6. CASE NowPicture
      BY <3>6, NowPictureDoes
    <3> QED
      BY <1>4, <3>1, <3>2, <3>3, <3>4, <3>5, <3>6, Zenon DEF SourceSteps
  <2> QED
    BY <1>1, <2>1, <2>2
<1>5. CASE UNCHANGED vars
  BY <1>5, Zenon DEF vars
<1> QED
  BY <1>2, <1>3, <1>4, <1>5, Steps

LEMMA SoundInTimeKept ==
  ASSUME Typed, Whose, SoundInTime, [Next]_vars
  PROVE  SoundInTime'
<1> USE DEF SoundInTime
<1>1. /\ AudioTyped /\ PlayerTyped /\ AudioTyped' /\ PlayerTyped' /\ PlayerFits
      /\ sound \in Nat /\ sound' \in Nat
  BY TypedKept DEF Typed, Counted, SourceTyped
<1>2. /\ AudioFrame \in Nat \ {0} /\ FileFifo \in Nat /\ SoundLead = FileFifo
  BY RatesAssumption, FileAssumption
<1>3. CASE ReadBases
  <2>1. player'.heard = 0 /\ player'.abase = sound /\ audio' = audio /\ sound' = sound
    BY <1>3 DEF ReadBases, NoPlayer
  <2> QED
    BY <1>1, <1>2, <2>1 DEF Heard, AudioTyped
<1>4. CASE FilePicture
  <2>1. UNCHANGED <<branch, audio, sound>>
        /\ player'.at = player.at /\ player'.heard = player.heard /\ player'.abase = player.abase
    BY <1>1, <1>4 DEF FilePicture, PlayerTyped
  <2> QED
    BY <2>1 DEF Playing, Heard
<1>5. CASE FileSound
  <2>1. /\ Playing /\ player.heard < sound - player.abase + SoundLead /\ sound' = sound
        /\ player'.abase = player.abase /\ player'.heard = player.heard + AudioFrame
        /\ audio'.fifo = QueueSound
    BY <1>1, <1>5 DEF FileSound, SoundMayGo, Playing, PlayerTyped, AudioTyped
  <2>2. CASE audio.fifo + AudioFrame < FileFifo
    <3>1. QueueSound = audio.fifo + AudioFrame
      BY <2>2 DEF QueueSound, Least
    <3> QED
      BY <1>1, <1>2, <2>1, <3>1 DEF Heard, AudioTyped, PlayerTyped
  <2>3. CASE ~(audio.fifo + AudioFrame < FileFifo)
    <3>1. QueueSound = FileFifo
      BY <2>3 DEF QueueSound, Least
    <3> QED
      BY <1>1, <1>2, <2>1, <3>1 DEF Heard, AudioTyped, PlayerTyped
  <2> QED
    BY <2>2, <2>3
<1>6. CASE Write
  <2>1. /\ UNCHANGED <<branch, player>> /\ audio.fifo - audio'.fifo <= SoundDue * AudioFrame
        /\ sound' = sound + SoundDue * AudioFrame
    BY <1>6, WriteDoes
  <2>2. SoundDue * AudioFrame \in Nat
    BY <1>2, SoundIsDue
  <2> QED
    BY <1>1, <1>2, <2>1, <2>2 DEF Playing, Heard, AudioTyped, PlayerTyped
<1>7. CASE Restart \/ (\E b \in Branches : Switch(b)) \/ Open \/ Seek
  <2>1. ~Playing'
    BY <1>1, <1>7 DEF Restart, Switch, Open, Seek, NoPlayer, Playing, PlayerTyped
  <2> QED
    BY <2>1
<1>8. CASE NowPicture \/ NowSound
  <2>1. ~Playing'
    BY <1>8 DEF NowPicture, NowSound, Playing
  <2> QED
    BY <2>1
<1>9. CASE UNCHANGED vars
  BY <1>9, Zenon DEF vars, Playing, Heard
<1> QED
  BY <1>3, <1>4, <1>5, <1>6, <1>7, <1>8, <1>9, Steps, Zenon DEF SourceSteps

LEMMA InTimeAlways == Spec => []InTime
<1>1. Init => InTime
  BY DEF Init, InTime, ShownInTime, SoundInTime, Playing, NoVideo
<1>2. InTime /\ (Typed /\ Whose) /\ [Next]_vars => InTime'
  BY ShownInTimeKept, SoundInTimeKept DEF InTime
<1> QED
  BY <1>1, <1>2, TypedAndWhose, PTL DEF Spec

\* The file's pictures and sound are in step with the output, for any rates: a picture
\* is not sent before its time, the sound is not ahead, and it does not fall behind
\* for good because the queue of a file holds as much sound as its player may lead by
\* (FileAssumption), two limits in two classes: what a waiting player has submitted
\* and the queue has not kept is over.
THEOREM FileIsInStep == Spec => []InStep
<1>1. Typed /\ Whose /\ InTime => InStep
  <2> SUFFICES ASSUME Typed, Whose, InTime, Playing
               PROVE  /\ video.shown # -1 => Due(video.shown) < next
                      /\ Heard - (sound - player.abase) <= AudioFrame
                      /\ audio.expected /\ ~SoundMayGo
                           => Heard - (sound - player.abase) >= 0
    BY DEF InStep
  <2>1. audio.expected /\ ~SoundMayGo => player.heard >= sound - player.abase + SoundLead
    BY RatesAssumption DEF SoundMayGo, Playing, Typed, Counted, SourceTyped, PlayerTyped
  <2>2. audio.fifo <= SoundLead
    BY FileAssumption DEF Whose, FileBegun, QueuedSound, Playing
  <2>3. audio.expected /\ ~SoundMayGo => Heard - (sound - player.abase) >= 0
    BY <2>1, <2>2, RatesAssumption
       DEF Heard, Typed, Counted, SourceTyped, PlayerTyped, AudioTyped
  <2> QED
    BY <2>3 DEF InTime, ShownInTime, SoundInTime
<1> QED
  BY <1>1, TypedAndWhose, InTimeAlways, PTL

-----------------------------------------------------------------------------
(* The mirror: what a picture and its sound do to it.                       *)

Mirrors == [on : BOOLEAN, voffset : Int, aoffset : Int, vlast : Int, alast : Int,
            unbroken : BOOLEAN]

MirrorTyped == mirror \in Mirrors

LEMMA SameMirror ==
  ASSUME NEW m \in Mirrors, NEW k \in Mirrors,
         m.on = k.on, m.unbroken = k.unbroken, m.voffset = k.voffset, m.aoffset = k.aoffset,
         m.vlast = k.vlast, m.alast = k.alast
  PROVE  m = k
BY DEF Mirrors

LEMMA RebasedTyped ==
  ASSUME NEW off \in Int, NEW last \in Int, NEW time \in Int, NEW d \in Int
  PROVE  Rebased(off, last, time, d) \in Int
BY DEF Rebased

LEMMA SendVideoDoes ==
  ASSUME NEW m \in Mirrors, NEW time \in Int, NEW d \in Int
  PROVE  LET off == Rebased(m.voffset, m.vlast, time, d)
             k   == SendVideo(m, time, d)
         IN /\ off \in Int /\ k \in Mirrors
            /\ k.voffset = off /\ k.vlast = time + off
            /\ k.aoffset = m.aoffset /\ k.alast = m.alast
            /\ k.on = m.on /\ k.unbroken = m.unbroken
<1> DEFINE off == Rebased(m.voffset, m.vlast, time, d)
           last == time + off
<1>1. off \in Int
  BY RebasedTyped DEF Mirrors
<1>2. SendVideo(m, time, d) = [m EXCEPT !.voffset = off, !.vlast = last]
  BY Zenon DEF SendVideo
<1> HIDE DEF off
<1>4. last \in Int
  BY <1>1
<1> HIDE DEF last
<1>3. /\ SendVideo(m, time, d) \in Mirrors
      /\ SendVideo(m, time, d).voffset = off /\ SendVideo(m, time, d).vlast = last
      /\ SendVideo(m, time, d).aoffset = m.aoffset /\ SendVideo(m, time, d).alast = m.alast
      /\ SendVideo(m, time, d).on = m.on /\ SendVideo(m, time, d).unbroken = m.unbroken
  <2>1. SendVideo(m, time, d) \in Mirrors
    BY <1>1, <1>2, <1>4 DEF Mirrors
  <2> QED
    BY <1>1, <1>2, <1>4, <2>1 DEF Mirrors
<1> QED
  BY <1>1, <1>3 DEF off, last

LEMMA SendAudioDoes ==
  ASSUME NEW m \in Mirrors, NEW time \in Int
  PROVE  LET off == Rebased(m.aoffset, m.alast, time, AudioFrame)
             k   == SendAudio(m, time)
         IN /\ off \in Int /\ k \in Mirrors
            /\ k.aoffset = off /\ k.alast = time + off
            /\ k.voffset = m.voffset /\ k.vlast = m.vlast
            /\ k.on = m.on /\ k.unbroken = m.unbroken
<1> DEFINE off == Rebased(m.aoffset, m.alast, time, AudioFrame)
           last == time + off
<1>1. off \in Int
  BY RebasedTyped, RatesAssumption DEF Mirrors
<1>2. SendAudio(m, time) = [m EXCEPT !.aoffset = off, !.alast = last]
  BY Zenon DEF SendAudio
<1> HIDE DEF off
<1>4. last \in Int
  BY <1>1
<1> HIDE DEF last
<1>3. /\ SendAudio(m, time) \in Mirrors
      /\ SendAudio(m, time).aoffset = off /\ SendAudio(m, time).alast = last
      /\ SendAudio(m, time).voffset = m.voffset /\ SendAudio(m, time).vlast = m.vlast
      /\ SendAudio(m, time).on = m.on /\ SendAudio(m, time).unbroken = m.unbroken
  <2>1. SendAudio(m, time) \in Mirrors
    BY <1>1, <1>2, <1>4 DEF Mirrors
  <2> QED
    BY <1>1, <1>2, <1>4, <2>1 DEF Mirrors
<1> QED
  BY <1>1, <1>3 DEF off, last

LEMMA Times ==
  ASSUME Typed
  PROVE  /\ Time(0) = Target(next) /\ Time(0) \in Nat /\ Time(1) = sound
         /\ \A i \in Nat \ {0} : Time(i) \in Nat /\ Time(i + 1) = Time(i) + AudioFrame
<1>1. Target(next) \in Nat /\ sound \in Nat /\ AudioFrame \in Nat
  BY Targets, RatesAssumption DEF Typed, Counted
<1>2. \A i \in Nat : i * AudioFrame \in Nat /\ (i + 1) * AudioFrame = i * AudioFrame + AudioFrame
  BY <1>1
<1>3. \A i \in Nat \ {0} : Time(i) = sound + (i - 1) * AudioFrame
      /\ Time(i + 1) = sound + i * AudioFrame
  BY DEF Time
<1>4. Time(1) = sound
  BY <1>1 DEF Time
<1>5. \A i \in Nat \ {0} : Time(i) \in Nat /\ Time(i + 1) = Time(i) + AudioFrame
  <2> SUFFICES ASSUME NEW i \in Nat \ {0}
               PROVE  Time(i) \in Nat /\ Time(i + 1) = Time(i) + AudioFrame
    OBVIOUS
  <2>1. (i - 1) * AudioFrame \in Nat /\ i * AudioFrame = (i - 1) * AudioFrame + AudioFrame
    BY <1>1
  <2>2. Time(i) = sound + (i - 1) * AudioFrame /\ Time(i + 1) = sound + i * AudioFrame
    BY <1>3
  <2> DEFINE p == (i - 1) * AudioFrame
             q == i * AudioFrame
  <2>3. p \in Nat /\ q = p + AudioFrame /\ Time(i) = sound + p /\ Time(i + 1) = sound + q
    BY <2>1, <2>2
  <2> HIDE DEF p, q
  <2> QED
    BY <1>1, <2>3
<1> QED
  BY <1>1, <1>4, <1>5 DEF Time

\* One packet after the other.
OneByOne(m, from, n, duration) ==
  [i \in -1..n |-> IF i < from THEN mirror
                   ELSE IF i = 0 THEN SendVideo(m[-1], Time(0), duration)
                   ELSE SendAudio(m[i - 1], Time(i))]

\* The same at once: a picture moves its offset, and the first frame of sound that of
\* the sound, for all that follow.
Shown(from, duration) ==
  IF from = 0 THEN SendVideo(mirror, Time(0), duration) ELSE mirror

AudioOffset(from) ==
  Rebased(mirror.aoffset, mirror.alast, Time(Most(from, 1)), AudioFrame)

AtOnce(from, n, duration) ==
  [i \in -1..n |->
     IF i < from THEN mirror
     ELSE IF i = 0 THEN Shown(from, duration)
     ELSE [Shown(from, duration) EXCEPT !.aoffset = AudioOffset(from),
                                        !.alast = Time(i) + AudioOffset(from)]]

LEMMA AtOnceTyped ==
  ASSUME Typed, MirrorTyped, NEW n \in Nat, NEW from \in 0..n, NEW duration \in Int
  PROVE  /\ Shown(from, duration) \in Mirrors /\ AudioOffset(from) \in Int
         /\ Shown(from, duration).aoffset = mirror.aoffset
         /\ Shown(from, duration).alast = mirror.alast
         /\ \A i \in -1..n : AtOnce(from, n, duration)[i] \in Mirrors
<1>1. Time(0) \in Int /\ \A i \in Nat : Time(i) \in Int
  BY Times
<1>2. /\ Shown(from, duration) \in Mirrors
      /\ Shown(from, duration).aoffset = mirror.aoffset
      /\ Shown(from, duration).alast = mirror.alast
  BY <1>1, SendVideoDoes DEF Shown, MirrorTyped
<1>3. AudioOffset(from) \in Int
  <2>1. Most(from, 1) \in Nat
    BY DEF Most
  <2>2. Time(Most(from, 1)) \in Int
    BY <1>1, <2>1
  <2>3. mirror.aoffset \in Int /\ mirror.alast \in Int /\ AudioFrame \in Int
    BY RatesAssumption DEF MirrorTyped, Mirrors
  <2> QED
    BY <2>2, <2>3, RebasedTyped, Zenon DEF AudioOffset
<1> DEFINE s == Shown(from, duration)
           a == AudioOffset(from)
<1> HIDE DEF s, a
<1>4. ASSUME NEW i \in 1..n PROVE [s EXCEPT !.aoffset = a, !.alast = Time(i) + a] \in Mirrors
  <2>1. s \in Mirrors /\ a \in Int /\ Time(i) + a \in Int
    BY <1>1, <1>2, <1>3 DEF s, a
  <2> QED
    BY <2>1 DEF Mirrors
<1>5. ASSUME NEW i \in -1..n PROVE AtOnce(from, n, duration)[i] \in Mirrors
  <2>1. AtOnce(from, n, duration)[i] =
          IF i < from THEN mirror ELSE IF i = 0 THEN s
          ELSE [s EXCEPT !.aoffset = a, !.alast = Time(i) + a]
    BY DEF AtOnce, s, a
  <2>2. ~(i < from) /\ i # 0 => i \in 1..n
    OBVIOUS
  <2> QED
    BY <1>2, <1>4, <2>1, <2>2 DEF MirrorTyped, s
<1> QED
  BY <1>2, <1>3, <1>5

\* The sound moves its offset once: each frame follows the one before it.
LEMMA AtOnceIsOneByOne ==
  ASSUME Typed, MirrorTyped, NEW n \in Nat, NEW from \in 0..n, NEW duration \in Int
  PROVE  AtOnce(from, n, duration) = OneByOne(AtOnce(from, n, duration), from, n, duration)
<1> DEFINE g == AtOnce(from, n, duration)
           s == Shown(from, duration)
           a == AudioOffset(from)
<1>1. /\ s \in Mirrors /\ a \in Int /\ s.aoffset = mirror.aoffset /\ s.alast = mirror.alast
      /\ \A i \in -1..n : g[i] \in Mirrors
  BY AtOnceTyped
<1> DEFINE w(i) == [s EXCEPT !.aoffset = a, !.alast = Time(i) + a]
<1>2. \A i \in -1..n :
        /\ (i < from => g[i] = mirror)
        /\ (~(i < from) /\ i = 0 => g[i] = s)
        /\ (~(i < from) /\ i # 0 => g[i] = w(i))
  BY DEF AtOnce
<1>3. /\ Time(0) \in Int
      /\ \A i \in Nat \ {0} : Time(i) \in Nat /\ Time(i + 1) = Time(i) + AudioFrame
  BY Times
<1>4. a = Rebased(mirror.aoffset, mirror.alast, Time(IF from > 1 THEN from ELSE 1), AudioFrame)
  BY DEF AudioOffset, Most
<1>5. from = 0 => s = SendVideo(mirror, Time(0), duration)
  BY DEF Shown
<1>6. from # 0 => s = mirror
  BY DEF Shown
<1> HIDE DEF g, s, a, w
<1>7. ASSUME NEW i \in -1..n
      PROVE  g[i] = IF i < from THEN mirror
                    ELSE IF i = 0 THEN SendVideo(g[-1], Time(0), duration)
                    ELSE SendAudio(g[i - 1], Time(i))
  <2>1. CASE i < from
    BY <1>2, <2>1
  <2>2. CASE ~(i < from) /\ i = 0
    <3>1. from = 0 /\ -1 \in -1..n /\ -1 < from
      BY <2>2
    <3>2. g[-1] = mirror /\ g[i] = s
      BY <1>2, <2>2, <3>1
    <3> QED
      BY <1>5, <2>2, <3>1, <3>2
  <2>3. CASE ~(i < from) /\ i # 0
    <3>1. i \in Nat \ {0} /\ i - 1 \in -1..n /\ g[i] = [s EXCEPT !.aoffset = a, !.alast = Time(i) + a]
      <4>1. i \in Nat \ {0} /\ i - 1 \in -1..n
        BY <2>3
      <4>2. g[i] = w(i)
        BY <1>2, <2>3
      <4> QED
        BY <4>1, <4>2 DEF w
    <3>2. Time(i) \in Int /\ g[i - 1] \in Mirrors /\ g[i] \in Mirrors
      BY <1>1, <1>3, <3>1
    <3> DEFINE k == SendAudio(g[i - 1], Time(i))
               off == Rebased(g[i - 1].aoffset, g[i - 1].alast, Time(i), AudioFrame)
    <3>3. /\ k \in Mirrors /\ k.aoffset = off /\ k.alast = Time(i) + off
          /\ k.voffset = g[i - 1].voffset /\ k.vlast = g[i - 1].vlast
          /\ k.on = g[i - 1].on /\ k.unbroken = g[i - 1].unbroken
      BY <3>2, SendAudioDoes
    <3> HIDE DEF k
    <3>4. /\ off = a
          /\ g[i - 1].voffset = s.voffset /\ g[i - 1].vlast = s.vlast
          /\ g[i - 1].on = s.on /\ g[i - 1].unbroken = s.unbroken
      <4>1. CASE i = from \/ i = 1
        <5>1. g[i - 1] = IF i - 1 < from THEN mirror ELSE s
          BY <1>2, <2>3, <3>1, <4>1
        <5>2. i - 1 < from => s = mirror
          BY <1>6, <2>3, <4>1
        <5>3. g[i - 1] = s
          BY <5>1, <5>2
        <5>4. i = IF from > 1 THEN from ELSE 1
          BY <2>3, <4>1
        <5> QED
          BY <1>1, <1>4, <5>3, <5>4
      <4>2. CASE i # from /\ i # 1
        <5>1. i - 1 \in Nat \ {0} /\ ~(i - 1 < from) /\ i - 1 # 0
          BY <2>3, <3>1, <4>2
        <5>2. g[i - 1] = [s EXCEPT !.aoffset = a, !.alast = Time(i - 1) + a]
          BY <1>2, <3>1, <5>1 DEF w
        <5>3. Time(i) = Time(i - 1) + AudioFrame /\ Time(i - 1) \in Nat
          BY <1>3, <5>1
        <5>4. /\ g[i - 1].aoffset = a /\ g[i - 1].alast = Time(i - 1) + a
              /\ g[i - 1].voffset = s.voffset /\ g[i - 1].vlast = s.vlast
              /\ g[i - 1].on = s.on /\ g[i - 1].unbroken = s.unbroken
          BY <1>1, <5>2 DEF Mirrors
        <5>5. off = a
          BY <1>1, <5>3, <5>4, RatesAssumption DEF Rebased
        <5> QED
          BY <5>4, <5>5
      <4> QED
        BY <4>1, <4>2
    <3> HIDE DEF off
    <3>5. /\ g[i].aoffset = a /\ g[i].alast = Time(i) + a
          /\ g[i].voffset = s.voffset /\ g[i].vlast = s.vlast
          /\ g[i].on = s.on /\ g[i].unbroken = s.unbroken
      BY <1>1, <3>1 DEF Mirrors
    <3>6. g[i] = k
      BY <3>2, <3>3, <3>4, <3>5, SameMirror
    <3> QED
      BY <2>3, <3>6 DEF k
  <2> QED
    BY <2>1, <2>2, <2>3
<1>8. g = [i \in -1..n |-> g[i]]
  BY DEF g, AtOnce
<1> QED
  BY <1>7, <1>8 DEF OneByOne, g

\* A smallest number in a set.
LEMMA Smallest ==
  ASSUME NEW S \in SUBSET Nat, S # {}
  PROVE  \E i \in S : \A j \in S : i <= j
<1> DEFINE R == OpToRel(<, Nat)
<1>1. \E x \in S : \A y \in S : <<y, x>> \notin R
  <2>1. IsWellFoundedOn(R, Nat)
    BY NatLessThanWellFounded
  <2> HIDE DEF R
  <2> QED
    BY <2>1, WFMin
<1>2. \A x, y \in Nat : y < x => <<y, x>> \in R
  BY DEF OpToRel
<1> HIDE DEF R
<1>3. \A x, y \in Nat : ~(y < x) => x <= y
  OBVIOUS
<1> QED
  BY <1>1, <1>2, <1>3, Zenon

LEMMA AfterIsAtOnce ==
  ASSUME Typed, MirrorTyped, NEW n \in Nat, NEW from \in 0..n, NEW duration \in Int
  PROVE  After(from, n, duration) = AtOnce(from, n, duration)
<1> DEFINE g == AtOnce(from, n, duration)
           m == After(from, n, duration)
<1>1. m = CHOOSE h : h = OneByOne(h, from, n, duration)
  BY DEF After, OneByOne
<1>2. g = OneByOne(g, from, n, duration)
  BY AtOnceIsOneByOne
<1> HIDE DEF g, m
<1>3. m = OneByOne(m, from, n, duration)
  BY <1>1, <1>2, Zenon
<1>4. ASSUME NEW h, h = OneByOne(h, from, n, duration)
      PROVE  \A i \in -1..n : h[i] = IF i < from THEN mirror
                                     ELSE IF i = 0 THEN SendVideo(h[-1], Time(0), duration)
                                     ELSE SendAudio(h[i - 1], Time(i))
  BY <1>4 DEF OneByOne
<1> DEFINE D == {k \in 0..n + 1 : m[k - 1] # g[k - 1]}
<1>5. D = {}
  <2> SUFFICES ASSUME D # {} PROVE FALSE
    OBVIOUS
  <2>1. PICK k \in D : \A j \in D : k <= j
    <3>1. D \subseteq Nat
      OBVIOUS
    <3> HIDE DEF D
    <3> QED
      BY <3>1, Smallest
  <2> DEFINE i == k - 1
  <2>2. i \in -1..n /\ m[i] # g[i] /\ k = i + 1
    BY <2>1
  <2>3. \A j \in -1..n : j < i => m[j] = g[j]
    <3> SUFFICES ASSUME NEW j \in -1..n, j < i, m[j] # g[j] PROVE FALSE
      OBVIOUS
    <3>1. j + 1 \in D
      BY DEF D
    <3> QED
      BY <2>1, <2>2, <3>1
  <2> HIDE DEF i, D
  <2>4. CASE i < from
    BY <1>2, <1>3, <1>4, <2>2, <2>4
  <2>5. CASE ~(i < from) /\ i = 0
    <3>1. m[-1] = g[-1]
      BY <2>3, <2>5
    <3> QED
      BY <1>2, <1>3, <1>4, <2>2, <2>5, <3>1
  <2>6. CASE ~(i < from) /\ i # 0
    <3>1. m[i - 1] = g[i - 1]
      BY <2>2, <2>3, <2>6
    <3> QED
      BY <1>2, <1>3, <1>4, <2>2, <2>6, <3>1
  <2> QED
    BY <2>4, <2>5, <2>6
<1>6. \A i \in -1..n : m[i] = g[i]
  <2> SUFFICES ASSUME NEW i \in -1..n, m[i] # g[i] PROVE FALSE
    OBVIOUS
  <2>1. i + 1 \in D
    BY DEF D
  <2> QED
    BY <1>5, <2>1
<1>7. m = [i \in -1..n |-> m[i]] /\ g = [i \in -1..n |-> g[i]]
  BY <1>2, <1>3 DEF OneByOne
<1> QED
  BY <1>6, <1>7 DEF m, g

\* A picture and at least one frame of sound, all of them sent.
LEMMA AllSent ==
  ASSUME Typed, MirrorTyped, NEW n \in Nat \ {0}, NEW duration \in Int
  PROVE  LET k  == After(0, n, duration)[n]
             vo == Rebased(mirror.voffset, mirror.vlast, Target(next), duration)
             ao == Rebased(mirror.aoffset, mirror.alast, sound, AudioFrame)
         IN /\ k \in Mirrors /\ vo \in Int /\ ao \in Int
            /\ k.voffset = vo /\ k.vlast = Target(next) + vo
            /\ k.aoffset = ao /\ k.alast = sound + n * AudioFrame - AudioFrame + ao
            /\ k.on = mirror.on /\ k.unbroken = mirror.unbroken
<1> DEFINE k == After(0, n, duration)[n]
           s == Shown(0, duration)
           a == AudioOffset(0)
           t == Time(n) + a
           vo == Rebased(mirror.voffset, mirror.vlast, Target(next), duration)
           ao == Rebased(mirror.aoffset, mirror.alast, sound, AudioFrame)
<1>1. After(0, n, duration) = AtOnce(0, n, duration)
  BY AfterIsAtOnce
<1>2. k = [s EXCEPT !.aoffset = a, !.alast = t]
  <2>1. n \in -1..n /\ ~(n < 0) /\ n # 0
    OBVIOUS
  <2> QED
    BY <1>1, <2>1 DEF AtOnce
<1>3. /\ Time(0) = Target(next) /\ Time(0) \in Int /\ Time(1) = sound /\ Most(0, 1) = 1
      /\ Time(n) \in Int /\ Time(n) = sound + n * AudioFrame - AudioFrame
  <2>1. Most(0, 1) = 1
    BY DEF Most
  <2>2. sound \in Nat /\ AudioFrame \in Nat /\ (n - 1) * AudioFrame = n * AudioFrame - AudioFrame
    BY RatesAssumption DEF Typed, Counted
  <2>3. Time(n) = sound + (n - 1) * AudioFrame
    BY DEF Time
  <2>4. n * AudioFrame \in Nat
    BY <2>2
  <2> DEFINE p == (n - 1) * AudioFrame
             q == n * AudioFrame
  <2>5. p = q - AudioFrame /\ q \in Nat /\ Time(n) = sound + p
    BY <2>2, <2>3, <2>4
  <2> HIDE DEF p, q
  <2>6. Time(n) = sound + q - AudioFrame
    BY <2>2, <2>5
  <2> QED
    BY <2>1, <2>6, Times DEF q
<1>4. s \in Mirrors /\ a \in Int
  BY AtOnceTyped
<1>5. a = ao
  BY <1>3, Zenon DEF AudioOffset
<1>6. /\ s.voffset = vo /\ s.vlast = Target(next) + vo /\ vo \in Int
      /\ s.on = mirror.on /\ s.unbroken = mirror.unbroken
  <2>1. s = SendVideo(mirror, Target(next), duration)
    BY <1>3 DEF Shown
  <2> HIDE DEF s
  <2> QED
    BY <1>3, <2>1, SendVideoDoes DEF MirrorTyped
<1> HIDE DEF k, s, a, vo, ao
<1>7. t \in Int /\ t = sound + n * AudioFrame - AudioFrame + ao
  BY <1>3, <1>4, <1>5
<1> HIDE DEF t
<1>8. k \in Mirrors
  BY <1>2, <1>4, <1>7 DEF Mirrors
<1>9. /\ k.aoffset = a /\ k.alast = t /\ k.voffset = s.voffset /\ k.vlast = s.vlast
      /\ k.on = s.on /\ k.unbroken = s.unbroken
  BY <1>2, <1>4, <1>8 DEF Mirrors
<1>10. /\ k \in Mirrors /\ vo \in Int /\ ao \in Int
       /\ k.voffset = vo /\ k.vlast = Target(next) + vo
       /\ k.aoffset = ao /\ k.alast = sound + n * AudioFrame - AudioFrame + ao
       /\ k.on = mirror.on /\ k.unbroken = mirror.unbroken
  BY <1>4, <1>5, <1>6, <1>7, <1>8, <1>9
<1> QED
  BY <1>10 DEF k, vo, ao

LEMMA DurationsTyped == Durations \subseteq Nat
BY Targets DEF Durations

\* Whatever is sent, the mirror keeps its type, and without a break it has been sent
\* everything, or nothing yet.
LEMMA SentIs ==
  ASSUME Typed, MirrorTyped, NEW n \in Nat, mirror' \in Sent(n)
  PROVE  /\ MirrorTyped'
         /\ mirror'.unbroken => /\ mirror.unbroken
                                /\ \/ mirror' = mirror /\ ~mirror.on
                                   \/ \E d \in Durations :
                                        mirror' = [After(0, n, d)[n] EXCEPT !.on = TRUE]
<1>1. PICK d \in Durations : mirror' \in SentAs(n, d)
  BY DEF Sent
<1>2. d \in Int
  BY DurationsTyped
<1>3. ASSUME NEW i \in 0..n, NEW k \in 0..n
      PROVE  After(i, n, d)[k] \in Mirrors /\ After(i, n, d)[k].unbroken = mirror.unbroken
             /\ After(i, n, d)[k].on = mirror.on
  <2>1. After(i, n, d) = AtOnce(i, n, d) /\ k \in -1..n
    BY <1>2, AfterIsAtOnce
  <2>2. AtOnce(i, n, d)[k] \in Mirrors
    BY <1>2, <2>1, AtOnceTyped
  <2> DEFINE s == Shown(i, d)
             a == AudioOffset(i)
             t == Time(k) + a
  <2>3. s \in Mirrors /\ s.unbroken = mirror.unbroken /\ s.on = mirror.on
    <3>1. Time(0) \in Int
      BY Times
    <3> QED
      BY <1>2, <3>1, SendVideoDoes DEF Shown, MirrorTyped
  <2>4. AtOnce(i, n, d)[k] \in {mirror, s, [s EXCEPT !.aoffset = a, !.alast = t]}
    BY <2>1 DEF AtOnce
  <2> HIDE DEF s, a, t
  <2>5. [s EXCEPT !.aoffset = a, !.alast = t].unbroken = s.unbroken
        /\ [s EXCEPT !.aoffset = a, !.alast = t].on = s.on
    BY <2>3 DEF Mirrors
  <2> QED
    BY <2>1, <2>2, <2>3, <2>4, <2>5
<1>4. ASSUME NEW m \in Mirrors, NEW on \in BOOLEAN, NEW u \in BOOLEAN
      PROVE  [m EXCEPT !.on = on, !.unbroken = u] \in Mirrors
             /\ [m EXCEPT !.on = on, !.unbroken = u].unbroken = u
  BY DEF Mirrors
<1>5. CASE mirror.on
  <2>1. CASE mirror' = After(0, n, d)[n]
    <3>1. mirror' \in Mirrors /\ mirror'.unbroken = mirror.unbroken /\ mirror'.on = TRUE
      <4>1. 0 \in 0..n /\ n \in 0..n
        OBVIOUS
      <4>2. mirror' \in Mirrors /\ mirror'.unbroken = mirror.unbroken /\ mirror'.on = mirror.on
        BY <1>3, <2>1, <4>1, Zenon
      <4>3. mirror.on = TRUE
        BY <1>5 DEF MirrorTyped, Mirrors
      <4> QED
        BY <4>2, <4>3
    <3>2. mirror' = [mirror' EXCEPT !.on = TRUE]
      BY <3>1 DEF Mirrors
    <3> QED
      BY <2>1, <3>1, <3>2 DEF MirrorTyped
  <2>2. ASSUME NEW i \in 0..n,
               mirror' = [After(0, n, d)[i] EXCEPT !.on = FALSE, !.unbroken = FALSE]
        PROVE  MirrorTyped' /\ ~mirror'.unbroken
    <3>1. After(0, n, d)[i] \in Mirrors
      BY <1>3
    <3> QED
      BY <1>4, <2>2, <3>1 DEF MirrorTyped
  <2> QED
    BY <1>1, <1>5, <2>1, <2>2 DEF SentAs
<1>6. CASE ~mirror.on
  <2>1. CASE mirror' = mirror
    BY <1>6, <2>1 DEF MirrorTyped
  <2>2. ASSUME NEW i \in 0..n,
               mirror' = [After(i, n, d)[n] EXCEPT !.on = TRUE, !.unbroken = @ /\ i = 0]
        PROVE  MirrorTyped' /\ (mirror'.unbroken =>
                 mirror.unbroken /\ mirror' = [After(0, n, d)[n] EXCEPT !.on = TRUE])
    <3> DEFINE m == After(i, n, d)[n]
               u == m.unbroken /\ i = 0
    <3>1. m \in Mirrors /\ m.unbroken = mirror.unbroken
      BY <1>3
    <3>2. mirror' = [m EXCEPT !.on = TRUE, !.unbroken = u]
      BY <2>2
    <3>3. u \in BOOLEAN
      OBVIOUS
    <3>4. mirror' \in Mirrors /\ mirror'.unbroken = u
      <4> HIDE DEF m, u
      <4> QED
        BY <1>4, <3>1, <3>2, <3>3
    <3>5. u => i = 0 /\ m.unbroken /\ mirror' = [m EXCEPT !.on = TRUE]
      <4> HIDE DEF m
      <4>1. SUFFICES ASSUME m.unbroken, i = 0 PROVE mirror' = [m EXCEPT !.on = TRUE]
        OBVIOUS
      <4>2. u = TRUE
        BY <4>1
      <4> HIDE DEF u
      <4>3. mirror' = [m EXCEPT !.on = TRUE, !.unbroken = TRUE]
        BY <3>2, <4>2
      <4>4. m.unbroken = TRUE
        BY <3>1, <4>1 DEF Mirrors
      <4> QED
        BY <3>1, <4>3, <4>4 DEF Mirrors
    <3> QED
      BY <3>1, <3>4, <3>5 DEF MirrorTyped
  <2> QED
    BY <1>1, <1>6, <2>1, <2>2 DEF SentAs
<1> QED
  BY <1>5, <1>6

-----------------------------------------------------------------------------
(* The mirror stays in step.                                                *)

Cut == Target(1) + AudioFrame

\* As far apart as the muxers that were made anew may have shifted sound and picture.
Within(d, r) == -(r * Cut) <= d /\ d <= r * Cut

\* What the mirror has been sent of this muxer, or, before its first picture, of those
\* before it: then both streams are moved on, to after their last packets.
MirrorInv ==
  EveryPictureHasSound /\ mirror.unbroken =>
    /\ Within(mirror.voffset - mirror.aoffset, restarts)
    /\ mirror.voffset >= 0 /\ mirror.aoffset >= 0
    /\ ~mirror.on => mirror.voffset = 0 /\ mirror.aoffset = 0
                       /\ mirror.vlast = -1 /\ mirror.alast = -1
    /\ mirror.on /\ next > 0 =>
         /\ mirror.vlast = Target(next - 1) + mirror.voffset
         /\ mirror.alast = sound - AudioFrame + mirror.aoffset /\ sound >= AudioFrame
    /\ mirror.on /\ next = 0 =>
         /\ mirror.vlast >= mirror.voffset /\ mirror.alast >= mirror.aoffset
         /\ \A d \in Durations :
              Within(mirror.vlast + d - mirror.alast - AudioFrame, restarts)

LEMMA Wider ==
  ASSUME NEW r \in Nat
  PROVE  /\ Cut \in Nat /\ r * Cut \in Nat /\ (r + 1) * Cut = r * Cut + Cut
         /\ \A d \in Int : Within(d, r) => Within(d, r + 1)
         /\ \A d \in Int, e \in -Cut..Cut : Within(d, r) => Within(d + e, r + 1)
<1>1. Cut \in Nat
  BY Targets, RatesAssumption DEF Cut
<1>2. r * Cut \in Nat /\ (r + 1) * Cut = r * Cut + Cut
  BY <1>1
<1> DEFINE p == r * Cut
           q == (r + 1) * Cut
<1>3. p \in Nat /\ q = p + Cut /\ \A d \in Int : (Within(d, r) <=> -p <= d /\ d <= p)
                                   /\ (Within(d, r + 1) <=> -q <= d /\ d <= q)
  BY <1>2 DEF Within
<1> HIDE DEF p, q
<1>4. /\ \A d \in Int : Within(d, r) => Within(d, r + 1)
      /\ \A d \in Int, e \in -Cut..Cut : Within(d, r) => Within(d + e, r + 1)
  BY <1>1, <1>3
<1> QED
  BY <1>1, <1>2, <1>4

LEMMA WriteMirrored ==
  ASSUME Typed, MirrorTyped, MirrorInv, Write
  PROVE  MirrorInv'
<1> SUFFICES ASSUME EveryPictureHasSound, mirror'.unbroken
             PROVE  /\ Within(mirror'.voffset - mirror'.aoffset, restarts)
                    /\ mirror'.voffset >= 0 /\ mirror'.aoffset >= 0
                    /\ ~mirror'.on => mirror'.voffset = 0 /\ mirror'.aoffset = 0
                                        /\ mirror'.vlast = -1 /\ mirror'.alast = -1
                    /\ mirror'.on =>
                         /\ mirror'.vlast = Target(next) + mirror'.voffset
                         /\ mirror'.alast = sound' - AudioFrame + mirror'.aoffset
                         /\ sound' >= AudioFrame
  <2>1. next \in Nat /\ next' = next + 1 /\ restarts' = restarts
    BY WriteDoes DEF Typed, Counted
  <2>2. next' > 0 /\ next' # 0 /\ next' - 1 = next
    BY <2>1
  <2> QED
    BY <2>1, <2>2 DEF MirrorInv, EveryPictureHasSound
<1>1. /\ next \in Nat /\ sound \in Nat /\ restarts \in Nat /\ AudioFrame \in Nat \ {0}
      /\ sound' = sound + SoundDue * AudioFrame
      /\ SoundDue \in Nat \ {0}
      /\ sound <= Target(next)
  BY WriteDoes, SoundIsDue, RatesAssumption DEF Typed, Counted, SoundCoversPicture
<1>2. /\ MirrorTyped' /\ mirror.unbroken
      /\ \/ mirror' = mirror /\ ~mirror.on
         \/ \E d \in Durations : mirror' = [After(0, SoundDue, d)[SoundDue] EXCEPT !.on = TRUE]
  <2>1. mirror' \in Sent(SoundDue)
    BY Zenon DEF Write
  <2> QED
    BY <1>1, <2>1, SentIs
<1>3. CASE mirror' = mirror /\ ~mirror.on
  BY <1>2, <1>3 DEF MirrorInv
<1>4. ASSUME NEW d \in Durations, mirror' = [After(0, SoundDue, d)[SoundDue] EXCEPT !.on = TRUE]
      PROVE  /\ Within(mirror'.voffset - mirror'.aoffset, restarts)
             /\ mirror'.voffset >= 0 /\ mirror'.aoffset >= 0 /\ mirror'.on
             /\ mirror'.vlast = Target(next) + mirror'.voffset
             /\ mirror'.alast = sound' - AudioFrame + mirror'.aoffset
             /\ sound' >= AudioFrame
  <2> DEFINE k  == After(0, SoundDue, d)[SoundDue]
             vo == Rebased(mirror.voffset, mirror.vlast, Target(next), d)
             ao == Rebased(mirror.aoffset, mirror.alast, sound, AudioFrame)
             p  == SoundDue * AudioFrame
  <2>1. d \in Nat /\ d >= 1 /\ Target(next) \in Nat /\ Target(1) \in Nat /\ Target(1) >= 1
    <3>1. Target(1) \in Nat /\ Target(1) >= AudioFrame /\ Target(next) \in Nat
      BY <1>1, Targets DEF EveryPictureHasSound
    <3> QED
      BY <1>1, <3>1 DEF Durations
  <2>2. /\ k \in Mirrors /\ vo \in Int /\ ao \in Int
        /\ k.voffset = vo /\ k.vlast = Target(next) + vo
        /\ k.aoffset = ao /\ k.alast = sound + p - AudioFrame + ao
    <3>1. SoundDue \in Nat \ {0} /\ d \in Int
      BY <1>1, <2>1
    <3> QED
      BY <3>1, AllSent, Zenon
  <2>3. p \in Nat /\ p >= AudioFrame /\ sound' = sound + p
    <3>1. p \in Nat /\ p = (SoundDue - 1) * AudioFrame + AudioFrame
          /\ (SoundDue - 1) * AudioFrame >= 0
      BY <1>1
    <3> QED
      BY <1>1, <3>1
  <2> HIDE DEF k, p
  <2>4. /\ mirror'.voffset = vo /\ mirror'.vlast = Target(next) + vo
        /\ mirror'.aoffset = ao /\ mirror'.alast = sound' - AudioFrame + ao /\ mirror'.on
        /\ sound' >= AudioFrame
    <3>1. mirror' = [k EXCEPT !.on = TRUE]
      BY <1>4 DEF k
    <3>2. /\ mirror'.voffset = k.voffset /\ mirror'.vlast = k.vlast
          /\ mirror'.aoffset = k.aoffset /\ mirror'.alast = k.alast /\ mirror'.on
      BY <2>2, <3>1 DEF Mirrors
    <3> QED
      BY <1>1, <2>2, <2>3, <3>2
  <2>5. /\ mirror.voffset \in Int /\ mirror.aoffset \in Int
        /\ mirror.vlast \in Int /\ mirror.alast \in Int
    BY DEF MirrorTyped, Mirrors
  <2>6. Within(vo - ao, restarts) /\ vo >= 0 /\ ao >= 0
    <3>1. CASE ~mirror.on
      <4>1. /\ mirror.voffset = 0 /\ mirror.aoffset = 0 /\ mirror.vlast = -1
            /\ mirror.alast = -1 /\ Within(mirror.voffset - mirror.aoffset, restarts)
        BY <1>2, <3>1 DEF MirrorInv
      <4>2. vo = 0 /\ ao = 0
        BY <4>1 DEF Rebased
      <4> QED
        BY <4>1, <4>2
    <3>2. CASE mirror.on /\ next > 0
      <4>1. /\ mirror.vlast = Target(next - 1) + mirror.voffset
            /\ mirror.alast = sound - AudioFrame + mirror.aoffset
            /\ mirror.voffset >= 0 /\ mirror.aoffset >= 0
            /\ Within(mirror.voffset - mirror.aoffset, restarts)
        BY <1>2, <3>2 DEF MirrorInv
      <4>2. Target(next - 1) < Target(next) /\ Target(next - 1) \in Nat
        <5>1. next - 1 \in Nat /\ (next - 1) + 1 = next
          BY <1>1, <3>2
        <5>2. Target(next - 1) \in Nat /\ Target(next - 1) + Target(1) <= Target(next)
          BY <5>1, Targets
        <5> QED
          BY <2>1, <5>2
      <4>3. vo = mirror.voffset
        BY <2>1, <2>5, <4>1, <4>2 DEF Rebased
      <4>4. ao = mirror.aoffset
        BY <1>1, <2>5, <4>1 DEF Rebased
      <4> QED
        BY <4>1, <4>3, <4>4
    <3>3. CASE mirror.on /\ next = 0
      <4>1. /\ mirror.vlast >= mirror.voffset /\ mirror.alast >= mirror.aoffset
            /\ mirror.voffset >= 0 /\ mirror.aoffset >= 0
            /\ Within(mirror.vlast + d - mirror.alast - AudioFrame, restarts)
        BY <1>2, <3>3 DEF MirrorInv
      <4>2. Target(next) = 0 /\ sound = 0
        BY <1>1, <3>3, Targets
      <4>3. vo = mirror.vlast + d
        BY <2>1, <2>5, <4>1, <4>2 DEF Rebased
      <4>4. ao = mirror.alast + AudioFrame
        BY <1>1, <2>5, <4>1, <4>2 DEF Rebased
      <4>5. vo - ao = mirror.vlast + d - mirror.alast - AudioFrame
        BY <1>1, <2>1, <2>5, <4>3, <4>4
      <4> QED
        BY <1>1, <2>1, <2>5, <4>1, <4>3, <4>4, <4>5
    <3> QED
      BY <1>1, <3>1, <3>2, <3>3
  <2> HIDE DEF vo, ao
  <2> QED
    BY <2>4, <2>6
<1> QED
  BY <1>2, <1>3, <1>4

LEMMA RestartMirrored ==
  ASSUME Typed, MirrorTyped, MirrorInv, Restart
  PROVE  MirrorInv'
<1> SUFFICES ASSUME EveryPictureHasSound, mirror.unbroken
             PROVE  /\ Within(mirror.voffset - mirror.aoffset, restarts + 1)
                    /\ mirror.voffset >= 0 /\ mirror.aoffset >= 0
                    /\ ~mirror.on => mirror.voffset = 0 /\ mirror.aoffset = 0
                                       /\ mirror.vlast = -1 /\ mirror.alast = -1
                    /\ mirror.on =>
                         /\ mirror.vlast >= mirror.voffset /\ mirror.alast >= mirror.aoffset
                         /\ \A d \in Durations :
                              Within(mirror.vlast + d - mirror.alast - AudioFrame, restarts + 1)
  <2>1. mirror' = mirror /\ restarts' = restarts + 1 /\ next' = 0
    BY Zenon DEF Restart, Anew
  <2>2. ~(next' > 0)
    BY <2>1
  <2> QED
    BY <2>1, <2>2 DEF MirrorInv, EveryPictureHasSound
<1>1. /\ next \in Nat /\ sound \in Nat /\ restarts \in Nat /\ AudioFrame \in Nat \ {0}
      /\ sound <= Target(next) /\ Target(next) - sound < AudioFrame
      /\ mirror.voffset \in Int /\ mirror.aoffset \in Int
      /\ mirror.vlast \in Int /\ mirror.alast \in Int
  BY RatesAssumption DEF Typed, Counted, SoundCoversPicture, MirrorTyped, Mirrors
<1>2. Target(1) \in Nat /\ Target(1) >= AudioFrame /\ Target(next) \in Nat
  BY <1>1, Targets DEF EveryPictureHasSound
<1>3. Within(mirror.voffset - mirror.aoffset, restarts)
      /\ Within(mirror.voffset - mirror.aoffset, restarts + 1)
  <2>1. Within(mirror.voffset - mirror.aoffset, restarts)
    BY DEF MirrorInv
  <2>2. mirror.voffset - mirror.aoffset \in Int
    BY <1>1
  <2> QED
    BY <1>1, <2>1, <2>2, Wider, Zenon
<1>4. ASSUME mirror.on
      PROVE  /\ mirror.vlast >= mirror.voffset /\ mirror.alast >= mirror.aoffset
             /\ \A d \in Durations :
                  Within(mirror.vlast + d - mirror.alast - AudioFrame, restarts + 1)
  <2>1. CASE next > 0
    <3>1. /\ mirror.vlast = Target(next - 1) + mirror.voffset
          /\ mirror.alast = sound - AudioFrame + mirror.aoffset /\ sound >= AudioFrame
      BY <1>4, <2>1 DEF MirrorInv
    <3>2. /\ Target(next - 1) \in Nat /\ Target(next - 1) + Target(1) <= Target(next)
          /\ Target(next) <= Target(next - 1) + Target(1) + 1
      <4>1. next - 1 \in Nat /\ (next - 1) + 1 = next
        BY <1>1, <2>1
      <4> QED
        BY <4>1, Targets
    <3>3. ASSUME NEW d \in Durations
          PROVE  Within(mirror.vlast + d - mirror.alast - AudioFrame, restarts + 1)
      <4>1. d \in Nat /\ 1 <= d /\ d <= Target(1)
        BY <1>1, <1>2 DEF Durations
      <4> DEFINE e == Target(next - 1) + d - sound
      <4>2. e \in -Cut..Cut
        BY <1>1, <1>2, <3>2, <4>1 DEF Cut
      <4>3. mirror.vlast + d - mirror.alast - AudioFrame = (mirror.voffset - mirror.aoffset) + e
        BY <1>1, <3>1, <3>2, <4>1
      <4> HIDE DEF e
      <4>4. mirror.voffset - mirror.aoffset \in Int
        BY <1>1
      <4> QED
        BY <1>1, <1>3, <4>2, <4>3, <4>4, Wider
    <3> QED
      BY <1>1, <3>1, <3>2, <3>3
  <2>2. CASE next = 0
    <3>1. /\ mirror.vlast >= mirror.voffset /\ mirror.alast >= mirror.aoffset
          /\ \A d \in Durations :
               Within(mirror.vlast + d - mirror.alast - AudioFrame, restarts)
      BY <1>4, <2>2 DEF MirrorInv
    <3>2. \A d \in Durations : mirror.vlast + d - mirror.alast - AudioFrame \in Int
      BY <1>1, DurationsTyped
    <3> QED
      BY <1>1, <3>1, <3>2, Wider
  <2> QED
    BY <1>1, <2>1, <2>2
<1> QED
  BY <1>3, <1>4 DEF MirrorInv

LEMMA MirrorAlways == Spec => [](MirrorTyped /\ MirrorInv)
<1>1. Init => MirrorTyped /\ MirrorInv
  <2> SUFFICES ASSUME Init PROVE MirrorTyped /\ MirrorInv
    OBVIOUS
  <2>1. mirror = NoMirror /\ restarts = 0 /\ Within(0, 0)
    <3>1. Cut \in Nat
      BY Wider
    <3> QED
      BY <3>1 DEF Init, Within
  <2> QED
    BY <2>1 DEF NoMirror, MirrorTyped, Mirrors, MirrorInv
<1>2. MirrorTyped /\ MirrorInv /\ (Typed /\ Whose) /\ [Next]_vars => (MirrorTyped /\ MirrorInv)'
  <2> SUFFICES ASSUME MirrorTyped, MirrorInv, Typed, [Next]_vars
               PROVE  MirrorTyped' /\ MirrorInv'
    OBVIOUS
  <2>1. CASE Write
    <3>1. SoundDue \in Nat /\ mirror' \in Sent(SoundDue)
      BY <2>1, SoundIsDue DEF Write
    <3> QED
      BY <2>1, <3>1, SentIs, WriteMirrored
  <2>2. CASE Restart
    BY <2>2, RestartMirrored DEF Restart, MirrorTyped
  <2>3. CASE SourceSteps \/ UNCHANGED vars
    <3>1. UNCHANGED <<mirror, next, sound, restarts>>
      BY <2>3, ClockLeft, Zenon DEF vars
    <3> QED
      BY <3>1, Zenon DEF MirrorTyped, MirrorInv
  <2> QED
    BY <2>1, <2>2, <2>3, Steps
<1> QED
  BY <1>1, <1>2, TypedAndWhose, PTL DEF Spec

\* The RTMP stream stays in step for as long as its connection holds, for any rates at
\* which every picture has sound: within a muxer no time stamp goes back, so neither
\* offset moves, and after it both are moved on to after what was sent last; sound
\* and picture drift by what the last frame of sound lacked, at most once a muxer.
THEOREM TheMirrorStaysInStep == Spec => []MirrorInStep
<1>1. Typed /\ MirrorTyped /\ MirrorInv => MirrorInStep
  <2> SUFFICES ASSUME Typed, MirrorTyped, MirrorInv, EveryPictureHasSound, mirror.unbroken
               PROVE  mirror.voffset - mirror.aoffset
                        \in -restarts * (Target(1) + AudioFrame)
                            .. restarts * (Target(1) + AudioFrame)
    BY DEF MirrorInStep
  <2>1. restarts \in Nat /\ Cut \in Nat /\ mirror.voffset - mirror.aoffset \in Int
        /\ Within(mirror.voffset - mirror.aoffset, restarts)
    BY Wider DEF Typed, Counted, MirrorTyped, Mirrors, MirrorInv
  <2>2. -restarts * Cut = -(restarts * Cut) /\ restarts * Cut \in Int
    BY <2>1
  <2> QED
    BY <2>1, <2>2 DEF Within, Cut
<1> QED
  BY <1>1, MirrorAlways, TypedAndWhose, PTL

=============================================================================
