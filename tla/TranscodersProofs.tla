--------------------------- MODULE TranscodersProofs ---------------------------
(***************************************************************************)
(* Proofs about Transcoders, for any limits of the buffers and any number  *)
(* of exceptions.                                                          *)
(***************************************************************************)
EXTENDS Transcoders, SequenceTheorems, TLAPS

-----------------------------------------------------------------------------
(* The inductive invariant.                                                 *)

Makes(s) == s.name \in {"need", "file"}

\* An iteration makes one transcoder at most, and before it does every other has
\* been dropped or will have been.
MadeAlone ==
  \A i \in DOMAIN todo : Makes(todo[i]) =>
    /\ \A j \in DOMAIN todo : Makes(todo[j]) => j = i
    /\ \A k \in Transcoder :
         \/ k = todo[i].of
         \/ at[k] = "none"
         \/ \E j \in 1..(i - 1) : todo[j] = Step("drop", k)

\* Without a muxer, all that the worker does next is to drop what there is.
DropsFirst ==
  ~muxer => \A k \in Transcoder :
    \/ at[k] = "none"
    \/ \E i \in DOMAIN todo :
         /\ todo[i] = Step("drop", k)
         /\ \A j \in 1..(i - 1) : \E l \in Transcoder : todo[j] = Step("drop", l)

\* The muxer is closed where everything is dropped afterwards.
ClosesFirst == \A i \in DOMAIN todo : todo[i].name = "close" => todo \in {Recovery, Shutdown}

\* The thread of the capture's sound is joined before the capture ends.
SoundHasCapture == Alive("sound") => at["capture"] \in {"read", "join"}

\* Queued sound of a file or of a capture belongs to one that has begun.
SoundIsEnded ==
  muxer /\ fifo > 0 /\ owner \in {"video", "capture"} =>
    at[owner] \notin {"none", "open", "finished"}

-----------------------------------------------------------------------------
(* Types.                                                                   *)

Places == {"none", "open", "read", "picture", "sound", "room", "ending", "join", "finished"}
WorkSteps == [name : StepNames, of : Transcoder \cup {"none"}]

PlansTyped == todo \in Seq(WorkSteps)
ThreadsTyped ==
  /\ at \in [Thread -> Places]
  /\ halt \in [Transcoder -> BOOLEAN]
  /\ \A k \in Transcoder : halt[k] => at[k] # "none"
SinkTyped == fifo \in 0..FifoLimit /\ owner \in Transcoder \cup {"submitted"}
CountsTyped ==
  /\ queued \in 0..1 /\ buffer \in 0..BufferLimit /\ lead \in 0..MaxLead
  /\ throws \in 0..MaxThrows
FlagsTyped ==
  /\ mode \in Modes /\ seen \in Modes \cup {"left"}
  /\ stopping \in BOOLEAN /\ muxer \in BOOLEAN /\ ready \in BOOLEAN

LEMMA TypeParts ==
  TypeOK <=> PlansTyped /\ ThreadsTyped /\ SinkTyped /\ CountsTyped /\ FlagsTyped
BY DEF TypeOK, PlansTyped, ThreadsTyped, SinkTyped, CountsTyped, FlagsTyped, Places, WorkSteps

LEMMA TypePartsNext ==
  TypeOK' <=> PlansTyped' /\ ThreadsTyped' /\ SinkTyped' /\ CountsTyped' /\ FlagsTyped'
BY DEF TypeOK, PlansTyped, ThreadsTyped, SinkTyped, CountsTyped, FlagsTyped, Places, WorkSteps

-----------------------------------------------------------------------------
(* What the threads of the transcoders and the controlling thread leave     *)
(* alone.                                                                   *)

Threads == Live \/ Video \/ Capture \/ Sound

LEMMA Steps ==
  ASSUME [Next]_vars
  PROVE  Control \/ Threads \/ Worker \/ UNCHANGED vars
BY Zenon DEF Next, Threads

\* A thread ends, but does not come into being and does not go away.
LEMMA ThreadsLeave ==
  ASSUME ThreadsTyped, Threads
  PROVE  /\ UNCHANGED <<mode, stopping, queued, seen, todo, muxer, throws, halt>>
         /\ at' \in [Thread -> Places]
         /\ \A k \in Transcoder : (at'[k] = "none" <=> at[k] = "none") /\ (Alive(k)' => Alive(k))
<1> USE DEF pipeline, worker, Goto, ThreadsTyped, Places, Thread, Transcoder, Alive
<1>1. CASE Live
  BY <1>1 DEF Live, LiveReads, LiveFails, LiveEnds, LivePicture, LiveSound
<1>2. CASE Video
  BY <1>2 DEF Video, VideoOpens, VideoSeeks, VideoReads, VideoPicture, VideoSound, VideoEnds
<1>3. CASE Capture
  BY <1>3 DEF Capture, CaptureOpens, CapturePicture, CaptureStops, CaptureEnds
<1>4. CASE Sound
  BY <1>4 DEF Sound, SoundReads, SoundSubmits
<1> QED
  BY <1>1, <1>2, <1>3, <1>4 DEF Threads

LEMMA ControlLeaves ==
  ASSUME Control
  PROVE  UNCHANGED <<seen, todo, muxer, throws, at, halt, ready, buffer, fifo, owner, lead>>
BY Zenon DEF Control, SetMode, QueueInput, StopWorker, worker, sink

-----------------------------------------------------------------------------
(* The worker's lists.                                                      *)

LEMMA PlansAreTyped ==
  /\ \A m \in Modes : Iteration(m) \in Seq(WorkSteps)
  /\ Recovery \in Seq(WorkSteps) /\ Shutdown \in Seq(WorkSteps)
BY DEF Iteration, Recovery, Shutdown, WorkSteps, Step, Modes, Transcoder, StepNames

\* A step that is done leaves the rest of the list.
LEMMA RestIsTyped ==
  ASSUME PlansTyped, NEW name, NEW k, At(name, k)
  PROVE  Tail(todo) \in Seq(WorkSteps)
<1>1. todo # <<>>
  BY DEF At
<1> QED
  BY <1>1 DEF PlansTyped

LEMMA StepsAreTyped ==
  ASSUME NEW name \in StepNames, NEW k \in Transcoder \cup {"none"}
  PROVE  Step(name, k) \in WorkSteps
BY DEF Step, WorkSteps

LEMMA ShortPlans ==
  ASSUME NEW a \in WorkSteps, NEW b \in WorkSteps
  PROVE  <<>> \in Seq(WorkSteps) /\ <<a>> \in Seq(WorkSteps) /\ <<a, b>> \in Seq(WorkSteps)
OBVIOUS

LEMMA PlansTypedPreserved ==
  ASSUME TypeOK, [Next]_vars
  PROVE  PlansTyped'
<1> USE TypeParts DEF PlansTyped
<1>1. CASE Control
  BY <1>1, ControlLeaves
<1>2. CASE Threads
  BY <1>2, ThreadsLeave
<1>3. CASE Worker
  <2>1. CASE Snapshot
    BY <2>1, PlansAreTyped DEF Snapshot, FlagsTyped
  <2>2. CASE SameFile
    <3>1. PICK same \in BOOLEAN :
            todo' = (IF same THEN <<>> ELSE <<Step("drop", "video")>>)
                      \o <<Step("need", "video")>> \o Tail(todo)
      BY <2>2, Zenon DEF SameFile
    <3>2. Tail(todo) \in Seq(WorkSteps)
      BY <2>2 DEF SameFile, At
    <3>3. <<Step("need", "video")>> \in Seq(WorkSteps) /\ <<Step("drop", "video")>> \in Seq(WorkSteps)
      BY DEF WorkSteps, Step, StepNames, Transcoder
    <3> QED
      BY <3>1, <3>2, <3>3
  <2>3. CASE Throws
    BY <2>3, PlansAreTyped DEF Throws
  <2>4. CASE CheckLive
    <3> DEFINE Picture == Step("write", IF ready THEN "live" ELSE "none")
    <3>1. Picture \in WorkSteps /\ Step("drop", "live") \in WorkSteps
            /\ Step("append", "live") \in WorkSteps
      BY StepsAreTyped DEF StepNames, Transcoder
    <3>2. todo' \in {Shutdown, <<Picture, Step("drop", "live")>>,
                     <<Step("append", "live"), Picture>>, <<Picture>>}
      BY <2>4, Zenon DEF CheckLive
    <3> HIDE DEF Picture
    <3>3. {<<Picture, Step("drop", "live")>>, <<Step("append", "live"), Picture>>, <<Picture>>}
            \subseteq Seq(WorkSteps)
      BY <3>1, ShortPlans, Zenon
    <3> QED
      BY <3>2, <3>3, PlansAreTyped, Zenon
  <2>5. CASE AppendInput \/ CloseMuxer \/ Leave
    <3>1. todo' \in {Tail(todo), <<>>}
      BY <2>5, Zenon DEF AppendInput, CloseMuxer, Leave
    <3>2. Tail(todo) \in Seq(WorkSteps)
      BY <2>5, RestIsTyped, Zenon DEF AppendInput, CloseMuxer, Leave, PlansTyped
    <3>3. <<>> \in Seq(WorkSteps)
      OBVIOUS
    <3> QED
      BY <3>1, <3>2, <3>3, Zenon
  <2>6. ASSUME NEW k \in Transcoder, Drop(k) PROVE PlansTyped'
    <3>1. todo' \in {Tail(todo), todo} /\ At("drop", k)
      BY <2>6, Zenon DEF Drop
    <3> QED
      BY <3>1, RestIsTyped
  <2>7. ASSUME NEW k \in Transcoder, CheckFile(k) PROVE PlansTyped'
    <3>1. Step("drop", k) \in WorkSteps /\ Step("write", k) \in WorkSteps
      BY StepsAreTyped DEF StepNames
    <3>2. todo' \in {Shutdown, <<Step("drop", k)>>, <<Step("write", k)>>}
      BY <2>7, Zenon DEF CheckFile
    <3>3. {<<Step("drop", k)>>, <<Step("write", k)>>} \subseteq Seq(WorkSteps)
      BY <3>1, ShortPlans, Zenon
    <3> QED
      BY <3>2, <3>3, PlansAreTyped, Zenon
  <2>8. ASSUME NEW k \in Transcoder \cup {"none"}, Need(k) \/ Write(k) PROVE PlansTyped'
    <3>1. todo' = Tail(todo) /\ \E name : At(name, k)
      BY <2>8, Zenon DEF Need, Write
    <3> QED
      BY <3>1, RestIsTyped
  <2> QED
    BY <1>3, <2>1, <2>2, <2>3, <2>4, <2>5, <2>6, <2>7, <2>8 DEF Worker
<1>4. CASE UNCHANGED vars
  BY <1>4 DEF vars
<1> QED
  BY <1>1, <1>2, <1>3, <1>4, Steps

LEMMA ThreadsTypedPreserved ==
  ASSUME TypeOK, [Next]_vars
  PROVE  ThreadsTyped'
<1> USE TypeParts DEF ThreadsTyped
<1>1. CASE Control
  BY <1>1, ControlLeaves
<1>2. CASE Threads
  BY <1>2, ThreadsLeave
<1>3. CASE Worker
  <2>1. ASSUME NEW k \in Transcoder, Drop(k) PROVE ThreadsTyped'
    BY <2>1 DEF Drop, Alive, Places, Thread, Transcoder
  <2>2. ASSUME NEW k \in Transcoder \cup {"none"}, Need(k) PROVE ThreadsTyped'
    BY <2>2 DEF Need, Goto, Places, Thread, Transcoder
  <2>3. CASE UNCHANGED <<at, halt>>
    BY <2>3
  <2>4. (\E k \in Transcoder : Drop(k)) \/ (\E k \in Transcoder \cup {"none"} : Need(k))
           \/ UNCHANGED <<at, halt>>
    BY <1>3, Zenon DEF Worker, Snapshot, SameFile, Throws, CheckLive, AppendInput, CloseMuxer,
       Leave, CheckFile, Write
  <2> QED
    BY <2>1, <2>2, <2>3, <2>4
<1>4. CASE UNCHANGED vars
  BY <1>4 DEF vars
<1> QED
  BY <1>1, <1>2, <1>3, <1>4, Steps

\* What is submitted, whoever submits it: the sink gets a new owner with nothing
\* queued, or keeps its limit.
LEMMA SinkTypedPreserved ==
  ASSUME TypeOK, [Next]_vars
  PROVE  SinkTyped'
<1> USE TypeParts, LimitsAssumption
    DEF SinkTyped, sink, Begin, End, Submit, SubmitLate, SubmitOver, HasRoom, Transcoder
<1>1. CASE Control
  BY <1>1, ControlLeaves
<1>2. CASE Live
  BY <1>2 DEF Live, LiveReads, LiveFails, LiveEnds, LivePicture, LiveSound
<1>3. CASE Video
  BY <1>3 DEF Video, VideoOpens, VideoSeeks, VideoReads, VideoPicture, VideoSound, VideoEnds
<1>4. CASE Capture
  BY <1>4 DEF Capture, CaptureOpens, CapturePicture, CaptureStops, CaptureEnds
<1>5. CASE Sound
  BY <1>5 DEF Sound, SoundReads, SoundSubmits
<1>6. CASE Worker
  <2>1. ASSUME NEW k \in Transcoder \cup {"none"}, Need(k) PROVE SinkTyped'
    BY <2>1 DEF Need
  <2>2. ASSUME NEW k \in Transcoder \cup {"none"}, Write(k) PROVE SinkTyped'
    BY <2>2 DEF Write
  <2>3. CASE UNCHANGED sink
    BY <2>3
  <2>4. (\E k \in Transcoder \cup {"none"} : Need(k) \/ Write(k)) \/ UNCHANGED sink
    BY <1>6, Zenon DEF Worker, Snapshot, SameFile, Throws, CheckLive, AppendInput, CloseMuxer,
       Leave, CheckFile, Drop
  <2> QED
    BY <2>1, <2>2, <2>3, <2>4
<1>7. CASE UNCHANGED vars
  BY <1>7 DEF vars
<1> QED
  BY <1>1, <1>2, <1>3, <1>4, <1>5, <1>6, <1>7, Steps DEF Threads

LEMMA CountsTypedPreserved ==
  ASSUME TypeOK, [Next]_vars
  PROVE  CountsTyped'
<1> USE TypeParts, LimitsAssumption DEF CountsTyped
<1>1. CASE Control
  BY <1>1 DEF Control, SetMode, QueueInput, StopWorker, worker, sink
<1>2. CASE Live
  BY <1>2 DEF Live, LiveReads, LiveFails, LiveEnds, LivePicture, LiveSound, pipeline, worker
<1>3. CASE Video
  BY <1>3 DEF Video, VideoOpens, VideoSeeks, VideoReads, VideoPicture, VideoSound, VideoEnds,
     pipeline, worker
<1>4. CASE Capture \/ Sound
  BY <1>4, Zenon DEF Capture, CaptureOpens, CapturePicture, CaptureStops, CaptureEnds,
     Sound, SoundReads, SoundSubmits, pipeline, worker
<1>5. CASE Worker
  <2>1. queued' \in 0..1
    <3>1. queued' \in {queued, 0}
      BY <1>5, Zenon DEF Worker, Snapshot, SameFile, Throws, CheckLive, AppendInput, CloseMuxer,
         Leave, CheckFile, Drop, Need, Write, pipeline
    <3> QED
      BY <3>1
  <2>2. buffer' \in 0..BufferLimit
    <3>1. buffer' \in {buffer, 0} \/ AppendInput
      BY <1>5, Zenon DEF Worker, Snapshot, SameFile, Throws, CheckLive, CloseMuxer,
         Leave, CheckFile, Drop, Need, Write
    <3> QED
      BY <3>1 DEF AppendInput
  <2>3. lead' \in 0..MaxLead
    <3>1. lead' \in {lead, 0} \/ \E k \in Transcoder \cup {"none"} : Write(k)
      BY <1>5, Zenon DEF Worker, Snapshot, SameFile, Throws, CheckLive, AppendInput, CloseMuxer,
         Leave, CheckFile, Drop, Need
    <3> QED
      BY <3>1 DEF Write
  <2>4. throws' \in 0..MaxThrows
    <3>1. throws' = throws \/ Throws
      BY <1>5, Zenon DEF Worker, Snapshot, SameFile, CheckLive, AppendInput, CloseMuxer,
         Leave, CheckFile, Drop, Need, Write
    <3> QED
      BY <3>1 DEF Throws
  <2> QED
    BY <2>1, <2>2, <2>3, <2>4
<1>6. CASE UNCHANGED vars
  BY <1>6 DEF vars
<1> QED
  BY <1>1, <1>2, <1>3, <1>4, <1>5, <1>6, Steps DEF Threads

LEMMA FlagsTypedPreserved ==
  ASSUME TypeOK, [Next]_vars
  PROVE  FlagsTyped'
<1>1. mode' \in Modes /\ seen' \in Modes \cup {"left"}
  <2> USE TypeParts DEF FlagsTyped, Modes
  <2>1. CASE Control
    BY <2>1 DEF Control, SetMode, QueueInput, StopWorker, worker
  <2>2. CASE Threads
    BY <2>2, ThreadsLeave
  <2>3. CASE Worker
    BY <2>3 DEF Worker, Snapshot, SameFile, Throws, CheckLive, AppendInput, CloseMuxer,
       Leave, CheckFile, Write, Drop, Need, pipeline
  <2>4. CASE UNCHANGED vars
    BY <2>4 DEF vars
  <2> QED
    BY <2>1, <2>2, <2>3, <2>4, Steps
<1>2. stopping' \in BOOLEAN
  BY TypeParts, ThreadsLeave, Steps, Zenon
  DEF FlagsTyped, Control, SetMode, QueueInput, StopWorker, Worker, Snapshot, SameFile, Throws,
      CheckLive, AppendInput, CloseMuxer, Leave, CheckFile, Write, Drop, Need, pipeline, vars
<1>3. muxer' \in BOOLEAN
  BY TypeParts, ThreadsLeave, Steps, Zenon
  DEF FlagsTyped, Control, SetMode, QueueInput, StopWorker, Worker, Snapshot, SameFile, Throws,
      CheckLive, AppendInput, CloseMuxer, Leave, CheckFile, Write, Drop, Need, worker, vars
<1>4. ready' \in BOOLEAN
  <2>1. CASE Control
    BY <2>1, ControlLeaves, TypeParts, Zenon DEF FlagsTyped
  <2>2. CASE Threads
    BY <2>2, TypeParts, Zenon
    DEF FlagsTyped, Threads, Live, LiveReads, LiveFails, LiveEnds, LivePicture, LiveSound,
        Video, VideoOpens, VideoSeeks, VideoReads, VideoPicture, VideoSound, VideoEnds,
        Capture, CaptureOpens, CapturePicture, CaptureStops, CaptureEnds,
        Sound, SoundReads, SoundSubmits
  <2>3. CASE Worker
    BY <2>3, TypeParts, Zenon
    DEF FlagsTyped, Worker, Snapshot, SameFile, Throws, CheckLive, AppendInput, CloseMuxer,
        Leave, CheckFile, Write, Drop, Need
  <2>4. CASE UNCHANGED vars
    BY <2>4, TypeParts, Zenon DEF FlagsTyped, vars
  <2> QED
    BY <2>1, <2>2, <2>3, <2>4, Steps
<1> QED
  BY <1>1, <1>2, <1>3, <1>4, Zenon DEF FlagsTyped

\* Every variable keeps its type: no buffer between the threads exceeds its limit and
\* nobody is told to stop who is not there, whatever interleaves.
THEOREM TypeCorrect == Spec => []TypeOK
<1>1. Init => TypeOK
  <2> SUFFICES ASSUME Init PROVE PlansTyped /\ ThreadsTyped /\ SinkTyped /\ CountsTyped /\ FlagsTyped
    BY TypeParts
  <2>1. PlansTyped /\ ThreadsTyped /\ SinkTyped /\ CountsTyped
    BY LimitsAssumption DEF Init, PlansTyped, ThreadsTyped, SinkTyped, CountsTyped, Places
  <2>2. FlagsTyped
    BY Zenon DEF Init, FlagsTyped, Modes
  <2> QED
    BY <2>1, <2>2
<1>2. TypeOK /\ [Next]_vars => TypeOK'
  BY TypePartsNext, PlansTypedPreserved, ThreadsTypedPreserved, SinkTypedPreserved,
     CountsTypedPreserved, FlagsTypedPreserved
<1> QED
  BY <1>1, <1>2, PTL DEF Spec

-----------------------------------------------------------------------------
(* One producer.                                                            *)

LEMMA TailPositions ==
  ASSUME PlansTyped, todo # <<>>, todo' = Tail(todo)
  PROVE  \A i \in DOMAIN todo' : i + 1 \in DOMAIN todo /\ todo'[i] = todo[i + 1]
BY DEF PlansTyped

LEMMA AloneInTheRest ==
  ASSUME PlansTyped, MadeAlone, todo # <<>>, todo' = Tail(todo),
         \A k \in Transcoder : at[k] = "none" => at'[k] = "none",
         \A k \in Transcoder : Head(todo) = Step("drop", k) => at'[k] = "none"
  PROVE  MadeAlone'
<1> SUFFICES ASSUME NEW i \in DOMAIN todo', Makes(todo'[i])
             PROVE  /\ \A j \in DOMAIN todo' : Makes(todo'[j]) => j = i
                    /\ \A k \in Transcoder :
                         \/ k = todo'[i].of
                         \/ at'[k] = "none"
                         \/ \E j \in 1..(i - 1) : todo'[j] = Step("drop", k)
  BY Zenon DEF MadeAlone, Makes
<1>1. i + 1 \in DOMAIN todo /\ todo'[i] = todo[i + 1] /\ i \in Nat \ {0}
  BY TailPositions DEF PlansTyped
<1>2. \A j \in DOMAIN todo' : Makes(todo'[j]) => j = i
  BY <1>1, TailPositions DEF MadeAlone, PlansTyped
<1>3. ASSUME NEW k \in Transcoder, k # todo'[i].of, at'[k] # "none"
      PROVE  \E j \in 1..(i - 1) : todo'[j] = Step("drop", k)
  <2>1. PICK j \in 1..i : todo[j] = Step("drop", k)
    BY <1>1, <1>3 DEF MadeAlone
  <2>2. j # 1
    BY <1>3, <2>1 DEF PlansTyped
  <2>3. j - 1 \in 1..(i - 1) /\ j - 1 \in DOMAIN todo' /\ (j - 1) + 1 = j
    BY <1>1, <2>1, <2>2 DEF PlansTyped
  <2> QED
    BY <2>1, <2>3, TailPositions
<1> QED
  BY <1>2, <1>3

\* Lists that make nothing.
LEMMA PlansThatMakeNothing ==
  ASSUME PlansTyped,
         todo' \in {Recovery, Shutdown, <<>>}
           \/ \E a, b : todo' \in {<<a>>, <<a, b>>} /\ ~Makes(a) /\ ~Makes(b)
  PROVE  MadeAlone'
<1> SUFFICES \A i \in DOMAIN todo' : ~Makes(todo'[i])
  BY Zenon DEF MadeAlone, Makes
<1>1. CASE todo' \in {Recovery, Shutdown, <<>>}
  BY <1>1 DEF Recovery, Shutdown, Step, Makes
<1>2. CASE \E a, b : todo' \in {<<a>>, <<a, b>>} /\ ~Makes(a) /\ ~Makes(b)
  BY <1>2
<1> QED
  BY <1>1, <1>2

LEMMA IterationsMakeAlone ==
  ASSUME NEW m \in Modes, todo' = Iteration(m)
  PROVE  MadeAlone'
<1> USE DEF Step, Makes, MadeAlone, Transcoder
<1>1. CASE m = "idle"
  BY <1>1 DEF Iteration
<1>2. CASE m = "fallback"
  BY <1>2 DEF Iteration
<1>3. CASE m = "fallbackVideo"
  BY <1>3 DEF Iteration
<1>4. CASE m = "analogue"
  BY <1>4 DEF Iteration
<1>5. CASE m = "retransmit"
  BY <1>5 DEF Iteration
<1> QED
  BY <1>1, <1>2, <1>3, <1>4, <1>5 DEF Modes

\* Nobody comes into being but by the worker's making it.
LEMMA WorkerMakes ==
  ASSUME ThreadsTyped, Worker, ~\E k \in Transcoder \cup {"none"} : Need(k)
  PROVE  \A k \in Transcoder : (at[k] = "none" => at'[k] = "none") /\ (Alive(k)' => Alive(k))
<1>1. ASSUME NEW k \in Transcoder, Drop(k) PROVE \A l \in Transcoder : at'[l] \in {at[l], "none"}
  BY <1>1 DEF Drop, ThreadsTyped, Thread, Transcoder
<1>2. (\E k \in Transcoder : Drop(k)) \/ UNCHANGED at
  BY Zenon DEF Worker, Snapshot, SameFile, Throws, CheckLive, AppendInput, CloseMuxer,
     Leave, CheckFile, Write
<1> QED
  BY <1>1, <1>2 DEF Alive

\* Whoever is made next is made alone.
LEMMA NextIsAlone ==
  ASSUME PlansTyped, MadeAlone, NEW name \in {"need", "file"}, NEW k, At(name, k)
  PROVE  /\ \A l \in Transcoder : l = k \/ at[l] = "none"
         /\ \A i \in DOMAIN Tail(todo) : ~Makes(Tail(todo)[i])
<1>1. todo # <<>> /\ 1 \in DOMAIN todo /\ todo[1] = Step(name, k)
  BY DEF At, PlansTyped
<1>2. Makes(todo[1]) /\ todo[1].of = k
  BY <1>1 DEF Makes, Step
<1>3. \A l \in Transcoder : l = k \/ at[l] = "none"
  BY <1>1, <1>2 DEF MadeAlone
<1>4. ASSUME NEW i \in DOMAIN Tail(todo) PROVE ~Makes(Tail(todo)[i])
  <2>1. i + 1 \in DOMAIN todo /\ Tail(todo)[i] = todo[i + 1] /\ i + 1 # 1
    BY <1>1 DEF PlansTyped
  <2> QED
    BY <1>1, <1>2, <2>1 DEF MadeAlone
<1> QED
  BY <1>3, <1>4

LEMMA MadeAlonePreserved ==
  ASSUME TypeOK, MadeAlone, [Next]_vars
  PROVE  MadeAlone'
<1> USE TypeParts
<1>1. CASE Control \/ UNCHANGED vars
  <2>1. UNCHANGED <<todo, at>>
    BY <1>1, ControlLeaves, Zenon DEF vars
  <2> QED
    BY <2>1, Zenon DEF MadeAlone, Makes
<1>2. CASE Threads
  BY <1>2, ThreadsLeave DEF MadeAlone, Makes
<1>3. CASE Worker
  <2>1. CASE Snapshot
    <3>1. todo' = Shutdown \/ (todo' = Iteration(mode) /\ mode \in Modes)
      BY <2>1, Zenon DEF Snapshot, FlagsTyped
    <3> QED
      BY <3>1, IterationsMakeAlone, PlansThatMakeNothing
  <2>2. CASE SameFile
    <3>1. PICK same \in BOOLEAN :
            todo' = (IF same THEN <<>> ELSE <<Step("drop", "video")>>)
                      \o <<Step("need", "video")>> \o Tail(todo)
      BY <2>2, Zenon DEF SameFile
    <3>2. todo # <<>> /\ todo[1] = Step("file", "video") /\ at' = at
      BY <2>2 DEF SameFile, At, PlansTyped
    <3>3. \A k \in Transcoder : k = "video" \/ at[k] = "none"
      BY <2>2, NextIsAlone DEF SameFile
    <3>4. \A i \in DOMAIN Tail(todo) : ~Makes(Tail(todo)[i])
      BY <2>2, NextIsAlone DEF SameFile
    <3>5. \A i \in DOMAIN todo' : Makes(todo'[i]) =>
            i = (IF same THEN 1 ELSE 2) /\ todo'[i] = Step("need", "video")
      BY <3>1, <3>2, <3>4 DEF Makes, Step, PlansTyped
    <3> QED
      BY <3>2, <3>3, <3>5 DEF MadeAlone, Makes, Step
  <2>3. CASE Throws
    BY <2>3, PlansThatMakeNothing DEF Throws
  <2>4. CASE CheckLive
    <3>1. todo' \in {Shutdown, <<>>} \/ \E a, b : todo' \in {<<a>>, <<a, b>>} /\ ~Makes(a) /\ ~Makes(b)
      <4> DEFINE Picture == Step("write", IF ready THEN "live" ELSE "none")
      <4>1. ~Makes(Picture) /\ ~Makes(Step("drop", "live")) /\ ~Makes(Step("append", "live"))
        BY DEF Makes, Step
      <4>2. todo' \in {Shutdown, <<Picture, Step("drop", "live")>>,
                       <<Step("append", "live"), Picture>>, <<Picture>>}
        BY <2>4, Zenon DEF CheckLive
      <4> HIDE DEF Picture
      <4> QED
        BY <4>1, <4>2, Zenon
    <3> QED
      BY <3>1, PlansThatMakeNothing
  <2>5. ASSUME NEW k \in Transcoder, CheckFile(k) PROVE MadeAlone'
    <3>1. ~Makes(Step("drop", k)) /\ ~Makes(Step("write", k))
      BY DEF Makes, Step
    <3>2. todo' \in {Shutdown, <<Step("drop", k)>>, <<Step("write", k)>>}
      BY <2>5, Zenon DEF CheckFile
    <3> QED
      BY <3>1, <3>2, PlansThatMakeNothing, Zenon
  <2>6. ASSUME NEW k \in Transcoder \cup {"none"}, Need(k) PROVE MadeAlone'
    <3>1. \A i \in DOMAIN todo' : ~Makes(todo'[i])
      BY <2>6, NextIsAlone DEF Need
    <3> QED
      BY <3>1, Zenon DEF MadeAlone, Makes
  <2>7. CASE AppendInput \/ CloseMuxer \/ Leave \/ \E k \in Transcoder \cup {"none"} : Write(k)
    <3>1. todo # <<>> /\ at' = at /\ todo' \in {Tail(todo), <<>>}
      BY <2>7, Zenon DEF AppendInput, CloseMuxer, Leave, Write, At
    <3>2. Head(todo).name # "drop"
      BY <2>7 DEF AppendInput, CloseMuxer, Leave, Write, At, Step
    <3>3. \A k \in Transcoder : Head(todo) # Step("drop", k)
      BY <3>2 DEF Step
    <3> QED
      BY <3>1, <3>3, AloneInTheRest, PlansThatMakeNothing
  <2>8. ASSUME NEW k \in Transcoder, Drop(k) PROVE MadeAlone'
    <3>1. todo # <<>> /\ Head(todo) = Step("drop", k)
      BY <2>8 DEF Drop, At
    <3>2. \A l \in Transcoder : at[l] = "none" => at'[l] = "none"
      BY <2>8 DEF Drop, ThreadsTyped, Thread, Transcoder
    <3>3. CASE todo' = todo
      BY <3>2, <3>3 DEF MadeAlone, Makes
    <3>4. CASE todo' = Tail(todo) /\ todo' # todo
      <4>1. at'[k] = "none"
        BY <2>8, <3>4 DEF Drop, ThreadsTyped, Thread
      <4>2. \A l \in Transcoder : Head(todo) = Step("drop", l) => l = k
        BY <3>1 DEF Step
      <4> QED
        BY <3>1, <3>2, <3>4, <4>1, <4>2, AloneInTheRest
    <3> QED
      BY <2>8, <3>3, <3>4 DEF Drop
  <2> QED
    BY <1>3, <2>1, <2>2, <2>3, <2>4, <2>5, <2>6, <2>7, <2>8, Zenon DEF Worker
<1> QED
  BY <1>1, <1>2, <1>3, Steps

LEMMA OneProducerPreserved ==
  ASSUME TypeOK, MadeAlone, OneProducer, [Next]_vars
  PROVE  OneProducer'
<1> USE TypeParts DEF OneProducer
<1>1. CASE Control \/ UNCHANGED vars
  BY <1>1, ControlLeaves DEF vars, Alive
<1>2. CASE Threads
  BY <1>2, ThreadsLeave
<1>3. ASSUME NEW k \in Transcoder \cup {"none"}, Need(k) PROVE OneProducer'
  <2>1. \A l \in Transcoder : l = k \/ at[l] = "none"
    BY <1>3, NextIsAlone DEF Need
  <2>2. \A l \in Transcoder : l = k \/ at'[l] = "none"
    BY <1>3, <2>1 DEF Need, Goto, ThreadsTyped, Thread
  <2> QED
    BY <2>2 DEF Alive
<1>4. CASE Worker /\ ~\E k \in Transcoder \cup {"none"} : Need(k)
  BY <1>4, WorkerMakes
<1> QED
  BY <1>1, <1>2, <1>3, <1>4, Steps

\* Two sources never submit to the muxer together: however the modes change while the
\* worker carries out an iteration, and wherever an exception ends it, the old transcoder
\* is joined before the new one is made.
THEOREM ProducersAreExclusive == Spec => []OneProducer
<1>1. Init => MadeAlone /\ OneProducer
  BY DEF Init, MadeAlone, OneProducer, Alive, Thread, Transcoder
<1>2. TypeOK /\ MadeAlone /\ OneProducer /\ [Next]_vars => MadeAlone' /\ OneProducer'
  BY MadeAlonePreserved, OneProducerPreserved
<1> QED
  BY <1>1, <1>2, TypeCorrect, PTL DEF Spec

-----------------------------------------------------------------------------
(* The muxer outlives its sources.                                          *)

LEMMA ClosesFirstPreserved ==
  ASSUME TypeOK, ClosesFirst, [Next]_vars
  PROVE  ClosesFirst'
<1> USE TypeParts
<1>1. CASE UNCHANGED todo
  BY <1>1, Zenon DEF ClosesFirst
<1>2. CASE todo # <<>> /\ todo' = Tail(todo)
  \* What follows a first step that closes does not close.
  <2>1. \A i \in DOMAIN todo' : todo'[i].name # "close"
    <3> SUFFICES ASSUME NEW i \in DOMAIN todo', todo'[i].name = "close" PROVE FALSE
      OBVIOUS
    <3>1. i + 1 \in DOMAIN todo /\ todo'[i] = todo[i + 1] /\ i \in Nat \ {0}
      BY <1>2, TailPositions DEF PlansTyped
    <3>2. todo \in {Recovery, Shutdown}
      BY <3>1 DEF ClosesFirst
    <3> QED
      BY <3>1, <3>2 DEF Recovery, Shutdown, Step
  <2> QED
    BY <2>1, Zenon DEF ClosesFirst
<1>3. CASE Snapshot
  <2>1. todo' = Shutdown \/ (todo' = Iteration(mode) /\ mode \in Modes)
    BY <1>3, Zenon DEF Snapshot, FlagsTyped
  <2>2. \A m \in Modes \ {"idle"} : \A i \in DOMAIN Iteration(m) : Iteration(m)[i].name # "close"
    BY DEF Iteration, Step, Modes
  <2>3. Iteration("idle") = Recovery
    BY DEF Iteration, Recovery
  <2> QED
    BY <2>1, <2>2, <2>3 DEF ClosesFirst
<1>4. CASE SameFile
  <2>1. PICK same \in BOOLEAN :
          todo' = (IF same THEN <<>> ELSE <<Step("drop", "video")>>)
                    \o <<Step("need", "video")>> \o Tail(todo)
    BY <1>4, Zenon DEF SameFile
  <2>2. todo # <<>> /\ todo[1].name = "file"
    BY <1>4 DEF SameFile, At, Step, PlansTyped
  <2>3. \A i \in DOMAIN todo : todo[i].name # "close"
    BY <2>2 DEF ClosesFirst, Recovery, Shutdown, Step
  <2>4. \A i \in DOMAIN Tail(todo) : Tail(todo)[i].name # "close"
    BY <2>2, <2>3 DEF PlansTyped
  <2>5. \A i \in DOMAIN todo' : todo'[i].name # "close"
    BY <2>1, <2>2, <2>4 DEF Step, PlansTyped
  <2> QED
    BY <2>5, Zenon DEF ClosesFirst
<1>5. CASE todo' \in {Recovery, Shutdown}
  BY <1>5, Zenon DEF ClosesFirst, Recovery, Shutdown
<1>6. CASE \E a, b : todo' \in {<<>>, <<a>>, <<a, b>>} /\ a.name # "close" /\ b.name # "close"
  BY <1>6 DEF ClosesFirst
<1>7. CASE CheckLive
  <2> DEFINE Picture == Step("write", IF ready THEN "live" ELSE "none")
  <2>1. /\ Picture.name # "close" /\ Step("drop", "live").name # "close"
        /\ Step("append", "live").name # "close"
    BY DEF Step
  <2>2. todo' \in {Shutdown, <<Picture, Step("drop", "live")>>,
                   <<Step("append", "live"), Picture>>, <<Picture>>}
    BY <1>7, Zenon DEF CheckLive
  <2> HIDE DEF Picture
  <2> QED
    BY <1>5, <1>6, <2>1, <2>2, Zenon
<1>8. ASSUME NEW k \in Transcoder, CheckFile(k) PROVE ClosesFirst'
  <2>1. Step("drop", k).name # "close" /\ Step("write", k).name # "close"
    BY DEF Step
  <2>2. todo' \in {Shutdown, <<Step("drop", k)>>, <<Step("write", k)>>}
    BY <1>8, Zenon DEF CheckFile
  <2> QED
    BY <1>5, <1>6, <2>1, <2>2, Zenon
<1>9. CASE Leave
  BY <1>9 DEF Leave, ClosesFirst
<1>10. CASE Worker
  BY <1>1, <1>2, <1>3, <1>4, <1>5, <1>7, <1>8, <1>9, <1>10, Zenon
  DEF Worker, Throws, AppendInput, CloseMuxer, Drop, Need, Write, At
<1>11. CASE Control \/ Threads \/ UNCHANGED vars
  BY <1>1, <1>11, ControlLeaves, ThreadsLeave, Zenon DEF vars
<1> QED
  BY <1>10, <1>11, Steps, Zenon

\* While there is no muxer, the worker either drops or there is nobody.
LEMMA NobodyWithoutMuxer ==
  ASSUME DropsFirst, ~muxer, PlansTyped,
         todo = <<>> \/ \A l \in Transcoder : Head(todo) # Step("drop", l)
  PROVE  \A k \in Transcoder : at[k] = "none"
<1> SUFFICES ASSUME NEW k \in Transcoder, at[k] # "none" PROVE FALSE
  OBVIOUS
<1>1. PICK i \in DOMAIN todo : /\ todo[i] = Step("drop", k)
                               /\ \A j \in 1..(i - 1) : \E l \in Transcoder : todo[j] = Step("drop", l)
  BY DEF DropsFirst
<1>2. todo # <<>> /\ 1 \in DOMAIN todo /\ Head(todo) = todo[1] /\ (i = 1 \/ 1 \in 1..(i - 1))
  BY <1>1 DEF PlansTyped
<1> QED
  BY <1>1, <1>2

LEMMA DropsFirstPreserved ==
  ASSUME TypeOK, ClosesFirst, DropsFirst, [Next]_vars
  PROVE  DropsFirst'
<1> USE TypeParts
<1>1. CASE Control \/ UNCHANGED vars
  <2>1. UNCHANGED <<todo, at, muxer>>
    BY <1>1, ControlLeaves, Zenon DEF vars
  <2> QED
    BY <2>1, Zenon DEF DropsFirst
<1>2. CASE Threads
  BY <1>2, ThreadsLeave DEF DropsFirst
<1>3. CASE CloseMuxer
  <2>1. todo[1].name = "close" /\ 1 \in DOMAIN todo /\ todo' = Tail(todo)
    BY <1>3 DEF CloseMuxer, At, Step, PlansTyped
  <2>2. todo \in {Recovery, Shutdown}
    BY <2>1 DEF ClosesFirst
  <2>3. /\ {1, 2, 3} \subseteq DOMAIN todo'
        /\ todo'[1] = Step("drop", "live") /\ todo'[2] = Step("drop", "video")
        /\ todo'[3] = Step("drop", "capture")
    <3>1. /\ Len(todo) >= 4
          /\ todo[2] = Step("drop", "live") /\ todo[3] = Step("drop", "video")
          /\ todo[4] = Step("drop", "capture")
      BY <2>2 DEF Recovery, Shutdown
    <3> QED
      BY <2>1, <3>1 DEF PlansTyped
  <2> QED
    BY <2>3 DEF DropsFirst, Transcoder
<1>4. ASSUME NEW k \in Transcoder \cup {"none"}, Need(k) PROVE DropsFirst'
  BY <1>4, Zenon DEF Need, DropsFirst
<1>5. ASSUME NEW k \in Transcoder, Drop(k) PROVE DropsFirst'
  <2>1. todo # <<>> /\ Head(todo) = Step("drop", k) /\ muxer' = muxer
    BY <1>5 DEF Drop, At
  <2>2. \A l \in Transcoder : at[l] = "none" => at'[l] = "none"
    BY <1>5 DEF Drop, ThreadsTyped, Thread, Transcoder
  <2>3. CASE todo' = todo
    BY <2>1, <2>2, <2>3 DEF DropsFirst
  <2>4. CASE todo' = Tail(todo) /\ todo' # todo
    <3>1. at'[k] = "none"
      BY <1>5, <2>4 DEF Drop, ThreadsTyped, Thread
    <3> SUFFICES ASSUME ~muxer, NEW l \in Transcoder, at'[l] # "none"
                 PROVE \E i \in DOMAIN todo' :
                         /\ todo'[i] = Step("drop", l)
                         /\ \A j \in 1..(i - 1) : \E m \in Transcoder : todo'[j] = Step("drop", m)
      BY <2>1 DEF DropsFirst
    <3>2. PICK i \in DOMAIN todo :
            /\ todo[i] = Step("drop", l)
            /\ \A j \in 1..(i - 1) : \E m \in Transcoder : todo[j] = Step("drop", m)
      BY <2>2 DEF DropsFirst
    <3>3. l # k /\ Step("drop", l) # Step("drop", k)
      BY <3>1 DEF Step
    <3>4. i - 1 \in DOMAIN todo' /\ todo'[i - 1] = todo[i]
      BY <2>1, <2>4, <3>2, <3>3 DEF PlansTyped
    <3>5. \A j \in 1..((i - 1) - 1) : todo'[j] = todo[j + 1] /\ j + 1 \in 1..(i - 1)
      BY <2>1, <2>4, <3>2 DEF PlansTyped
    <3>6. todo'[i - 1] = Step("drop", l)
      BY <3>2, <3>4
    <3>7. \A j \in 1..((i - 1) - 1) : \E m \in Transcoder : todo'[j] = Step("drop", m)
      BY <3>2, <3>5
    <3> QED
      BY <3>4, <3>6, <3>7, Zenon
  <2> QED
    BY <1>5, <2>3, <2>4 DEF Drop
<1>6. CASE Worker /\ ~CloseMuxer /\ ~(\E k \in Transcoder \cup {"none"} : Need(k))
             /\ ~\E k \in Transcoder : Drop(k)
  <2>1. muxer' = muxer /\ at' = at
    BY <1>6, Zenon DEF Worker, Snapshot, SameFile, Throws, CheckLive, AppendInput, Leave,
       CheckFile, Write
  <2>2. todo = <<>> \/ \A l \in Transcoder : Head(todo) # Step("drop", l)
    <3>1. CASE Snapshot
      BY <3>1 DEF Snapshot
    <3>2. CASE \E name \in StepNames \ {"drop"}, k \in Transcoder \cup {"none"} : At(name, k)
      BY <3>2 DEF At, Step
    <3>3. CASE Throws
      BY <3>3 DEF Throws, Step
    <3> QED
      BY <1>6, <3>1, <3>2, <3>3 DEF Worker, SameFile, CheckLive, AppendInput, Leave,
         CheckFile, Write, StepNames, Transcoder
  <2> QED
    BY <2>1, <2>2, NobodyWithoutMuxer DEF DropsFirst
<1> QED
  BY <1>1, <1>2, <1>3, <1>4, <1>5, <1>6, Steps, Zenon DEF Worker

\* Outside the three sequences in which the worker has closed the muxer and is about to
\* drop whatever there is, no transcoder is alive without a muxer to submit to.
THEOREM TheMuxerOutlivesSources == Spec => []SinkOutlivesSources
<1>1. Init => ClosesFirst /\ DropsFirst
  BY DEF Init, ClosesFirst, DropsFirst, Thread, Transcoder
<1>2. TypeOK /\ ClosesFirst /\ DropsFirst /\ [Next]_vars => ClosesFirst' /\ DropsFirst'
  BY ClosesFirstPreserved, DropsFirstPreserved
<1>3. TypeOK /\ DropsFirst => SinkOutlivesSources
  <2> SUFFICES ASSUME TypeOK, DropsFirst, ~muxer, ~Closing
               PROVE  \A k \in Transcoder : ~Alive(k)
    BY Zenon DEF SinkOutlivesSources
  <2>1. todo = <<>> \/ \A l \in Transcoder : Head(todo) # Step("drop", l)
    BY TypeParts DEF Closing, PlansTyped
  <2> QED
    BY <2>1, NobodyWithoutMuxer, TypeParts DEF Alive
<1> QED
  BY <1>1, <1>2, <1>3, TypeCorrect, PTL DEF Spec

-----------------------------------------------------------------------------
(* Sound has an owner.                                                      *)

LEMMA SoundHasCapturePreserved ==
  ASSUME TypeOK, SoundHasCapture, [Next]_vars
  PROVE  SoundHasCapture'
<1> USE TypeParts DEF SoundHasCapture, Alive, ThreadsTyped, Thread, Transcoder, Goto
<1>1. CASE Control \/ UNCHANGED vars
  BY <1>1, ControlLeaves DEF vars
<1>2. CASE Live
  BY <1>2 DEF Live, LiveReads, LiveFails, LiveEnds, LivePicture, LiveSound
<1>3. CASE Video
  BY <1>3 DEF Video, VideoOpens, VideoSeeks, VideoReads, VideoPicture, VideoSound, VideoEnds
<1>4. CASE Capture
  BY <1>4 DEF Capture, CaptureOpens, CapturePicture, CaptureStops, CaptureEnds
<1>5. CASE Sound
  BY <1>5 DEF Sound, SoundReads, SoundSubmits
<1>6. ASSUME NEW k \in Transcoder, Drop(k) PROVE SoundHasCapture'
  BY <1>6 DEF Drop
<1>7. ASSUME NEW k \in Transcoder \cup {"none"}, Need(k) PROVE SoundHasCapture'
  BY <1>7 DEF Need
<1>8. CASE UNCHANGED at
  BY <1>8
<1>9. CASE Worker
  BY <1>6, <1>7, <1>8, <1>9, Zenon DEF Worker, Snapshot, SameFile, Throws, CheckLive, AppendInput,
     CloseMuxer, Leave, CheckFile, Write
<1> QED
  BY <1>1, <1>2, <1>3, <1>4, <1>5, <1>9, Steps, Zenon DEF Threads

LEMMA SoundIsEndedPreserved ==
  ASSUME TypeOK, SoundHasCapture, SoundIsEnded, [Next]_vars
  PROVE  SoundIsEnded'
<1> USE TypeParts DEF SoundIsEnded, SinkTyped, ThreadsTyped, Thread, Transcoder, Goto,
      sink, Begin, End, Submit, SubmitLate, SubmitOver, HasRoom, worker
<1>1. CASE Control \/ UNCHANGED vars
  BY <1>1, ControlLeaves DEF vars
<1>2. CASE Live
  BY <1>2 DEF Live, LiveReads, LiveFails, LiveEnds, LivePicture, LiveSound
<1>3. CASE Video
  BY <1>3 DEF Video, VideoOpens, VideoSeeks, VideoReads, VideoPicture, VideoSound, VideoEnds
<1>4. CASE Capture
  BY <1>4 DEF Capture, CaptureOpens, CapturePicture, CaptureStops, CaptureEnds
<1>5. CASE Sound
  BY <1>5 DEF Sound, SoundReads, SoundSubmits, SoundHasCapture, Alive
<1>6. ASSUME NEW k \in Transcoder, Drop(k) PROVE SoundIsEnded'
  BY <1>6 DEF Drop
<1>7. ASSUME NEW k \in Transcoder \cup {"none"}, Need(k) PROVE SoundIsEnded'
  BY <1>7 DEF Need
<1>8. ASSUME NEW k \in Transcoder \cup {"none"}, Write(k) PROVE SoundIsEnded'
  BY <1>8 DEF Write
<1>9. CASE UNCHANGED <<at, sink>> /\ (muxer' => muxer)
  BY <1>9
<1>10. CASE Worker
  BY <1>6, <1>7, <1>8, <1>9, <1>10, Zenon DEF Worker, Snapshot, SameFile, Throws, CheckLive,
     AppendInput, CloseMuxer, Leave, CheckFile
<1> QED
  BY <1>1, <1>2, <1>3, <1>4, <1>5, <1>10, Steps, Zenon DEF Threads

\* Sound that waits in a muxer, and is a file's or a capture's, is of one that is still
\* there, for any length of the queues: the capture's second thread, too, is joined
\* before the source ends, and a source that could not be opened has left nothing.
THEOREM SoundIsOwned == Spec => []SoundHasOwner
<1>1. Init => SoundHasCapture /\ SoundIsEnded
  BY DEF Init, SoundHasCapture, SoundIsEnded, Alive, Thread, Transcoder
<1>2. TypeOK /\ SoundHasCapture /\ SoundIsEnded /\ [Next]_vars => SoundHasCapture' /\ SoundIsEnded'
  BY SoundHasCapturePreserved, SoundIsEndedPreserved
<1>3. SoundIsEnded => SoundHasOwner
  BY DEF SoundIsEnded, SoundHasOwner, Alive
<1> QED
  BY <1>1, <1>2, <1>3, TypeCorrect, PTL DEF Spec

=============================================================================
