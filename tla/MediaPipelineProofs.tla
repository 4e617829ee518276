------------------------- MODULE MediaPipelineProofs -------------------------
(***************************************************************************)
(* Proofs about MediaPipeline, for any receivers, captures and videos, and *)
(* for a queue of any length.                                              *)
(***************************************************************************)
EXTENDS MediaPipeline, FiniteSetTheorems, TLAPS

-----------------------------------------------------------------------------
(* The inductive invariant.                                                 *)

AtMostOne ==
  /\ live = Retired \/ video = NoVideo
  /\ live = Retired \/ capture = Retired
  /\ video = NoVideo \/ capture = Retired

\* What has finished has not been replaced meanwhile.
DoneExists ==
  /\ "live" \in done => live # Retired
  /\ "video" \in done => video # NoVideo
  /\ "capture" \in done => capture # Retired

\* A pending position was meant for the requested video ...
SeekIsForPath == mode = "fallbackVideo" => seek \in {NoVideo, path}

\* ... and so was that of the worker's snapshot.
SnapIsForPath ==
  pc # "snapshot" /\ snap.mode = "fallbackVideo" => snap.seek \in {NoVideo, snap.path}

Sources == AtMostOne /\ DoneExists
Seeks == SeekIsForPath /\ SnapIsForPath /\ SeekHitsItsVideo

IInv == TypeOK /\ Sources /\ StatusIsPlaying /\ Seeks /\ QueueBounded

-----------------------------------------------------------------------------
(* Types: the truth values, the other members, and what is the worker's.    *)

Truths ==
  /\ beacon \in BOOLEAN /\ notice \in BOOLEAN /\ tx \in BOOLEAN
  /\ liveWait \in BOOLEAN /\ captureWait \in BOOLEAN

Members ==
  /\ active \in Inputs \cup {NoInput}
  /\ mode \in Modes
  /\ path \in Videos \cup {NoVideo} /\ seek \in Videos \cup {NoVideo}
  /\ status \in Videos \cup {NoVideo}
  /\ queue \in Seq(Receivers)
  /\ writing \in Receivers \cup {NoInput}

Snapshots == [mode : Modes, active : Inputs \cup {NoInput},
              path : Videos \cup {NoVideo}, seek : Videos \cup {NoVideo}]

Workers ==
  /\ pc \in {"snapshot", "prepare", "check"}
  /\ snap \in Snapshots
  /\ live \in Inputs \cup {NoInput, Retired}
  /\ capture \in Inputs \cup {NoInput, Retired}
  /\ video \in Videos \cup {NoVideo}
  /\ done \subseteq {"live", "video", "capture"}

LEMMA TypeParts ==
  /\ TypeOK <=> Truths /\ Members /\ Workers
  /\ TypeOK' <=> Truths' /\ Members' /\ Workers'
BY DEF TypeOK, Truths, Members, Workers, Snapshots

LEMMA BlankTyped == Blank \in Snapshots
BY DEF Blank, Snapshots, Modes

LEMMA InitTyped == Init => TypeOK
<1> SUFFICES ASSUME Init PROVE Truths /\ Members /\ Workers
  BY TypeParts
<1>1. Truths
  BY Zenon DEF Init, Truths
<1>2. Members
  BY DEF Init, Members, Modes
<1>3. Workers
  BY BlankTyped DEF Init, Workers
<1> QED
  BY <1>1, <1>2, <1>3

\* What a change to the generated pictures makes of the members it writes.
LEMMA EnterFallbackTyped ==
  ASSUME Members, NEW on, EnterFallback(on)
  PROVE  /\ mode' \in Modes /\ queue' \in Seq(Receivers)
         /\ seek' \in Videos \cup {NoVideo} /\ status' \in Videos \cup {NoVideo}
<1>1. mode' = "fallback"
  BY DEF EnterFallback
<1>2. \/ UNCHANGED <<seek, status, queue>>
      \/ seek' = NoVideo /\ status' = NoVideo /\ queue' = <<>>
  BY Zenon DEF EnterFallback
<1>3. mode' \in Modes
  BY <1>1 DEF Modes
<1>4. <<>> \in Seq(Receivers)
  OBVIOUS
<1>5. /\ queue' \in Seq(Receivers)
      /\ seek' \in Videos \cup {NoVideo} /\ status' \in Videos \cup {NoVideo}
  BY <1>2, <1>4, Zenon DEF Members
<1> QED
  BY <1>3, <1>5

LEMMA EnterOnAirTyped ==
  ASSUME Members, EnterRetransmit \/ EnterAnalogue
  PROVE  mode' \in Modes /\ queue' \in Seq(Receivers)
<1>1. mode' \in {"retransmit", "analogue"} /\ (queue' = queue \/ queue' = <<>>)
  BY Zenon DEF EnterRetransmit, EnterAnalogue
<1>2. <<>> \in Seq(Receivers)
  OBVIOUS
<1>3. mode' \in Modes
  BY <1>1 DEF Modes
<1> QED
  BY <1>1, <1>2, <1>3, Zenon DEF Members

LEMMA PreemptTyped ==
  ASSUME Members, Preempt
  PROVE  /\ path' \in Videos \cup {NoVideo} /\ seek' \in Videos \cup {NoVideo}
         /\ status' \in Videos \cup {NoVideo}
BY DEF Members, Preempt

\* No message touches the worker.
LEMMA MessageLeavesWorker ==
  ASSUME Message
  PROVE  UNCHANGED worker
BY Zenon DEF Message, Select, SetBeaconAllowed, SetAccessNotice, ReconfigurePluto,
       PlayFallbackVideo, SeekFallbackVideo, StopFallbackVideo, Tick, Write

LEMMA WorkerUntouched ==
  ASSUME Workers, UNCHANGED worker
  PROVE  Workers'
BY DEF Workers, worker

LEMMA SettersTyped ==
  ASSUME Truths, Members,
         \/ \E i \in Inputs \cup {NoInput} : Select(i)
         \/ \E b \in BOOLEAN : SetBeaconAllowed(b) \/ SetAccessNotice(b) \/ ReconfigurePluto(b)
         \/ \E v \in Videos : PlayFallbackVideo(v)
         \/ SeekFallbackVideo
  PROVE  Truths' /\ Members'
<1> USE DEF asked, waits, Truths, Members
<1>1. ASSUME NEW i \in Inputs \cup {NoInput}, Select(i) PROVE Truths' /\ Members'
  <2>1. Truths'
    BY <1>1, Zenon DEF Select
  <2> QED
    BY <1>1, <2>1 DEF Select
<1>2. ASSUME NEW b \in BOOLEAN, SetBeaconAllowed(b) PROVE Truths' /\ Members'
  BY <1>2 DEF SetBeaconAllowed
<1>3. ASSUME NEW b \in BOOLEAN, SetAccessNotice(b) PROVE Truths' /\ Members'
  BY <1>3 DEF SetAccessNotice
<1>4. ASSUME NEW b \in BOOLEAN, ReconfigurePluto(b) PROVE Truths' /\ Members'
  BY <1>4 DEF ReconfigurePluto
<1>5. ASSUME NEW v \in Videos, PlayFallbackVideo(v) PROVE Truths' /\ Members'
  BY <1>5 DEF PlayFallbackVideo, Modes
<1>6. CASE SeekFallbackVideo
  BY <1>6 DEF SeekFallbackVideo
<1> QED
  BY <1>1, <1>2, <1>3, <1>4, <1>5, <1>6

LEMMA StopTyped ==
  ASSUME Truths, Members, StopFallbackVideo
  PROVE  Truths' /\ Members'
<1>1. Truths'
  BY Zenon DEF Truths, StopFallbackVideo, EnterFallback, asked, waits
<1>2. CASE mode = "fallbackVideo"
  <2>1. path' = NoVideo /\ EnterFallback(beacon \/ notice)
    BY <1>2 DEF StopFallbackVideo
  <2> QED
    BY <1>1, <2>1, EnterFallbackTyped DEF StopFallbackVideo, Members, asked
<1>3. CASE mode # "fallbackVideo"
  BY <1>1, <1>3 DEF StopFallbackVideo, Members, asked
<1> QED
  BY <1>2, <1>3

LEMMA TickTyped ==
  ASSUME Truths, Members, Tick
  PROVE  Truths' /\ Members'
<1>0. active' = active /\ writing' = writing
  BY DEF Tick, asked
<1>1. Truths'
  BY Zenon DEF Truths, Tick, TickCapture, TickReceiver, TickNothing, EnterFallback,
       EnterIdle, EnterAnalogue, EnterRetransmit, asked, waits
<1>2. ASSUME NEW on, EnterFallback(on), path' \in {path, NoVideo} PROVE Members'
  BY <1>0, <1>2, EnterFallbackTyped DEF Members
<1>3. ASSUME Preempt, EnterRetransmit \/ EnterAnalogue PROVE Members'
  BY <1>0, <1>3, EnterOnAirTyped, PreemptTyped DEF Members
<1>4. CASE TickCapture
  <2>1. CASE captureWait
    <3>1. EnterFallback(beacon \/ notice) /\ path' \in {path, NoVideo}
      BY <1>4, <2>1, Zenon DEF TickCapture
    <3> QED
      BY <1>1, <1>2, <3>1
  <2>2. CASE ~captureWait
    <3>1. EnterAnalogue /\ Preempt
      BY <1>4, <2>2, Zenon DEF TickCapture
    <3> QED
      BY <1>1, <1>3, <3>1
  <2> QED
    BY <2>1, <2>2
<1>5. CASE TickReceiver
  <2>1. CASE liveWait
    <3>1. EnterFallback(TRUE) /\ path' \in {path, NoVideo}
      BY <1>5, <2>1, Zenon DEF TickReceiver
    <3> QED
      BY <1>1, <1>2, <3>1
  <2>2. CASE ~liveWait
    <3>1. EnterRetransmit /\ Preempt
      BY <1>5, <2>2, Zenon DEF TickReceiver
    <3> QED
      BY <1>1, <1>3, <3>1
  <2> QED
    BY <2>1, <2>2
<1>6. CASE TickNothing
  <2>0. path' = path
    BY <1>6 DEF TickNothing
  <2>1. CASE UNCHANGED <<mode, tx, seek, status, queue>>
    BY <1>0, <1>1, <2>0, <2>1 DEF Members
  <2>2. CASE EnterFallback(beacon \/ notice)
    BY <1>1, <1>2, <2>0, <2>2
  <2>3. CASE EnterIdle
    <3>1. mode' \in Modes /\ UNCHANGED <<seek, status, queue>>
      BY <2>3 DEF EnterIdle, Modes
    <3> QED
      BY <1>0, <1>1, <2>0, <3>1 DEF Members
  <2> QED
    BY <1>6, <2>1, <2>2, <2>3, Zenon DEF TickNothing
<1> QED
  BY <1>1, <1>4, <1>5, <1>6 DEF Tick

LEMMA WriteTyped ==
  ASSUME Truths, Members, NEW i \in Receivers, Write(i)
  PROVE  Truths' /\ Members'
<1>1. Truths'
  BY Zenon DEF Truths, Write, EnterRetransmit, asked, waits
<1>2. Members'
  BY DEF Members, Write, EnterRetransmit, Preempt, asked, Modes
<1> QED
  BY <1>1, <1>2

LEMMA MessageTyped ==
  ASSUME TypeOK, Message
  PROVE  TypeOK'
<1>1. Truths /\ Members /\ Workers
  BY TypeParts
<1>2. Truths' /\ Members'
  BY <1>1, SettersTyped, StopTyped, TickTyped, WriteTyped DEF Message
<1>3. Workers'
  BY <1>1, MessageLeavesWorker, WorkerUntouched
<1> QED
  BY <1>2, <1>3, TypeParts

LEMMA SnapshotTyped ==
  ASSUME TypeOK, Snapshot
  PROVE  TypeOK'
<1>1. snap' \in Snapshots
  BY DEF Snapshot, TypeOK, Snapshots
<1> QED
  BY <1>1 DEF Snapshot, TypeOK, Snapshots, asked, waits

LEMMA PrepareTyped ==
  ASSUME TypeOK, Prepare
  PROVE  TypeOK'
<1> USE TypeParts
<1>0. snap.path \in Videos \cup {NoVideo} /\ snap.active \in Inputs \cup {NoInput}
  BY DEF Workers, Snapshots
<1>1. Truths'
  BY Zenon DEF Truths, Prepare, asked, waits
<1>2. UNCHANGED <<asked, mode, path, seek, queue, writing>>
  BY DEF Prepare
<1>3. CASE PrepareFallback
  <2>1. Workers'
    BY <1>3, BlankTyped DEF Workers, PrepareFallback, RetireAll, RetireVideo, Again, Keep
  <2>2. Members'
    BY <1>2, <1>3 DEF Members, PrepareFallback, RetireAll, RetireVideo, asked
  <2> QED
    BY <1>1, <2>1, <2>2
<1>4. CASE PrepareVideo
  <2>1. Workers'
    BY <1>0, <1>4 DEF Workers, PrepareVideo, Keep
  <2>2. Members'
    BY <1>2, <1>4 DEF Members, PrepareVideo, asked
  <2> QED
    BY <1>1, <2>1, <2>2
<1>5. CASE PrepareCapture
  <2>1. Workers'
    BY <1>0, <1>5 DEF Workers, PrepareCapture, RetireVideo, Keep
  <2>2. Members'
    BY <1>2, <1>5 DEF Members, PrepareCapture, RetireVideo, asked
  <2> QED
    BY <1>1, <2>1, <2>2
<1>6. CASE PrepareLive
  <2>1. Workers'
    BY <1>0, <1>6 DEF Workers, PrepareLive, RetireVideo, Keep
  <2>2. Members'
    BY <1>2, <1>6 DEF Members, PrepareLive, RetireVideo, asked
  <2> QED
    BY <1>1, <2>1, <2>2
<1> QED
  BY <1>3, <1>4, <1>5, <1>6 DEF Prepare

LEMMA CheckTyped ==
  ASSUME TypeOK, Check
  PROVE  TypeOK'
<1> USE TypeParts
<1>1. Truths'
  BY Zenon DEF Truths, Check, CheckVideo, CheckCapture, CheckLive, BackToFallback, asked, waits
<1>2. UNCHANGED <<asked, seek, writing>> /\ Again
  BY DEF Check
<1>3. CASE CheckVideo
  <2>1. Workers'
    BY <1>2, <1>3, BlankTyped DEF Workers, CheckVideo, RetireVideo, Again, Keep
  <2>2. Members'
    BY <1>2, <1>3 DEF Members, CheckVideo, BackToFallback, RetireVideo, Modes, asked
  <2> QED
    BY <1>1, <2>1, <2>2
<1>4. CASE CheckCapture
  <2>1. Workers'
    BY <1>2, <1>4, BlankTyped DEF Workers, CheckCapture, Again, Keep
  <2>2. Members'
    BY <1>2, <1>4 DEF Members, CheckCapture, BackToFallback, Modes, asked
  <2> QED
    BY <1>1, <2>1, <2>2
<1>5. CASE CheckLive
  <2>1. Workers'
    BY <1>2, <1>5, BlankTyped DEF Workers, CheckLive, Again, Keep
  <2>2. Members'
    BY <1>2, <1>5 DEF Members, CheckLive, Modes, asked
  <2> QED
    BY <1>1, <2>1, <2>2
<1> QED
  BY <1>3, <1>4, <1>5 DEF Check

LEMMA WorkerThrowsTyped ==
  ASSUME TypeOK, WorkerThrows
  PROVE  TypeOK'
<1>1. Workers'
  BY BlankTyped, TypeParts DEF Workers, WorkerThrows, RetireAll, RetireVideo, Keep, Again
<1>2. Truths' /\ Members'
  BY TypeParts DEF Truths, Members, WorkerThrows, RetireAll, RetireVideo, asked, waits
<1> QED
  BY <1>1, <1>2, TypeParts

LEMMA QueueInputTyped ==
  ASSUME TypeOK, QueueInput
  PROVE  TypeOK'
<1>1. writing \in Receivers
  BY DEF QueueInput, TypeOK
<1>2. queue' \in Seq(Receivers)
  BY <1>1 DEF QueueInput, TypeOK
<1> QED
  BY <1>2 DEF QueueInput, TypeOK, asked, waits, worker

LEMMA EndsTyped ==
  ASSUME TypeOK, VideoEnds \/ VideoReports \/ TranscoderEnds
  PROVE  TypeOK'
<1> USE DEF asked, waits, worker
<1>1. CASE VideoEnds
  BY <1>1 DEF VideoEnds, TypeOK
<1>2. CASE VideoReports
  BY <1>2 DEF VideoReports, TypeOK
<1>3. CASE TranscoderEnds
  BY <1>3 DEF TranscoderEnds, TypeOK, Running
<1> QED
  BY <1>1, <1>2, <1>3

LEMMA ElapseTyped ==
  ASSUME TypeOK, ElapseLive \/ ElapseCapture
  PROVE  TypeOK'
<1>1. Truths'
  BY TypeParts, Zenon DEF Truths, ElapseLive, ElapseCapture, asked
<1>2. Members'
  BY TypeParts DEF Members, ElapseLive, ElapseCapture, asked
<1>3. UNCHANGED worker
  BY DEF ElapseLive, ElapseCapture
<1> QED
  BY <1>1, <1>2, <1>3, WorkerUntouched, TypeParts

LEMMA TypePreserved ==
  ASSUME TypeOK, [Next]_vars
  PROVE  TypeOK'
<1>1. CASE UNCHANGED vars
  BY <1>1 DEF vars, TypeOK, asked, waits, worker
<1> QED
  BY <1>1, MessageTyped, QueueInputTyped, SnapshotTyped, PrepareTyped, CheckTyped,
     WorkerThrowsTyped, EndsTyped, ElapseTyped DEF Next, Worker

\* Whatever the order of messages, worker and transcoders, every member keeps
\* its type; a packet in the queue is always one of a receiver.
THEOREM TypeCorrect == Spec => []TypeOK
  BY InitTyped, TypePreserved, PTL DEF Spec

-----------------------------------------------------------------------------
(* One source at a time.                                                    *)

transcoders == <<live, video, capture, done>>

LEMMA SourcesUntouched ==
  ASSUME Sources, UNCHANGED transcoders
  PROVE  Sources'
BY DEF Sources, AtMostOne, DoneExists, transcoders

\* The worker retires the other two before it keeps or makes one.
LEMMA PrepareSources ==
  ASSUME Sources, Prepare
  PROVE  Sources'
<1> USE DEF Sources, AtMostOne, DoneExists, Keep
<1>1. CASE PrepareFallback
  BY <1>1 DEF PrepareFallback, RetireAll, RetireVideo
<1>2. CASE PrepareVideo
  BY <1>2 DEF PrepareVideo
<1>3. CASE PrepareCapture
  BY <1>3 DEF PrepareCapture, RetireVideo
<1>4. CASE PrepareLive
  BY <1>4 DEF PrepareLive, RetireVideo
<1> QED
  BY <1>1, <1>2, <1>3, <1>4 DEF Prepare

LEMMA CheckSources ==
  ASSUME Sources, Check
  PROVE  Sources'
<1> USE DEF Sources, AtMostOne, DoneExists, Keep
<1>1. CASE CheckVideo
  BY <1>1 DEF CheckVideo, RetireVideo
<1>2. CASE CheckCapture
  BY <1>2 DEF CheckCapture
<1>3. CASE CheckLive
  BY <1>3 DEF CheckLive
<1> QED
  BY <1>1, <1>2, <1>3 DEF Check

LEMMA EndsSources ==
  ASSUME Sources, VideoEnds \/ TranscoderEnds
  PROVE  Sources'
BY DEF Sources, AtMostOne, DoneExists, VideoEnds, TranscoderEnds, Running

LEMMA SourcesPreserved ==
  ASSUME Sources, [Next]_vars
  PROVE  Sources'
<1>1. CASE Message
  BY <1>1, MessageLeavesWorker, SourcesUntouched DEF worker, transcoders
<1>2. CASE Snapshot \/ QueueInput \/ VideoReports \/ ElapseLive \/ ElapseCapture \/ UNCHANGED vars
  <2>1. UNCHANGED transcoders
    BY <1>2, Zenon DEF Snapshot, QueueInput, VideoReports, ElapseLive, ElapseCapture, vars,
         worker, transcoders
  <2> QED
    BY <2>1, SourcesUntouched
<1>3. CASE WorkerThrows
  BY <1>3 DEF WorkerThrows, RetireAll, RetireVideo, Keep, Sources, AtMostOne, DoneExists
<1> QED
  BY <1>1, <1>2, <1>3, PrepareSources, CheckSources, EndsSources DEF Next, Worker

LEMMA OneAtMost ==
  ASSUME TypeOK, Sources
  PROVE  OneSource
<1>0. /\ Existing \subseteq {"live", "video", "capture"}
      /\ "live" \in Existing => live # Retired
      /\ "video" \in Existing => video # NoVideo
      /\ "capture" \in Existing => capture # Retired
  BY DEF Existing, Running, Sources, DoneExists, TypeOK
<1>1. PICK k : Existing \subseteq {k}
  <2>1. CASE live # Retired
    BY <1>0, <2>1 DEF Sources, AtMostOne
  <2>2. CASE video # NoVideo
    BY <1>0, <2>2 DEF Sources, AtMostOne
  <2>3. CASE live = Retired /\ video = NoVideo
    BY <1>0, <2>3
  <2> QED
    BY <2>1, <2>2, <2>3
<1>2. IsFiniteSet({k}) /\ Cardinality({k}) = 1
  BY FS_Singleton
<1> QED
  BY <1>1, <1>2, FS_Subset, FS_CardinalityType DEF OneSource

-----------------------------------------------------------------------------
(* A status that is true.                                                   *)

LEMMA MessageStatus ==
  ASSUME Message
  PROVE  status' \in {status, NoVideo} /\ video' = video
<1>1. status' \in {status, NoVideo}
  BY Zenon DEF Message, Select, SetBeaconAllowed, SetAccessNotice, ReconfigurePluto,
       PlayFallbackVideo, SeekFallbackVideo, StopFallbackVideo, Tick, TickCapture, TickReceiver,
       TickNothing, Write, EnterFallback, EnterIdle, Preempt
<1> QED
  BY <1>1, MessageLeavesWorker DEF worker

LEMMA StatusPreserved ==
  ASSUME StatusIsPlaying, [Next]_vars
  PROVE  StatusIsPlaying'
<1> USE DEF StatusIsPlaying
<1>1. CASE Message
  BY <1>1, MessageStatus
<1>2. CASE Snapshot \/ QueueInput \/ TranscoderEnds \/ ElapseLive \/ ElapseCapture \/ UNCHANGED vars
  <2>1. UNCHANGED <<status, video>>
    BY <1>2, Zenon DEF Snapshot, QueueInput, TranscoderEnds, ElapseLive, ElapseCapture, vars, worker
  <2> QED
    BY <2>1
<1>3. CASE Prepare
  BY <1>3 DEF Prepare, PrepareFallback, PrepareVideo, PrepareCapture, PrepareLive,
       RetireAll, RetireVideo
<1>4. CASE Check
  BY <1>4 DEF Check, CheckVideo, CheckCapture, CheckLive, RetireVideo
<1>5. CASE WorkerThrows
  BY <1>5 DEF WorkerThrows, RetireAll, RetireVideo
<1>6. CASE VideoEnds \/ VideoReports
  BY <1>6 DEF VideoEnds, VideoReports, worker
<1> QED
  BY <1>1, <1>2, <1>3, <1>4, <1>5, <1>6 DEF Next, Worker

-----------------------------------------------------------------------------
(* A position for the video it was asked for.                               *)

\* A message either leaves mode, path and position alone, or leaves none
\* pending for another video.
LEMMA MessageSeeks ==
  ASSUME Message
  PROVE  \/ UNCHANGED <<mode, path, seek>>
         \/ mode' # "fallbackVideo"
         \/ seek' = NoVideo
         \/ UNCHANGED path /\ seek' = path
<1>1. ASSUME NEW i \in Inputs \cup {NoInput}, Select(i) PROVE UNCHANGED <<mode, path, seek>>
  BY <1>1 DEF Select
<1>2. ASSUME NEW b \in BOOLEAN, SetBeaconAllowed(b) \/ SetAccessNotice(b) \/ ReconfigurePluto(b)
      PROVE  UNCHANGED <<mode, path, seek>>
  BY <1>2 DEF SetBeaconAllowed, SetAccessNotice, ReconfigurePluto
<1>3. ASSUME NEW v \in Videos, PlayFallbackVideo(v) PROVE seek' = NoVideo
  BY <1>3 DEF PlayFallbackVideo
<1>4. CASE SeekFallbackVideo
  BY <1>4 DEF SeekFallbackVideo
<1>5. CASE StopFallbackVideo
  <2>1. mode' = "fallback" \/ UNCHANGED <<mode, path, seek>>
    BY <1>5, Zenon DEF StopFallbackVideo, EnterFallback
  <2> QED
    BY <2>1
<1>6. CASE Tick
  <2>1. mode' \in {"fallback", "analogue", "retransmit", "idle"} \/ UNCHANGED <<mode, path, seek>>
    BY <1>6, Zenon DEF Tick, TickCapture, TickReceiver, TickNothing, EnterFallback,
         EnterAnalogue, EnterRetransmit, EnterIdle
  <2> QED
    BY <2>1
<1>7. ASSUME NEW i \in Receivers, Write(i)
      PROVE  seek' = NoVideo \/ mode' = "retransmit" \/ UNCHANGED <<mode, path, seek>>
  BY <1>7, Zenon DEF Write, Preempt, EnterRetransmit
<1> QED
  BY <1>1, <1>2, <1>3, <1>4, <1>5, <1>6, <1>7 DEF Message

LEMMA PrepareSeeks ==
  ASSUME Seeks, Prepare
  PROVE  Seeks'
<1>1. UNCHANGED <<mode, path, seek>>
  BY DEF Prepare
<1>2. CASE PrepareFallback
  BY <1>1, <1>2 DEF PrepareFallback, Again, Seeks, SeekIsForPath, SnapIsForPath, SeekHitsItsVideo
<1>3. CASE PrepareVideo
  <2>1. pc = "prepare" /\ snap' = snap /\ snap.mode = "fallbackVideo"
    BY <1>3 DEF Prepare, PrepareVideo
  <2>2. snap.seek \in {NoVideo, snap.path}
    BY <2>1 DEF Seeks, SnapIsForPath
  <2>3. video' = snap.path \/ snap.path = NoVideo
    BY <1>3 DEF PrepareVideo
  <2> QED
    BY <1>1, <2>1, <2>2, <2>3 DEF Seeks, SeekIsForPath, SnapIsForPath, SeekHitsItsVideo
<1>4. CASE PrepareCapture \/ PrepareLive
  <2>1. snap' = snap /\ snap.mode # "fallbackVideo"
    BY <1>4 DEF PrepareCapture, PrepareLive
  <2> QED
    BY <1>1, <2>1 DEF Seeks, SeekIsForPath, SnapIsForPath, SeekHitsItsVideo
<1> QED
  BY <1>2, <1>3, <1>4 DEF Prepare

LEMMA CheckSeeks ==
  ASSUME Seeks, Check
  PROVE  Seeks'
<1>1. pc' = "snapshot" /\ UNCHANGED seek
  BY DEF Check, Again
<1>2. UNCHANGED <<mode, path>> \/ mode' = "fallback"
  BY Zenon DEF Check, CheckVideo, CheckCapture, CheckLive, BackToFallback
<1> QED
  BY <1>1, <1>2 DEF Seeks, SeekIsForPath, SnapIsForPath, SeekHitsItsVideo

LEMMA SeeksPreserved ==
  ASSUME Seeks, [Next]_vars
  PROVE  Seeks'
<1> USE DEF Seeks, SeekIsForPath, SnapIsForPath, SeekHitsItsVideo
<1>1. CASE Message
  <2>1. UNCHANGED <<pc, snap, video>>
    BY <1>1, MessageLeavesWorker DEF worker
  <2> QED
    BY <1>1, <2>1, MessageSeeks
<1>2. CASE Snapshot
  BY <1>2 DEF Snapshot
<1>3. CASE WorkerThrows
  BY <1>3 DEF WorkerThrows, Again
<1>4. CASE QueueInput \/ VideoEnds \/ VideoReports \/ TranscoderEnds \/ ElapseLive
             \/ ElapseCapture \/ UNCHANGED vars
  <2>1. UNCHANGED <<mode, path, seek, pc, snap, video>>
    BY <1>4, Zenon DEF QueueInput, VideoEnds, VideoReports, TranscoderEnds, ElapseLive,
         ElapseCapture, vars, worker
  <2> QED
    BY <2>1
<1> QED
  BY <1>1, <1>2, <1>3, <1>4, PrepareSeeks, CheckSeeks DEF Next, Worker

-----------------------------------------------------------------------------
(* A queue that is bounded.                                                 *)

LEMMA QueuePreserved ==
  ASSUME TypeOK, QueueBounded, [Next]_vars
  PROVE  QueueBounded'
<1> USE ConstantsAssumption
<1>1. CASE QueueInput
  <2>1. writing \in Receivers /\ queue \in Seq(Receivers)
    BY <1>1 DEF QueueInput, TypeOK
  <2>2. Len(<<writing>>) = 1 /\ Len(Append(queue, writing)) = Len(queue) + 1
    BY <2>1
  <2>3. Len(queue) \in Nat
    BY <2>1
  <2> QED
    BY <1>1, <2>2, <2>3 DEF QueueInput, QueueBounded
<1>2. CASE ~QueueInput
  <2>1. queue' = queue \/ queue' = <<>>
    <3>1. Message => queue' = queue \/ queue' = <<>>
      BY Zenon DEF Message, Select, SetBeaconAllowed, SetAccessNotice, ReconfigurePluto,
           PlayFallbackVideo, SeekFallbackVideo, StopFallbackVideo, Tick, TickCapture, TickReceiver,
           TickNothing, Write, EnterFallback, EnterIdle, EnterAnalogue, EnterRetransmit
    <3>2. Worker => queue' = queue \/ queue' = <<>>
      BY Zenon DEF Worker, Snapshot, Prepare, Check, CheckVideo, CheckCapture, CheckLive
    <3>3. ~Message /\ ~Worker => queue' = queue
      BY <1>2, Zenon DEF Next, WorkerThrows, VideoEnds, VideoReports, TranscoderEnds, ElapseLive,
           ElapseCapture, vars
    <3> QED
      BY <3>1, <3>2, <3>3
  <2> QED
    BY <2>1 DEF QueueBounded
<1> QED
  BY <1>1, <1>2

-----------------------------------------------------------------------------
(* The theorems.                                                            *)

LEMMA Invariant == Spec => []IInv
<1>1. Init => IInv
  <2> SUFFICES ASSUME Init PROVE IInv
    OBVIOUS
  <2>1. Sources /\ StatusIsPlaying
    BY DEF Init, Sources, AtMostOne, DoneExists, StatusIsPlaying
  <2>2. Seeks
    BY DEF Init, Seeks, SeekIsForPath, SnapIsForPath, SeekHitsItsVideo
  <2>3. QueueBounded
    BY ConstantsAssumption DEF Init, QueueBounded
  <2> QED
    BY <2>1, <2>2, <2>3, InitTyped DEF IInv
<1>2. IInv /\ [Next]_vars => IInv'
  BY TypePreserved, SourcesPreserved, StatusPreserved, SeeksPreserved, QueuePreserved DEF IInv
<1> QED
  BY <1>1, <1>2, PTL DEF Spec

\* Although the worker acts on a snapshot that may be out of date, two
\* transcoders never exist together, whatever fails, ends or is asked for.
THEOREM SourcesAreExclusive == Spec => []OneSource
<1>1. IInv => OneSource
  BY OneAtMost DEF IInv
<1> QED
  BY <1>1, Invariant, PTL

\* The status names no video but the one that a transcoder plays.
THEOREM StatusIsTrue == Spec => []StatusIsPlaying
<1>1. IInv => StatusIsPlaying
  BY DEF IInv
<1> QED
  BY <1>1, Invariant, PTL

\* A position is only applied to the video it was asked for.
THEOREM SeekIsNotMisapplied == Spec => []SeekHitsItsVideo
<1>1. IInv => SeekHitsItsVideo
  BY DEF IInv, Seeks
<1> QED
  BY <1>1, Invariant, PTL

\* The queue before the decoder never exceeds its limit.
THEOREM QueueIsBounded == Spec => []QueueBounded
<1>1. IInv => QueueBounded
  BY DEF IInv
<1> QED
  BY <1>1, Invariant, PTL

=============================================================================
