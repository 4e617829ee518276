---------------------------- MODULE MediaProcess ----------------------------
(***************************************************************************)
(* The parent side of the media child's supervision:                       *)
(* src/src/media_process.cpp.                                              *)
(*                                                                         *)
(* The daemon thread tells a forked child what to transmit over a          *)
(* SOCK_SEQPACKET socket.  Each setter remembers the value in a field,     *)
(* compares it with the payload the child was last sent (the last...       *)
(* Payload_ members) and sends only a change.  Every send first reaps a    *)
(* dead child and starts a new one, and a new child is sent the whole      *)
(* state again (replayState), through the same sendMessage, which may find *)
(* the new child dead in its turn.                                         *)
(*                                                                         *)
(* A call is modelled as the stack `todo' of the sends it still has to     *)
(* make, so a crash can fall between any two of them; a restart pushes the *)
(* replay on the stack.  A field does not change while a call runs (one    *)
(* thread), so the payload of a message of kind k is always desired[k].    *)
(* `view' is what the child has been told, the messages queued in its      *)
(* socket included: they are consumed in order or lost with the child.     *)
(***************************************************************************)
EXTENDS Naturals, Sequences

CONSTANTS
  Inputs,          \* payloads of `select' (activePayload), analogue ones included
  Analogue,        \* the inputs that are the analogue capture
  Notices, Videos, Seeks,
  NoInput, NoNotice, NoVideo, NoSeek,     \* std::nullopt of each
  Unset,           \* a last...Payload_ without a value
  FallbackEnabled, \* config_.fallback.enabled
  MaxBacklog,      \* maxBufferedTransport, in chunks of maxTransportPayload
  MaxCrashes,      \* bound: how often the child dies
  MaxStalls        \* bound: how often the child stops reading

ASSUME ConstantsAssumption ==
  /\ Analogue \subseteq Inputs
  /\ NoInput \notin Inputs /\ NoNotice \notin Notices
  /\ NoVideo \notin Videos /\ NoSeek \notin Seeks
  /\ Unset \notin Inputs \cup Notices \cup BOOLEAN \cup {NoInput, NoNotice}
  /\ FallbackEnabled \in BOOLEAN
  /\ MaxBacklog \in Nat /\ MaxCrashes \in Nat /\ MaxStalls \in Nat

VARIABLES
  desired,   \* active_, beaconAllowed_, accessNotice_, ...: what the daemon asked for
  cache,     \* last...Payload_: what the current child is believed to know
  child,     \* "up"; "down": exited, childPid_ not reaped yet; "gone": destroyed
  view,      \* the child's own copy of the state, and the source of the last TS
  stalled,   \* the child is not reading and its socket is full
  todo,      \* the sends the running call still has to make, first one first
  buffer,    \* transportBuffer_: for each chunk, the input it was received from
  mode,      \* mode_, as the PTT logic of the daemon reads it
  stage,     \* the next call of the daemon's loop
  crashes, stalls   \* how many there have been

vars == <<desired, cache, child, view, stalled, todo, buffer, mode, stage, crashes, stalls>>

-----------------------------------------------------------------------------
(* The kinds of message whose last payload is cached, the fields the daemon *)
(* sets, and what each may hold.                                            *)

Cached == {"select", "beacon", "notice", "tone", "preview"}
\* Those whose cached payload vouches for what the child holds: not the tone,
\* which the child also resets by itself.
Mirrored == Cached \ {"tone"}

Fields == Cached \cup {"play", "seek"}

ValuesOf(k) ==
  IF k = "select" THEN Inputs \cup {NoInput}
  ELSE IF k = "notice" THEN Notices \cup {NoNotice}
  ELSE IF k = "play" THEN Videos \cup {NoVideo}
  ELSE IF k = "seek" THEN Seeks \cup {NoSeek}
  ELSE BOOLEAN

\* Steps of a call that send nothing: draining the child's messages, trimming
\* the backlog, and setAccessNotice's test whether the tone has changed.
Silent == {"drain", "trim", "toneIfChanged"}

Steps == Fields \cup {"stop", "reconfigure", "tick", "ts"} \cup Silent

\* `ensured': the ensureRunning() that opens this sendMessage is behind it.
Step(k) == [kind |-> k, ensured |-> FALSE]

StepType == [kind : Steps, ensured : BOOLEAN]

Modes == {"idle", "retransmit", "fallbackVideo", "fallback"}

\* One iteration of the daemon's loop, in the order it makes the calls.
Loop == <<"play", "stop", "seek", "preview", "reconfigure",
          "select", "beacon", "notice", "write", "tick">>

AnyValue == UNION {ValuesOf(k) : k \in Fields}

TypeOK ==
  /\ desired \in [Fields -> AnyValue]
  /\ \A k \in Fields : desired[k] \in ValuesOf(k)
  /\ cache \in [Cached -> AnyValue \cup {Unset}]
  /\ \A k \in Cached : cache[k] \in ValuesOf(k) \cup {Unset}
  /\ view \in [Fields \cup {"ts"} -> AnyValue]
  /\ \A k \in Fields : view[k] \in ValuesOf(k)
  /\ view["ts"] \in Inputs \cup {NoInput}
  /\ child \in {"up", "down", "gone"}
  /\ stalled \in BOOLEAN
  /\ todo \in Seq(StepType)
  /\ buffer \in Seq(Inputs)
  /\ mode \in Modes
  /\ stage \in 1..10
  /\ crashes \in 0..MaxCrashes /\ stalls \in 0..MaxStalls

-----------------------------------------------------------------------------
(* Starting a child and telling it everything.                              *)

\* The members' initial values in both processes: beaconAllowed_{true}, the
\* rest empty or false.
FreshFields ==
  [k \in Fields |-> IF k = "select" THEN NoInput
                    ELSE IF k = "notice" THEN NoNotice
                    ELSE IF k = "play" THEN NoVideo
                    ELSE IF k = "seek" THEN NoSeek
                    ELSE k = "beacon"]

FreshView == [k \in Fields \cup {"ts"} |->
                IF k = "ts" THEN NoInput ELSE FreshFields[k]]

\* Fault: the video is started before the switches are sent.
ReplayVideoFirst ==
  (IF desired["play"] = NoVideo THEN <<>> ELSE <<Step("play")>>)
  \o [i \in 1..5 |-> Step(<<"select", "beacon", "notice", "tone", "preview">>[i])]

\* replayState(): the cached kinds always, the video and its position if set.
Replay ==
  [i \in 1..5 |-> Step(<<"select", "beacon", "notice", "tone", "preview">>[i])]
  \o (IF desired["play"] = NoVideo THEN <<>> ELSE <<Step("play")>>)
  \o (IF desired["play"] = NoVideo \/ desired["seek"] = NoSeek
        THEN <<>> ELSE <<Step("seek")>>)

\* Fault: startChild() leaves the caches of the old child in place.
CacheKeptByRestart == cache

\* startChild() clears every cached payload but lastNoticeEndTonePayload_.
CacheAfterRestart ==
  [k \in Cached |-> IF k = "tone" THEN cache[k] ELSE Unset]

\* (stopChild and) startChild with replayState in front of the `rest'.
Restart(rest) ==
  /\ child' = "up"
  /\ view' = FreshView
  /\ stalled' = FALSE
  /\ cache' = CacheAfterRestart
  /\ todo' = Replay \o rest

Init ==
  /\ desired = FreshFields
  /\ cache = [k \in Cached |-> Unset]
  /\ child = "up"
  /\ view = FreshView
  /\ stalled = FALSE
  /\ todo = Replay
  /\ buffer = <<>>
  /\ mode = "idle"
  /\ stage = 1
  /\ crashes = 0 /\ stalls = 0

-----------------------------------------------------------------------------
(* The calls.                                                               *)

\* The daemon thread is between two calls and s is the next one.
At(s) == child # "gone" /\ todo = <<>> /\ Loop[stage] = s

Onwards == stage' = (stage % 10) + 1

\* Fault: compares with the field instead of with what was sent.
SetCachedComparesField(k, v) ==
  /\ At(k)
  /\ desired' = [desired EXCEPT ![k] = v]
  /\ todo' = IF desired[k] = v THEN <<>> ELSE <<Step(k)>>
  /\ Onwards
  /\ UNCHANGED <<cache, child, view, stalled, buffer, mode, crashes, stalls>>

\* A setter that sends only a change.
SetCached(k, v) ==
  /\ At(k)
  /\ desired' = [desired EXCEPT ![k] = v]
  /\ todo' = IF cache[k] = v THEN <<>> ELSE <<Step(k)>>
  /\ Onwards
  /\ UNCHANGED <<cache, child, view, stalled, buffer, mode, crashes, stalls>>

Select(i) == SetCached("select", i)
SetBeaconAllowed(b) == SetCached("beacon", b)
SetPreviewEnabled(b) == SetCached("preview", b)

\* Notice and end tone are two messages; whether the second is needed is
\* decided when the first has been dealt with.
SetAccessNotice(n, tone) ==
  /\ At("notice")
  /\ desired' = [desired EXCEPT !["notice"] = n, !["tone"] = tone /\ n # NoNotice]
  /\ todo' = (IF cache["notice"] = n THEN <<>> ELSE <<Step("notice")>>)
             \o <<Step("toneIfChanged")>>
  /\ Onwards
  /\ UNCHANGED <<cache, child, view, stalled, buffer, mode, crashes, stalls>>

PlayFallbackVideo(v) ==
  /\ At("play")
  /\ desired' = [desired EXCEPT !["play"] = v, !["seek"] = NoSeek]
  /\ mode' = "fallbackVideo"
  /\ todo' = <<Step("play")>>
  /\ Onwards
  /\ UNCHANGED <<cache, child, view, stalled, buffer, crashes, stalls>>

StopFallbackVideo ==
  /\ At("stop")
  /\ desired' = [desired EXCEPT !["play"] = NoVideo, !["seek"] = NoSeek]
  /\ mode' = "fallback"
  /\ todo' = <<Step("stop")>>
  /\ Onwards
  /\ UNCHANGED <<cache, child, view, stalled, buffer, crashes, stalls>>

SeekFallbackVideo(p) ==
  /\ At("seek")
  /\ desired' = [desired EXCEPT !["seek"] = p]
  /\ todo' = <<Step("seek")>>
  /\ Onwards
  /\ UNCHANGED <<cache, child, view, stalled, buffer, mode, crashes, stalls>>

ReconfigurePluto ==
  /\ At("reconfigure")
  /\ todo' = <<Step("reconfigure")>>
  /\ Onwards
  /\ UNCHANGED <<desired, cache, child, view, stalled, buffer, mode, crashes, stalls>>

\* write(): the router hands over the TS of the selected receiver; it is
\* queued, flushed, and what is over the limit dropped from the front.
Write ==
  /\ At("write")
  /\ desired["select"] \in Inputs \ Analogue
  /\ buffer' = Append(buffer, desired["select"])
  /\ todo' = <<Step("ts"), Step("trim")>>
  /\ Onwards
  /\ UNCHANGED <<desired, cache, child, view, stalled, mode, crashes, stalls>>

Tick ==
  /\ At("tick")
  /\ mode' = IF desired["play"] # NoVideo THEN "fallbackVideo"
             ELSE IF desired["select"] # NoInput THEN "retransmit"
             ELSE IF FallbackEnabled THEN "fallback" ELSE "idle"
  /\ todo' = <<Step("drain"), Step("ts"), Step("tick"), Step("drain")>>
  /\ Onwards
  /\ UNCHANGED <<desired, cache, child, view, stalled, buffer, crashes, stalls>>

\* No command arrived for this iteration, or the receiver had no packets.
Skip ==
  /\ \E s \in {"play", "stop", "seek", "reconfigure", "write"} : At(s)
  /\ Onwards
  /\ UNCHANGED <<desired, cache, child, view, stalled, todo, buffer, mode, crashes, stalls>>

\* The destructor: stopChild() asks, waits five seconds, then kills.
Destroy ==
  /\ At("play")
  /\ child' = "gone"
  /\ UNCHANGED <<desired, cache, view, stalled, todo, buffer, mode, stage, crashes, stalls>>

Call ==
  \/ \E i \in Inputs \cup {NoInput} : Select(i)
  \/ \E b \in BOOLEAN : SetBeaconAllowed(b) \/ SetPreviewEnabled(b)
  \/ \E n \in Notices \cup {NoNotice}, t \in BOOLEAN : SetAccessNotice(n, t)
  \/ \E v \in Videos : PlayFallbackVideo(v)
  \/ StopFallbackVideo
  \/ \E p \in Seeks : SeekFallbackVideo(p)
  \/ ReconfigurePluto \/ Write \/ Tick \/ Skip

-----------------------------------------------------------------------------
(* sendMessage: one action per outcome, for the first send of `todo'.       *)

Sending == todo # <<>> /\ Head(todo).kind \notin Silent
            /\ ~(Head(todo).kind = "ts" /\ buffer = <<>>)

StoppedVideo == [view EXCEPT !["play"] = NoVideo, !["seek"] = NoSeek]

\* The child takes a message of kind k: MediaPipeline's setters, with the end
\* tone reset by every notice.  A video is pre-empted by the tick or the TS of a
\* selected input; TS without a selected input is ignored, as is a seek without
\* a video.
Deliver(k) ==
  \/ /\ k = "select"
     /\ view' = [view EXCEPT !["select"] = desired["select"], !["ts"] = NoInput]
  \/ /\ k = "notice"
     /\ view' = [view EXCEPT !["notice"] = desired["notice"], !["tone"] = FALSE]
  \/ /\ k = "tone"
     /\ view' = [view EXCEPT !["tone"] = desired["tone"] /\ view["notice"] # NoNotice]
  \/ /\ k \in {"beacon", "preview"}
     /\ view' = [view EXCEPT ![k] = desired[k]]
  \/ /\ k = "play"
     /\ view' = [view EXCEPT !["play"] = desired["play"], !["seek"] = NoSeek]
  \/ /\ k = "stop"
     /\ view' = StoppedVideo
  \/ /\ k = "seek"
     /\ view' = IF view["play"] = NoVideo THEN view
                ELSE [view EXCEPT !["seek"] = desired["seek"]]
  \/ /\ k = "tick"
     /\ view' = IF view["select"] = NoInput THEN view ELSE StoppedVideo
  \/ /\ k = "ts"
     /\ view' = IF view["select"] = NoInput THEN view
                ELSE [StoppedVideo EXCEPT !["ts"] = Head(buffer)]
  \/ /\ k = "reconfigure"
     /\ view' = view

CacheAfter(k) == IF k \in Cached THEN [cache EXCEPT ![k] = desired[k]] ELSE cache

SendOk ==
  /\ Sending /\ child = "up" /\ ~stalled
  /\ LET k == Head(todo).kind IN
     /\ Deliver(k)
     /\ cache' = CacheAfter(k)
     /\ IF k = "ts" THEN /\ buffer' = Tail(buffer)
                         /\ todo' = <<Step("ts")>> \o Tail(todo)
                    ELSE buffer' = buffer /\ todo' = Tail(todo)
  /\ UNCHANGED <<desired, child, stalled, mode, stage, crashes, stalls>>

\* Fault: the payload is recorded whether or not it was sent.
SendBlockedButCached ==
  /\ Sending /\ child = "up" /\ stalled
  /\ todo' = Tail(todo)
  /\ cache' = CacheAfter(Head(todo).kind)
  /\ UNCHANGED <<desired, child, view, stalled, buffer, mode, stage, crashes, stalls>>

\* EAGAIN: at once for TS and ticks, after a 100 ms poll and a second try for
\* the rest.  The message is dropped, or stays in transportBuffer_.
SendBlocked ==
  /\ Sending /\ child = "up" /\ stalled
  /\ todo' = Tail(todo)
  /\ UNCHANGED <<desired, cache, child, view, stalled, buffer, mode, stage, crashes, stalls>>

\* ensureRunning() finds the child dead: restart it, then make this send.
Reap ==
  /\ Sending /\ child = "down" /\ ~Head(todo).ensured
  /\ Restart(<<[Head(todo) EXCEPT !.ensured = TRUE]>> \o Tail(todo))
  /\ UNCHANGED <<desired, buffer, mode, stage, crashes, stalls>>

\* EPIPE: the child died after (or had not become a zombie by) the waitpid of
\* this send.  It is restarted and the message is not sent.
BrokenPipe ==
  /\ Sending /\ child = "down"
  /\ Restart(Tail(todo))
  /\ UNCHANGED <<desired, buffer, mode, stage, crashes, stalls>>

\* drainChildMessages: end of file is ignored; a connection reset, which the
\* kernel reports when the child died with unread messages, restarts it.
Drain ==
  /\ todo # <<>> /\ Head(todo).kind = "drain"
  /\ \/ todo' = Tail(todo) /\ UNCHANGED <<cache, child, view, stalled>>
     \/ child = "down" /\ Restart(Tail(todo))
  /\ UNCHANGED <<desired, buffer, mode, stage, crashes, stalls>>

FlushDone ==
  /\ todo # <<>> /\ Head(todo).kind = "ts" /\ buffer = <<>>
  /\ todo' = Tail(todo)
  /\ UNCHANGED <<desired, cache, child, view, stalled, buffer, mode, stage, crashes, stalls>>

Trim ==
  /\ todo # <<>> /\ Head(todo).kind = "trim"
  /\ buffer' = IF Len(buffer) > MaxBacklog
                 THEN SubSeq(buffer, Len(buffer) - (MaxBacklog \div 2) + 1, Len(buffer))
                 ELSE buffer
  /\ todo' = Tail(todo)
  /\ UNCHANGED <<desired, cache, child, view, stalled, mode, stage, crashes, stalls>>

ToneIfChanged ==
  /\ todo # <<>> /\ Head(todo).kind = "toneIfChanged"
  /\ todo' = (IF cache["tone"] = desired["tone"] THEN <<>> ELSE <<Step("tone")>>) \o Tail(todo)
  /\ UNCHANGED <<desired, cache, child, view, stalled, buffer, mode, stage, crashes, stalls>>

Send == SendOk \/ SendBlocked \/ Reap \/ BrokenPipe
          \/ Drain \/ FlushDone \/ Trim \/ ToneIfChanged

-----------------------------------------------------------------------------
(* The child and its surroundings.                                          *)

Crash ==
  /\ child = "up" /\ crashes < MaxCrashes
  /\ child' = "down"
  /\ crashes' = crashes + 1
  /\ UNCHANGED <<desired, cache, view, stalled, todo, buffer, mode, stage, stalls>>

\* The child's thread is held up for longer than its socket can buffer.  The
\* few short messages of a replay always fit in a new socket.
Stall ==
  /\ child = "up" /\ ~stalled /\ stalls < MaxStalls
  /\ \A k \in Cached : cache[k] # Unset
  /\ stalled' = TRUE
  /\ stalls' = stalls + 1
  /\ UNCHANGED <<desired, cache, child, view, todo, buffer, mode, stage, crashes>>

Unstall ==
  /\ stalled
  /\ stalled' = FALSE
  /\ UNCHANGED <<desired, cache, child, view, todo, buffer, mode, stage, crashes, stalls>>

\* The worker plays the video to its end (MediaPipeline.workerLoop); the parent
\* is sent a status string and does not act on it.
VideoEnds ==
  /\ child = "up" /\ view["play"] # NoVideo
  /\ view' = StoppedVideo
  /\ UNCHANGED <<desired, cache, child, stalled, todo, buffer, mode, stage, crashes, stalls>>

Next == Call \/ Destroy \/ Send \/ Crash \/ Stall \/ Unstall \/ VideoEnds

\* The daemon's thread keeps running and a stalled child resumes; nothing
\* forces a crash, a stall, a video's end or a shutdown.
Fairness == WF_vars(Call) /\ WF_vars(Send) /\ WF_vars(Unstall)

Spec == Init /\ [][Next]_vars /\ Fairness

-----------------------------------------------------------------------------
(* What the supervision promises.                                           *)

\* A cached payload is what the living child really holds, so that skipping a
\* send never leaves the child with something else.  It survives any sequence
\* of crashes inside a call, nested replays and timed out sends
\* (media_process.cpp:424, :436, :449, :492 rely on it).
CacheCoherent ==
  child = "up" => \A k \in Mirrored : cache[k] \in {Unset, view[k]}

\* The child never sounds an end tone the parent does not believe it sounds.
\* (The converse fails: a notice that is sent again after a replay resets the
\* tone in the child while the cache still says it was delivered.)
NoStrayTone ==
  child = "up" => (view["tone"] => cache["tone"] = TRUE)

\* A child is told every cached kind before anything else reaches it, a video
\* included, and before the call that restarted it returns, wherever in the
\* replay its predecessors died: it never ticks, plays or transmits on its
\* defaults.  (The video itself is not cached: its send may be lost.  Of the
\* tone, whose record startChild() keeps, it says that some child was told.)
InformedFirst ==
  child = "up" /\ (todo = <<>> \/ Head(todo).kind \notin Cached)
    => \A k \in Cached : cache[k] # Unset

\* Once the daemon keeps asking for the same value, the child ends up with it
\* for good (each loop iteration calls the setters again, and a send that
\* failed left the cache different).
Converges ==
  \A k \in Mirrored : \A v \in ValuesOf(k) :
    <>[](desired[k] = v /\ child # "gone") => <>[](view[k] = v)

\* The supervision implements its promise: crashes, replays, nested replays and
\* timed out sends are steps of Mirror, or invisible in it.
Known(k) == child = "up" /\ cache[k] # Unset

Promise == INSTANCE Mirror WITH
  Kinds <- Mirrored,
  Value <- ValuesOf,
  Unknown <- Unset,
  want <- [k \in Mirrored |-> desired[k]],
  have <- [k \in Mirrored |-> IF Known(k) THEN view[k] ELSE Unset],
  open <- child # "gone"

ImplementsMirror == Promise!Spec

=============================================================================
