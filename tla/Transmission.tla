----------------------------- MODULE Transmission -----------------------------
(***************************************************************************)
(* Whether to transmit, on both sides of the process boundary.  The loop   *)
(* of runPiGatewayOrLocal (src/src/daemon.cpp) decides for the PTT line    *)
(* (src/src/hardware_ptt.cpp) from what it selected and from its own copy  *)
(* of the video's path; the pipeline in the child (MediaPipeline) decides  *)
(* for the Pluto from what it was told and from what its worker met.  This *)
(* module runs the loop and the pipeline together and asks whether the two *)
(* agree.                                                                  *)
(*                                                                         *)
(* The selection is any (Selection says which it is), and no message is    *)
(* lost (MediaProcess says when one is).  Messages reach the pipeline in   *)
(* the order of the loop; the worker runs at any time.                     *)
(***************************************************************************)
EXTENDS Naturals, Sequences

CONSTANTS
  Receivers, Captures, Videos, NoInput, NoVideo, Retired, FallbackEnabled, MaxQueue,
  Disturbances    \* what may happen that the two sides do not agree about

VARIABLES
  active, beacon, notice, mode, tx, path, seek, status, queue, liveWait, captureWait,
  writing, pc, snap, live, video, capture, done,   \* the pipeline
  step,       \* the loop: what it does next
  decided,    \* its selection, whether there is a notice, whether the beacon is allowed
  asked,      \* fallbackVideoPath_ of MediaProcess
  line,       \* the GPIO line: "on", "off", or "closed" for good
  disturbed   \* whether any of the Disturbances has happened (for the properties)

Pipeline == INSTANCE MediaPipeline

pipeline == <<active, beacon, notice, mode, tx, path, seek, status, queue, liveWait,
              captureWait, writing, pc, snap, live, video, capture, done>>
vars == <<pipeline, step, decided, asked, line, disturbed>>

\* A video ends by itself; an input pre-empts it, or comes while it plays; the
\* configuration is reloaded; the Pluto comes back while a video plays; the worker
\* still has a decoder, that may yet fail, when a video is started.
Kinds == {"end", "preemption", "reload", "reconnection", "decoder"}

ASSUME DisturbancesAssumption == Disturbances \subseteq Kinds

Inputs == Receivers \cup Captures

TypeOK ==
  /\ Pipeline!TypeOK
  /\ step \in {"requests", "reconnect", "select", "beacon", "notice", "ptt", "tick"}
  /\ decided \in [active : Inputs \cup {NoInput}, notice : BOOLEAN, beacon : BOOLEAN]
  /\ asked \in Videos \cup {NoVideo}
  /\ line \in {"on", "off", "closed"}
  /\ disturbed \in BOOLEAN

Init ==
  /\ Pipeline!Init
  /\ step = "requests"
  /\ decided = [active |-> NoInput, notice |-> FALSE, beacon |-> TRUE]
  /\ asked = NoVideo
  /\ line = "off"
  /\ disturbed = FALSE

-----------------------------------------------------------------------------
(* The loop.                                                                *)

Then(s, t) == step = s /\ step' = t

\* A step that is a disturbance of these kinds, if there are any.
Disturbing(kinds) ==
  /\ kinds \subseteq Disturbances
  /\ disturbed' = (disturbed \/ kinds # {})

\* Requests of the dashboard, before anything else.
Play(v) ==
  /\ step = "requests"
  /\ Disturbing({k \in {"preemption"} : decided.active # NoInput}
                 \cup {k \in {"decoder"} : live # Retired \/ snap.mode = "retransmit"})
  /\ asked' = v
  /\ Pipeline!PlayFallbackVideo(v)
  /\ UNCHANGED <<step, decided, line>>

Stop ==
  /\ step = "requests"
  /\ asked' = NoVideo
  /\ Pipeline!StopFallbackVideo
  /\ UNCHANGED <<step, decided, line, disturbed>>

\* The new HardwarePtt asks for the line while the old one still has it, which
\* the kernel refuses; it is disabled, and then the old one lets go.
Reload ==
  /\ step = "requests"
  /\ Disturbing({"reload"})
  /\ line' = "closed"
  /\ UNCHANGED <<pipeline, step, decided, asked>>

\* The new selection.  There is a notice whenever there is an input.
Decide ==
  /\ Then("requests", "reconnect")
  /\ \E a \in Inputs \cup {NoInput}, n, b \in BOOLEAN :
       /\ a # NoInput => n
       /\ Disturbing({k \in {"preemption"} : a # NoInput /\ asked # NoVideo})
       /\ decided' = [active |-> a, notice |-> n, beacon |-> b]
  /\ UNCHANGED <<pipeline, asked, line>>

\* The Pluto has come back and is told to transmit if the beacon is allowed.
Reconnect ==
  /\ Then("reconnect", "select")
  /\ Disturbing({k \in {"reconnection"} : asked # NoVideo})
  /\ Pipeline!ReconfigurePluto(decided.beacon)
  /\ UNCHANGED <<decided, asked, line>>

NoReconnect ==
  /\ Then("reconnect", "select")
  /\ UNCHANGED <<pipeline, decided, asked, line, disturbed>>

\* A selection is sent when it has changed.
Select ==
  /\ Then("select", "beacon")
  /\ IF decided.active = active THEN UNCHANGED pipeline ELSE Pipeline!Select(decided.active)
  /\ UNCHANGED <<decided, asked, line, disturbed>>

SetBeaconAllowed ==
  /\ Then("beacon", "notice")
  /\ Pipeline!SetBeaconAllowed(decided.beacon)
  /\ UNCHANGED <<decided, asked, line, disturbed>>

SetAccessNotice ==
  /\ Then("notice", "ptt")
  /\ Pipeline!SetAccessNotice(decided.notice)
  /\ UNCHANGED <<decided, asked, line, disturbed>>

Wanted ==
  \/ asked # NoVideo
  \/ decided.active # NoInput
  \/ FallbackEnabled /\ (decided.beacon \/ decided.notice)

\* Fault: the line is not keyed for a notice out of hours.
PttWithoutNotice ==
  /\ Then("ptt", "tick")
  /\ line' = IF line = "closed" THEN line
             ELSE IF asked # NoVideo \/ decided.active # NoInput \/ decided.beacon
               THEN "on" ELSE "off"
  /\ UNCHANGED <<pipeline, decided, asked, disturbed>>

Ptt ==
  /\ Then("ptt", "tick")
  /\ line' = IF line = "closed" THEN line ELSE IF Wanted THEN "on" ELSE "off"
  /\ UNCHANGED <<pipeline, decided, asked, disturbed>>

\* TS of the selected receiver, as much as there is.
Write ==
  /\ step = "tick" /\ decided.active \in Receivers
  /\ Pipeline!Write(decided.active)
  /\ UNCHANGED <<step, decided, asked, line, disturbed>>

Tick ==
  /\ Then("tick", "requests")
  /\ Pipeline!Tick
  /\ UNCHANGED <<decided, asked, line, disturbed>>

Loop == Decide \/ Reconnect \/ NoReconnect \/ Select \/ SetBeaconAllowed
          \/ SetAccessNotice \/ Ptt \/ Tick

-----------------------------------------------------------------------------
(* The pipeline's own steps.                                                *)

Daemon == <<step, decided, asked, line, disturbed>>

QueueInput == Pipeline!QueueInput /\ UNCHANGED Daemon
Worker == Pipeline!Worker /\ UNCHANGED Daemon
WorkerThrows == Pipeline!WorkerThrows /\ UNCHANGED Daemon
VideoEnds == Disturbing({"end"}) /\ Pipeline!VideoEnds /\ UNCHANGED <<step, decided, asked, line>>
VideoReports == Pipeline!VideoReports /\ UNCHANGED Daemon
TranscoderEnds == Pipeline!TranscoderEnds /\ UNCHANGED Daemon
Elapse == (Pipeline!ElapseLive \/ Pipeline!ElapseCapture) /\ UNCHANGED Daemon

Next ==
  \/ \E v \in Videos : Play(v)
  \/ Stop \/ Reload \/ Write
  \/ Loop
  \/ QueueInput \/ Worker \/ WorkerThrows
  \/ VideoEnds \/ VideoReports \/ TranscoderEnds \/ Elapse

\* The loop goes round, whatever it writes and is asked; the worker runs.
Fairness == SF_vars(Loop) /\ WF_vars(QueueInput) /\ WF_vars(Worker) /\ WF_vars(Elapse)

Spec == Init /\ [][Next]_vars /\ Fairness

-----------------------------------------------------------------------------
(* What the two sides owe each other.                                       *)

\* The loop decides the same again and again, nobody asks for anything and the
\* Pluto stays connected.
Calm ==
  /\ <>[][/\ (Decide => decided' = decided)
          /\ \A v \in Videos : ~Play(v)
          /\ ~Stop /\ ~Reconnect]_vars

\* README.md:300-303, the line is asserted "whenever the repeater is actively
\* transmitting: beacon/slideshow during operating hours, hang-time access
\* notices, or live retransmit": once the loop has settled, the amplifier is
\* keyed exactly when the Pluto is told to transmit, however often a decoder
\* fails, and whatever mode the worker had left behind when the input went.
PttAgrees == Calm => <>[](line = "on" <=> tx)

\* It is, as long as none of the disturbances happens, and each of them breaks
\* it.
PttFollows == []~disturbed => PttAgrees

\* And whatever happens: the Pluto never goes on transmitting into an amplifier
\* that is not keyed, as long as the line can be had at all.
PttCovers == Calm => <>[](tx => line # "off")

=============================================================================
