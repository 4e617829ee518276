------------------------------ MODULE PcGateway ------------------------------
(***************************************************************************)
(* The loop of a PC that gets its TS from a Pi: Daemon::runPcGateway of    *)
(* src/src/daemon.cpp.  It chooses between the gateway's TS and its own    *)
(* capture, announces the access and its end, and keys an amplifier that   *)
(* hangs on a GPIO line of the Pi (setPiHardwarePtt), over HTTP.           *)
(*                                                                         *)
(* A request to the Pi (GatewayStatusClient) is given up after 400 ms, but *)
(* the Pi may have it already; its server (ApiServer) has one thread and   *)
(* carries out the requests that have reached it one after the other, also *)
(* those nobody waits for any more.                                        *)
(*                                                                         *)
(* The loop is one thread: the choice and the notice are one action, the   *)
(* request to the Pi another.  Time is told as in LoopTime.  The usual     *)
(* names begin with Pc, as ControlProofs extends this module beside        *)
(* PlutoSink.                                                              *)
(***************************************************************************)
EXTENDS Naturals, Sequences, LoopTime

CONSTANTS
  Lines,            \* the GPIO lines the configuration may name
  NoLine,           \* PTT is disabled, or not in mode "pi-gpio"
  NoInput, Unset,   \* std::nullopt
  FallbackEnabled,  \* config_.fallback.enabled
  Debounce,         \* kAnalogueSyncDebounce
  Hold,             \* kPcAccessNoticeHold
  Never,            \* an optional point in time that is not set
  MaxLate           \* bound: requests that wait at the Pi

Inputs == {"gateway", "capture"}

ASSUME PcAssumption ==
  /\ NoLine \notin Lines /\ NoInput \notin Inputs /\ Unset \notin BOOLEAN
  /\ FallbackEnabled \in BOOLEAN
  /\ Debounce \in Nat /\ Hold \in Nat \ {0} /\ Never \notin Nat
  /\ MaxLate \in Nat

VARIABLES
  pc,          \* the loop: what it does next
  stable,      \* for how long the capture has been in sync (analogueLockedSince)
  family,      \* activeSourceFamily
  session,     \* pcWasActive and analogueWasActive: those that are set
  notice,      \* accessNotice: whose access, and whether it has ended
  tone,        \* accessNoticeEndTone
  noticeLeft,  \* what is left until accessNoticeUntil
  active,
  wanted,      \* transmitEnabled
  setup,       \* config_.hardwarePtt: the line, if there is one
  state,       \* piPttState: the level the Pi has confirmed
  late,        \* the requests that wait at the Pi
  asserted,    \* the lines of the Pi that are active
  last, idle,  \* the last active input, for how long there has been none, and
  doubt        \* whether the Pi did anything the PC does not know of since it
               \* last confirmed a level (for the properties)

choice == <<stable, family, session, notice, tone, noticeLeft, active, last, idle>>
pi == <<state, late, asserted, doubt>>
pcVars == <<pc, stable, family, session, notice, tone, noticeLeft, active, wanted, setup,
          state, late, asserted, last, idle, doubt>>

NoNotice == [of |-> NoInput, ended |-> FALSE]
During(i) == [of |-> i, ended |-> FALSE]
After(i) == [of |-> i, ended |-> TRUE]

PcTypeOK ==
  /\ pc \in {"choose", "ptt", "release", "over"}
  /\ stable \in 0..Debounce \cup {Never}
  /\ family \in Inputs \cup {NoInput} /\ active \in Inputs \cup {NoInput}
  /\ session \subseteq Inputs
  /\ notice \in [of : Inputs \cup {NoInput}, ended : BOOLEAN] /\ tone \in BOOLEAN
  /\ noticeLeft \in 0..Hold
  /\ wanted \in BOOLEAN
  /\ setup \in Lines \cup {NoLine} /\ state \in BOOLEAN \cup {Unset}
  /\ late \in Seq([line : Lines, level : BOOLEAN])
  /\ asserted \subseteq Lines
  /\ last \in Inputs \cup {NoInput} /\ idle \in 0..Hold /\ doubt \in BOOLEAN

PcInit ==
  /\ pc = "choose"
  /\ stable = Never /\ family = NoInput /\ session = {}
  /\ notice = NoNotice /\ tone = FALSE /\ noticeLeft = 0
  /\ active = NoInput /\ wanted = FALSE
  /\ setup \in Lines \cup {NoLine} /\ state = Unset
  /\ late = <<>> /\ asserted = {} /\ doubt = FALSE
  /\ last = NoInput /\ idle = Hold


-----------------------------------------------------------------------------
(* The choice and the notice.                                               *)

\* Its sync counts once it has been there for Debounce.
StableAfter(sync, dt) ==
  IF ~sync THEN Never
  ELSE IF stable = Never THEN 0
  ELSE More(stable, dt, Debounce)

\* What is on the air stays there while it is present; the gateway is first.
Chosen(present) ==
  IF family \in present THEN family
  ELSE IF "gateway" \in present THEN "gateway"
  ELSE IF "capture" \in present THEN "capture"
  ELSE NoInput

Announce(i) ==
  /\ notice' = During(i) /\ tone' = FALSE
  /\ session' = {i}

\* Fault: the session goes on after its end, which is announced again and again.
AnnounceEndRepeated(left) ==
  IF session # {}
    THEN /\ notice' = After(CHOOSE i \in session : TRUE)
         /\ tone' = TRUE /\ noticeLeft' = Hold
         /\ UNCHANGED session
    ELSE /\ IF left = 0 THEN notice' = NoNotice /\ tone' = FALSE ELSE UNCHANGED <<notice, tone>>
         /\ noticeLeft' = left
         /\ UNCHANGED session

\* The end of a session is announced, with a tone, for Hold.
AnnounceEnd(left) ==
  IF session # {}
    THEN /\ notice' = After(IF "gateway" \in session THEN "gateway" ELSE "capture")
         /\ tone' = TRUE /\ noticeLeft' = Hold
         /\ session' = session \ {notice'.of}
    ELSE /\ IF left = 0 THEN notice' = NoNotice /\ tone' = FALSE ELSE UNCHANGED <<notice, tone>>
         /\ noticeLeft' = left
         /\ UNCHANGED session

\* The capture that follows the gateway at once sets the hold for the end of
\* the gateway's access, and then announces its own.
AnnounceAccess(i, left) ==
  /\ Announce(i)
  /\ noticeLeft' = IF i = "capture" /\ "gateway" \in session THEN Hold ELSE left

Choose(gateway, sync, video, beacon, dt) ==
  LET after   == StableAfter(sync, dt)
      steady  == after # Never /\ after >= Debounce
      present == {i \in {"gateway"} : gateway} \cup {i \in {"capture"} : steady}
      chosen  == Chosen(present)
      left    == Less(noticeLeft, dt)
  IN /\ pc = "choose" /\ pc' = "ptt"
     /\ stable' = after
     /\ family' = chosen /\ active' = chosen
     /\ IF chosen # NoInput THEN AnnounceAccess(chosen, left) ELSE AnnounceEnd(left)
     /\ wanted' = (video \/ chosen # NoInput
                     \/ (FallbackEnabled /\ (beacon \/ notice' # NoNotice)))
     /\ last' = IF chosen # NoInput THEN chosen ELSE last
     /\ idle' = IF chosen # NoInput \/ active # NoInput THEN 0 ELSE More(idle, dt, Hold)
     /\ UNCHANGED <<setup, pi>>

\* Fault: the state of the old line is kept for the new one.
ReloadKeepsState ==
  /\ pc = "choose"
  /\ setup' \in Lines \cup {NoLine}
  /\ family' = NoInput
  /\ UNCHANGED <<pc, stable, session, notice, tone, noticeLeft, active, wanted,
                 pi, last, idle>>

\* A new configuration.  The line that was in use is left as it is.
Reload ==
  /\ pc = "choose"
  /\ setup' \in Lines \cup {NoLine}
  /\ family' = NoInput
  /\ state' = Unset
  /\ UNCHANGED <<pc, stable, session, notice, tone, noticeLeft, active, wanted,
                 late, asserted, last, idle, doubt>>

\* The release at the end of the program is one more request.
Shutdown ==
  /\ pc = "choose" /\ pc' = "release"
  /\ wanted' = FALSE
  /\ UNCHANGED <<choice, setup, pi>>

Iteration ==
  \E gateway, sync, video, beacon \in BOOLEAN, dt \in 1..Pause :
    Choose(gateway, sync, video, beacon, dt)

-----------------------------------------------------------------------------
(* setPiHardwarePtt.                                                        *)

\* The last of these requests that names the line.
Decisive(requests, line) ==
  {i \in DOMAIN requests :
     /\ requests[i].line = line
     /\ \A j \in (i + 1)..Len(requests) : requests[j].line # line}

\* The lines that are active when the Pi has carried out these requests.
Served(requests) ==
  {l \in Lines : IF Decisive(requests, l) = {} THEN l \in asserted
                 ELSE \E i \in Decisive(requests, l) : requests[i].level}

Request == [line |-> setup, level |-> wanted]
Needed == setup # NoLine /\ state # wanted

\* The step of the loop, or the last one, is behind it.
Ptt ==
  \/ pc = "ptt" /\ pc' = "choose"
  \/ pc = "release" /\ pc' = "over"

NotNeeded ==
  /\ Ptt /\ ~Needed
  /\ state' = IF setup = NoLine THEN Unset ELSE state
  /\ UNCHANGED <<choice, wanted, setup, late, asserted, doubt>>

\* Fault: the level counts as set whether or not there was an answer.
NotSentButNoted ==
  /\ Ptt /\ Needed
  /\ state' = wanted
  /\ UNCHANGED <<choice, wanted, setup, late, asserted, doubt>>

\* The Pi cannot be reached, or its API is not configured.
NotSent ==
  /\ Ptt /\ Needed
  /\ UNCHANGED <<choice, wanted, setup, pi>>

\* 202 after everything that was waiting at the Pi.
Answered ==
  /\ Ptt /\ Needed
  /\ asserted' = Served(Append(late, Request))
  /\ late' = <<>>
  /\ state' = wanted
  /\ doubt' = FALSE
  /\ UNCHANGED <<choice, wanted, setup>>

\* 500: the line is in use, or there is none; or it was opened, which sets it, and
\* setting it once more failed.
Refused ==
  /\ Ptt /\ Needed
  /\ \/ asserted' = Served(late) /\ UNCHANGED doubt
     \/ asserted' = Served(Append(late, Request)) /\ doubt' = TRUE
  /\ late' = <<>>
  /\ UNCHANGED <<choice, wanted, setup, state>>

\* The Pi has the request, but the PC does not wait for the answer.
TimesOut ==
  /\ Ptt /\ Needed
  /\ Len(late) < MaxLate
  /\ late' = Append(late, Request)
  /\ doubt' = TRUE
  /\ UNCHANGED <<choice, wanted, setup, state, asserted>>

SetPiHardwarePtt == NotNeeded \/ NotSent \/ Answered \/ Refused \/ TimesOut

-----------------------------------------------------------------------------
(* The Pi.                                                                  *)

\* Its server gets round to a request, which it may refuse.
Serve ==
  /\ late # <<>>
  /\ asserted' \in {Served(<<Head(late)>>), asserted}
  /\ late' = Tail(late)
  /\ UNCHANGED <<pc, choice, wanted, setup, state, doubt>>

\* It restarts: the lines are inactive, what waited is lost.
Reboot ==
  /\ asserted' = {} /\ late' = <<>>
  /\ doubt' = TRUE
  /\ UNCHANGED <<pc, choice, wanted, setup, state>>

PcNext == Iteration \/ Reload \/ Shutdown \/ SetPiHardwarePtt \/ Serve \/ Reboot

\* The loop goes on; the Pi answers again and again, if it is asked.
PcFairness ==
  /\ WF_pcVars(Iteration) /\ WF_pcVars(SetPiHardwarePtt) /\ SF_pcVars(Answered) /\ WF_pcVars(Serve)

PcSpec == PcInit /\ [][PcNext]_pcVars /\ PcFairness

-----------------------------------------------------------------------------
(* What PC mode promises.                                                   *)

\* What is announced is the access that runs, or for exactly Hold after its end
\* the last one, with the tone that only an end has; whichever input follows
\* whichever, and however often the configuration changes.
NoticeTellsLastAccess ==
  IF active # NoInput THEN notice = During(active) /\ ~tone
  ELSE IF last # NoInput /\ idle < Hold THEN notice = After(last) /\ tone
  ELSE notice = NoNotice /\ ~tone

\* What the PC takes for the level of the line is its level, if the Pi has done
\* nothing unnoticed since it last confirmed one: nothing is left unset because it is
\* believed to be set, after requests that failed or were refused and after
\* changes of the line.
BelievedIsTrue ==
  state # Unset /\ ~doubt => (setup \in asserted <=> state)

\* And the line follows the decision: whatever fails, it is tried again until
\* it has been answered, and one answer makes up for requests that were late.
PiFollows ==
  \A l \in Lines, on \in BOOLEAN :
    <>[](pc # "over" /\ setup = l /\ wanted = on /\ ~doubt)
      => <>[](l \in asserted <=> on)

=============================================================================
