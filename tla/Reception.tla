------------------------------ MODULE Reception ------------------------------
(***************************************************************************)
(* One receiver in the control loop: ScanScheduler                         *)
(* (src/src/scan_scheduler.cpp), which decides when to tune, and the       *)
(* status it decides on, from NimController::pollStatus and tune           *)
(* (src/src/nim_controller.cpp).  The loop of daemon.cpp polls, scans and  *)
(* polls again for the selection, while the radio goes on: a station comes *)
(* or goes, the demodulator locks, packets arrive, between any two calls.  *)
(* Receivers share nothing that matters here, so one is enough.            *)
(*                                                                         *)
(* A demodulator that locks on a carrier without valid TS is reported as   *)
(* lost.  Once it has delivered, it is trusted until Patience has passed   *)
(* without a valid packet: validTransportTimeout plus                      *)
(* staleTransportLockGrace.  (suppressUntil never matters: it is set when  *)
(* hasProgress is, or becomes, false, and cleared when that is set.)       *)
(*                                                                         *)
(* Time comes in units and is told as in LoopTime.  The usual names begin  *)
(* with Scan, as DaemonProofs extends this module beside Selection.        *)
(***************************************************************************)
EXTENDS Naturals, FiniteSets, LoopTime

CONSTANTS
  Targets,    \* how many targets the receiver scans
  Dwell, TargetHang,
  Patience,   \* how long a lock is trusted without valid packets
  Acquire     \* how long the demodulator takes at most to lock

ASSUME ScanAssumption ==
  /\ Targets \in Nat \ {0}
  /\ Dwell \in Nat /\ TargetHang \in Nat /\ Patience \in Nat /\ Acquire \in Nat

VARIABLES
  pc,        \* the loop: what it does next
  cursor,    \* the Cursor of ScanScheduler
  watch,     \* the ValidPacketWatch of NimController
  locked,    \* status.state as last polled: lockedDvbs or lockedDvbs2
  tuned,     \* the target the tuner is set to, 0 for none
  demod,     \* the demodulator has locked
  age,       \* for how long it has been trying
  air,       \* what is transmitted on each target
  heard      \* how long ago a lock was last reported to the scanner (for the
             \* properties)

loop == <<pc, cursor, watch, locked>>
radio == <<tuned, demod, age, air>>
scanVars == <<pc, cursor, watch, locked, tuned, demod, age, air, heard>>

All == 1..Targets

FreshCursor == [index |-> 0, tuned |-> FALSE, wasLocked |-> FALSE, hang |-> 0, dwell |-> 0]

ScanTypeOK ==
  /\ pc \in {"poll", "scan", "poll again", "sleep"}
  /\ cursor \in [index : 0..(Targets - 1), tuned : BOOLEAN, wasLocked : BOOLEAN,
                 hang : 0..TargetHang, dwell : 0..Dwell]
  /\ watch \in [news : BOOLEAN, progress : BOOLEAN, quiet : 0..(Patience + 1)]
  /\ locked \in BOOLEAN
  /\ tuned \in 0..Targets /\ demod \in BOOLEAN /\ age \in 0..Acquire
  /\ air \in [All -> {"nothing", "carrier", "TS"}]
  /\ heard \in 0..(TargetHang + 1)

LongAgo == TargetHang + 1

ScanInit ==
  /\ pc = "poll"
  /\ cursor = FreshCursor
  /\ watch = [news |-> FALSE, progress |-> FALSE, quiet |-> 0]
  /\ locked = FALSE
  /\ tuned = 0 /\ demod = FALSE /\ age = 0
  /\ air = [t \in All |-> "nothing"]
  /\ heard = LongAgo

-----------------------------------------------------------------------------
(* The loop.                                                                *)

\* Fault: a lock is trusted for good once it has delivered.
WatchTrusts ==
  IF watch.news THEN [news |-> FALSE, progress |-> TRUE, quiet |-> 0] ELSE watch

\* validTransportFresh(): the watch after a look at a locked demodulator.
Watched ==
  IF watch.news THEN [news |-> FALSE, progress |-> TRUE, quiet |-> 0]
  ELSE IF watch.progress /\ watch.quiet > Patience THEN [watch EXCEPT !.progress = FALSE]
  ELSE watch

Look ==
  IF demod
    THEN watch' = Watched /\ locked' = Watched.progress
    ELSE locked' = FALSE /\ UNCHANGED watch

Poll ==
  /\ pc = "poll" /\ pc' = "scan"
  /\ Look
  /\ heard' = IF locked' THEN 0 ELSE heard
  /\ UNCHANGED <<cursor, radio>>

PollAgain ==
  /\ pc = "poll again" /\ pc' = "sleep"
  /\ Look
  /\ UNCHANGED <<cursor, radio, heard>>

\* Fault: the hang is forgotten when the lock is.
MarkForgetsHang ==
  IF locked THEN [cursor EXCEPT !.wasLocked = TRUE, !.hang = 0, !.dwell = Dwell]
            ELSE [cursor EXCEPT !.wasLocked = FALSE]

\* The cursor once it has taken note of the status.
Marked ==
  IF locked THEN [cursor EXCEPT !.wasLocked = TRUE, !.hang = 0, !.dwell = Dwell]
  ELSE IF cursor.wasLocked THEN [cursor EXCEPT !.wasLocked = FALSE, !.hang = TargetHang]
  ELSE cursor

\* Fault: a retune leaves the index where it was.
AdvanceStays(c) == [c EXCEPT !.dwell = Dwell, !.tuned = TRUE]

Advanced(c) == [c EXCEPT !.index = (@ + 1) % Targets, !.dwell = Dwell, !.tuned = TRUE]

\* tune(): whatever the demodulator had is gone, and so are its packets.  A
\* failure on the bus is swallowed and leaves the tuner nowhere.
Tune(t) ==
  /\ tuned' \in {t, 0}
  /\ demod' = FALSE /\ age' = 0
  /\ watch' = [news |-> FALSE, progress |-> FALSE, quiet |-> 0]
  /\ UNCHANGED air
  /\ locked' = FALSE

Due == ~locked /\ Marked.hang = 0 /\ (~Marked.tuned \/ Marked.dwell = 0)

Retune ==
  /\ pc = "scan" /\ Due
  /\ Tune(Marked.index + 1)
  /\ cursor' = Advanced(Marked)
  /\ pc' = "poll again"
  /\ UNCHANGED heard

Stay ==
  /\ pc = "scan" /\ ~Due
  /\ cursor' = Marked
  /\ pc' = "poll again"
  /\ UNCHANGED <<watch, locked, radio, heard>>

\* A new configuration brings a new scheduler.
ReloadTargets ==
  /\ pc = "poll"
  /\ cursor' = FreshCursor
  /\ heard' = LongAgo
  /\ UNCHANGED <<pc, watch, locked, radio>>

-----------------------------------------------------------------------------
(* The radio.                                                               *)

Hears == tuned # 0 /\ air[tuned] # "nothing"

\* The rest of the iteration.  A station with TS delivers all the time, and a
\* demodulator that hears one locks in time.
Sleep ==
  /\ pc = "sleep" /\ pc' = "poll"
  /\ \E dt \in 1..Pause :
       /\ Hears /\ ~demod => age + dt <= Acquire
       /\ cursor' = [cursor EXCEPT !.hang = Less(@, dt), !.dwell = Less(@, dt)]
       /\ watch' = [watch EXCEPT !.quiet = More(@, dt, Patience + 1),
                                 !.news = @ \/ (demod /\ air[tuned] = "TS")]
       /\ age' = IF Hears /\ ~demod THEN age + dt ELSE 0
       /\ heard' = More(heard, dt, TargetHang + 1)
  /\ UNCHANGED <<locked, tuned, demod, air>>

Lock ==
  /\ Hears /\ ~demod
  /\ demod' = TRUE
  /\ UNCHANGED <<loop, tuned, age, air, heard>>

\* A station comes, changes or goes.
OnTheAir ==
  /\ \E t \in All, what \in {"nothing", "carrier", "TS"} :
       /\ what # air[t]
       /\ air' = [air EXCEPT ![t] = what]
       /\ demod' = (demod /\ (t = tuned => what # "nothing"))
  /\ UNCHANGED <<loop, tuned, age, heard>>

Loop == Poll \/ Retune \/ Stay \/ PollAgain \/ Sleep
ScanNext == Loop \/ ReloadTargets \/ Lock \/ OnTheAir

\* The loop goes on, however often a flickering station sets the acquisition
\* back; the demodulator locks when it has to.
ScanFairness == SF_scanVars(Loop) /\ WF_scanVars(Lock)

ScanSpec == ScanInit /\ [][ScanNext]_scanVars /\ ScanFairness

-----------------------------------------------------------------------------
(* What scanning promises.                                                  *)

\* README.md:20, "pause scanning while a receiver is locked, then resume after
\* a configured hang": what the scanner saw locked it leaves alone for
\* TargetHang, whatever the lock, the packets and the station do in the meantime.
HangIsKept == [][Retune => heard >= TargetHang]_scanVars

Calm == <>[][~ReloadTargets]_scanVars

\* A lock that delivers nothing does not hold the scan up: if there is no TS
\* anywhere, every target is tried again and again, carriers or not.
EveryTargetIsTried ==
  Calm /\ <>[](\A t \in All : air[t] # "TS")
    => \A t \in All : []<>(pc = "poll again" /\ cursor.tuned /\ cursor.index = t % Targets)

\* A station that stays is found and kept, if it is the only one and the tuner
\* works: no carrier and no half finished acquisition keeps the scan from it,
\* and no retune happens while it delivers.
StationIsFound ==
  \A t \in All :
    /\ Calm
    /\ <>[](air[t] = "TS" /\ \A u \in All \ {t} : air[u] # "TS")
    /\ <>[][Retune => tuned' # 0]_scanVars
    => <>[](locked /\ tuned = t)

=============================================================================
