------------------------------ MODULE Selection ------------------------------
(***************************************************************************)
(* What the control loop decides to transmit: SignalArbitrator             *)
(* (src/src/signal_arbitrator.cpp), the choice between the receivers and   *)
(* the analogue capture, and the access notice (runPiGatewayOrLocal,       *)
(* src/src/daemon.cpp).  The loop is one thread, so an iteration is one    *)
(* action; what it is told by its polls, and how long the iteration before *)
(* it took, are its inputs.                                                *)
(*                                                                         *)
(* activeSourceFamily and heldAnalogueActive are one variable here: the    *)
(* capture is held from its selection until the family changes.  Time is   *)
(* told as in LoopTime.  minimumDNumberDb is tested as minimumMerDb is and *)
(* has been left out.                                                      *)
(***************************************************************************)
EXTENDS Naturals, Sequences, SequencesExt, FiniteSetsExt, LoopTime

CONSTANTS
  Receivers,       \* in the order in which they are reported
  Priority,        \* the position of each in the configuration
  Hang,            \* hangTimeForReceiver, of the capture too
  Capture, NoInput,
  MinimumMer, Mers,\* the threshold, and the values reported
  NoMer,           \* merDb of a receiver that does not report it
  Debounce,        \* kAnalogueSyncDebounce
  Never            \* an optional point in time that is not set

Inputs == ToSet(Receivers) \cup {Capture}

ASSUME ConstantsAssumption ==
  /\ Receivers \in Seq(ToSet(Receivers))
  /\ Capture \notin ToSet(Receivers) /\ NoInput \notin Inputs
  /\ Priority \in [ToSet(Receivers) -> Nat]
  /\ Hang \in [Inputs -> Nat \ {0}]
  /\ Mers \subseteq Nat /\ NoMer \notin Mers /\ MinimumMer \in Nat
  /\ Debounce \in Nat /\ Never \notin Nat

VARIABLES
  status,      \* what the second poll reported of each receiver
  stable,      \* for how long the capture has been in sync (analogueLockedSince)
  arbiter,     \* activeReceiver_ of the arbitrator
  family,      \* activeSourceFamily
  hold,        \* what is left until heldAnalogueUntil
  active,
  notice,      \* accessNotice.has_value()
  noticeLeft,  \* what is left until accessNoticeUntil
  since,       \* how long ago an input was last active, and which (for the
  last,        \* properties)
  lost         \* for how long the capture has not been in stable sync

vars == <<status, stable, arbiter, family, hold, active, notice, noticeLeft, since, last, lost>>

Longest == Max({Hang[i] : i \in Inputs})
Unlocked == [locked |-> FALSE, mer |-> NoMer]
Statuses == {Unlocked} \cup [locked : {TRUE}, mer : Mers \cup {NoMer}]

TypeOK ==
  /\ status \in [ToSet(Receivers) -> Statuses]
  /\ stable \in 0..Debounce \cup {Never}
  /\ arbiter \in ToSet(Receivers) \cup {NoInput}
  /\ family \in {"nim", "analogue", "none"}
  /\ hold \in 0..Longest
  /\ active \in Inputs \cup {NoInput}
  /\ notice \in BOOLEAN /\ noticeLeft \in 0..Longest
  /\ since \in 0..Longest /\ last \in Inputs \cup {NoInput} /\ lost \in 0..Longest

Init ==
  /\ status = [r \in ToSet(Receivers) |-> Unlocked]
  /\ stable = Never /\ arbiter = NoInput /\ family = "none" /\ hold = 0
  /\ active = NoInput /\ notice = FALSE /\ noticeLeft = 0
  /\ since = Longest /\ last = NoInput /\ lost = Longest


-----------------------------------------------------------------------------
(* The arbitrator.                                                          *)

Usable(s) == s.locked /\ (s.mer = NoMer \/ s.mer >= MinimumMer)

Quality(s) == IF s.mer = NoMer THEN 0 ELSE s.mer

Beats(r, b, st) ==
  \/ Priority[r] < Priority[b]
  \/ Priority[r] = Priority[b] /\ Quality(st[r]) > Quality(st[b])

\* The first of those that none beats.
Best(st) ==
  LET usable == {i \in DOMAIN Receivers : Usable(st[Receivers[i]])}
      best   == {i \in usable : \A j \in usable : ~Beats(Receivers[j], Receivers[i], st)}
  IN IF usable = {} THEN NoInput ELSE Receivers[Min(best)]

\* Fault: the best is looked for in every iteration.
ChooseBest(st) == Best(st)

\* The selected receiver is kept while it is usable, whatever the others do.
Choose(st) ==
  IF arbiter # NoInput /\ Usable(st[arbiter]) THEN arbiter ELSE Best(st)

-----------------------------------------------------------------------------
(* The capture.                                                             *)

\* Its sync counts once it has been there for Debounce.
StableAfter(sync, dt) ==
  IF ~sync THEN Never
  ELSE IF stable = Never THEN 0
  ELSE More(stable, dt, Debounce)

\* Fault: the hold of the capture does not end.
SelectedHoldsOn(nim, steady, left) ==
  IF family = "analogue" THEN Capture
  ELSE IF nim # NoInput THEN nim
  ELSE IF steady THEN Capture
  ELSE NoInput

\* Whichever family is on the air stays there; a receiver is first in line.
Selected(nim, steady, left) ==
  IF family = "analogue" /\ (steady \/ left > 0) THEN Capture
  ELSE IF nim # NoInput THEN nim
  ELSE IF steady THEN Capture
  ELSE NoInput

HoldAfter(sel, steady, left) ==
  IF sel # Capture THEN 0 ELSE IF steady THEN Hang[Capture] ELSE left

\* Fault: the notice of the first access is not extended by the next.
NoticeOfFirst(sel, left) ==
  IF sel # NoInput
    THEN notice' = TRUE /\ noticeLeft' = IF notice THEN left ELSE Hang[sel]
    ELSE notice' = (notice /\ left > 0) /\ noticeLeft' = left

\* An access is announced until Hang after its end.
Notice(sel, left) ==
  IF sel # NoInput
    THEN notice' = TRUE /\ noticeLeft' = Hang[sel]
    ELSE notice' = (notice /\ left > 0) /\ noticeLeft' = left

-----------------------------------------------------------------------------
(* The loop.                                                                *)

Iterate(st, sync, dt) ==
  LET after  == StableAfter(sync, dt)
      steady == after # Never /\ after >= Debounce
      nim    == Choose(st)
      left   == Less(hold, dt)
      sel    == Selected(nim, steady, left)
  IN /\ status' = st
     /\ stable' = after
     /\ arbiter' = nim     \* also when the capture is on the air
     /\ active' = sel
     /\ family' = IF sel = NoInput THEN "none" ELSE IF sel = Capture THEN "analogue" ELSE "nim"
     /\ hold' = HoldAfter(sel, steady, left)
     /\ Notice(sel, Less(noticeLeft, dt))
     /\ since' = IF sel # NoInput THEN 0 ELSE More(since, dt, Longest)
     /\ last' = IF sel # NoInput THEN sel ELSE last
     /\ lost' = IF steady THEN 0 ELSE More(lost, dt, Longest)

\* A new configuration; the selection is made anew in the same iteration.
Reload ==
  /\ stable' = Never /\ arbiter' = NoInput /\ family' = "none" /\ hold' = 0
  /\ UNCHANGED <<status, active, notice, noticeLeft, since, last, lost>>

Iteration ==
  \E st \in [ToSet(Receivers) -> Statuses], sync \in BOOLEAN, dt \in 1..Pause :
    Iterate(st, sync, dt)

Next == Iteration \/ Reload

\* The loop goes on.
Spec == Init /\ [][Next]_vars /\ WF_vars(Iteration)

-----------------------------------------------------------------------------
(* What the selection promises.                                             *)

\* An access is not interrupted: unless the configuration changes, what is on
\* the air stays there until it is not received any more, whatever else comes
\* in, and a capture that loses its sync for less than its hang stays too.
NotInterrupted ==
  [][family # "none" /\ active' # active =>
       \/ active = NoInput
       \/ IF active = Capture THEN lost' >= Hang[Capture] ELSE ~Usable(status'[active])]_vars

\* The access notice, for which the transmitter is keyed, ends exactly one hang
\* after the end of the last access, that of the input that was last.
NoticeCoversHang ==
  notice <=> active # NoInput \/ (last # NoInput /\ since < Hang[last])

\* Nobody waits for ever: a receiver that stays usable is on the air at last if
\* no other is usable any more and the capture loses its sync.
Served ==
  \A r \in ToSet(Receivers) :
    <>[](/\ Usable(status[r]) /\ \A q \in ToSet(Receivers) \ {r} : ~Usable(status[q])
         /\ stable = Never)
    /\ <>[][~Reload]_vars
    => <>[](active = r)

=============================================================================
