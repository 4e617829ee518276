---------------------------- MODULE DaemonProofs ----------------------------
(***************************************************************************)
(* Proofs about what local mode makes of its receivers: the scan of one    *)
(* (Reception), the selection among them (Selection) and the operating     *)
(* hours (Schedule).                                                       *)
(***************************************************************************)
EXTENDS Reception, Selection, Schedule, WellFoundedInduction, TLAPS

-----------------------------------------------------------------------------
(* The scan of a receiver.                                                  *)

Cursors == [index : Nat, tuned : BOOLEAN, wasLocked : BOOLEAN, hang : Nat, dwell : Nat]
Watches == [news : BOOLEAN, progress : BOOLEAN, quiet : Nat]

Scanning ==
  /\ pc \in {"poll", "scan", "poll again", "sleep"}
  /\ locked \in BOOLEAN /\ demod \in BOOLEAN
  /\ air \in [1..Targets -> {"nothing", "carrier", "TS"}]

Counting ==
  /\ cursor \in Cursors
  /\ cursor.index < Targets /\ cursor.hang <= TargetHang /\ cursor.dwell <= Dwell
  /\ watch \in Watches /\ watch.quiet <= Patience + 1
  /\ tuned \in 0..Targets /\ age \in 0..Acquire
  /\ heard \in 0..(TargetHang + 1)

\* What the scanner was told last is younger than the hang that is left, unless it is
\* about to be told of a lock, or takes the receiver for locked.
HangIsLeft ==
  \/ pc = "scan" /\ locked
  \/ cursor.wasLocked
  \/ heard + cursor.hang >= TargetHang

LEMMA WatchedIs ==
  ASSUME watch \in Watches
  PROVE  Watched \in Watches /\ Watched.quiet <= watch.quiet
<1>1. CASE watch.news
  <2>1. Watched = [news |-> FALSE, progress |-> TRUE, quiet |-> 0]
    BY <1>1 DEF Watched
  <2>2. Watched \in Watches
    BY <2>1 DEF Watches
  <2>3. Watched.quiet <= watch.quiet
    BY <2>1 DEF Watches
  <2> QED
    BY <2>2, <2>3
<1>2. CASE ~watch.news /\ watch.progress /\ watch.quiet > Patience
  <2>1. Watched = [watch EXCEPT !.progress = FALSE]
    BY <1>2 DEF Watched
  <2>2. Watched \in Watches
    BY <2>1 DEF Watches
  <2>3. Watched.quiet <= watch.quiet
    BY <2>1 DEF Watches
  <2> QED
    BY <2>2, <2>3
<1>3. CASE ~watch.news /\ ~(watch.progress /\ watch.quiet > Patience)
  <2>1. Watched = watch
    BY <1>3 DEF Watched
  <2> QED
    BY <2>1 DEF Watches
<1> QED
  BY <1>1, <1>2, <1>3

LEMMA MarkedIs ==
  ASSUME cursor \in Cursors, Dwell \in Nat, TargetHang \in Nat
  PROVE  LET m == Marked
         IN /\ m \in Cursors /\ m.index = cursor.index
            /\ m.dwell = cursor.dwell \/ m.dwell = Dwell
            /\ locked => m.wasLocked /\ m.hang = 0
            /\ ~locked => ~m.wasLocked
            /\ ~locked => m.hang = IF cursor.wasLocked THEN TargetHang ELSE cursor.hang
<1> DEFINE m == Marked
<1>1. CASE locked
  <2>1. m = [cursor EXCEPT !.wasLocked = TRUE, !.hang = 0, !.dwell = Dwell]
    BY <1>1 DEF Marked
  <2> HIDE DEF m
  <2>2. m \in Cursors
    BY <2>1 DEF Cursors
  <2>3. m.index = cursor.index /\ m.dwell = Dwell /\ m.hang = 0
    BY <2>1 DEF Cursors
  <2>4. m.wasLocked
    BY <2>1 DEF Cursors
  <2> QED
    BY <1>1, <2>2, <2>3, <2>4 DEF m
<1>2. CASE ~locked /\ cursor.wasLocked
  <2>1. m = [cursor EXCEPT !.wasLocked = FALSE, !.hang = TargetHang]
    BY <1>2 DEF Marked
  <2> HIDE DEF m
  <2>2. m \in Cursors
    BY <2>1 DEF Cursors
  <2>3. m.index = cursor.index /\ m.dwell = cursor.dwell /\ m.hang = TargetHang
    BY <2>1 DEF Cursors
  <2>4. ~m.wasLocked
    BY <2>1 DEF Cursors
  <2> QED
    BY <1>2, <2>2, <2>3, <2>4 DEF m
<1>3. CASE ~locked /\ ~cursor.wasLocked
  <2>1. m = cursor
    BY <1>3 DEF Marked
  <2> QED
    BY <1>3, <2>1
<1> QED
  BY <1>1, <1>2, <1>3

LEMMA AdvancedIs ==
  ASSUME NEW m \in Cursors, Targets \in Nat \ {0}, Dwell \in Nat
  PROVE  LET a == Advanced(m)
         IN /\ a \in Cursors /\ a.index < Targets
            /\ a.hang = m.hang /\ a.dwell = Dwell
            /\ a.wasLocked = m.wasLocked
<1> DEFINE i == (m.index + 1) % Targets
           a == Advanced(m)
<1>1. i \in Nat /\ i < Targets
  BY DEF Cursors
<1>2. a = [m EXCEPT !.index = i, !.dwell = Dwell, !.tuned = TRUE]
  BY DEF Advanced
<1> HIDE DEF i, a
<1>3. a \in Cursors
  BY <1>1, <1>2 DEF Cursors
<1>4. a.index < Targets /\ a.hang = m.hang /\ a.dwell = Dwell
  BY <1>1, <1>2 DEF Cursors
<1>5. a.wasLocked = m.wasLocked
  BY <1>2 DEF Cursors
<1> QED
  BY <1>3, <1>4, <1>5 DEF a

ScanInv == Scanning /\ Counting /\ HangIsLeft

LEMMA ScanAtFirst == ScanInit => ScanInv
<1>1. /\ Targets \in Nat \ {0} /\ Pause \in Nat \ {0}
      /\ Dwell \in Nat /\ TargetHang \in Nat /\ Patience \in Nat /\ Acquire \in Nat
  BY ScanAssumption, PauseAssumption DEF ScanAssumption
<1> SUFFICES ASSUME ScanInit PROVE ScanInv
  OBVIOUS
<1>2. Scanning
  BY Zenon DEF ScanInit, Scanning, All
<1>3. Counting
  BY <1>1 DEF ScanInit, Counting, Cursors, Watches, FreshCursor, LongAgo
<1>4. HangIsLeft
  BY <1>1 DEF ScanInit, HangIsLeft, FreshCursor, LongAgo
<1> QED
  BY <1>2, <1>3, <1>4 DEF ScanInv

LEMMA Longer == \A a, h, t \in Nat : a >= t => a + h >= t
OBVIOUS

LEMMA ScanKept ==
  ASSUME ScanInv, [ScanNext]_scanVars
  PROVE  ScanInv'
<1>1. /\ Targets \in Nat \ {0} /\ Pause \in Nat \ {0}
      /\ Dwell \in Nat /\ TargetHang \in Nat /\ Patience \in Nat /\ Acquire \in Nat
  BY ScanAssumption, PauseAssumption DEF ScanAssumption
<1>2. Scanning'
  <2> USE DEF ScanInv, Scanning
  <2>1. CASE Poll \/ PollAgain
    <3>1. locked' \in BOOLEAN
      BY <1>1, <2>1, WatchedIs, Zenon DEF Poll, PollAgain, Look, Counting, Watches
    <3> QED
      BY <2>1, <3>1, Zenon DEF Poll, PollAgain, radio
  <2>2. CASE Retune
    BY <2>2, Zenon DEF Retune, Tune
  <2>3. CASE Stay
    BY <2>3, Zenon DEF Stay, radio
  <2>4. CASE Sleep
    BY <2>4, Zenon DEF Sleep
  <2>5. CASE ReloadTargets
    BY <2>5, Zenon DEF ReloadTargets, radio
  <2>6. CASE Lock
    BY <2>6, Zenon DEF Lock, loop
  <2>7. CASE OnTheAir
    BY <2>7, Zenon DEF OnTheAir, loop, All
  <2>8. CASE UNCHANGED scanVars
    BY <2>8, Zenon DEF scanVars
  <2> QED
    BY <2>1, <2>2, <2>3, <2>4, <2>5, <2>6, <2>7, <2>8, Zenon DEF ScanNext, Loop
<1>3. Counting' /\ HangIsLeft'
  <2> USE DEF ScanInv
  <2>1. CASE Poll
    <3>1. /\ pc = "poll" /\ pc' = "scan" /\ cursor' = cursor /\ tuned' = tuned /\ age' = age
          /\ watch' = Watched \/ watch' = watch
          /\ heard' = IF locked' THEN 0 ELSE heard
      BY <2>1, Zenon DEF Poll, Look, radio
    <3>2. watch' \in Watches /\ watch'.quiet <= Patience + 1
      <4>1. watch \in Watches /\ watch.quiet \in Nat /\ watch.quiet <= Patience + 1
        BY DEF Counting, Watches
      <4>2. CASE watch' = watch
        BY <4>1, <4>2, Zenon
      <4>3. CASE watch' = Watched
        BY <1>1, <4>1, <4>3, WatchedIs DEF Watches
      <4> QED
        BY <3>1, <4>2, <4>3
    <3>3. heard' \in 0..(TargetHang + 1)
      BY <1>1, <3>1 DEF Counting
    <3>4. HangIsLeft'
      BY <3>1, Zenon DEF HangIsLeft
    <3> QED
      BY <3>1, <3>2, <3>3, <3>4 DEF Counting
  <2>2. CASE PollAgain
    <3>1. /\ pc = "poll again" /\ pc' = "sleep" /\ cursor' = cursor /\ tuned' = tuned
          /\ age' = age /\ heard' = heard
          /\ watch' = Watched \/ watch' = watch
      BY <2>2, Zenon DEF PollAgain, Look, radio
    <3>2. watch' \in Watches /\ watch'.quiet <= Patience + 1
      <4>1. watch \in Watches /\ watch.quiet \in Nat /\ watch.quiet <= Patience + 1
        BY DEF Counting, Watches
      <4>2. CASE watch' = watch
        BY <4>1, <4>2, Zenon
      <4>3. CASE watch' = Watched
        BY <1>1, <4>1, <4>3, WatchedIs DEF Watches
      <4> QED
        BY <3>1, <4>2, <4>3
    <3>3. HangIsLeft'
      BY <3>1 DEF HangIsLeft
    <3> QED
      BY <3>1, <3>2, <3>3 DEF Counting
  <2>3. CASE Retune
    <3> DEFINE m == Marked
    <3>1. /\ ~locked /\ m.hang = 0 /\ cursor' = Advanced(m) /\ heard' = heard
          /\ tuned' \in {m.index + 1, 0} /\ age' = 0
          /\ watch' = [news |-> FALSE, progress |-> FALSE, quiet |-> 0]
      BY <2>3, Zenon DEF Retune, Tune, Due
    <3>2. /\ m \in Cursors /\ m.index = cursor.index
          /\ m.hang = IF cursor.wasLocked THEN TargetHang ELSE cursor.hang
      BY <1>1, <3>1, MarkedIs DEF Counting
    <3> HIDE DEF m
    <3>3. /\ cursor' \in Cursors /\ cursor'.index < Targets /\ cursor'.hang = 0
          /\ cursor'.dwell = Dwell
      BY <1>1, <3>1, <3>2, AdvancedIs
    <3>4. Counting'
      <4>1. tuned' \in 0..Targets
        BY <1>1, <3>1, <3>2 DEF Counting, Cursors
      <4>2. watch' \in Watches /\ watch'.quiet = 0
        BY <3>1 DEF Watches
      <4> QED
        BY <1>1, <3>1, <3>3, <4>1, <4>2 DEF Counting
    <3>5. HangIsLeft'
      BY <1>1, <3>1, <3>2, <3>3 DEF HangIsLeft, Counting, Cursors
    <3> QED
      BY <3>4, <3>5
  <2>4. CASE Stay
    <3> DEFINE m == Marked
    <3>1. /\ pc = "scan" /\ pc' = "poll again" /\ cursor' = m /\ watch' = watch /\ tuned' = tuned
          /\ age' = age /\ heard' = heard
      BY <2>4, Zenon DEF Stay, radio
    <3>2. /\ m \in Cursors /\ m.index = cursor.index
          /\ m.dwell = cursor.dwell \/ m.dwell = Dwell
          /\ locked => m.wasLocked /\ m.hang = 0
          /\ ~locked => m.hang = IF cursor.wasLocked THEN TargetHang ELSE cursor.hang
      BY <1>1, MarkedIs DEF Counting
    <3> HIDE DEF m
    <3>3. m.hang \in Nat /\ m.hang <= TargetHang /\ m.dwell <= Dwell
      <4>1. CASE locked
        BY <1>1, <3>2, <4>1 DEF Counting, Cursors
      <4>2. CASE ~locked
        BY <1>1, <3>2, <4>2 DEF Counting, Cursors
      <4> QED
        BY <4>1, <4>2
    <3>4. Counting'
      BY <3>1, <3>2, <3>3 DEF Counting
    <3>5. HangIsLeft'
      <4>1. CASE locked
        BY <3>1, <3>2, <4>1, Zenon DEF HangIsLeft
      <4>2. CASE ~locked /\ cursor.wasLocked
        <5>1. heard' + cursor'.hang >= TargetHang
          <6>1. heard' = heard /\ cursor'.hang = TargetHang
            BY <3>1, <3>2, <4>2, Zenon
          <6>2. heard \in Nat
            BY <1>1 DEF Counting
          <6> QED
            BY <1>1, <6>1, <6>2
        <5> QED
          BY <5>1 DEF HangIsLeft
      <4>3. CASE ~locked /\ ~cursor.wasLocked
        <5>1. heard + cursor.hang >= TargetHang
          BY <4>3, Zenon DEF HangIsLeft
        <5> QED
          BY <3>1, <3>2, <4>3, <5>1 DEF HangIsLeft
      <4> QED
        BY <4>1, <4>2, <4>3
    <3> QED
      BY <3>4, <3>5
  <2>5. CASE Sleep
    <3>1. PICK dt \in 1..Pause :
            /\ Hears /\ ~demod => age + dt <= Acquire
            /\ cursor' = [cursor EXCEPT !.hang = Less(@, dt), !.dwell = Less(@, dt)]
            /\ watch' = [watch EXCEPT !.quiet = More(@, dt, Patience + 1),
                                      !.news = @ \/ (demod /\ air[tuned] = "TS")]
            /\ age' = IF Hears /\ ~demod THEN age + dt ELSE 0
            /\ heard' = More(heard, dt, TargetHang + 1)
      BY <2>5, Zenon DEF Sleep
    <3> DEFINE h == Less(cursor.hang, dt)
               d == Less(cursor.dwell, dt)
               q == More(watch.quiet, dt, Patience + 1)
               n == watch.news \/ (demod /\ air[tuned] = "TS")
    <3>2. /\ h \in Nat /\ h <= cursor.hang /\ h >= cursor.hang - dt /\ d \in Nat /\ d <= cursor.dwell
          /\ q \in Nat /\ q <= Patience + 1
      BY <1>1 DEF Counting, Cursors, Watches, Less, More
    <3>3. n \in BOOLEAN
      OBVIOUS
    <3>4. /\ cursor' = [cursor EXCEPT !.hang = h, !.dwell = d]
          /\ watch' = [watch EXCEPT !.quiet = q, !.news = n]
      BY <3>1
    <3> HIDE DEF h, d, q, n
    <3>5. /\ cursor' \in Cursors /\ cursor'.index = cursor.index
          /\ cursor'.hang = h /\ cursor'.dwell = d
      BY <3>2, <3>4 DEF Counting, Cursors
    <3>6. cursor'.wasLocked = cursor.wasLocked
      BY <3>4 DEF Counting, Cursors
    <3>7. watch' \in Watches /\ watch'.quiet = q
      BY <3>2, <3>3, <3>4 DEF Counting, Watches
    <3>8. /\ heard' \in 0..(TargetHang + 1)
          /\ heard' >= TargetHang \/ heard' = heard + dt
      BY <1>1, <3>1 DEF Counting, More
    <3>9. age' \in 0..Acquire
      <4>1. CASE Hears /\ ~demod
        BY <1>1, <3>1, <4>1 DEF Counting
      <4>2. CASE ~(Hears /\ ~demod)
        BY <1>1, <3>1, <4>2
      <4> QED
        BY <4>1, <4>2
    <3>10. tuned' = tuned /\ pc = "sleep"
      BY <2>5, Zenon DEF Sleep
    <3>11. Counting'
      BY <1>1, <3>2, <3>5, <3>7, <3>8, <3>9, <3>10 DEF Counting, Cursors
    <3>12. HangIsLeft'
      <4>1. CASE cursor.wasLocked
        BY <3>6, <4>1 DEF HangIsLeft
      <4>2. CASE heard + cursor.hang >= TargetHang
        <5>1. heard' + cursor'.hang >= TargetHang
          <6>1. /\ heard \in Nat /\ cursor.hang \in Nat /\ h \in Nat /\ dt \in Nat
                /\ heard' \in Nat /\ TargetHang \in Nat
            BY <1>1, <3>2, <3>8 DEF Counting, Cursors
          <6>2. heard' + h >= TargetHang
            <7>1. CASE heard' >= TargetHang
              BY <6>1, <7>1, Longer
            <7>2. CASE heard' = heard + dt
              <8>1. h >= cursor.hang - dt
                BY <3>2
              <8> QED
                BY <4>2, <6>1, <7>2, <8>1
            <7> QED
              BY <3>8, <7>1, <7>2
          <6>3. cursor'.hang = h
            BY <3>5
          <6> QED
            BY <6>2, <6>3, Zenon
        <5> QED
          BY <5>1 DEF HangIsLeft
      <4> QED
        BY <3>10, <4>1, <4>2 DEF HangIsLeft
    <3> QED
      BY <3>11, <3>12
  <2>6. CASE ReloadTargets
    <3>1. /\ cursor' = [index |-> 0, tuned |-> FALSE, wasLocked |-> FALSE, hang |-> 0, dwell |-> 0]
          /\ heard' = TargetHang + 1 /\ watch' = watch /\ tuned' = tuned /\ age' = age
      BY <2>6, Zenon DEF ReloadTargets, FreshCursor, LongAgo, radio
    <3>2. cursor' \in Cursors /\ cursor'.index = 0 /\ cursor'.hang = 0 /\ cursor'.dwell = 0
      BY <3>1 DEF Cursors
    <3> QED
      BY <1>1, <3>1, <3>2 DEF Counting, HangIsLeft
  <2>7. CASE Lock \/ OnTheAir \/ UNCHANGED scanVars
    <3>1. UNCHANGED <<pc, cursor, watch, locked, tuned, age, heard>>
      BY <2>7, Zenon DEF Lock, OnTheAir, loop, scanVars
    <3> QED
      BY <3>1 DEF Counting, HangIsLeft
  <2> QED
    BY <2>1, <2>2, <2>3, <2>4, <2>5, <2>6, <2>7, Zenon DEF ScanNext, Loop
<1> QED
  BY <1>2, <1>3 DEF ScanInv

\* Every variable of a receiver and of its scan keeps its type, for any number of
\* targets and any times.
THEOREM ScanTypeCorrect == ScanSpec => []ScanTypeOK
<1>1. ScanInv => ScanTypeOK
  <2> SUFFICES ASSUME ScanInv PROVE ScanTypeOK
    OBVIOUS
  <2>1. Targets \in Nat /\ TargetHang \in Nat /\ Dwell \in Nat /\ Patience \in Nat
    BY ScanAssumption DEF ScanAssumption
  <2>2. /\ cursor \in [index : 0..(Targets - 1), tuned : BOOLEAN, wasLocked : BOOLEAN,
                       hang : 0..TargetHang, dwell : 0..Dwell]
        /\ watch \in [news : BOOLEAN, progress : BOOLEAN, quiet : 0..(Patience + 1)]
        /\ tuned \in 0..Targets /\ age \in 0..Acquire /\ heard \in 0..(TargetHang + 1)
    BY <2>1 DEF ScanInv, Counting, Cursors, Watches
  <2> QED
    BY <2>2, Zenon DEF ScanInv, Scanning, ScanTypeOK, All
<1> QED
  BY <1>1, ScanAtFirst, ScanKept, PTL DEF ScanSpec

\* What the scanner was told was locked it leaves alone for the hang, for any times and
\* targets: ScanScheduler::tick tunes only when the hang is over.
THEOREM HangsAreKept == ScanSpec => HangIsKept
<1>1. ScanInv /\ Retune => heard >= TargetHang
  <2> SUFFICES ASSUME ScanInv, Retune PROVE heard >= TargetHang
    OBVIOUS
  <2>1. Dwell \in Nat /\ TargetHang \in Nat
    BY ScanAssumption DEF ScanAssumption
  <2>2. ~locked /\ Marked.hang = 0
    BY Zenon DEF Retune, Due
  <2>3. (IF cursor.wasLocked THEN TargetHang ELSE cursor.hang) = 0
    BY <2>1, <2>2, MarkedIs DEF ScanInv, Counting
  <2> QED
    BY <2>1, <2>2, <2>3 DEF ScanInv, HangIsLeft, Counting
<1>2. ScanInv /\ [ScanNext]_scanVars => [Retune => heard >= TargetHang]_scanVars
  BY <1>1
<1> QED
  BY <1>2, ScanAtFirst, ScanKept, PTL DEF ScanSpec, HangIsKept

-----------------------------------------------------------------------------
(* The selection of local mode.                                             *)

Reported == ToSet(Receivers)

\* What is on the air is what the arbitrator has chosen, or the capture; this has been
\* out of sync for what is over of its hold.
OnAir ==
  /\ family # "none" => active # NoInput
  /\ family = "analogue" => active = Capture /\ hold + lost >= Hang[Capture]
  /\ family = "nim" => active = arbiter /\ active # NoInput

\* The notice lasts for what is left of the hang of the input that was last.
NoticeLasts ==
  /\ last = NoInput => active = NoInput /\ noticeLeft = 0
  /\ last # NoInput => noticeLeft = Less(Hang[last], since)
  /\ active # NoInput => last = active /\ since = 0

LocalInv == TypeOK /\ OnAir /\ NoticeLasts /\ NoticeCoversHang

LEMMA Smallest ==
  ASSUME NEW S \in SUBSET Nat, S # {}
  PROVE  \E i \in S : \A j \in S : i <= j
<1> DEFINE R == OpToRel(<, Nat)
<1>1. \E x \in S : \A y \in S : <<y, x>> \notin R
  <2>1. IsWellFoundedOn(R, Nat)
    BY NatLessThanWellFounded
  <2> HIDE DEF R
  <2> QED
    BY <2>1, WFMin
<1>2. \A x, y \in Nat : y < x => <<y, x>> \in R
  BY DEF OpToRel
<1> HIDE DEF R
<1>3. \A x, y \in Nat : ~(y < x) => x <= y
  OBVIOUS
<1> QED
  BY <1>1, <1>2, <1>3, Zenon

LEMMA Before ==
  /\ \A i, m \in Nat : i <= m <=> (i <= m - 1 \/ i = m)
  /\ \A m \in Nat : m # 0 => m - 1 \in Nat /\ ~(m <= m - 1)
OBVIOUS

\* Of finitely many, one is beaten by none.
LEMMA Unbeaten ==
  ASSUME NEW n \in Nat, NEW R, NEW U \in SUBSET (1..n), U # {},
         \A i \in U : <<i, i>> \notin R,
         \A i, j, k \in U : <<i, j>> \in R /\ <<j, k>> \in R => <<i, k>> \in R
  PROVE  \E i \in U : \A j \in U : <<j, i>> \notin R
<1> DEFINE Some(m) == \E i \in U : i <= m
           Found(m) == \E i \in U : i <= m /\ \A j \in U : j <= m => <<j, i>> \notin R
           Open == {m \in Nat : Some(m) /\ ~Found(m)}
<1>1. \A i \in U : i \in Nat /\ 1 <= i /\ i <= n
  OBVIOUS
<1>2. Open = {}
  <2> SUFFICES ASSUME Open # {} PROVE FALSE
    OBVIOUS
  <2>1. PICK m \in Open : \A k \in Open : m <= k
    <3>1. Open \in SUBSET Nat
      OBVIOUS
    <3> HIDE DEF Open
    <3> QED
      BY <3>1, Smallest
  <2>2. m \in Nat /\ Some(m) /\ ~Found(m)
    OBVIOUS
  <2>3. m # 0
    BY <1>1, <2>2
  <2>4. \A i \in U : i <= m <=> (i <= m - 1 \/ i = m)
    BY <1>1, <2>2, Before, Zenon
  <2>5. Some(m - 1) => Found(m - 1)
    <3>1. m - 1 \in Nat /\ ~(m <= m - 1)
      BY <2>2, <2>3, Before, Zenon
    <3>2. m - 1 \notin Open
      BY <2>1, <3>1, Zenon
    <3> HIDE DEF Some, Found
    <3> QED
      BY <3>1, <3>2, Zenon
  <2>6. CASE ~Some(m - 1)
    <3>1. m \in U /\ \A j \in U : j <= m => j = m
      BY <2>2, <2>4, <2>6
    <3>2. m <= m
      BY <2>2
    <3> QED
      BY <2>2, <3>1, <3>2
  <2>7. CASE Some(m - 1)
    <3>1. PICK i \in U : i <= m - 1 /\ \A j \in U : j <= m - 1 => <<j, i>> \notin R
      BY <2>5, <2>7
    <3>2. CASE m \in U /\ <<m, i>> \in R
      <4>1. \A j \in U : j <= m => <<j, m>> \notin R
        <5> SUFFICES ASSUME NEW j \in U, j <= m, <<j, m>> \in R PROVE FALSE
          OBVIOUS
        <5>1. j # m
          BY <3>2
        <5>2. j <= m - 1
          BY <2>4, <5>1
        <5>3. <<j, i>> \in R
          BY <3>2
        <5> QED
          BY <3>1, <5>2, <5>3
      <4>2. m <= m
        BY <2>2
      <4> QED
        BY <2>2, <3>2, <4>1, <4>2
    <3>3. CASE ~(m \in U /\ <<m, i>> \in R)
      <4>1. i <= m /\ \A j \in U : j <= m => <<j, i>> \notin R
        BY <2>4, <3>1, <3>3, Zenon
      <4> QED
        BY <2>2, <4>1, Zenon
    <3> QED
      BY <3>2, <3>3
  <2> QED
    BY <2>6, <2>7
<1>3. Some(n) /\ n \in Nat
  BY <1>1
<1>4. Found(n)
  <2> HIDE DEF Some, Found
  <2> QED
    BY <1>2, <1>3
<1> QED
  BY <1>1, <1>4

\* Of finitely many pairs, one has the best second of those with the best first.
LEMMA FirstThenSecond ==
  ASSUME NEW n \in Nat, NEW p, NEW q, NEW U \in SUBSET (1..n), U # {},
         \A i \in U : p[i] \in Nat /\ q[i] \in Nat
  PROVE  \E i \in U : \A j \in U : ~(p[j] < p[i] \/ (p[j] = p[i] /\ q[j] > q[i]))
<1> DEFINE B(i, j) == p[i] < p[j] \/ (p[i] = p[j] /\ q[i] > q[j])
           R == {x \in U \X U : B(x[1], x[2])}
<1>1. \A i, j \in U : <<i, j>> \in R <=> B(i, j)
  <2> HIDE DEF B
  <2> QED
    OBVIOUS
<1>2. \A i \in U : ~B(i, i)
  OBVIOUS
<1>3. \A i, j, k \in U : B(i, j) /\ B(j, k) => B(i, k)
  OBVIOUS
<1> HIDE DEF B, R
<1>4. \A i \in U : <<i, i>> \notin R
  BY <1>1, <1>2, Zenon
<1>5. \A i, j, k \in U : <<i, j>> \in R /\ <<j, k>> \in R => <<i, k>> \in R
  BY <1>1, <1>3, Zenon
<1>6. \E i \in U : \A j \in U : <<j, i>> \notin R
  BY <1>4, <1>5, Unbeaten
<1> USE DEF B
<1> QED
  BY <1>1, <1>6

LEMMA LocalConstants ==
  /\ Capture \notin Reported /\ NoInput \notin Reported /\ NoInput # Capture
  /\ Inputs = Reported \cup {Capture}
  /\ Priority \in [Reported -> Nat] /\ Hang \in [Inputs -> Nat \ {0}]
  /\ Mers \subseteq Nat /\ NoMer \notin Mers /\ MinimumMer \in Nat
  /\ Debounce \in Nat /\ Pause \in Nat \ {0} /\ Never \notin Nat
BY ConstantsAssumption, PauseAssumption DEF ConstantsAssumption, Inputs, Reported

LEMMA Listed ==
  /\ Len(Receivers) \in Nat /\ DOMAIN Receivers = 1..Len(Receivers)
  /\ Reported = {Receivers[i] : i \in 1..Len(Receivers)}
BY ConstantsAssumption DEF ConstantsAssumption, Reported, ToSet

\* The longest hang is one of them, so it bounds them all.
LEMMA LongestIs ==
  Longest \in Nat \ {0} /\ \A i \in Inputs : Hang[i] <= Longest
<1> DEFINE n == Len(Receivers)
           h(i) == Hang[Receivers[i]]
           S == {Hang[i] : i \in Inputs}
           U == 1..n
           R == {p \in U \X U : h(p[1]) > h(p[2])}
<1>1. n \in Nat /\ Reported = {Receivers[i] : i \in 1..n}
  BY Listed
<1>2. \A i \in 1..n : h(i) \in Nat \ {0}
  BY <1>1, LocalConstants
<1>3. Hang[Capture] \in Nat \ {0}
  BY LocalConstants
<1>4. S = {h(i) : i \in 1..n} \cup {Hang[Capture]}
  <2>1. Inputs = {Receivers[i] : i \in 1..n} \cup {Capture}
    BY <1>1, LocalConstants
  <2> QED
    BY <2>1
<1>5. \E x \in S : \A y \in S : x >= y
  <2>1. CASE n = 0
    <3>1. S = {Hang[Capture]}
      <4>1. 1..n = {}
        BY <2>1
      <4> HIDE DEF S, n
      <4> QED
        BY <1>4, <4>1
    <3> HIDE DEF S
    <3> QED
      BY <1>3, <3>1
  <2>2. CASE n # 0
    <3>1. PICK i \in U : \A j \in U : <<j, i>> \notin R
      <4>1. U # {} /\ U \in SUBSET (1..n)
        <5>1. 1 \in 1..n
          BY <1>1, <2>2
        <5> QED
          BY <5>1
      <4> HIDE DEF h
      <4>2. \A j, k \in U : <<j, k>> \in R <=> h(j) > h(k)
        OBVIOUS
      <4>3. \A j \in U : <<j, j>> \notin R
        BY <1>2, <4>2
      <4>4. \A j, k, l \in U : <<j, k>> \in R /\ <<k, l>> \in R => <<j, l>> \in R
        BY <1>2, <4>2
      <4> HIDE DEF R, U
      <4> QED
        BY <1>1, <4>1, <4>3, <4>4, Unbeaten, Zenon
    <3>2. \A j \in 1..n : h(i) >= h(j)
      <4> HIDE DEF h
      <4>1. \A j \in U : ~(h(j) > h(i))
        BY <3>1
      <4> QED
        BY <1>2, <4>1
    <3> HIDE DEF S, h
    <3>3. CASE h(i) >= Hang[Capture]
      <4>1. h(i) \in S /\ \A y \in S : h(i) >= y
        BY <1>4, <3>2, <3>3
      <4> QED
        BY <4>1
    <3>4. CASE ~(h(i) >= Hang[Capture])
      <4>1. \A j \in 1..n : Hang[Capture] >= h(j)
        BY <1>2, <1>3, <3>2, <3>4
      <4>2. Hang[Capture] \in S /\ \A y \in S : Hang[Capture] >= y
        BY <1>3, <1>4, <4>1
      <4> QED
        BY <4>2
    <3> QED
      BY <3>3, <3>4
  <2> QED
    BY <2>1, <2>2
<1>6. Longest = CHOOSE x \in S : \A y \in S : x >= y
  BY DEF Longest, Max
<1>7. Longest \in S /\ \A y \in S : Longest >= y
  <2> HIDE DEF S
  <2> QED
    BY <1>5, <1>6
<1>8. S \subseteq Nat \ {0} /\ \A i \in Inputs : Hang[i] \in S
  BY LocalConstants
<1> HIDE DEF S
<1> QED
  BY <1>7, <1>8

\* The arbitrator finds none only if none is usable, and else one that none beats.
LEMMA BestIs ==
  ASSUME NEW st \in [Reported -> Statuses]
  PROVE  LET b == Best(st)
         IN \/ b = NoInput /\ \A r \in Reported : ~Usable(st[r])
            \/ /\ b \in Reported /\ Usable(st[b])
               /\ \A r \in Reported : Usable(st[r]) => ~Beats(r, b, st)
<1> DEFINE n == Len(Receivers)
           B(i, j) == Beats(Receivers[i], Receivers[j], st)
           U == {i \in DOMAIN Receivers : Usable(st[Receivers[i]])}
           best == {i \in U : \A j \in U : ~B(j, i)}
           b == Best(st)
<1>1. n \in Nat /\ DOMAIN Receivers = 1..n /\ Reported = {Receivers[i] : i \in 1..n}
  BY Listed
<1>2. b = IF U = {} THEN NoInput ELSE Receivers[Min(best)]
  BY DEF Best
<1>3. CASE U = {}
  BY <1>1, <1>2, <1>3
<1>4. CASE U # {}
  <2>1. \A r \in Reported : Priority[r] \in Nat /\ Quality(st[r]) \in Nat
    <3> SUFFICES ASSUME NEW r \in Reported
                 PROVE  Priority[r] \in Nat /\ Quality(st[r]) \in Nat
      OBVIOUS
    <3>1. st[r].mer \in Mers \cup {NoMer}
      <4>1. st[r] \in Statuses
        OBVIOUS
      <4>2. CASE st[r] = Unlocked
        BY <4>2 DEF Unlocked
      <4>3. CASE st[r] \in [locked : {TRUE}, mer : Mers \cup {NoMer}]
        BY <4>3
      <4> QED
        BY <4>1, <4>2, <4>3 DEF Statuses
    <3> QED
      BY <3>1, LocalConstants DEF Quality
  <2>2. U \in SUBSET (1..n) /\ \A i \in U : Receivers[i] \in Reported
    BY <1>1
  <2> DEFINE p == [i \in 1..n |-> Priority[Receivers[i]]]
             q == [i \in 1..n |-> Quality(st[Receivers[i]])]
  <2>3. \A i, j \in U : B(i, j) <=> p[i] < p[j] \/ (p[i] = p[j] /\ q[i] > q[j])
    <3> HIDE DEF U
    <3> QED
      BY <2>2 DEF Beats
  <2>4. \A i \in U : p[i] \in Nat /\ q[i] \in Nat
    <3> HIDE DEF U
    <3> QED
      BY <2>1, <2>2
  <2>5. \E i \in U : \A j \in U : ~B(j, i)
    <3> HIDE DEF U, B, p, q, n
    <3>1. \E i \in U : \A j \in U : ~(p[j] < p[i] \/ (p[j] = p[i] /\ q[j] > q[i]))
      BY <1>1, <1>4, <2>2, <2>4, FirstThenSecond
    <3> QED
      BY <2>3, <3>1, Zenon
  <2>6. \E i \in best : \A j \in best : i <= j
    <3>1. best # {}
      <4> HIDE DEF U, B
      <4> QED
        BY <2>5
    <3>2. best \in SUBSET Nat
      <4>1. best \subseteq U
        OBVIOUS
      <4>2. 1..n \subseteq Nat
        BY <1>1
      <4> HIDE DEF U, best
      <4> QED
        BY <2>2, <4>1, <4>2
    <3> HIDE DEF best
    <3> QED
      BY <3>1, <3>2, Smallest
  <2>7. Min(best) \in best
    <3> HIDE DEF best
    <3> QED
      BY <2>6 DEF Min
  <2> DEFINE m == Min(best)
  <2>8. b = Receivers[m]
    BY <1>2, <1>4
  <2>9. m \in U /\ \A j \in U : ~B(j, m)
    <3> HIDE DEF m, U, B
    <3> QED
      BY <2>7 DEF m
  <2>10. b \in Reported /\ Usable(st[b])
    <3> HIDE DEF m, b
    <3> QED
      BY <2>2, <2>8, <2>9
  <2>11. \A r \in Reported : Usable(st[r]) => ~Beats(r, b, st)
    <3> SUFFICES ASSUME NEW r \in Reported, Usable(st[r])
                 PROVE  ~Beats(r, b, st)
      OBVIOUS
    <3>1. PICK j \in 1..n : r = Receivers[j]
      BY <1>1
    <3>2. j \in U
      BY <1>1, <3>1
    <3> HIDE DEF m, b, U
    <3> QED
      BY <2>8, <2>9, <3>1, <3>2
  <2> QED
    BY <2>10, <2>11
<1> QED
  BY <1>3, <1>4

LEMMA ChosenIs ==
  ASSUME TypeOK, NEW st \in [Reported -> Statuses]
  PROVE  /\ Choose(st) \in Reported \cup {NoInput}
         /\ arbiter # NoInput /\ Usable(st[arbiter]) => Choose(st) = arbiter
<1>1. arbiter \in Reported \cup {NoInput}
  BY Zenon DEF TypeOK, Reported
<1>2. Best(st) \in Reported \cup {NoInput}
  BY BestIs, Zenon
<1> QED
  BY <1>1, <1>2 DEF Choose

\* What is left of a hang after two spans of time, however long the count of the past.
LEMMA LeftLater ==
  \A h, most, x, dt \in Nat :
    h <= most => Less(Less(h, x), dt) = Less(h, More(x, dt, most))
BY DEF Less, More

LEMMA LostLater ==
  \A h, most, left, x, dt \in Nat :
    /\ h <= most /\ left + x >= h
    => Less(left, dt) + More(x, dt, most) >= h
BY DEF Less, More

LEMMA LocalAtFirst == Init => LocalInv
<1> SUFFICES ASSUME Init PROVE LocalInv
  OBVIOUS
<1>1. TypeOK
  <2>1. status \in [Reported -> Statuses]
    BY Zenon DEF Init, Statuses, Reported
  <2>2. /\ hold \in 0..Longest /\ noticeLeft \in 0..Longest
        /\ since \in 0..Longest /\ lost \in 0..Longest
    BY LongestIs DEF Init
  <2> QED
    BY <2>1, <2>2, Zenon DEF Init, TypeOK, Reported
<1>2. OnAir
  BY Zenon DEF Init, OnAir
<1>3. NoticeLasts /\ NoticeCoversHang
  BY Zenon DEF Init, NoticeLasts, NoticeCoversHang
<1> QED
  BY <1>1, <1>2, <1>3 DEF LocalInv

\* One iteration of the loop.  What it selects is what was selected before, or that is
\* over: the receiver is not usable any more, or the hold of the capture is.
LEMMA LocalIteration ==
  ASSUME LocalInv, NEW st \in [Reported -> Statuses],
         NEW sync \in BOOLEAN, NEW dt \in 1..Pause, Iterate(st, sync, dt)
  PROVE  LocalInv' /\ (family # "none" /\ active' # active =>
                         \/ active = NoInput
                         \/ IF active = Capture THEN lost' >= Hang[Capture]
                                                ELSE ~Usable(status'[active]))
<1> DEFINE L      == Longest
           after  == StableAfter(sync, dt)
           steady == after # Never /\ after >= Debounce
           nim    == Choose(st)
           left   == Less(hold, dt)
           sel    == Selected(nim, steady, left)
           rest   == Less(noticeLeft, dt)
<1>1. /\ Capture \notin Reported /\ NoInput \notin Reported /\ NoInput # Capture
      /\ Inputs = Reported \cup {Capture}
      /\ \A i \in Inputs : Hang[i] \in Nat \ {0} /\ Hang[i] <= L
      /\ Debounce \in Nat /\ dt \in Nat \ {0} /\ Never \notin Nat /\ L \in Nat \ {0}
  BY LocalConstants, LongestIs
<1>2. /\ arbiter \in Reported \cup {NoInput} /\ family \in {"nim", "analogue", "none"}
      /\ stable \in 0..Debounce \cup {Never}
      /\ active \in Inputs \cup {NoInput} /\ last \in Inputs \cup {NoInput}
      /\ notice \in BOOLEAN
  BY Zenon DEF LocalInv, TypeOK, Reported
<1>3. /\ hold \in Nat /\ hold <= L /\ noticeLeft \in Nat /\ noticeLeft <= L
      /\ since \in Nat /\ since <= L /\ lost \in Nat /\ lost <= L
  <2>1. hold \in 0..L /\ noticeLeft \in 0..L /\ since \in 0..L /\ lost \in 0..L
    BY Zenon DEF LocalInv, TypeOK
  <2> QED
    BY <1>1, <2>1
<1>4. after \in 0..Debounce \cup {Never} /\ steady \in BOOLEAN
  BY <1>1, <1>2 DEF StableAfter, More
<1>5. nim \in Reported \cup {NoInput}
      /\ (arbiter # NoInput /\ Usable(st[arbiter]) => nim = arbiter)
  BY ChosenIs, Zenon DEF LocalInv
<1>6. left \in Nat /\ left <= L /\ rest \in Nat /\ rest <= L
  BY <1>1, <1>3 DEF Less
<1>7. /\ status' = st /\ stable' = after /\ arbiter' = nim /\ active' = sel
      /\ family' = IF sel = NoInput THEN "none" ELSE IF sel = Capture THEN "analogue" ELSE "nim"
      /\ hold' = HoldAfter(sel, steady, left)
      /\ sel # NoInput => notice' = TRUE /\ noticeLeft' = Hang[sel]
      /\ sel = NoInput => notice' = (notice /\ rest > 0) /\ noticeLeft' = rest
      /\ since' = IF sel # NoInput THEN 0 ELSE More(since, dt, L)
      /\ last' = IF sel # NoInput THEN sel ELSE last
      /\ lost' = IF steady THEN 0 ELSE More(lost, dt, L)
  BY Zenon DEF Iterate, Notice
<1>8. /\ sel \in Inputs \cup {NoInput}
      /\ sel = Capture \/ sel = nim \/ (sel = NoInput /\ nim = NoInput)
      /\ sel = Capture => steady \/ (family = "analogue" /\ left > 0)
      /\ family = "analogue" /\ sel # Capture => ~steady /\ ~(left > 0)
      /\ family = "nim" /\ nim # NoInput => sel = nim
  <2> HIDE DEF left, nim, steady
  <2> QED
    BY <1>1, <1>5, Zenon DEF Selected
<1>9. /\ active \in Inputs => Hang[active] \in Nat /\ Hang[active] <= L
      /\ Capture \in Inputs
  BY <1>1
<1>10. More(since, dt, L) \in 0..L /\ More(lost, dt, L) \in 0..L
  BY <1>1, <1>3 DEF More
<1> HIDE DEF L, after, steady, nim, left, sel, rest
<1>11. TypeOK'
  <2>1. hold' \in 0..L
    BY <1>1, <1>6, <1>7 DEF HoldAfter
  <2>2. noticeLeft' \in 0..L
    <3>1. CASE sel = NoInput
      BY <1>1, <1>6, <1>7, <3>1
    <3>2. CASE sel # NoInput
      <4>1. Hang[sel] \in Nat /\ Hang[sel] <= L
        BY <1>1, <1>8, <3>2, Zenon
      <4> QED
        BY <1>1, <1>7, <3>2, <4>1
    <3> QED
      BY <3>1, <3>2
  <2>3. since' \in 0..L /\ lost' \in 0..L
    BY <1>1, <1>7, <1>10
  <2>4. last' \in Inputs \cup {NoInput} /\ active' \in Inputs \cup {NoInput}
    BY <1>2, <1>7, <1>8, Zenon
  <2>5. notice' \in BOOLEAN
    BY <1>2, <1>7, Zenon
  <2>6. family' \in {"nim", "analogue", "none"}
    BY <1>7, Zenon
  <2>7. status' \in [Reported -> Statuses] /\ stable' \in 0..Debounce \cup {Never}
        /\ arbiter' \in Reported \cup {NoInput}
    BY <1>4, <1>5, <1>7, Zenon
  <2> QED
    BY <2>1, <2>2, <2>3, <2>4, <2>5, <2>6, <2>7, Zenon DEF TypeOK, Reported, L
<1>12. lost' + left >= Hang[Capture] \/ steady \/ family # "analogue"
  <2> SUFFICES ASSUME ~steady, family = "analogue"
               PROVE  lost' + left >= Hang[Capture]
    OBVIOUS
  <2>1. hold + lost >= Hang[Capture]
    BY Zenon DEF LocalInv, OnAir
  <2>2. Hang[Capture] \in Nat /\ Hang[Capture] <= L
    BY <1>1, <1>9, Zenon
  <2>3. left + More(lost, dt, L) >= Hang[Capture]
    BY <1>1, <1>3, <2>1, <2>2, LostLater DEF left
  <2>4. lost' = More(lost, dt, L)
    BY <1>7, Zenon
  <2> QED
    BY <1>6, <1>10, <2>3, <2>4
<1>13. OnAir'
  <2>1. CASE sel = Capture
    <3>1. family' = "analogue" /\ active' = Capture /\ active' # NoInput
      BY <1>1, <1>7, <2>1, Zenon
    <3>2. hold' + lost' >= Hang[Capture]
      <4>1. CASE steady
        <5>1. hold' = Hang[Capture] /\ lost' = 0
          BY <1>7, <2>1, <4>1, Zenon DEF HoldAfter
        <5>2. Hang[Capture] \in Nat
          BY <1>1, <1>9, Zenon
        <5> QED
          BY <5>1, <5>2
      <4>2. CASE ~steady
        <5>1. hold' = left /\ lost' = More(lost, dt, L)
          BY <1>7, <2>1, <4>2, Zenon DEF HoldAfter
        <5>2. lost' + left >= Hang[Capture]
          BY <1>8, <1>12, <2>1, <4>2, Zenon
        <5> QED
          BY <1>6, <1>10, <5>1, <5>2
      <4> QED
        BY <4>1, <4>2
    <3> QED
      BY <3>1, <3>2, Zenon DEF OnAir
  <2>2. CASE sel # Capture
    BY <1>1, <1>7, <1>8, <2>2, Zenon DEF OnAir
  <2> QED
    BY <2>1, <2>2
<1>14. NoticeLasts' /\ NoticeCoversHang'
  <2>1. CASE sel # NoInput
    <3>1. active' = sel /\ last' = sel /\ since' = 0 /\ notice' = TRUE /\ noticeLeft' = Hang[sel]
      BY <1>7, <2>1, Zenon
    <3>2. Hang[sel] \in Nat
      BY <1>1, <1>8, <2>1, Zenon
    <3>3. noticeLeft' = Less(Hang[last'], since')
      BY <3>1, <3>2 DEF Less
    <3> QED
      BY <2>1, <3>1, <3>3, Zenon DEF NoticeLasts, NoticeCoversHang
  <2>2. CASE sel = NoInput
    <3>1. /\ active' = NoInput /\ last' = last /\ since' = More(since, dt, L)
          /\ notice' = (notice /\ rest > 0) /\ noticeLeft' = rest
      BY <1>7, <2>2, Zenon
    <3>2. CASE last = NoInput
      <4>1. ~notice /\ noticeLeft = 0 /\ active = NoInput
        BY <3>2, Zenon DEF LocalInv, NoticeLasts, NoticeCoversHang
      <4>2. rest = 0
        BY <1>1, <4>1 DEF rest, Less
      <4> QED
        BY <3>1, <3>2, <4>1, <4>2, Zenon DEF NoticeLasts, NoticeCoversHang
    <3>3. CASE last # NoInput
      <4>1. noticeLeft = Less(Hang[last], since)
        BY <3>3, Zenon DEF LocalInv, NoticeLasts
      <4>2. Hang[last] \in Nat \ {0} /\ Hang[last] <= L
        BY <1>1, <1>2, <3>3, Zenon
      <4>3. rest = Less(Hang[last], since')
        BY <1>1, <1>3, <3>1, <4>1, <4>2, LeftLater DEF rest
      <4>4. rest > 0 <=> since' < Hang[last]
        BY <1>10, <1>1, <3>1, <4>2, <4>3 DEF Less
      <4>5. rest > 0 => since < Hang[last]
        BY <1>1, <1>3, <4>1, <4>2 DEF rest, Less
      <4>6. since < Hang[last] => notice
        BY <3>3, Zenon DEF LocalInv, NoticeCoversHang
      <4>7. notice' <=> since' < Hang[last]
        BY <3>1, <4>4, <4>5, <4>6, Zenon
      <4> QED
        BY <3>1, <3>3, <4>3, <4>7, Zenon DEF NoticeLasts, NoticeCoversHang
    <3> QED
      BY <3>2, <3>3
  <2> QED
    BY <2>1, <2>2
<1>15. ASSUME family # "none", active' # active
       PROVE  IF active = Capture THEN lost' >= Hang[Capture] ELSE ~Usable(status'[active])
  <2>1. CASE family = "analogue"
    <3>1. active = Capture
      BY <2>1, Zenon DEF LocalInv, OnAir
    <3>2. ~steady /\ ~(left > 0)
      BY <1>7, <1>8, <1>15, <2>1, <3>1, Zenon
    <3>3. lost' + left >= Hang[Capture]
      BY <1>12, <2>1, <3>2, Zenon
    <3>4. lost' \in Nat
      BY <1>1, <1>7, <1>10, <3>2
    <3> QED
      BY <1>6, <3>1, <3>2, <3>3, <3>4
  <2>2. CASE family = "nim"
    <3>1. active = arbiter /\ active # NoInput
      BY <2>2, Zenon DEF LocalInv, OnAir
    <3>2. active # Capture
      BY <1>1, <1>2, <3>1, Zenon
    <3>3. ~Usable(st[active])
      BY <1>5, <1>7, <1>8, <1>15, <2>2, <3>1, Zenon
    <3> QED
      BY <1>7, <3>2, <3>3, Zenon
  <2> QED
    BY <1>2, <1>15, <2>1, <2>2, Zenon
<1> QED
  BY <1>11, <1>13, <1>14, <1>15, Zenon DEF LocalInv

LEMMA LocalReload ==
  ASSUME LocalInv, Reload
  PROVE  LocalInv' /\ active' = active
<1>1. /\ stable' = Never /\ arbiter' = NoInput /\ family' = "none" /\ hold' = 0
      /\ status' = status /\ active' = active /\ notice' = notice /\ noticeLeft' = noticeLeft
      /\ since' = since /\ last' = last /\ lost' = lost
  BY Zenon DEF Reload
<1>2. 0 \in 0..Longest
  BY LongestIs
<1>3. TypeOK'
  BY <1>1, <1>2, Zenon DEF LocalInv, TypeOK
<1>4. OnAir'
  BY <1>1, Zenon DEF OnAir
<1>5. NoticeLasts' /\ NoticeCoversHang'
  BY <1>1, Zenon DEF LocalInv, NoticeLasts, NoticeCoversHang, Less
<1> QED
  BY <1>1, <1>3, <1>4, <1>5, Zenon DEF LocalInv

Undisturbed ==
  family # "none" /\ active' # active =>
    \/ active = NoInput
    \/ IF active = Capture THEN lost' >= Hang[Capture] ELSE ~Usable(status'[active])

LEMMA LocalStep ==
  ASSUME LocalInv, [Next]_vars
  PROVE  LocalInv' /\ Undisturbed
<1>1. CASE Iteration
  <2>1. PICK st \in [Reported -> Statuses], sync \in BOOLEAN, dt \in 1..Pause :
          Iterate(st, sync, dt)
    BY <1>1, Zenon DEF Iteration, Reported
  <2> QED
    BY <2>1, LocalIteration, Zenon DEF Undisturbed
<1>2. CASE Reload
  BY <1>2, LocalReload, Zenon DEF Undisturbed
<1>3. CASE UNCHANGED vars
  <2>1. /\ status' = status /\ stable' = stable /\ arbiter' = arbiter /\ family' = family
        /\ hold' = hold /\ active' = active /\ notice' = notice
        /\ noticeLeft' = noticeLeft /\ since' = since /\ last' = last /\ lost' = lost
    BY <1>3, Zenon DEF vars
  <2>2. TypeOK'
    BY <2>1, Zenon DEF LocalInv, TypeOK
  <2>3. OnAir'
    BY <2>1, Zenon DEF LocalInv, OnAir
  <2>4. NoticeLasts' /\ NoticeCoversHang'
    BY <2>1, Zenon DEF LocalInv, NoticeLasts, NoticeCoversHang, Less
  <2> QED
    BY <2>1, <2>2, <2>3, <2>4, Zenon DEF LocalInv, Undisturbed
<1> QED
  BY <1>1, <1>2, <1>3, Zenon DEF Next

\* Every variable of the selection keeps its type, for any receivers and times: the
\* arbitrator and the loop name only what is reported.
THEOREM LocalTypeCorrect == Spec => []TypeOK
<1>1. LocalInv => TypeOK
  BY DEF LocalInv
<1> QED
  BY <1>1, LocalAtFirst, LocalStep, PTL DEF Spec

\* For any receivers, hangs and length of an iteration, the access notice of
\* runPiGatewayOrLocal ends exactly one hang of the last input after its access.
THEOREM TheNoticeEndsWithTheHang == Spec => []NoticeCoversHang
<1>1. LocalInv => NoticeCoversHang
  BY DEF LocalInv
<1> QED
  BY <1>1, LocalAtFirst, LocalStep, PTL DEF Spec

\* For any number of receivers, any priorities and any threshold, choose and the loop
\* around it leave on the air what is on the air until it is not received any more, or
\* until the capture has been out of sync for its hang, or the configuration changes.
THEOREM NobodyIsInterrupted == Spec => NotInterrupted
<1>1. LocalInv /\ [Next]_vars => LocalInv' /\ [Undisturbed]_vars
  BY LocalStep
<1> QED
  BY <1>1, LocalAtFirst, PTL DEF Spec, NotInterrupted, Undisturbed

-----------------------------------------------------------------------------
(* The operating hours.                                                     *)

LEMMA AfterIsATurn ==
  ASSUME NEW from \in Minutes, NEW to \in Minutes
  PROVE  After(from, to) = IF from <= to THEN to - from ELSE to - from + Day
<1>1. CASE from <= to
  BY <1>1 DEF After, Minutes, Day, Hour
<1>2. CASE ~(from <= to)
  BY <1>2 DEF After, Minutes, Day, Hour
<1> QED
  BY <1>1, <1>2

\* The beacon is on the air for one interval of every day, from its start until
\* just before its end, also over midnight: beaconScheduleActive() decides for
\* every minute as a clock that runs round would.
THEOREM OneIntervalADay ==
  ASSUME NEW start \in Minutes, NEW end \in Minutes, NEW current \in Minutes
  PROVE  BeaconScheduleActive(start, end, current)
           <=> OnFrom(start, end, current)
<1>1. After(start, current) = IF start <= current THEN current - start
                              ELSE current - start + Day
  BY AfterIsATurn
<1>2. After(start, end) = IF start <= end THEN end - start ELSE end - start + Day
  BY AfterIsATurn
<1> QED
  BY <1>1, <1>2 DEF OnFrom, BeaconScheduleActive, Minutes, Day, Hour

\* Two schedules that follow each other round the clock share no minute and leave
\* none out, however midnight falls.
THEOREM NightFollowsDay ==
  ASSUME NEW start \in Minutes, NEW end \in Minutes, NEW current \in Minutes, start # end
  PROVE  BeaconScheduleActive(end, start, current)
           <=> ~BeaconScheduleActive(start, end, current)
BY DEF BeaconScheduleActive, Minutes, Day, Hour

\* What a valid time of the day is parsed to is a minute of the day, and no two
\* times are the same minute.
THEOREM ClockIsAMinute ==
  ASSUME NEW h1 \in 0..2, NEW h2 \in 0..9, NEW m1 \in 0..5, NEW m2 \in 0..9,
         h1 * 10 + h2 < 24
  PROVE  /\ MinutesSinceMidnight(h1, h2, m1, m2) \in Minutes
         /\ \A k1 \in 0..2, k2 \in 0..9, n1 \in 0..5, n2 \in 0..9 :
              MinutesSinceMidnight(k1, k2, n1, n2) = MinutesSinceMidnight(h1, h2, m1, m2)
                => <<k1, k2, n1, n2>> = <<h1, h2, m1, m2>>
BY DEF MinutesSinceMidnight, Minutes, Day, Hour
=============================================================================
