----------------------------- MODULE GatewayProofs -----------------------------
(***************************************************************************)
(* Proofs about Gateway, for any receivers, any limits of the queues and   *)
(* any size of a datagram.                                                 *)
(***************************************************************************)
EXTENDS Gateway, SequenceTheorems, TLAPS

-----------------------------------------------------------------------------
(* Sequences.                                                               *)

\* A full queue gives way, so it keeps its limit.
LEMMA EnqueuedIsBounded ==
  ASSUME NEW q \in Seq(Packets), Len(q) <= QueueLimit, NEW p \in Packets
  PROVE  Enqueued(q, p) \in Seq(Packets) /\ Len(Enqueued(q, p)) <= QueueLimit
<1>1. CASE Len(q) >= QueueLimit
  <2>1. Tail(q) \in Seq(Packets) /\ Len(Tail(q)) = QueueLimit - 1
    BY <1>1, ConstantsAssumption
  <2> QED
    BY <1>1, <2>1, ConstantsAssumption DEF Enqueued
<1>2. CASE ~(Len(q) >= QueueLimit)
  BY <1>2, ConstantsAssumption DEF Enqueued
<1> QED
  BY <1>1, <1>2

\* Enqueueing adds the new packet and nothing else.
LEMMA EnqueuedHolds ==
  ASSUME NEW q \in Seq(Packets), NEW p \in Packets, NEW i \in DOMAIN Enqueued(q, p)
  PROVE  Enqueued(q, p)[i] = p \/ \E j \in DOMAIN q : Enqueued(q, p)[i] = q[j]
<1>1. CASE Len(q) >= QueueLimit
  <2>1. q # <<>>
    BY <1>1, ConstantsAssumption
  <2>2. Tail(q) \in Seq(Packets) /\ Len(Tail(q)) = Len(q) - 1
    BY <2>1
  <2>3. CASE i = Len(Tail(q)) + 1
    BY <1>1, <2>2, <2>3 DEF Enqueued
  <2>4. CASE i \in 1..Len(Tail(q))
    <3>1. Enqueued(q, p)[i] = Tail(q)[i]
      BY <1>1, <2>2, <2>4 DEF Enqueued
    <3>2. Tail(q)[i] = q[i + 1] /\ i + 1 \in DOMAIN q
      BY <2>1, <2>2, <2>4
    <3> QED
      BY <3>1, <3>2
  <2> QED
    BY <1>1, <2>2, <2>3, <2>4 DEF Enqueued
<1>2. CASE ~(Len(q) >= QueueLimit)
  BY <1>2 DEF Enqueued
<1> QED
  BY <1>1, <1>2

\* A drain takes the whole of a queue that keeps its limit.
LEMMA DrainedIsAll ==
  ASSUME NEW q \in Seq(Packets), Len(q) <= QueueLimit
  PROVE  Drained(q) = q /\ SubSeq(q, Len(q) + 1, Len(q)) = <<>>
<1>1. Len(q) <= Batch
  BY ConstantsAssumption, BatchAssumption
<1>2. (IF Len(q) < Batch THEN Len(q) ELSE Batch) = Len(q)
  BY <1>1, ConstantsAssumption
<1>3. SubSeq(q, 1, Len(q)) = q
  OBVIOUS
<1> QED
  BY <1>2, <1>3 DEF Drained

-----------------------------------------------------------------------------
(* Types: the Pi's part, what is under way, and the PC's part.              *)

PiTyped ==
  /\ made \in 0..MaxPackets /\ mark \in 0..MaxPackets
  /\ queue \in [Receivers -> Seq(Packets)]
  /\ \A r \in Receivers : Len(queue[r]) <= QueueLimit
  /\ selected \in Receivers \cup {NoInput}
  /\ todo \in Seq(Packets) /\ datagram \in Seq(Packets)

WireTyped == wire \in Seq(Seq(Packets))

PcTyped ==
  /\ pumping \in BOOLEAN /\ heard \in BOOLEAN
  /\ family \in {"gateway", "analogue", "none"}
  /\ quiet \in 0..(Timeout + 1)
  /\ media \in Seq(Packets) /\ missed \subseteq Packets

LEMMA TypeParts ==
  /\ TypeOK <=> PiTyped /\ WireTyped /\ PcTyped
  /\ TypeOK' <=> PiTyped' /\ WireTyped' /\ PcTyped'
BY DEF TypeOK, PiTyped, WireTyped, PcTyped

\* The steps of the Pi, and those of everybody else.
PiSteps ==
  \/ \E r \in Receivers : Enqueue(r) \/ Tune(r)
  \/ \E s \in Receivers \cup {NoInput} : Route(s)
  \/ Write \/ Restart

PcSteps ==
  \/ Recv \/ RecvEmpty \/ Pumped \/ RecvFails
  \/ \E capture \in BOOLEAN : Housekeeping(capture)

LEMMA Steps ==
  ASSUME [Next]_vars
  PROVE  PiSteps \/ PcSteps \/ Stray \/ UNCHANGED vars
BY Zenon DEF Next, Pc, PiSteps, PcSteps

\* The others leave the Pi alone.
LEMMA PiAlone ==
  ASSUME [Next]_vars, ~PiSteps
  PROVE  UNCHANGED <<made, queue, selected, todo, datagram, mark>>
<1>1. CASE PcSteps
  BY <1>1, Zenon DEF PcSteps, Recv, RecvEmpty, Pumped, RecvFails, PumpCutShort, Housekeeping, pi
<1>2. CASE Stray \/ UNCHANGED vars
  BY <1>2, Zenon DEF Stray, vars, pi
<1> QED
  BY <1>1, <1>2, Steps

\* The Pi leaves the PC alone.
LEMMA PcAlone ==
  ASSUME [Next]_vars, ~PcSteps
  PROVE  UNCHANGED <<pumping, family, heard, quiet, media, missed>>
<1>1. CASE PiSteps
  BY <1>1, Zenon DEF PiSteps, Enqueue, Tune, Route, Write, Restart, pc
<1>2. CASE Stray \/ UNCHANGED vars
  BY <1>2, Zenon DEF Stray, vars, pc
<1> QED
  BY <1>1, <1>2, Steps

\* What a pump leaves: nothing of what is selected, everything else.
LEMMA RouteTakesAll ==
  ASSUME PiTyped, NEW s \in Receivers \cup {NoInput}, Route(s)
  PROVE  /\ todo' = IF s = NoInput THEN <<>> ELSE queue[s]
         /\ queue' = [r \in Receivers |-> IF r = s THEN <<>> ELSE queue[r]]
<1>1. todo' = IF s = NoInput THEN <<>> ELSE queue[s]
  BY DrainedIsAll DEF PiTyped, Route
<1>2. \A r \in Receivers : r = s => SubSeq(queue[r], Len(todo') + 1, Len(queue[r])) = <<>>
  BY <1>1, DrainedIsAll, ConstantsAssumption DEF PiTyped
<1> QED
  BY <1>1, <1>2 DEF Route

LEMMA PiPreserved ==
  ASSUME PiTyped, [Next]_vars
  PROVE  PiTyped'
<1>1. ASSUME NEW r \in Receivers, Enqueue(r) PROVE PiTyped'
  <2> DEFINE p == [of |-> r, n |-> made + 1]
  <2>1. p \in Packets /\ made' \in 0..MaxPackets
    BY <1>1, ConstantsAssumption DEF PiTyped, Enqueue, Packets
  <2>2. Enqueued(queue[r], p) \in Seq(Packets) /\ Len(Enqueued(queue[r], p)) <= QueueLimit
    BY <2>1, EnqueuedIsBounded DEF PiTyped
  <2> QED
    BY <1>1, <2>1, <2>2 DEF PiTyped, Enqueue
<1>2. ASSUME NEW r \in Receivers, Tune(r) PROVE PiTyped'
  BY <1>2, ConstantsAssumption DEF PiTyped, Tune
<1>3. ASSUME NEW s \in Receivers \cup {NoInput}, Route(s) PROVE PiTyped'
  <2>1. /\ todo' = IF s = NoInput THEN <<>> ELSE queue[s]
        /\ queue' = [r \in Receivers |-> IF r = s THEN <<>> ELSE queue[r]]
    BY <1>3, RouteTakesAll
  <2>2. todo' \in Seq(Packets)
    BY <2>1 DEF PiTyped
  <2>3. queue' \in [Receivers -> Seq(Packets)] /\ \A r \in Receivers : Len(queue'[r]) <= QueueLimit
    BY <2>1, ConstantsAssumption DEF PiTyped
  <2>4. datagram' \in Seq(Packets)
    BY <1>3 DEF PiTyped, Route, SetActive
  <2> QED
    BY <1>3, <2>2, <2>3, <2>4 DEF PiTyped, Route
<1>4. CASE Write
  <2>1. Head(todo) \in Packets /\ Tail(todo) \in Seq(Packets)
    BY <1>4 DEF PiTyped, Write
  <2>2. datagram' \in {<<>>, Append(datagram, Head(todo))}
    BY <1>4, Zenon DEF Write
  <2>3. Append(datagram, Head(todo)) \in Seq(Packets)
    BY <2>1 DEF PiTyped
  <2>4. datagram' \in Seq(Packets)
    <3>1. CASE datagram' = <<>>
      BY <3>1
    <3>2. CASE datagram' = Append(datagram, Head(todo))
      BY <2>3, <3>2, Zenon
    <3> QED
      BY <2>2, <3>1, <3>2
  <2> QED
    BY <1>4, <2>1, <2>4 DEF PiTyped, Write
<1>5. CASE Restart
  BY <1>5, ConstantsAssumption DEF PiTyped, Restart
<1>6. CASE ~PiSteps
  BY <1>6, PiAlone DEF PiTyped
<1> QED
  BY <1>1, <1>2, <1>3, <1>4, <1>5, <1>6 DEF PiSteps

LEMMA SendTyped ==
  ASSUME WireTyped, NEW d \in Seq(Packets), Send(d)
  PROVE  WireTyped'
BY DEF WireTyped, Send

LEMMA WirePreserved ==
  ASSUME PiTyped, WireTyped, [Next]_vars
  PROVE  WireTyped'
<1>1. ASSUME NEW r \in Receivers, Enqueue(r) \/ Tune(r) PROVE WireTyped'
  BY <1>1 DEF Enqueue, Tune, WireTyped
<1>2. ASSUME NEW s \in Receivers \cup {NoInput}, Route(s) PROVE WireTyped'
  <2>1. Send(datagram) \/ wire' = wire
    BY <1>2, Zenon DEF Route, SetActive
  <2> QED
    BY <2>1, SendTyped DEF PiTyped, WireTyped
<1>3. CASE Write
  <2>1. Append(datagram, Head(todo)) \in Seq(Packets)
    BY <1>3 DEF Write, PiTyped
  <2>2. Send(Append(datagram, Head(todo))) \/ wire' = wire
    BY <1>3, Zenon DEF Write
  <2> QED
    BY <2>1, <2>2, SendTyped DEF WireTyped
<1>4. CASE Restart
  BY <1>4, SendTyped DEF Restart, PiTyped
<1>5. CASE Recv \/ RecvEmpty
  <2>1. wire # <<>> /\ wire' = Tail(wire)
    BY <1>5, Zenon DEF Recv, RecvEmpty
  <2> QED
    BY <2>1 DEF WireTyped
<1>6. CASE PcSteps /\ ~Recv /\ ~RecvEmpty
  <2>1. wire' = wire
    BY <1>6, Zenon DEF PcSteps, Pumped, RecvFails, Housekeeping
  <2> QED
    BY <2>1 DEF WireTyped
<1>7. CASE Stray
  BY <1>7 DEF Stray, Garbage, WireTyped
<1>8. CASE UNCHANGED vars
  BY <1>8 DEF vars, WireTyped
<1> QED
  BY <1>1, <1>2, <1>3, <1>4, <1>5, <1>6, <1>7, <1>8, Steps DEF PiSteps

LEMMA ArrivedArePackets ==
  ASSUME WireTyped
  PROVE  Arrived \subseteq Packets
BY DEF WireTyped, Arrived, Elements

LEMMA PcPreserved ==
  ASSUME WireTyped, PcTyped, [Next]_vars
  PROVE  PcTyped'
<1>1. CASE Recv
  <2>1. Head(wire) \in Seq(Packets)
    BY <1>1 DEF Recv, WireTyped
  <2>2. media' \in {media, media \o Head(wire)}
    BY <1>1, Zenon DEF Recv
  <2>3. heard' \in BOOLEAN
    BY <1>1, Zenon DEF Recv, PcTyped
  <2>4. media \o Head(wire) \in Seq(Packets)
    BY <2>1 DEF PcTyped
  <2>5. media' \in Seq(Packets)
    BY <2>2, <2>4, Zenon DEF PcTyped
  <2>6. quiet' \in 0..(Timeout + 1)
    BY <1>1, ConstantsAssumption DEF Recv
  <2>7. pumping' = pumping /\ family' = family /\ missed' = missed
    BY <1>1, Zenon DEF Recv
  <2> QED
    BY <2>3, <2>5, <2>6, <2>7 DEF PcTyped
<1>2. CASE Pumped \/ RecvFails \/ RecvEmpty
  <2>1. pumping' \in BOOLEAN /\ UNCHANGED <<heard, family, media>>
    BY <1>2, Zenon DEF Pumped, RecvFails, RecvEmpty, PumpCutShort
  <2>2. quiet' \in 0..(Timeout + 1) /\ missed' \subseteq Packets
    BY <1>2, ConstantsAssumption DEF Pumped, RecvFails, RecvEmpty, PumpCutShort, PcTyped
  <2> QED
    BY <2>1, <2>2 DEF PcTyped
<1>3. ASSUME NEW capture \in BOOLEAN, Housekeeping(capture) PROVE PcTyped'
  <2>1. family' \in {"gateway", "analogue", "none"}
    BY <1>3, Zenon DEF Housekeeping, Chosen
  <2>2. quiet' \in 0..(Timeout + 1)
    BY <1>3, ConstantsAssumption DEF Housekeeping, PcTyped
  <2>3. missed' \subseteq Packets
    BY <1>3, ArrivedArePackets DEF Housekeeping, PcTyped
  <2> QED
    BY <1>3, <2>1, <2>2, <2>3 DEF Housekeeping, PcTyped
<1>4. CASE ~PcSteps
  BY <1>4, PcAlone DEF PcTyped
<1> QED
  BY <1>1, <1>2, <1>3, <1>4 DEF PcSteps

\* Every variable keeps its type; in particular no queue of a receiver grows beyond
\* its limit, whatever enqueues, drains and retunes interleave.
THEOREM TypeCorrect == Spec => []TypeOK
<1>1. Init => TypeOK
  <2> SUFFICES ASSUME Init PROVE PiTyped /\ WireTyped /\ PcTyped
    BY TypeParts
  <2> USE ConstantsAssumption DEF Init
  <2>1. PiTyped
    BY DEF PiTyped
  <2>2. WireTyped
    BY DEF WireTyped
  <2>3. pumping \in BOOLEAN /\ heard \in BOOLEAN /\ family \in {"gateway", "analogue", "none"}
    BY Zenon
  <2>4. quiet \in 0..(Timeout + 1) /\ media \in Seq(Packets) /\ missed \subseteq Packets
    OBVIOUS
  <2> QED
    BY <2>1, <2>2, <2>3, <2>4 DEF PcTyped
<1>2. TypeOK /\ [Next]_vars => TypeOK'
  BY TypeParts, PiPreserved, WirePreserved, PcPreserved
<1> QED
  BY <1>1, <1>2, PTL DEF Spec

-----------------------------------------------------------------------------
(* No backlog.                                                              *)

\* Packets are numbered as they come, so what comes after a drain exceeds its mark.
MarkIsPast == mark <= made

CaughtUpInv == MarkIsPast /\ CaughtUp

LEMMA EnqueueKeepsUp ==
  ASSUME PiTyped, CaughtUpInv, NEW r \in Receivers, Enqueue(r)
  PROVE  CaughtUpInv'
<1> DEFINE p == [of |-> r, n |-> made + 1]
<1>1. p \in Packets /\ p.n > mark /\ mark' = mark /\ selected' = selected /\ mark' <= made'
  BY ConstantsAssumption DEF PiTyped, Enqueue, Packets, CaughtUpInv, MarkIsPast
<1>2. queue' = [queue EXCEPT ![r] = Enqueued(@, p)]
  BY Zenon DEF Enqueue
<1>3. ASSUME selected # NoInput, NEW i \in DOMAIN queue'[selected]
      PROVE  queue'[selected][i].n > mark
  <2>1. selected \in Receivers /\ queue[selected] \in Seq(Packets)
    BY <1>3 DEF PiTyped
  <2>2. CASE selected = r
    <3>1. queue'[selected] = Enqueued(queue[r], p)
      BY <1>2, <2>2 DEF PiTyped
    <3>2. queue'[selected][i] = p \/ \E j \in DOMAIN queue[r] : queue'[selected][i] = queue[r][j]
      BY <1>1, <1>3, <2>1, <2>2, <3>1, EnqueuedHolds
    <3> QED
      BY <1>1, <1>3, <2>2, <3>2 DEF CaughtUpInv, CaughtUp
  <2>3. CASE selected # r
    BY <1>2, <1>3, <2>1, <2>3 DEF PiTyped, CaughtUpInv, CaughtUp
  <2> QED
    BY <2>2, <2>3
<1> QED
  BY <1>1, <1>3 DEF CaughtUpInv, MarkIsPast, CaughtUp

LEMMA RouteCatchesUp ==
  ASSUME PiTyped, NEW s \in Receivers \cup {NoInput}, Route(s)
  PROVE  CaughtUpInv'
<1>1. queue' = [r \in Receivers |-> IF r = s THEN <<>> ELSE queue[r]]
  BY RouteTakesAll
<1>2. mark' = made /\ made' = made /\ selected' = s
  BY Zenon DEF Route
<1>3. s # NoInput => DOMAIN queue'[s] = {}
  BY <1>1
<1> QED
  BY <1>2, <1>3 DEF PiTyped, CaughtUpInv, MarkIsPast, CaughtUp

\* A receiver that stays selected never builds up a backlog: after each pump of the
\* loop nothing is left of what had come before it.  It rests on the limit of a pump
\* being no smaller than that of a queue (BatchAssumption), two constants in two files.
THEOREM PumpCatchesUp == Spec => []CaughtUp
<1>1. Init => CaughtUpInv
  BY DEF Init, CaughtUpInv, MarkIsPast, CaughtUp
<1>2. TypeOK /\ CaughtUpInv /\ [Next]_vars => CaughtUpInv'
  <2> SUFFICES ASSUME PiTyped, CaughtUpInv, [Next]_vars PROVE CaughtUpInv'
    BY TypeParts
  <2>1. ASSUME NEW r \in Receivers, Enqueue(r) PROVE CaughtUpInv'
    BY <2>1, EnqueueKeepsUp
  <2>2. ASSUME NEW r \in Receivers, Tune(r) PROVE CaughtUpInv'
    <3>1. UNCHANGED <<made, mark, selected>> /\ queue' = [queue EXCEPT ![r] = <<>>]
      BY <2>2, Zenon DEF Tune
    <3>2. DOMAIN queue'[r] = {} /\ \A q \in Receivers \ {r} : queue'[q] = queue[q]
      BY <3>1 DEF PiTyped
    <3> QED
      BY <3>1, <3>2 DEF PiTyped, CaughtUpInv, MarkIsPast, CaughtUp
  <2>3. ASSUME NEW s \in Receivers \cup {NoInput}, Route(s) PROVE CaughtUpInv'
    BY <2>3, RouteCatchesUp
  <2>4. CASE Write
    BY <2>4, Zenon DEF Write, CaughtUpInv, MarkIsPast, CaughtUp
  <2>5. CASE Restart
    BY <2>5, Zenon DEF Restart, CaughtUpInv, MarkIsPast, CaughtUp
  <2>6. CASE ~PiSteps
    BY <2>6, PiAlone, Zenon DEF CaughtUpInv, MarkIsPast, CaughtUp
  <2> QED
    BY <2>1, <2>2, <2>3, <2>4, <2>5, <2>6, Zenon DEF PiSteps
<1> QED
  BY <1>1, <1>2, TypeCorrect, PTL DEF Spec, CaughtUpInv

-----------------------------------------------------------------------------
(* Order: where a packet may be, from the oldest to the newest.             *)

Sorted(q) == \A i, j \in DOMAIN q : i < j /\ q[i].of = q[j].of => q[i].n < q[j].n

\* Of each receiver, all of S was received before all of T.
Precede(S, T) == \A p \in S, q \in T : p.of = q.of => p.n < q.n

Queued == UNION {Elements(queue[r]) : r \in Receivers}
Drawn == Elements(todo) \cup Queued
Unsent == Elements(datagram) \cup Drawn
Unread == Arrived \cup Unsent

QueuesInOrder ==
  \A r \in Receivers : Sorted(queue[r]) /\ \A p \in Elements(queue[r]) : p.of = r

TodoInOrder == Sorted(todo) /\ Precede(Elements(todo), Queued)

DatagramInOrder == Sorted(datagram) /\ Precede(Elements(datagram), Drawn)

WireInOrder ==
  /\ \A i \in DOMAIN wire : Sorted(wire[i])
  /\ \A i, j \in DOMAIN wire : i < j => Precede(Elements(wire[i]), Elements(wire[j]))
  /\ Precede(Arrived, Unsent)

MediaInOrder == Sorted(media) /\ Precede(Elements(media), Unread)

\* What is to be discarded is older than anything that is not sent yet, and still
\* under way only while the capture is on the air and the PC is reading.
MissedIsPast ==
  /\ Precede(missed, Unsent)
  /\ Elements(media) \cap missed = {}
  /\ missed \cap Arrived # {} => family = "analogue" /\ pumping

\* The next packet is newer than every other.
NoneIsNewer == \A p \in Elements(media) \cup Unread \cup missed : p.n <= made

OrderInv ==
  /\ QueuesInOrder /\ TodoInOrder /\ DatagramInOrder /\ WireInOrder /\ MediaInOrder
  /\ MissedIsPast /\ NoneIsNewer

-----------------------------------------------------------------------------
(* Elements of sequences, and sequences that are sorted.                    *)

LEMMA AppendIsSorted ==
  ASSUME NEW q \in Seq(Packets), NEW p \in Packets
  PROVE  /\ Elements(Append(q, p)) = Elements(q) \cup {p}
         /\ Sorted(q) /\ Precede(Elements(q), {p}) => Sorted(Append(q, p))
<1>1. Elements(Append(q, p)) = Elements(q) \cup {p}
  <2>1. \A i \in DOMAIN q : Append(q, p)[i] = q[i] /\ i \in DOMAIN Append(q, p)
    OBVIOUS
  <2>2. Append(q, p)[Len(q) + 1] = p /\ Len(q) + 1 \in DOMAIN Append(q, p)
    OBVIOUS
  <2>3. \A i \in DOMAIN Append(q, p) : i \in DOMAIN q \/ i = Len(q) + 1
    OBVIOUS
  <2> QED
    BY <2>1, <2>2, <2>3 DEF Elements
<1>2. ASSUME Sorted(q), Precede(Elements(q), {p}) PROVE Sorted(Append(q, p))
  BY <1>2 DEF Sorted, Precede, Elements
<1> QED
  BY <1>1, <1>2

LEMMA RestIsSorted ==
  ASSUME NEW q \in Seq(Packets), q # <<>>
  PROVE  /\ Head(q) \in Packets /\ Tail(q) \in Seq(Packets)
         /\ Elements(q) = {Head(q)} \cup Elements(Tail(q))
         /\ Sorted(q) => Sorted(Tail(q)) /\ Precede({Head(q)}, Elements(Tail(q)))
<1>1. Head(q) \in Packets /\ Tail(q) \in Seq(Packets) /\ Head(q) = q[1] /\ 1 \in DOMAIN q
  OBVIOUS
<1>2. \A i \in DOMAIN Tail(q) : Tail(q)[i] = q[i + 1] /\ i + 1 \in DOMAIN q /\ 1 < i + 1
  OBVIOUS
<1>3. \A i \in DOMAIN q : i = 1 \/ (i - 1 \in DOMAIN Tail(q) /\ Tail(q)[i - 1] = q[i])
  OBVIOUS
<1>4. Elements(q) = {Head(q)} \cup Elements(Tail(q))
  <2>1. ASSUME NEW i \in DOMAIN q PROVE q[i] \in {Head(q)} \cup {Tail(q)[j] : j \in DOMAIN Tail(q)}
    BY <1>1, <1>3
  <2>2. ASSUME NEW i \in DOMAIN Tail(q) PROVE Tail(q)[i] \in {q[j] : j \in DOMAIN q}
    BY <1>2
  <2>3. Head(q) \in {q[j] : j \in DOMAIN q}
    BY <1>1
  <2> QED
    BY <2>1, <2>2, <2>3, Zenon DEF Elements
<1>5. ASSUME Sorted(q) PROVE Sorted(Tail(q)) /\ Precede({Head(q)}, Elements(Tail(q)))
  <2>1. \A i, j \in DOMAIN Tail(q) : i < j => i + 1 < j + 1
    OBVIOUS
  <2> QED
    BY <1>1, <1>2, <1>5, <2>1 DEF Sorted, Precede, Elements
<1> QED
  BY <1>1, <1>4, <1>5

LEMMA JoinedIsSorted ==
  ASSUME NEW q \in Seq(Packets), NEW r \in Seq(Packets)
  PROVE  /\ Elements(q \o r) = Elements(q) \cup Elements(r)
         /\ Sorted(q) /\ Sorted(r) /\ Precede(Elements(q), Elements(r)) => Sorted(q \o r)
<1>1. \A i \in DOMAIN (q \o r) :
        \/ i \in DOMAIN q /\ (q \o r)[i] = q[i]
        \/ i > Len(q) /\ i - Len(q) \in DOMAIN r /\ (q \o r)[i] = r[i - Len(q)]
  OBVIOUS
<1>2. \A i \in DOMAIN q : i \in DOMAIN (q \o r) /\ (q \o r)[i] = q[i]
  OBVIOUS
<1>3. \A i \in DOMAIN r : i + Len(q) \in DOMAIN (q \o r) /\ (q \o r)[i + Len(q)] = r[i]
  OBVIOUS
<1>4. Elements(q \o r) = Elements(q) \cup Elements(r)
  <2>1. ASSUME NEW i \in DOMAIN (q \o r)
        PROVE  (q \o r)[i] \in {q[j] : j \in DOMAIN q} \cup {r[j] : j \in DOMAIN r}
    BY <1>1
  <2>2. ASSUME NEW i \in DOMAIN q PROVE q[i] \in {(q \o r)[j] : j \in DOMAIN (q \o r)}
    BY <1>2
  <2>3. ASSUME NEW i \in DOMAIN r PROVE r[i] \in {(q \o r)[j] : j \in DOMAIN (q \o r)}
    BY <1>3
  <2> QED
    BY <2>1, <2>2, <2>3, Zenon DEF Elements
<1>5. ASSUME Sorted(q), Sorted(r), Precede(Elements(q), Elements(r)) PROVE Sorted(q \o r)
  <2> SUFFICES ASSUME NEW i \in DOMAIN (q \o r), NEW j \in DOMAIN (q \o r), i < j,
                      (q \o r)[i].of = (q \o r)[j].of
               PROVE  (q \o r)[i].n < (q \o r)[j].n
    BY DEF Sorted
  <2>1. CASE i \in DOMAIN q /\ j \in DOMAIN q
    BY <1>2, <1>5, <2>1 DEF Sorted
  <2>2. CASE i \in DOMAIN q /\ j \notin DOMAIN q
    BY <1>1, <1>2, <1>5, <2>2 DEF Precede, Elements
  <2>3. CASE i \notin DOMAIN q
    <3>1. j \notin DOMAIN q /\ i - Len(q) < j - Len(q)
      BY <2>3
    <3> QED
      BY <1>1, <1>5, <2>3, <3>1 DEF Sorted
  <2> QED
    BY <2>1, <2>2, <2>3
<1> QED
  BY <1>4, <1>5

LEMMA NothingIsSorted == Sorted(<<>>) /\ Elements(<<>>) = {}
BY DEF Sorted, Elements

\* What is enqueued: the newest, after what is left of the others.
LEMMA EnqueuedIsSorted ==
  ASSUME NEW q \in Seq(Packets), NEW p \in Packets, Sorted(q), Precede(Elements(q), {p})
  PROVE  Sorted(Enqueued(q, p)) /\ Elements(Enqueued(q, p)) \subseteq Elements(q) \cup {p}
<1>1. CASE Len(q) >= QueueLimit
  <2>1. q # <<>>
    BY <1>1, ConstantsAssumption
  <2>2. Sorted(Tail(q)) /\ Elements(Tail(q)) \subseteq Elements(q) /\ Tail(q) \in Seq(Packets)
    BY <2>1, RestIsSorted
  <2>3. Precede(Elements(Tail(q)), {p})
    BY <2>2 DEF Precede
  <2> QED
    BY <1>1, <2>2, <2>3, AppendIsSorted DEF Enqueued
<1>2. CASE ~(Len(q) >= QueueLimit)
  BY <1>2, AppendIsSorted DEF Enqueued
<1> QED
  BY <1>1, <1>2

-----------------------------------------------------------------------------
(* Order: the steps of the Pi.                                              *)

LEMMA Holdings ==
  ASSUME PiTyped, WireTyped, PcTyped
  PROVE  /\ Unread \cup Elements(media) \cup missed \subseteq Packets
         /\ \A r \in Receivers : Elements(queue[r]) \subseteq Queued
         /\ \A p \in Packets : p.n \in Nat /\ p.of \in Receivers
<1>1. Queued \subseteq Packets /\ \A r \in Receivers : Elements(queue[r]) \subseteq Queued
  BY DEF PiTyped, Queued, Elements
<1>2. Elements(todo) \cup Elements(datagram) \cup Elements(media) \cup missed \subseteq Packets
  BY DEF PiTyped, PcTyped, Elements
<1> QED
  BY <1>1, <1>2, ArrivedArePackets DEF Unread, Unsent, Drawn, Packets

\* What has been handed on is out of the reach of the steps before it.
LEMMA Separate ==
  ASSUME NEW S \in SUBSET Packets, NEW T \in SUBSET Packets, Precede(S, T)
  PROVE  S \cap T = {}
<1>1. \A p \in Packets : ~(p.n < p.n)
  BY DEF Packets
<1> QED
  BY <1>1, Zenon DEF Precede

LEMMA ArrivedGrows ==
  ASSUME WireTyped, NEW d \in Seq(Packets), wire' = Append(wire, d)
  PROVE  Arrived' = Arrived \cup Elements(d)
<1>1. \A i \in DOMAIN wire : wire'[i] = wire[i] /\ i \in DOMAIN wire'
  BY DEF WireTyped
<1>2. wire'[Len(wire) + 1] = d /\ Len(wire) + 1 \in DOMAIN wire'
  BY DEF WireTyped
<1>3. \A i \in DOMAIN wire' : i \in DOMAIN wire \/ i = Len(wire) + 1
  BY DEF WireTyped
<1>4. Arrived' \subseteq Arrived \cup Elements(d)
  BY <1>1, <1>2, <1>3, Zenon DEF Arrived
<1>5. Arrived \cup Elements(d) \subseteq Arrived'
  BY <1>1, <1>2, Zenon DEF Arrived
<1> QED
  BY <1>4, <1>5

\* The order of what is sent and read, in a step of the Pi that sends d or nothing.
LEMMA SentInOrder ==
  ASSUME PiTyped, WireTyped, PcTyped, OrderInv,
         UNCHANGED <<made, family, pumping, media, missed>>,
         Unsent' \subseteq Unsent,
         NEW d \in Seq(Packets), wire' = wire \/ wire' = Append(wire, d),
         Sorted(d), Elements(d) \subseteq Unsent, Precede(Elements(d), Unsent')
  PROVE  WireInOrder' /\ MediaInOrder' /\ MissedIsPast' /\ NoneIsNewer'
<1>1. CASE wire' = wire
  <2>1. Arrived' = Arrived
    BY <1>1 DEF Arrived
  <2>2. WireInOrder'
    BY <1>1, <2>1 DEF OrderInv, WireInOrder, Precede
  <2>3. MediaInOrder' /\ MissedIsPast'
    BY <2>1, Zenon DEF OrderInv, MediaInOrder, MissedIsPast, Precede, Unread
  <2>4. NoneIsNewer'
    BY <2>1, Zenon DEF OrderInv, NoneIsNewer, Unread
  <2> QED
    BY <2>2, <2>3, <2>4
<1>2. CASE wire' = Append(wire, d)
  <2>1. Arrived' = Arrived \cup Elements(d)
    BY <1>2, ArrivedGrows
  <2>2. Precede(Arrived, Elements(d)) /\ Precede(Arrived', Unsent')
    BY <2>1, Zenon DEF OrderInv, WireInOrder, Precede
  <2>3. Len(wire) \in Nat /\ DOMAIN wire = 1..Len(wire) /\ DOMAIN wire' = 1..(Len(wire) + 1)
        /\ wire'[Len(wire) + 1] = d /\ \A i \in DOMAIN wire : wire'[i] = wire[i]
    BY <1>2 DEF WireTyped
  <2>4. \A i \in DOMAIN wire : Elements(wire[i]) \subseteq Arrived
    BY Zenon DEF Arrived
  <2>5. \A i \in DOMAIN wire' : Sorted(wire'[i])
    BY <2>3 DEF OrderInv, WireInOrder
  <2>6. ASSUME NEW i \in DOMAIN wire', NEW j \in DOMAIN wire', i < j
        PROVE  Precede(Elements(wire'[i]), Elements(wire'[j]))
    <3>1. i \in DOMAIN wire
      BY <2>3, <2>6
    <3>2. CASE j \in DOMAIN wire
      BY <2>3, <2>6, <3>1, <3>2 DEF OrderInv, WireInOrder
    <3>3. CASE j \notin DOMAIN wire
      <4>1. wire'[j] = d /\ wire'[i] = wire[i]
        BY <2>3, <3>1, <3>3
      <4> QED
        BY <2>2, <2>4, <3>1, <4>1, Zenon DEF Precede
    <3> QED
      BY <3>2, <3>3
  <2>7. MediaInOrder'
    BY <2>1, Zenon DEF OrderInv, MediaInOrder, Precede, Unread
  <2>8. MissedIsPast'
    <3>1. missed \cap Unsent = {}
      BY Holdings, Separate, Zenon DEF OrderInv, MissedIsPast, Unread
    <3> QED
      BY <2>1, <3>1, Zenon DEF OrderInv, MissedIsPast, Precede
  <2>9. NoneIsNewer'
    BY <2>1, Zenon DEF OrderInv, NoneIsNewer, Unread
  <2> QED
    BY <2>2, <2>5, <2>6, <2>7, <2>8, <2>9, Zenon DEF WireInOrder
<1> QED
  BY <1>1, <1>2

LEMMA EnqueueInOrder ==
  ASSUME PiTyped, WireTyped, PcTyped, OrderInv, NEW r \in Receivers, Enqueue(r)
  PROVE  OrderInv'
<1> DEFINE p == [of |-> r, n |-> made + 1]
<1>1. p \in Packets /\ p.of = r /\ p.n = made + 1 /\ made' = made + 1 /\ made \in Nat
  BY ConstantsAssumption DEF PiTyped, Enqueue, Packets
<1>2. queue' = [queue EXCEPT ![r] = Enqueued(@, p)]
      /\ UNCHANGED <<todo, datagram, wire, media, missed, family, pumping>>
  BY Zenon DEF Enqueue, pc
<1> HIDE DEF p
<1>3. ASSUME NEW q \in Elements(media) \cup Unread \cup missed PROVE q.n < p.n /\ q.n <= made'
  <2>1. q.n \in Nat /\ q.n <= made
    BY Holdings, Zenon DEF OrderInv, NoneIsNewer
  <2> QED
    BY <1>1, <2>1
<1>4. /\ queue[r] \in Seq(Packets) /\ Sorted(queue[r]) /\ Precede(Elements(queue[r]), {p})
      /\ queue'[r] = Enqueued(queue[r], p)
      /\ \A s \in Receivers \ {r} : queue'[s] = queue[s]
  <2>1. Elements(queue[r]) \subseteq Unread
    BY Holdings, Zenon DEF Unread, Unsent, Drawn
  <2>2. Precede(Elements(queue[r]), {p})
    BY <1>3, <2>1, Zenon DEF Precede
  <2> QED
    BY <1>2, <2>2 DEF PiTyped, OrderInv, QueuesInOrder
<1>5. Sorted(queue'[r]) /\ Elements(queue'[r]) \subseteq Elements(queue[r]) \cup {p}
  BY <1>1, <1>4, EnqueuedIsSorted
<1>6. QueuesInOrder'
  BY <1>1, <1>4, <1>5 DEF OrderInv, QueuesInOrder
<1>7. Queued' \subseteq Queued \cup {p}
  BY <1>4, <1>5 DEF Queued
<1>8. Drawn' \subseteq Drawn \cup {p} /\ Unsent' \subseteq Unsent \cup {p} /\ Arrived' = Arrived
      /\ Unread' \subseteq Unread \cup {p}
  BY <1>2, <1>7 DEF Drawn, Unsent, Unread, Arrived
<1>9. Precede(Elements(media) \cup Unread \cup missed, {p})
  BY <1>3, Zenon DEF Precede
<1>10. TodoInOrder' /\ DatagramInOrder'
  BY <1>2, <1>7, <1>8, <1>9, Zenon
     DEF OrderInv, TodoInOrder, DatagramInOrder, Precede, Unread, Unsent, Drawn
<1>11. WireInOrder'
  BY <1>2, <1>8, <1>9, Zenon DEF OrderInv, WireInOrder, Precede, Unread
<1>12. MediaInOrder' /\ MissedIsPast'
  BY <1>2, <1>8, <1>9, Zenon DEF OrderInv, MediaInOrder, MissedIsPast, Precede
<1>13. NoneIsNewer'
  <2>1. p.n <= made'
    BY <1>1
  <2> QED
    BY <1>2, <1>3, <1>8, <2>1, Zenon DEF NoneIsNewer
<1> QED
  BY <1>6, <1>10, <1>11, <1>12, <1>13, Zenon DEF OrderInv

LEMMA TuneInOrder ==
  ASSUME PiTyped, WireTyped, PcTyped, OrderInv, NEW r \in Receivers, Tune(r)
  PROVE  OrderInv'
<1>1. queue' = [queue EXCEPT ![r] = <<>>]
      /\ UNCHANGED <<made, todo, datagram, wire, media, missed, family, pumping>>
  BY Zenon DEF Tune, pc
<1>2. queue'[r] = <<>> /\ \A s \in Receivers \ {r} : queue'[s] = queue[s]
  BY <1>1 DEF PiTyped
<1>3. QueuesInOrder'
  BY <1>2, NothingIsSorted DEF OrderInv, QueuesInOrder
<1>4. Queued' \subseteq Queued
  BY <1>2, NothingIsSorted DEF Queued
<1>5. Drawn' \subseteq Drawn /\ Unsent' \subseteq Unsent
  BY <1>1, <1>4 DEF Drawn, Unsent
<1>6. TodoInOrder' /\ DatagramInOrder'
  BY <1>1, <1>4, <1>5, Zenon DEF OrderInv, TodoInOrder, DatagramInOrder, Precede
<1>7. WireInOrder' /\ MediaInOrder' /\ MissedIsPast' /\ NoneIsNewer'
  <2>1. <<>> \in Seq(Packets) /\ Elements(<<>>) \subseteq Unsent
        /\ Precede(Elements(<<>>), Unsent')
    BY NothingIsSorted DEF Precede
  <2> QED
    BY <1>1, <1>5, <2>1, NothingIsSorted, SentInOrder
<1> QED
  BY <1>3, <1>6, <1>7, Zenon DEF OrderInv

LEMMA RouteInOrder ==
  ASSUME PiTyped, WireTyped, PcTyped, OrderInv, NEW s \in Receivers \cup {NoInput}, Route(s)
  PROVE  OrderInv'
<1>1. /\ todo' = IF s = NoInput THEN <<>> ELSE queue[s]
      /\ queue' = [r \in Receivers |-> IF r = s THEN <<>> ELSE queue[r]]
  BY RouteTakesAll
<1>2. \A r \in Receivers : queue'[r] = <<>> \/ (r # s /\ queue'[r] = queue[r])
  BY <1>1
<1>3. QueuesInOrder'
  BY <1>2, NothingIsSorted DEF OrderInv, QueuesInOrder
<1>4. Queued' \subseteq Queued /\ \A p \in Queued' : p.of # s
  BY <1>2, NothingIsSorted DEF Queued, OrderInv, QueuesInOrder
<1>5. Sorted(todo') /\ Elements(todo') \subseteq Queued /\ \A p \in Elements(todo') : p.of = s
  <2>1. CASE s = NoInput
    BY <1>1, <2>1, NothingIsSorted
  <2>2. CASE s # NoInput
    <3>1. s \in Receivers /\ todo' = queue[s]
      BY <1>1, <2>2
    <3> QED
      BY <3>1, Holdings, Zenon DEF OrderInv, QueuesInOrder
  <2> QED
    BY <2>1, <2>2
<1>6. TodoInOrder'
  BY <1>4, <1>5, Zenon DEF TodoInOrder, Precede
<1>7. Drawn' \subseteq Drawn
  BY <1>4, <1>5 DEF Drawn
<1>8. UNCHANGED <<made, media, missed, family, pumping>> /\ SetActive(s)
  BY Zenon DEF Route, pc
<1>9. CASE datagram' = datagram /\ wire' = wire
  <2>1. DatagramInOrder' /\ Unsent' \subseteq Unsent
    BY <1>7, <1>9, Zenon DEF OrderInv, DatagramInOrder, Precede, Unsent
  <2>2. <<>> \in Seq(Packets) /\ Elements(<<>>) \subseteq Unsent
        /\ Precede(Elements(<<>>), Unsent')
    BY NothingIsSorted DEF Precede
  <2>3. WireInOrder' /\ MediaInOrder' /\ MissedIsPast' /\ NoneIsNewer'
    BY <1>8, <1>9, <2>1, <2>2, NothingIsSorted, SentInOrder
  <2> QED
    BY <1>3, <1>6, <2>1, <2>3, Zenon DEF OrderInv
<1>10. CASE datagram' = <<>> /\ Send(datagram)
  <2>1. DatagramInOrder'
    BY <1>10, NothingIsSorted, Zenon DEF DatagramInOrder, Precede
  <2>2. Unsent' \subseteq Unsent /\ Precede(Elements(datagram), Unsent')
    BY <1>7, <1>10, NothingIsSorted, Zenon DEF OrderInv, DatagramInOrder, Precede, Unsent
  <2>3. Sorted(datagram) /\ datagram \in Seq(Packets) /\ Elements(datagram) \subseteq Unsent
        /\ (wire' = wire \/ wire' = Append(wire, datagram))
    BY <1>10, Zenon DEF OrderInv, DatagramInOrder, PiTyped, Unsent, Send
  <2>4. WireInOrder' /\ MediaInOrder' /\ MissedIsPast' /\ NoneIsNewer'
    BY <1>8, <2>2, <2>3, SentInOrder
  <2> QED
    BY <1>3, <1>6, <2>1, <2>4, Zenon DEF OrderInv
<1> QED
  BY <1>8, <1>9, <1>10, Zenon DEF SetActive

LEMMA RestartInOrder ==
  ASSUME PiTyped, WireTyped, PcTyped, OrderInv, Restart
  PROVE  OrderInv'
<1>1. UNCHANGED <<made, todo, media, missed, family, pumping>> /\ datagram' = <<>>
      /\ Send(datagram) /\ queue' = [r \in Receivers |-> <<>>]
  BY Zenon DEF Restart, pc
<1>2. QueuesInOrder' /\ Queued' = {}
  <2>1. \A r \in Receivers : queue'[r] = <<>>
    BY <1>1
  <2> QED
    BY <2>1, NothingIsSorted DEF QueuesInOrder, Queued
<1>3. Drawn' \subseteq Drawn
  BY <1>1, <1>2 DEF Drawn
<1>4. TodoInOrder' /\ DatagramInOrder'
  BY <1>1, <1>2, NothingIsSorted, Zenon
     DEF OrderInv, TodoInOrder, DatagramInOrder, Precede
<1>5. Unsent' \subseteq Unsent /\ Precede(Elements(datagram), Unsent')
  BY <1>1, <1>3, NothingIsSorted, Zenon DEF OrderInv, DatagramInOrder, Precede, Unsent
<1>6. Sorted(datagram) /\ datagram \in Seq(Packets) /\ Elements(datagram) \subseteq Unsent
      /\ (wire' = wire \/ wire' = Append(wire, datagram))
  BY <1>1, Zenon DEF OrderInv, DatagramInOrder, PiTyped, Unsent, Send
<1>7. WireInOrder' /\ MediaInOrder' /\ MissedIsPast' /\ NoneIsNewer'
  BY <1>1, <1>5, <1>6, SentInOrder
<1> QED
  BY <1>2, <1>4, <1>7, Zenon DEF OrderInv

LEMMA WriteInOrder ==
  ASSUME PiTyped, WireTyped, PcTyped, OrderInv, Write
  PROVE  OrderInv'
<1> DEFINE p == Head(todo)
           d == Append(datagram, p)
<1>1. /\ p \in Packets /\ Tail(todo) \in Seq(Packets)
      /\ Elements(todo) = {p} \cup Elements(Tail(todo))
      /\ Sorted(Tail(todo)) /\ Precede({p}, Elements(Tail(todo)))
  <2>1. todo \in Seq(Packets) /\ todo # <<>> /\ Sorted(todo)
    BY Zenon DEF PiTyped, Write, OrderInv, TodoInOrder
  <2> QED
    BY <2>1, RestIsSorted
<1>2. UNCHANGED <<made, queue, media, missed, family, pumping>> /\ todo' = Tail(todo)
  BY Zenon DEF Write, pc
<1> HIDE DEF p
<1>3. /\ d \in Seq(Packets) /\ Elements(d) = Elements(datagram) \cup {p} /\ Sorted(d)
      /\ Elements(d) \subseteq Unsent
  <2>1. Precede(Elements(datagram), {p}) /\ Sorted(datagram) /\ datagram \in Seq(Packets)
    BY <1>1, Zenon DEF OrderInv, DatagramInOrder, Precede, Drawn, PiTyped
  <2>2. Elements(d) = Elements(datagram) \cup {p} /\ Sorted(d)
    BY <1>1, <2>1, AppendIsSorted
  <2>3. d \in Seq(Packets)
    BY <1>1, <2>1
  <2> QED
    BY <1>1, <2>2, <2>3, Zenon DEF Unsent, Drawn
<1> HIDE DEF d
<1>4. Queued' = Queued
  BY <1>2 DEF Queued
<1>5. QueuesInOrder'
  BY <1>2, Zenon DEF OrderInv, QueuesInOrder
<1>6. TodoInOrder'
  BY <1>1, <1>2, <1>4, Zenon DEF OrderInv, TodoInOrder, Precede
<1>7. Drawn' \subseteq Drawn
  BY <1>1, <1>2, <1>4, Zenon DEF Drawn
<1>8. Precede(Elements(d), Drawn')
  BY <1>1, <1>2, <1>3, <1>4, Zenon
     DEF OrderInv, TodoInOrder, DatagramInOrder, Precede, Drawn
<1>9. CASE datagram' = d /\ wire' = wire
  <2>1. DatagramInOrder' /\ Unsent' \subseteq Unsent
    BY <1>3, <1>7, <1>8, <1>9, Zenon DEF DatagramInOrder, Unsent
  <2>2. <<>> \in Seq(Packets) /\ Elements(<<>>) \subseteq Unsent
        /\ Precede(Elements(<<>>), Unsent')
    BY NothingIsSorted DEF Precede
  <2>3. WireInOrder' /\ MediaInOrder' /\ MissedIsPast' /\ NoneIsNewer'
    BY <1>2, <1>9, <2>1, <2>2, NothingIsSorted, SentInOrder
  <2> QED
    BY <1>5, <1>6, <2>1, <2>3, Zenon DEF OrderInv
<1>10. CASE datagram' = <<>> /\ Send(d)
  <2>1. DatagramInOrder'
    BY <1>10, NothingIsSorted, Zenon DEF DatagramInOrder, Precede
  <2>2. Unsent' \subseteq Unsent /\ Precede(Elements(d), Unsent')
    BY <1>7, <1>8, <1>10, NothingIsSorted, Zenon DEF Precede, Unsent
  <2>3. wire' = wire \/ wire' = Append(wire, d)
    BY <1>10, Zenon DEF Send
  <2>4. WireInOrder' /\ MediaInOrder' /\ MissedIsPast' /\ NoneIsNewer'
    BY <1>2, <1>3, <2>2, <2>3, SentInOrder
  <2> QED
    BY <1>5, <1>6, <2>1, <2>4, Zenon DEF OrderInv
<1> QED
  BY <1>9, <1>10, Zenon DEF Write, d, p

-----------------------------------------------------------------------------
(* Order: the network and the PC.                                           *)

LEMMA PiOrderKept ==
  ASSUME OrderInv, UNCHANGED <<made, queue, todo, datagram>>
  PROVE  /\ QueuesInOrder' /\ TodoInOrder' /\ DatagramInOrder'
         /\ Queued' = Queued /\ Unsent' = Unsent
<1>1. Queued' = Queued /\ Drawn' = Drawn /\ Unsent' = Unsent
  BY DEF Queued, Drawn, Unsent
<1>2. QueuesInOrder'
  BY Zenon DEF OrderInv, QueuesInOrder
<1> QED
  BY <1>1, <1>2, Zenon DEF OrderInv, TodoInOrder, DatagramInOrder

\* The first datagram is read.
LEMMA HeadIsTaken ==
  ASSUME PiTyped, WireTyped, OrderInv, UNCHANGED <<made, queue, todo, datagram>>,
         wire # <<>>, wire' = Tail(wire), NEW d, d = Head(wire)
  PROVE  /\ d \in Seq(Packets) /\ Sorted(d)
         /\ Elements(d) \subseteq Arrived /\ Precede(Elements(d), Arrived')
         /\ Arrived' \subseteq Arrived /\ Unread' \subseteq Unread
         /\ WireInOrder'
<1>2. /\ d \in Seq(Packets) /\ d = wire[1] /\ 1 \in DOMAIN wire /\ wire' \in Seq(Seq(Packets))
      /\ \A i \in DOMAIN wire' : i + 1 \in DOMAIN wire /\ wire'[i] = wire[i + 1]
      /\ \A i \in DOMAIN wire : i = 1 \/ (i - 1 \in DOMAIN wire' /\ wire'[i - 1] = wire[i])
  BY DEF WireTyped
<1>4. Sorted(d) /\ \A i \in DOMAIN wire' : Precede(Elements(d), Elements(wire'[i]))
  <2>1. \A i \in DOMAIN wire' : 1 < i + 1
    BY <1>2
  <2> QED
    BY <1>2, <2>1 DEF OrderInv, WireInOrder
<1>5. Arrived' \subseteq Arrived /\ Elements(d) \subseteq Arrived
  <2>1. \A i \in DOMAIN wire' : Elements(wire'[i]) \subseteq Arrived
    BY <1>2, Zenon DEF Arrived
  <2>2. Elements(d) \subseteq Arrived
    BY <1>2, Zenon DEF Arrived
  <2> QED
    BY <2>1, <2>2, Zenon DEF Arrived
<1>6. Precede(Elements(d), Arrived')
  BY <1>4, Zenon DEF Precede, Arrived
<1>7. WireInOrder'
  <2>1. \A i \in DOMAIN wire' : Sorted(wire'[i])
    BY <1>2, Zenon DEF OrderInv, WireInOrder
  <2>2. \A i, j \in DOMAIN wire' : i < j => i + 1 < j + 1
    BY <1>2
  <2>3. \A i, j \in DOMAIN wire' : i < j => Precede(Elements(wire'[i]), Elements(wire'[j]))
    BY <1>2, <2>2 DEF OrderInv, WireInOrder
  <2>4. Precede(Arrived', Unsent')
    BY <1>5, PiOrderKept, Zenon DEF OrderInv, WireInOrder, Precede
  <2> QED
    BY <2>1, <2>3, <2>4, Zenon DEF WireInOrder
<1>8. Unread' \subseteq Unread
  BY <1>5, PiOrderKept, Zenon DEF Unread
<1> QED
  BY <1>2, <1>4, <1>5, <1>6, <1>7, <1>8

LEMMA RecvInOrder ==
  ASSUME PiTyped, WireTyped, PcTyped, OrderInv, Recv
  PROVE  OrderInv'
<1> DEFINE d == Head(wire)
<1>1. UNCHANGED <<made, queue, todo, datagram, missed, family, pumping>> /\ pumping
      /\ wire # <<>> /\ wire' = Tail(wire)
  BY Zenon DEF Recv, pi
<1>2. media' = media \/ (family # "analogue" /\ media' = media \o d)
  BY Zenon DEF Recv
<1>3. d = Head(wire)
  OBVIOUS
<1> HIDE DEF d
<1>4. d \in Seq(Packets) /\ Sorted(d)
  BY <1>1, <1>3, HeadIsTaken
<1>5. Arrived' \subseteq Arrived /\ Elements(d) \subseteq Arrived
  BY <1>1, <1>3, HeadIsTaken
<1>6. Precede(Elements(d), Arrived')
  BY <1>1, <1>3, HeadIsTaken
<1>7. WireInOrder'
  BY <1>1, <1>3, HeadIsTaken
<1>8. Unread' \subseteq Unread
  BY <1>1, <1>3, HeadIsTaken
<1>9. CASE media' = media
  <2>1. MediaInOrder' /\ NoneIsNewer'
    BY <1>1, <1>8, <1>9, Zenon DEF OrderInv, MediaInOrder, Precede, NoneIsNewer
  <2>2. MissedIsPast'
    BY <1>1, <1>5, <1>9, PiOrderKept, Zenon DEF OrderInv, MissedIsPast
  <2> QED
    BY <1>1, <1>7, <2>1, <2>2, PiOrderKept, Zenon DEF OrderInv
<1>10. CASE family # "analogue" /\ media' = media \o d
  <2>1. /\ Elements(media') = Elements(media) \cup Elements(d) /\ Sorted(media')
    <3>1. Precede(Elements(media), Elements(d)) /\ Sorted(media) /\ media \in Seq(Packets)
      BY <1>5, Zenon DEF OrderInv, MediaInOrder, Precede, Unread, PcTyped
    <3> QED
      BY <1>4, <1>10, <3>1, JoinedIsSorted
  <2>2. Precede(Elements(d), Unread')
    BY <1>1, <1>5, <1>6, PiOrderKept, Zenon DEF OrderInv, WireInOrder, Precede, Unread
  <2>3. MediaInOrder'
    BY <1>8, <2>1, <2>2, Zenon DEF OrderInv, MediaInOrder, Precede
  <2>4. MissedIsPast'
    BY <1>1, <1>5, <1>10, <2>1, PiOrderKept, Zenon DEF OrderInv, MissedIsPast
  <2>5. NoneIsNewer'
    BY <1>1, <1>5, <1>8, <2>1, Zenon DEF OrderInv, NoneIsNewer, Unread
  <2> QED
    BY <1>1, <1>7, <2>3, <2>4, <2>5, PiOrderKept, Zenon DEF OrderInv
<1> QED
  BY <1>2, <1>9, <1>10

LEMMA RecvEmptyInOrder ==
  ASSUME PiTyped, WireTyped, PcTyped, OrderInv, RecvEmpty
  PROVE  OrderInv'
<1>1. UNCHANGED <<made, queue, todo, datagram, media, family>> /\ pumping
      /\ wire # <<>> /\ wire' = Tail(wire)
  BY Zenon DEF RecvEmpty, PumpCutShort, pi
<1>2. WireInOrder' /\ Arrived' \subseteq Arrived /\ Unread' \subseteq Unread
  BY <1>1, HeadIsTaken
<1>3. missed' \subseteq missed /\ (~pumping' => missed' \cap Arrived = {})
  BY Zenon DEF RecvEmpty, PumpCutShort
<1>4. MediaInOrder' /\ NoneIsNewer'
  BY <1>1, <1>2, <1>3, Zenon DEF OrderInv, MediaInOrder, Precede, NoneIsNewer
<1>5. MissedIsPast'
  <2>1. Precede(missed', Unsent') /\ Elements(media') \cap missed' = {}
    BY <1>1, <1>3, PiOrderKept, Zenon DEF OrderInv, MissedIsPast, Precede
  <2>2. pumping' \in BOOLEAN
    BY Zenon DEF RecvEmpty, PumpCutShort
  <2>3. missed' \cap Arrived' # {} => family' = "analogue" /\ pumping'
    BY <1>1, <1>2, <1>3, <2>2, Zenon DEF OrderInv, MissedIsPast
  <2> QED
    BY <2>1, <2>3, Zenon DEF MissedIsPast
<1> QED
  BY <1>1, <1>2, <1>4, <1>5, PiOrderKept, Zenon DEF OrderInv

LEMMA LoopInOrder ==
  ASSUME PiTyped, WireTyped, PcTyped, OrderInv,
         Pumped \/ RecvFails \/ \E capture \in BOOLEAN : Housekeeping(capture)
  PROVE  OrderInv'
<1>1. UNCHANGED <<made, queue, todo, datagram, wire, media>>
  BY Zenon DEF Pumped, RecvFails, PumpCutShort, Housekeeping, pi
<1>2. Arrived' = Arrived /\ Unread' = Unread
  BY <1>1, PiOrderKept DEF Arrived, Unread
<1>3. WireInOrder' /\ MediaInOrder'
  BY <1>1, <1>2, PiOrderKept, Zenon DEF OrderInv, WireInOrder, MediaInOrder
<1>4. missed' \subseteq missed \cup Arrived
  BY Zenon DEF Pumped, RecvFails, PumpCutShort, Housekeeping
<1>5. Precede(missed', Unsent')
  BY <1>1, <1>4, PiOrderKept, Zenon DEF OrderInv, MissedIsPast, WireInOrder, Precede
<1>6. NoneIsNewer'
  BY <1>1, <1>2, <1>4, Zenon DEF OrderInv, NoneIsNewer, Unread
<1>7. Elements(media) \cap Arrived = {}
  <2>1. Precede(Elements(media), Arrived)
    BY Zenon DEF OrderInv, MediaInOrder, Precede, Unread
  <2> QED
    BY <2>1, Holdings, Separate, Zenon DEF Unread
<1>8. Elements(media') \cap missed' = {}
  BY <1>1, <1>4, <1>7, Zenon DEF OrderInv, MissedIsPast
<1>9. missed' \cap Arrived' # {} => family' = "analogue" /\ pumping'
  <2>1. CASE Pumped
    <3>1. wire = <<>>
      BY <2>1, Zenon DEF Pumped
    <3>2. Arrived = {}
      BY <3>1 DEF Arrived
    <3> QED
      BY <1>2, <3>2, Zenon
  <2>2. CASE RecvFails
    <3>1. family' = family /\ pumping /\ pumping' \in BOOLEAN
      BY <2>2, Zenon DEF RecvFails, PumpCutShort
    <3>2. missed' \subseteq missed /\ (~pumping' => missed' \cap Arrived = {})
      BY <2>2, Zenon DEF RecvFails, PumpCutShort
    <3> QED
      BY <1>2, <3>1, <3>2, Zenon DEF OrderInv, MissedIsPast
  <2>3. ASSUME NEW capture \in BOOLEAN, Housekeeping(capture)
        PROVE  missed' \cap Arrived' # {} => family' = "analogue" /\ pumping'
    BY <1>2, <2>3, Zenon DEF Housekeeping, OrderInv, MissedIsPast
  <2> QED
    BY <2>1, <2>2, <2>3
<1>10. MissedIsPast'
  BY <1>5, <1>8, <1>9, Zenon DEF MissedIsPast
<1> QED
  BY <1>1, <1>3, <1>6, <1>10, PiOrderKept, Zenon DEF OrderInv

LEMMA StrayInOrder ==
  ASSUME PiTyped, WireTyped, PcTyped, OrderInv, Stray
  PROVE  OrderInv'
<1>1. UNCHANGED <<made, queue, todo, datagram, media, missed, family, pumping>>
      /\ wire' = Append(wire, <<>>)
  BY Zenon DEF Stray, Garbage, pi, pc
<1>2. <<>> \in Seq(Packets) /\ Elements(<<>>) \subseteq Unsent
      /\ Precede(Elements(<<>>), Unsent')
  BY NothingIsSorted DEF Precede
<1>3. WireInOrder' /\ MediaInOrder' /\ MissedIsPast' /\ NoneIsNewer'
  BY <1>1, <1>2, NothingIsSorted, PiOrderKept, SentInOrder
<1> QED
  BY <1>1, <1>3, PiOrderKept, Zenon DEF OrderInv

LEMMA OrderAtFirst ==
  ASSUME Init
  PROVE  OrderInv
<1>1. Elements(media) = {} /\ Elements(todo) = {} /\ Elements(datagram) = {} /\ missed = {}
      /\ Sorted(media) /\ Sorted(todo) /\ Sorted(datagram)
  BY NothingIsSorted DEF Init
<1>2. DOMAIN wire = {} /\ \A r \in Receivers : queue[r] = <<>>
  BY DEF Init
<1>3. Queued = {} /\ Arrived = {} /\ QueuesInOrder
  BY <1>2, NothingIsSorted DEF Queued, Arrived, QueuesInOrder
<1>4. Unsent = {} /\ Unread = {} /\ Drawn = {}
  BY <1>1, <1>3 DEF Unsent, Unread, Drawn
<1> QED
  BY <1>1, <1>2, <1>3, <1>4, Zenon
     DEF OrderInv, TodoInOrder, DatagramInOrder, WireInOrder, MediaInOrder, MissedIsPast,
         NoneIsNewer, Precede

LEMMA OrderKept ==
  ASSUME PiTyped, WireTyped, PcTyped, OrderInv, [Next]_vars
  PROVE  OrderInv'
<1>1. CASE PiSteps
  BY <1>1, EnqueueInOrder, TuneInOrder, RouteInOrder, WriteInOrder, RestartInOrder, Zenon
     DEF PiSteps
<1>2. CASE PcSteps
  BY <1>2, RecvInOrder, RecvEmptyInOrder, LoopInOrder, Zenon DEF PcSteps
<1>3. CASE Stray
  BY <1>3, StrayInOrder
<1>4. CASE UNCHANGED vars
  <2>1. UNCHANGED <<made, queue, todo, datagram, wire, media, missed, family, pumping>>
    BY <1>4, Zenon DEF vars, pi, pc
  <2>2. Arrived' = Arrived /\ Unread' = Unread
    BY <2>1, PiOrderKept DEF Arrived, Unread
  <2> QED
    BY <2>1, <2>2, PiOrderKept, Zenon
       DEF OrderInv, WireInOrder, MediaInOrder, MissedIsPast, NoneIsNewer
<1> QED
  BY <1>1, <1>2, <1>3, <1>4, Steps

LEMMA OrderAlways == Spec => []OrderInv
<1>1. TypeOK /\ OrderInv /\ [Next]_vars => OrderInv'
  BY TypeParts, OrderKept
<1> QED
  BY <1>1, OrderAtFirst, TypeCorrect, PTL DEF Spec

\* Of each receiver, the packets reach the media pipeline in the order in which they
\* were received and none twice, for any limit of the queues and of a datagram: over
\* the full queue that gives up its oldest packet, the drain, the half full datagram
\* that is sent at the end of a transmission, and the datagrams that are lost.
THEOREM PacketsStayInOrder == Spec => []InOrder
<1>1. OrderInv => InOrder
  BY Zenon DEF OrderInv, MediaInOrder, Sorted, InOrder
<1> QED
  BY <1>1, OrderAlways, PTL

\* What was in the PC's socket when it decided for its capture is never shown, unless
\* an error of the socket or an empty datagram cuts the next pump short: any other
\* pump ends with the socket empty, so all of it has been read, and discarded, before
\* the PC can decide for the gateway again.
THEOREM NothingOldIsShown == Spec => []CaptureLeavesNothing
<1>1. OrderInv => CaptureLeavesNothing
  BY Zenon DEF OrderInv, MissedIsPast, CaptureLeavesNothing
<1> QED
  BY <1>1, OrderAlways, PTL

=============================================================================
