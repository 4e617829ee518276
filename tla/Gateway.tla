------------------------------- MODULE Gateway -------------------------------
(***************************************************************************)
(* The way of the transport stream from the Pi's receivers to the PC's     *)
(* media pipeline, packet by packet:                                       *)
(*   - the packet reader thread and the receivers' queues of               *)
(*     SeritNimController (src/src/nim_controller.cpp),                    *)
(*   - TsRouter (src/src/ts_router.cpp) and TsGatewaySink                  *)
(*     (src/src/ts_gateway_sink.cpp), called by the Pi's control loop,     *)
(*   - UDP, which may lose a datagram and is full at some point,           *)
(*   - PcGatewayInput (src/src/pc_gateway_input.cpp), called by the PC's   *)
(*     loop, which discards the stream while the capture is on the air.    *)
(*                                                                         *)
(* The reader, the two loops and the network interleave.  A queue is       *)
(* locked for one packet and for one drain.  Which receiver is selected is *)
(* decided elsewhere (Selection) and arbitrary here, as is the capture's   *)
(* sync.  Packets that are invalid or out of sync are counted and go       *)
(* nowhere, and are left out.  Time is counted in the PC's iterations.     *)
(***************************************************************************)
EXTENDS Naturals, Sequences

CONSTANTS
  Receivers, NoInput,
  QueueLimit,    \* maxQueuedPacketsPerReceiver
  Batch,         \* maxPacketsPerPump
  PerDatagram,   \* packetsPerDatagram
  Timeout,       \* fallback.inputTimeout
  MaxPackets, MaxWire   \* bounds: packets in all, datagrams under way

ASSUME ConstantsAssumption ==
  /\ NoInput \notin Receivers
  /\ QueueLimit \in Nat \ {0} /\ PerDatagram \in Nat \ {0} /\ Timeout \in Nat
  /\ Batch \in Nat /\ MaxPackets \in Nat /\ MaxWire \in Nat

\* The two limits are 65536, each in its own file.
ASSUME BatchAssumption == Batch >= QueueLimit

VARIABLES
  made,       \* how many packets have been received, on any receiver
  queue,      \* packetQueues_
  selected,   \* TsRouter's active_, and the sink's status_.activeReceiver
  todo,       \* what pump() has drained and not written yet
  datagram,   \* datagram_
  wire,       \* the datagrams under way and in the PC's socket
  pumping,    \* the PC's loop is in pump(), else at its housekeeping
  family,     \* activeSourceFamily, on the PC
  heard,      \* transportPackets # 0
  quiet,      \* the time since updatedAt
  mark,       \* `made' at the last drain (for the properties)
  media,      \* what the media pipeline was given (for the properties)
  missed      \* what the next pump was to discard (for the properties)

pi == <<queue, selected, todo, datagram, mark>>
pc == <<pumping, family, heard, quiet, media, missed>>
vars == <<made, pi, wire, pc>>

Packets == [of : Receivers, n : 1..MaxPackets]
Elements(q) == {q[i] : i \in DOMAIN q}
Garbage == <<>>   \* a datagram that is empty, misaligned or out of sync

TypeOK ==
  /\ made \in 0..MaxPackets /\ mark \in 0..MaxPackets
  /\ queue \in [Receivers -> Seq(Packets)]
  /\ \A r \in Receivers : Len(queue[r]) <= QueueLimit
  /\ selected \in Receivers \cup {NoInput}
  /\ todo \in Seq(Packets) /\ datagram \in Seq(Packets)
  /\ wire \in Seq(Seq(Packets))
  /\ pumping \in BOOLEAN /\ heard \in BOOLEAN
  /\ family \in {"gateway", "analogue", "none"}
  /\ quiet \in 0..(Timeout + 1)
  /\ media \in Seq(Packets) /\ missed \subseteq Packets

Init ==
  /\ made = 0 /\ mark = 0
  /\ queue = [r \in Receivers |-> <<>>]
  /\ selected = NoInput /\ todo = <<>> /\ datagram = <<>> /\ wire = <<>>
  /\ pumping = TRUE /\ family = "none" /\ heard = FALSE /\ quiet = 0
  /\ media = <<>> /\ missed = {}

-----------------------------------------------------------------------------
(* The packet reader.                                                       *)

\* Fault: the queue is filled at the end that is emptied.
EnqueuedAtFront(q, p) == <<p>> \o (IF Len(q) >= QueueLimit THEN Tail(q) ELSE q)

\* enqueuePacketLocked(): a full queue loses its oldest packet.
Enqueued(q, p) == Append(IF Len(q) >= QueueLimit THEN Tail(q) ELSE q, p)

\* ingestPacket(), for the packet and for each of the null packets before it that
\* the receiver has left out: the queue is locked for one at a time.
Enqueue(r) ==
  /\ made < MaxPackets
  /\ made' = made + 1
  /\ queue' = [queue EXCEPT ![r] = Enqueued(@, [of |-> r, n |-> made + 1])]
  /\ UNCHANGED <<selected, todo, datagram, mark, wire, pc>>

-----------------------------------------------------------------------------
(* The Pi's control loop: one thread.                                       *)

\* tune(): what the receiver still has is of another station.
Tune(r) ==
  /\ todo = <<>>
  /\ queue' = [queue EXCEPT ![r] = <<>>]
  /\ UNCHANGED <<made, selected, todo, datagram, mark, wire, pc>>

\* flushDatagram(): sendto() may fail, and what was sent may get lost.
Send(d) ==
  \/ UNCHANGED wire
  \/ d # <<>> /\ Len(wire) < MaxWire /\ wire' = Append(wire, d)

\* TsGatewaySink::setActive()
SetActive(s) ==
  IF s = NoInput THEN Send(datagram) /\ datagram' = <<>>
                 ELSE UNCHANGED <<datagram, wire>>

\* Fault: one packet in each iteration.
DrainedLittle(q) == SubSeq(q, 1, IF Len(q) < 1 THEN Len(q) ELSE 1)

\* drainTransportPackets()
Drained(q) == SubSeq(q, 1, IF Len(q) < Batch THEN Len(q) ELSE Batch)

\* select(), setActive() and the first half of pump().
Route(s) ==
  /\ todo = <<>>
  /\ selected' = s
  /\ SetActive(s)
  /\ todo' = IF s = NoInput THEN <<>> ELSE Drained(queue[s])
  /\ queue' = [r \in Receivers |->
                 IF r = s THEN SubSeq(queue[r], Len(todo') + 1, Len(queue[r])) ELSE queue[r]]
  /\ mark' = made
  /\ UNCHANGED <<made, pc>>

\* TsGatewaySink::write(), for each packet in turn.
Write ==
  /\ todo # <<>>
  /\ todo' = Tail(todo)
  /\ IF Len(datagram) + 1 = PerDatagram
       THEN Send(Append(datagram, Head(todo))) /\ datagram' = <<>>
       ELSE datagram' = Append(datagram, Head(todo)) /\ UNCHANGED wire
  /\ UNCHANGED <<made, queue, selected, mark, pc>>

\* A Pi that is restarted, and the destructor that sends what is left.
Restart ==
  /\ todo = <<>>
  /\ queue' = [r \in Receivers |-> <<>>]
  /\ selected' = NoInput
  /\ Send(datagram) /\ datagram' = <<>>
  /\ UNCHANGED <<made, todo, mark, pc>>

-----------------------------------------------------------------------------
(* The PC's loop.                                                           *)

\* pump(), for a datagram with something in it: it goes to the media pipeline or
\* is discarded.
Recv ==
  /\ pumping /\ wire # <<>>
  /\ wire' = Tail(wire)
  /\ quiet' = 0
  /\ LET d == Head(wire) IN
     IF d = Garbage
       THEN UNCHANGED <<heard, media>>
       ELSE /\ heard' = TRUE
            /\ media' = IF family = "analogue" THEN media ELSE media \o d
  /\ UNCHANGED <<made, pi, pumping, family, missed>>

\* Fault: the stream is left alone while the capture is on the air.
PumpedIgnoring ==
  /\ pumping /\ (wire = <<>> \/ family = "analogue")
  /\ pumping' = FALSE
  /\ UNCHANGED <<made, pi, wire, family, heard, quiet, media, missed>>

\* The end of pump().
Pumped ==
  /\ pumping /\ wire = <<>>
  /\ pumping' = FALSE
  /\ UNCHANGED <<made, pi, wire, family, heard, quiet, media, missed>>

Arrived == UNION {Elements(wire[i]) : i \in DOMAIN wire}

\* pump() ends before the socket is empty, and is called again at once unless the
\* housekeeping is due.
PumpCutShort ==
  /\ pumping /\ pumping' \in BOOLEAN
  /\ missed' = IF pumping' THEN missed ELSE missed \ Arrived
  /\ UNCHANGED <<made, pi, family, heard, media>>

\* An empty datagram does that, and is no sign of life,
RecvEmpty ==
  /\ PumpCutShort
  /\ wire # <<>> /\ Head(wire) = Garbage /\ wire' = Tail(wire)
  /\ UNCHANGED quiet

\* and so does an error of the socket, which counts as one.
RecvFails ==
  /\ PumpCutShort
  /\ quiet' = 0 /\ UNCHANGED wire

\* Fault: what was heard once is active for good.
ActiveOnce == heard

\* PcGatewayInput::active()
Active == heard /\ quiet <= Timeout

\* Each family is kept while it lasts; the gateway comes first.
Chosen(capture) ==
  CASE family = "gateway" /\ Active   -> "gateway"
    [] family = "analogue" /\ capture -> "analogue"
    [] OTHER -> IF Active THEN "gateway" ELSE IF capture THEN "analogue" ELSE "none"

Housekeeping(capture) ==
  /\ ~pumping
  /\ pumping' = TRUE
  /\ family' = Chosen(capture)
  /\ quiet' = IF quiet > Timeout THEN quiet ELSE quiet + 1
  /\ missed' = IF family' = "analogue" THEN missed \cup Arrived ELSE missed
  /\ UNCHANGED <<made, pi, wire, heard, media>>

-----------------------------------------------------------------------------
\* Somebody else's datagram, or a truncated one, or an empty one.
Stray ==
  /\ Len(wire) < MaxWire
  /\ wire' = Append(wire, Garbage)
  /\ UNCHANGED <<made, pi, pc>>

Pc == Recv \/ RecvEmpty \/ Pumped \/ \E capture \in BOOLEAN : Housekeeping(capture)

Next ==
  \/ \E r \in Receivers : Enqueue(r) \/ Tune(r)
  \/ \E s \in Receivers \cup {NoInput} : Route(s)
  \/ Write \/ Restart
  \/ Pc \/ RecvFails
  \/ Stray

\* Both loops go on.  What the Pi's loop selects is left open.
Spec == Init /\ [][Next]_vars /\ WF_vars(Write) /\ WF_vars(Pc)

-----------------------------------------------------------------------------
(* What the way promises.                                                   *)

\* The packets of one receiver reach the media pipeline in the order in which
\* they were received and none twice, over full queues, reselections, lost and
\* half full datagrams.  (A network that reorders would break it: the stream
\* carries no numbers.)
InOrder ==
  \A i, j \in DOMAIN media :
    i < j /\ media[i].of = media[j].of => media[i].n < media[j].n

\* A receiver that is selected may begin with a backlog, but never keeps one:
\* what waits in its queue has come after the last iteration, because a pump
\* takes as much as a queue can hold.
CaughtUp == selected # NoInput => \A i \in DOMAIN queue[selected] : queue[selected][i].n > mark

\* What has arrived by the time the PC decides for its capture is never shown: it is
\* read, and discarded, before the PC decides again.  Not, if an error of the socket
\* or an empty datagram cuts that pump short.  (What arrives between the end of the
\* pump and the decision to leave the capture is shown.)
CaptureLeavesNothing == Elements(media) \cap missed = {}

\* When the Pi has nothing selected any more, all it was given has been sent and
\* the PC notices, unless somebody else sends to its port or the socket fails.
EndIsNoticed ==
  <>[](selected = NoInput) /\ <>[][~Stray /\ ~RecvFails]_vars
    => <>[](family # "gateway" /\ datagram = <<>>)

=============================================================================
