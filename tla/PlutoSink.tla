------------------------------ MODULE PlutoSink ------------------------------
(***************************************************************************)
(* The transmitter's control: class PlutoSink of src/src/pluto_sink.cpp,   *)
(* and PlutoMqttStatusWorker of src/src/pluto_mqtt_status.cpp, by which    *)
(* the daemon learns that the Pluto has been away and has to be set again. *)
(*                                                                         *)
(* Two threads use one PlutoSink without a lock of its own.  `control' is  *)
(* whoever holds the mutex of MediaPipeline and switches the transmitter;  *)
(* `writer' is the worker, which hands over encoded TS outside that mutex  *)
(* and configures the transmitter if nobody has.  Every publishControl()   *)
(* is an MQTT connection of its own, which may take seconds, so the two    *)
(* interleave between any two publications.  All connections use the same  *)
(* client id, and a broker drops the older of two: when both threads       *)
(* publish at once, one publication may be lost although it was sent.      *)
(*                                                                         *)
(* The status worker is a thread with a connection of its own.  It sees    *)
(* that the connection is gone when the broker closes it or when it pings, *)
(* which it does only once it has subscribed: it waits for the broker's    *)
(* answers to CONNECT and SUBSCRIBE without a limit, so a Pluto that loses *)
(* power just then leaves it waiting for good.                             *)
(*                                                                         *)
(* The Pluto is outside the program: it obeys what reaches it, and an      *)
(* outage is a lost network or a restart that forgets everything, its      *)
(* connections among it.                                                   *)
(***************************************************************************)
EXTENDS Naturals, Sequences

CONSTANT Outages   \* whether the Pluto may go away: TRUE or FALSE

ASSUME OutagesAssumption == Outages \in BOOLEAN

VARIABLES
  configured,   \* configured_
  tx,           \* transmitEnabled_
  open,         \* socket_ >= 0
  todo,         \* what each thread still has to do in its running call
  pluto,        \* what the Pluto does: muted, stream running, settings made
  online,       \* it can be reached
  worker,       \* what the status worker does
  alive,        \* the broker knows the worker's connection
  connected,    \* status_.connected
  seen,         \* plutoWasConnected, in the daemon
  asked         \* the reconfiguration on its way from the daemon to the pipeline

sink == <<configured, tx, open, todo>>
monitor == <<worker, alive, connected>>
vars == <<sink, pluto, online, monitor, seen, asked>>

Threads == {"control", "writer"}
Publications == {"settings", "mute", "unmute", "run", "stop"}
Steps == Publications \cup {"configure", "configured", "close", "on", "off", "gate"}

TypeOK ==
  /\ configured \in BOOLEAN /\ tx \in BOOLEAN /\ open \in BOOLEAN
  /\ todo \in [Threads -> Seq(Steps)]
  /\ pluto \in [muted : BOOLEAN, running : BOOLEAN, set : BOOLEAN]
  /\ online \in BOOLEAN /\ seen \in BOOLEAN
  /\ worker \in {"sleeps", "connects", "waits", "listens"}
  /\ alive \in BOOLEAN /\ connected \in BOOLEAN
  /\ asked \in {"nothing", "on", "off"}

Restarted == [muted |-> TRUE, running |-> FALSE, set |-> FALSE]

Init ==
  /\ configured = FALSE /\ tx = FALSE /\ open = FALSE
  /\ todo = [t \in Threads |-> <<>>]
  /\ pluto = Restarted
  /\ online = TRUE /\ seen = FALSE /\ asked = "nothing"
  /\ worker = "connects" /\ alive = FALSE /\ connected = FALSE

-----------------------------------------------------------------------------
(* The calls.                                                               *)

\* Fault: off only stops the TS.
SwitchOffOnlyCloses(on) ==
  IF on THEN <<"configure", "run", "unmute", "on">>
        ELSE <<"configure", "close", "off">>

\* Fault: the configuration, with its mute, comes last.
SwitchConfiguresLast(on) ==
  IF on THEN <<"run", "unmute", "configure", "on">>
        ELSE <<"close", "mute", "stop", "configure", "off">>

\* What setTransmitEnabled and reconfigureTransmitter do in the end.
Switch(on) ==
  IF on THEN <<"configure", "run", "unmute", "on">>
        ELSE <<"configure", "close", "mute", "stop", "off">>

SetTransmitEnabled(on) ==
  /\ todo["control"] = <<>>
  /\ tx # on
  /\ todo' = [todo EXCEPT !["control"] = Switch(on)]
  /\ UNCHANGED <<configured, tx, open, pluto, online, monitor, seen, asked>>

\* Fault: what was configured once is not configured again.
ReconfigureSkipsSettings ==
  /\ todo["control"] = <<>> /\ asked # "nothing"
  /\ asked' = "nothing"
  /\ todo' = [todo EXCEPT !["control"] = Switch(asked = "on")]
  /\ UNCHANGED <<configured, tx, open, pluto, online, monitor, seen>>

\* reconfigureTransmitter(): everything is sent again.
Reconfigure ==
  /\ todo["control"] = <<>> /\ asked # "nothing"
  /\ asked' = "nothing"
  /\ configured' = FALSE
  /\ todo' = [todo EXCEPT !["control"] = Switch(asked = "on")]
  /\ UNCHANGED <<tx, open, pluto, online, monitor, seen>>

WriteMuxData ==
  /\ todo["writer"] = <<>>
  /\ todo' = [todo EXCEPT !["writer"] = <<"configure", "gate">>]
  /\ UNCHANGED <<configured, tx, open, pluto, online, monitor, seen, asked>>

-----------------------------------------------------------------------------
(* Their steps.                                                             *)

Ahead(t, s) == todo[t] # <<>> /\ Head(todo[t]) = s
Done(t) == todo' = [todo EXCEPT ![t] = Tail(@)]

\* configureTransmitter(): all the settings, the mute among the first of them.
Configure(t) ==
  /\ Ahead(t, "configure")
  /\ todo' = [todo EXCEPT ![t] =
                (IF configured THEN <<>> ELSE <<"mute", "settings", "configured">>) \o Tail(@)]
  /\ UNCHANGED <<configured, tx, open, pluto, online, monitor, seen, asked>>

Configured(t) ==
  /\ Ahead(t, "configured") /\ Done(t)
  /\ configured' = TRUE
  /\ UNCHANGED <<tx, open, pluto, online, monitor, seen, asked>>

Publishing(t) == todo[t] # <<>> /\ Head(todo[t]) \in Publications

Obeyed(p) ==
  CASE p = "settings" -> [pluto EXCEPT !.set = TRUE]
    [] p = "mute"     -> [pluto EXCEPT !.muted = TRUE]
    [] p = "unmute"   -> [pluto EXCEPT !.muted = FALSE]
    [] p = "run"      -> [pluto EXCEPT !.running = TRUE]
    [] p = "stop"     -> [pluto EXCEPT !.running = FALSE]

\* connectTcp(): each try is limited to mqttTimeoutMs.
Reached == online

\* publishControl(): what fails twice is given up.
Publish(t) ==
  /\ Publishing(t) /\ Done(t)
  /\ \/ Reached /\ pluto' = Obeyed(Head(todo[t]))
     \/ ~Reached /\ UNCHANGED pluto
     \/ (\A u \in Threads : Publishing(u)) /\ UNCHANGED pluto
  /\ UNCHANGED <<configured, tx, open, online, monitor, seen, asked>>

Close ==
  /\ Ahead("control", "close") /\ Done("control")
  /\ open' = FALSE
  /\ UNCHANGED <<configured, tx, pluto, online, monitor, seen, asked>>

Switched ==
  /\ Ahead("control", "on") \/ Ahead("control", "off")
  /\ Done("control")
  /\ tx' = (Head(todo["control"]) = "on")
  /\ UNCHANGED <<configured, open, pluto, online, monitor, seen, asked>>

\* writeMuxData(): TS goes out only while transmitting.
Gate ==
  /\ Ahead("writer", "gate") /\ Done("writer")
  /\ open' = (open \/ tx)
  /\ UNCHANGED <<configured, tx, pluto, online, monitor, seen, asked>>

Advance(t) == Configure(t) \/ Configured(t) \/ Publish(t)
Control == Advance("control") \/ Close \/ Switched
Writer == Advance("writer") \/ Gate

-----------------------------------------------------------------------------
(* The status worker, and the daemon that reads its status.                 *)

\* The CONNECT packet is sent.
Connects ==
  /\ worker = "connects" /\ online
  /\ worker' = "waits" /\ alive' = TRUE
  /\ UNCHANGED <<sink, pluto, online, connected, seen, asked>>

\* connectTcp() gives up after connectTimeoutMs.
ConnectFails ==
  /\ worker = "connects" /\ ~online
  /\ worker' = "sleeps" /\ connected' = FALSE
  /\ UNCHANGED <<sink, pluto, online, alive, seen, asked>>

\* CONNACK and SUBACK.
Subscribed ==
  /\ worker = "waits" /\ alive /\ online
  /\ worker' = "listens" /\ connected' = TRUE
  /\ UNCHANGED <<sink, pluto, online, alive, seen, asked>>

Loses ==
  /\ worker \in {"waits", "listens"}
  /\ worker' = "sleeps" /\ alive' = FALSE /\ connected' = FALSE
  /\ UNCHANGED <<sink, pluto, online, seen, asked>>

\* A ping to a broker that does not know the connection is refused; without a
\* network the connection is given up in the end, or outlives the outage.
PingFails == worker = "listens" /\ (~alive \/ ~online) /\ Loses

\* The broker refuses, or drops a client that it has not heard of in time.
Dropped == alive /\ online /\ Loses

\* The end of reconnectDelay.
Wakes ==
  /\ worker = "sleeps"
  /\ worker' = "connects"
  /\ UNCHANGED <<sink, pluto, online, alive, connected, seen, asked>>

StatusWorker == Connects \/ ConnectFails \/ Subscribed \/ Wakes \/ (online /\ PingFails)

\* The daemon sees the Pluto come back and has everything sent again, with the
\* beacon's hours (local mode) or its decision (PC mode) for the transmitter.
Look ==
  /\ connected # seen
  /\ seen' = connected
  /\ IF connected THEN asked' \in {"on", "off"} ELSE UNCHANGED asked
  /\ UNCHANGED <<sink, pluto, online, monitor>>

-----------------------------------------------------------------------------
(* The Pluto and its network.                                               *)

Outage ==
  /\ Outages /\ online
  /\ online' = FALSE
  /\ \/ UNCHANGED <<pluto, alive>>
     \/ pluto' = Restarted /\ alive' = FALSE
  /\ UNCHANGED <<sink, worker, connected, seen, asked>>

Return ==
  /\ ~online
  /\ online' = TRUE
  /\ UNCHANGED <<sink, pluto, monitor, seen, asked>>

Next ==
  \/ \E on \in BOOLEAN : SetTransmitEnabled(on)
  \/ Reconfigure \/ WriteMuxData
  \/ Control \/ Writer
  \/ Connects \/ ConnectFails \/ Subscribed \/ PingFails \/ Dropped \/ Wakes
  \/ Look
  \/ Outage \/ Return

\* The threads run; the daemon looks at the status in every iteration, and the
\* pipeline takes its message.
Fairness ==
  /\ WF_vars(Control) /\ WF_vars(Writer) /\ SF_vars(Reconfigure)
  /\ WF_vars(StatusWorker) /\ WF_vars(Look)

Spec == Init /\ [][Next]_vars /\ Fairness

-----------------------------------------------------------------------------
(* What the transmitter's control promises.                                 *)

OnAir == pluto.running /\ ~pluto.muted

\* The decisions and the outages come to an end.
Calm ==
  /\ <>[]online
  /\ <>[][\A on \in BOOLEAN : ~SetTransmitEnabled(on)]_vars
  /\ <>[][~Dropped]_vars

\* README.md:37, "control over MQTT, including TX mute/PTT state": when nothing
\* changes any more, the Pluto does what was decided last.
PlutoFollows == Calm => <>[](OnAir <=> tx)

\* The two threads in the middle of their publications at once.
Overlap ==
  \A t \in Threads :
    \E i \in 1..Len(todo[t]) : todo[t][i] \in Publications \cup {"configured"}

\* An outage that the connection of the status worker outlives, although a
\* publication may have been lost in it; a return that the daemon, held up for
\* longer than reconnectDelay, has not seen it go before; and a Pluto that
\* loses its power while the worker waits for an answer.
Unnoticed ==
  \/ Return /\ alive
  \/ Subscribed /\ seen
  \/ worker' = "waits" /\ ~alive'

\* The executions in which none of this happens: it is what is to blame when the
\* Pluto does not follow.
UndisturbedSpec == Init /\ [][Next /\ ~Overlap' /\ ~Unnoticed]_vars /\ Fairness

\* Nothing is on its way to a Pluto that is there and has not been away.
Settled ==
  /\ todo["control"] = <<>> /\ asked = "nothing"
  /\ online /\ worker = "listens" /\ alive /\ seen

\* A Pluto that restarted and lost its settings is never on the air without
\* them once its return has been dealt with: the whole configuration is
\* repeated before it is told to transmit, also if a transmission begins while
\* its absence is not known yet.
SetBeforeOnAir == Settled /\ OnAir => pluto.set

\* What was decided to be off is off the air as soon as the decision has been
\* carried out, whatever the writer configures at the time.
OffIsOff == Settled /\ ~tx => ~OnAir

=============================================================================
