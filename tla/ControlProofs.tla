---------------------------- MODULE ControlProofs ----------------------------
(***************************************************************************)
(* Proofs about what the daemon controls over the network: the Pluto, over *)
(* MQTT (PlutoSink), and the GPIO line of the Pi, over HTTP (PcGateway,    *)
(* with the choice and the notice of PC mode).                             *)
(***************************************************************************)
EXTENDS PlutoSink, PcGateway, SequenceTheorems, TLAPS

-----------------------------------------------------------------------------
(* Sequences of steps.                                                      *)

Has(c, s) == \E i \in 1..Len(c) : c[i] = s

LEMMA TailIs ==
  ASSUME NEW S, NEW c \in Seq(S), c # <<>>
  PROVE  /\ Head(c) = c[1] /\ Head(c) \in S
         /\ Tail(c) \in Seq(S) /\ Len(c) \in Nat \ {0} /\ Len(Tail(c)) = Len(c) - 1
         /\ \A i \in 1..Len(Tail(c)) : i + 1 \in 1..Len(c) /\ Tail(c)[i] = c[i + 1]
<1>1. /\ Head(c) \in S /\ Tail(c) \in Seq(S) /\ Len(Tail(c)) = Len(c) - 1
      /\ \A i \in 1..Len(Tail(c)) : Tail(c)[i] = c[i + 1]
  BY HeadTailProperties
<1>2. Len(c) \in Nat \ {0} /\ Head(c) = c[1]
  BY EmptySeq
<1> QED
  BY <1>1, <1>2

\* What is left is what there was without the first.
LEMMA HasTail ==
  ASSUME NEW S, NEW c \in Seq(S), c # <<>>, NEW s
  PROVE  Has(c, s) <=> Head(c) = s \/ Has(Tail(c), s)
<1>1. /\ Head(c) = c[1] /\ Len(c) \in Nat \ {0} /\ Len(Tail(c)) = Len(c) - 1
      /\ \A i \in 1..Len(Tail(c)) : i + 1 \in 1..Len(c) /\ Tail(c)[i] = c[i + 1]
  BY TailIs
<1>2. ASSUME NEW i \in 1..Len(c), c[i] = s
      PROVE  Head(c) = s \/ Has(Tail(c), s)
  <2>1. CASE i = 1
    BY <1>1, <1>2, <2>1
  <2>2. CASE i # 1
    <3>1. i - 1 \in 1..Len(Tail(c)) /\ (i - 1) + 1 = i
      BY <1>1, <2>2
    <3>2. Tail(c)[i - 1] = s
      BY <1>1, <1>2, <3>1
    <3> QED
      BY <3>1, <3>2 DEF Has
  <2> QED
    BY <2>1, <2>2
<1>3. Head(c) = s => Has(c, s)
  BY <1>1 DEF Has
<1>4. ASSUME NEW i \in 1..Len(Tail(c)), Tail(c)[i] = s
      PROVE  Has(c, s)
  BY <1>1, <1>4 DEF Has
<1> QED
  BY <1>2, <1>3, <1>4 DEF Has

\* The steps of configureTransmitter().
Configuration == <<"mute", "settings", "configured">>

LEMMA Prefixed ==
  ASSUME NEW S, NEW c \in Seq(S), {"mute", "settings", "configured"} \subseteq S
  PROVE  LET d == Configuration \o c
         IN /\ d \in Seq(S) /\ Len(d) = Len(c) + 3
            /\ d[1] = "mute" /\ d[2] = "settings" /\ d[3] = "configured"
            /\ \A i \in 1..Len(c) : d[i + 3] = c[i]
            /\ \A i \in 4..Len(d) : i - 3 \in 1..Len(c) /\ d[i] = c[i - 3]
<1> DEFINE a == Configuration
           d == a \o c
<1>1. a \in Seq(S) /\ Len(a) = 3 /\ a[1] = "mute" /\ a[2] = "settings" /\ a[3] = "configured"
  BY DEF Configuration
<1> HIDE DEF a
<1>2. Len(c) \in Nat
  OBVIOUS
<1>3. /\ d \in Seq(S) /\ Len(d) = Len(c) + 3
      /\ \A i \in 1..3 : d[i] = a[i]
      /\ \A i \in 4..Len(d) : d[i] = c[i - 3]
  <2>1. /\ d \in Seq(S) /\ Len(d) = Len(a) + Len(c)
        /\ \A i \in 1..Len(a) + Len(c) : d[i] = IF i <= Len(a) THEN a[i] ELSE c[i - Len(a)]
    BY <1>1, ConcatProperties, Zenon
  <2> HIDE DEF d
  <2> QED
    BY <1>1, <1>2, <2>1
<1> HIDE DEF d
<1>4. d[1] = "mute" /\ d[2] = "settings" /\ d[3] = "configured"
  BY <1>1, <1>3
<1>5. \A i \in 4..Len(d) : i - 3 \in 1..Len(c) /\ d[i] = c[i - 3]
  BY <1>2, <1>3
<1>6. \A i \in 1..Len(c) : d[i + 3] = c[i]
  <2> TAKE i \in 1..Len(c)
  <2>1. i + 3 \in 4..Len(d) /\ (i + 3) - 3 = i
    BY <1>2, <1>3
  <2> QED
    BY <1>5, <2>1
<1> QED
  BY <1>3, <1>4, <1>5, <1>6 DEF d, a

\* A call of the control configures first, says last whether it is on, and unmutes
\* only to be on.
Orderly(c) ==
  /\ \A i \in 1..Len(c) :
       /\ c[i] = "configure" => i = 1
       /\ c[i] \in {"on", "off"} => i = Len(c)
       /\ c[i] = "unmute" => c[Len(c)] = "on"
  /\ Has(c, "configure") => Has(c, "run") \/ Has(c, "mute")

LEMMA OrderlyTail ==
  ASSUME NEW S, NEW c \in Seq(S), c # <<>>, Orderly(c)
  PROVE  Orderly(Tail(c)) /\ ~Has(Tail(c), "configure")
<1> DEFINE d == Tail(c)
           n == Len(c)
<1>1. /\ n \in Nat \ {0} /\ Len(d) = n - 1
      /\ \A i \in 1..Len(d) : i + 1 \in 1..n /\ d[i] = c[i + 1]
  BY TailIs
<1> HIDE DEF d
<1>2. ASSUME NEW i \in 1..Len(d)
      PROVE  /\ d[i] # "configure"
             /\ d[i] \in {"on", "off"} => i = Len(d)
             /\ d[i] = "unmute" => d[Len(d)] = "on"
  <2>1. i \in Nat /\ i + 1 \in 1..n /\ d[i] = c[i + 1] /\ i + 1 # 1
    BY <1>1
  <2>2. d[i] # "configure"
    BY <2>1 DEF Orderly
  <2>3. d[i] \in {"on", "off"} => i + 1 = n
    BY <2>1 DEF Orderly
  <2>4. d[i] = "unmute" => c[n] = "on"
    BY <2>1 DEF Orderly
  <2>5. d[Len(d)] = c[n]
    <3>1. Len(d) \in 1..Len(d) /\ Len(d) + 1 = n
      BY <1>1
    <3> QED
      BY <1>1, <3>1
  <2> QED
    BY <1>1, <2>1, <2>2, <2>3, <2>4, <2>5
<1>3. ~Has(d, "configure")
  BY <1>2 DEF Has
<1> QED
  BY <1>2, <1>3 DEF Orderly, d

LEMMA OrderlyPrefixed ==
  ASSUME NEW c \in Seq(Steps), Orderly(c), ~Has(c, "configure")
  PROVE  Orderly(Configuration \o c) /\ Has(Configuration \o c, "settings")
<1> DEFINE d == Configuration \o c
           n == Len(c)
<1>1. /\ n \in Nat /\ Len(d) = n + 3
      /\ d[1] = "mute" /\ d[2] = "settings" /\ d[3] = "configured"
      /\ \A i \in 4..Len(d) : i - 3 \in 1..n /\ d[i] = c[i - 3]
  BY Prefixed DEF Steps, Publications
<1> HIDE DEF d
<1>2. ASSUME NEW i \in 1..Len(d)
      PROVE  /\ d[i] # "configure"
             /\ d[i] \in {"on", "off"} => i = Len(d)
             /\ d[i] = "unmute" => d[Len(d)] = "on"
  <2>1. CASE i \in 1..3
    <3>1. d[i] \in {"mute", "settings", "configured"}
      <4>1. i = 1 \/ i = 2 \/ i = 3
        BY <2>1
      <4> QED
        BY <1>1, <4>1
    <3> QED
      BY <3>1
  <2>2. CASE i \notin 1..3
    <3>1. i \in 4..Len(d) /\ i - 3 \in 1..n /\ d[i] = c[i - 3]
      BY <1>1, <2>2
    <3>2. d[i] # "configure"
      BY <3>1 DEF Has
    <3>3. d[i] \in {"on", "off"} => i - 3 = n
      BY <3>1 DEF Orderly
    <3>4. d[i] = "unmute" => c[n] = "on"
      BY <3>1 DEF Orderly
    <3>5. d[Len(d)] = c[n]
      <4>1. Len(d) \in 4..Len(d) /\ Len(d) - 3 = n
        BY <1>1, <3>1
      <4> QED
        BY <1>1, <4>1
    <3> QED
      BY <1>1, <3>1, <3>2, <3>3, <3>4, <3>5
  <2> QED
    BY <2>1, <2>2
<1>3. ~Has(d, "configure")
  BY <1>2 DEF Has
<1>4. Has(d, "settings")
  BY <1>1 DEF Has
<1> QED
  BY <1>2, <1>3, <1>4 DEF Orderly, d

\* The calls themselves.
LEMMA SwitchIs ==
  ASSUME NEW on \in BOOLEAN
  PROVE  /\ Switch(on) \in Seq(Steps) /\ Switch(on) # <<>> /\ Orderly(Switch(on))
         /\ Has(Switch(on), "configure")
         /\ Has(Switch(on), "mute") \/ Has(Switch(on), "on")
<1>1. CASE on
  <2> DEFINE c == <<"configure", "run", "unmute", "on">>
  <2>1. /\ c \in Seq(Steps) /\ Len(c) = 4 /\ c # <<>>
        /\ c[1] = "configure" /\ c[2] = "run" /\ c[3] = "unmute" /\ c[4] = "on"
    BY DEF Steps, Publications
  <2>2. Switch(on) = c
    BY <1>1 DEF Switch
  <2> HIDE DEF c
  <2>3. \A i \in 1..Len(c) : i = 1 \/ i = 2 \/ i = 3 \/ i = 4
    BY <2>1
  <2>4. Has(c, "configure") /\ Has(c, "run") /\ Has(c, "on")
    BY <2>1 DEF Has
  <2>5. Orderly(c)
    BY <2>1, <2>3, <2>4 DEF Orderly
  <2> QED
    BY <2>1, <2>2, <2>4, <2>5
<1>2. CASE ~on
  <2> DEFINE c == <<"configure", "close", "mute", "stop", "off">>
  <2>1. /\ c \in Seq(Steps) /\ Len(c) = 5 /\ c # <<>>
        /\ c[1] = "configure" /\ c[2] = "close" /\ c[3] = "mute" /\ c[4] = "stop" /\ c[5] = "off"
    BY DEF Steps, Publications
  <2>2. Switch(on) = c
    BY <1>2 DEF Switch
  <2> HIDE DEF c
  <2>3. \A i \in 1..Len(c) : i = 1 \/ i = 2 \/ i = 3 \/ i = 4 \/ i = 5
    BY <2>1
  <2>4. Has(c, "configure") /\ Has(c, "mute")
    BY <2>1 DEF Has
  <2>5. Orderly(c)
    BY <2>1, <2>3, <2>4 DEF Orderly
  <2> QED
    BY <2>1, <2>2, <2>4, <2>5
<1> QED
  BY <1>1, <1>2

-----------------------------------------------------------------------------
(* Types.                                                                   *)

Plutos == [muted : BOOLEAN, running : BOOLEAN, set : BOOLEAN]

LEMMA ObeyedIs ==
  ASSUME pluto \in Plutos, NEW p \in Publications
  PROVE  /\ Obeyed(p) \in Plutos
         /\ p = "settings" \/ pluto.set => Obeyed(p).set
         /\ p = "mute" \/ (pluto.muted /\ p # "unmute") => Obeyed(p).muted
<1>1. CASE p = "settings"
  <2>1. Obeyed(p) = [pluto EXCEPT !.set = TRUE]
    BY <1>1 DEF Obeyed
  <2>2. Obeyed(p) \in Plutos
    BY <2>1 DEF Plutos
  <2>3. Obeyed(p).set /\ Obeyed(p).muted = pluto.muted
    BY <2>1 DEF Plutos
  <2> QED
    BY <1>1, <2>2, <2>3
<1>2. CASE p = "mute"
  <2>1. Obeyed(p) = [pluto EXCEPT !.muted = TRUE]
    BY <1>2 DEF Obeyed
  <2>2. Obeyed(p) \in Plutos
    BY <2>1 DEF Plutos
  <2>3. Obeyed(p).set = pluto.set /\ Obeyed(p).muted
    BY <2>1 DEF Plutos
  <2> QED
    BY <1>2, <2>2, <2>3
<1>3. CASE p = "unmute"
  <2>1. Obeyed(p) = [pluto EXCEPT !.muted = FALSE]
    BY <1>3 DEF Obeyed
  <2>2. Obeyed(p) \in Plutos
    BY <2>1 DEF Plutos
  <2>3. Obeyed(p).set = pluto.set
    BY <2>1 DEF Plutos
  <2> QED
    BY <1>3, <2>2, <2>3
<1>4. CASE p \in {"run", "stop"}
  <2>1. Obeyed(p) = [pluto EXCEPT !.running = (p = "run")]
    BY <1>4 DEF Obeyed
  <2>2. Obeyed(p) \in Plutos
    BY <2>1 DEF Plutos
  <2>3. Obeyed(p).set = pluto.set /\ Obeyed(p).muted = pluto.muted
    BY <2>1 DEF Plutos
  <2> QED
    BY <1>4, <2>2, <2>3
<1> QED
  BY <1>1, <1>2, <1>3, <1>4 DEF Publications

LEMMA TodoIs ==
  ASSUME TypeOK, NEW t \in Threads, NEW x \in Seq(Steps), todo' = [todo EXCEPT ![t] = x]
  PROVE  /\ todo' \in [Threads -> Seq(Steps)]
         /\ todo'[t] = x /\ \A u \in Threads : u # t => todo'[u] = todo[u]
BY DEF TypeOK

LEMMA StepIsDone ==
  ASSUME TypeOK, NEW t \in Threads, todo[t] # <<>>
  PROVE  todo[t] \in Seq(Steps) /\ Head(todo[t]) \in Steps /\ Tail(todo[t]) \in Seq(Steps)
<1>1. todo[t] \in Seq(Steps)
  BY DEF TypeOK
<1> QED
  BY <1>1, TailIs

\* What is left of a call whose first step is to configure.
LEMMA ConfigureIs ==
  ASSUME TypeOK, NEW t \in Threads, Configure(t)
  PROVE  LET x == IF configured THEN Tail(todo[t]) ELSE Configuration \o Tail(todo[t])
         IN x \in Seq(Steps) /\ todo' = [todo EXCEPT ![t] = x]
<1> DEFINE r == Tail(todo[t])
<1>1. todo[t] # <<>> /\ todo \in [Threads -> Seq(Steps)]
  BY Zenon DEF Configure, Ahead, TypeOK
<1>2. r \in Seq(Steps)
  BY <1>1, StepIsDone
<1>3. Configuration \o r \in Seq(Steps) /\ <<>> \o r = r
  BY <1>2, Prefixed, ConcatEmptySeq DEF Steps, Publications
<1>4. todo' = [todo EXCEPT ![t] = (IF configured THEN <<>> ELSE Configuration) \o r]
  BY <1>1 DEF Configure, Configuration
<1> HIDE DEF r
<1>5. CASE configured
  BY <1>2, <1>3, <1>4, <1>5 DEF r
<1>6. CASE ~configured
  BY <1>2, <1>3, <1>4, <1>6 DEF r
<1> QED
  BY <1>5, <1>6

LEMMA DoneIs ==
  ASSUME TypeOK, NEW t \in Threads, todo[t] # <<>>, Done(t)
  PROVE  Tail(todo[t]) \in Seq(Steps) /\ todo' = [todo EXCEPT ![t] = Tail(todo[t])]
<1>1. todo \in [Threads -> Seq(Steps)]
  BY Zenon DEF TypeOK
<1> QED
  BY <1>1, StepIsDone DEF Done

LEMMA TodoAlone ==
  ASSUME TypeOK, todo' \in [Threads -> Seq(Steps)],
         UNCHANGED <<configured, tx, open, pluto, online, monitor, seen, asked>>
  PROVE  TypeOK'
<1>1. /\ configured' = configured /\ tx' = tx /\ open' = open /\ pluto' = pluto
      /\ online' = online /\ seen' = seen /\ asked' = asked
  BY Zenon
<1>2. worker' = worker /\ alive' = alive /\ connected' = connected
  BY Zenon DEF monitor
<1>3. /\ configured' \in BOOLEAN /\ tx' \in BOOLEAN /\ open' \in BOOLEAN
      /\ pluto' \in [muted : BOOLEAN, running : BOOLEAN, set : BOOLEAN]
      /\ online' \in BOOLEAN /\ seen' \in BOOLEAN /\ asked' \in {"nothing", "on", "off"}
  BY <1>1, Zenon DEF TypeOK
<1>4. /\ worker' \in {"sleeps", "connects", "waits", "listens"}
      /\ alive' \in BOOLEAN /\ connected' \in BOOLEAN
  BY <1>2, Zenon DEF TypeOK
<1> QED
  BY <1>3, <1>4, Zenon DEF TypeOK

LEMMA Typed ==
  ASSUME TypeOK, [Next]_vars
  PROVE  TypeOK'
<1> USE DEF sink, monitor
<1>1. ASSUME NEW on \in BOOLEAN, SetTransmitEnabled(on) PROVE TypeOK'
  <2>1. todo' \in [Threads -> Seq(Steps)]
    BY <1>1, SwitchIs, TodoIs DEF SetTransmitEnabled, Threads
  <2> QED
    BY <1>1, <2>1, TodoAlone, Zenon DEF SetTransmitEnabled
<1>2. CASE Reconfigure
  <2>1. todo' \in [Threads -> Seq(Steps)]
    BY <1>2, SwitchIs, TodoIs DEF Reconfigure, Threads
  <2> QED
    BY <1>2, <2>1, Zenon DEF Reconfigure, TypeOK
<1>3. CASE WriteMuxData
  <2>1. todo' \in [Threads -> Seq(Steps)]
    <3>1. <<"configure", "gate">> \in Seq(Steps)
      BY DEF Steps
    <3> QED
      BY <1>3, <3>1, TodoIs DEF WriteMuxData, Threads
  <2> QED
    BY <1>3, <2>1, TodoAlone, Zenon DEF WriteMuxData
<1>4. ASSUME NEW t \in Threads, Configure(t) PROVE TypeOK'
  <2>1. todo' \in [Threads -> Seq(Steps)]
    BY <1>4, ConfigureIs, TodoIs
  <2> QED
    BY <1>4, <2>1, TodoAlone, Zenon DEF Configure
<1>5. ASSUME NEW t \in Threads, todo[t] # <<>>, Done(t) PROVE todo' \in [Threads -> Seq(Steps)]
  BY <1>5, DoneIs, TodoIs
<1>6. ASSUME NEW t \in Threads, Configured(t) PROVE TypeOK'
  BY <1>5, <1>6, Zenon DEF Configured, Ahead, TypeOK
<1>7. ASSUME NEW t \in Threads, Publish(t) PROVE TypeOK'
  <2>1. todo[t] # <<>> /\ Head(todo[t]) \in Publications /\ Done(t)
    BY <1>7, Zenon DEF Publish, Publishing
  <2>2. todo' \in [Threads -> Seq(Steps)]
    BY <1>5, <2>1
  <2>3. pluto' \in Plutos
    <3>1. pluto \in Plutos /\ (pluto' = Obeyed(Head(todo[t])) \/ pluto' = pluto)
      BY <1>7, Zenon DEF Publish, TypeOK, Plutos
    <3> QED
      BY <2>1, <3>1, ObeyedIs
  <2> QED
    BY <1>7, <2>2, <2>3, Zenon DEF Publish, TypeOK, Plutos
<1>8. CASE Close
  <2>1. todo["control"] # <<>> /\ "control" \in Threads /\ Done("control")
    BY <1>8, Zenon DEF Close, Ahead, Threads
  <2> QED
    BY <1>5, <1>8, <2>1, Zenon DEF Close, TypeOK
<1>9. CASE Switched
  <2>1. todo["control"] # <<>> /\ "control" \in Threads /\ Done("control")
    BY <1>9, Zenon DEF Switched, Ahead, Threads
  <2> QED
    BY <1>5, <1>9, <2>1, Zenon DEF Switched, TypeOK
<1>10. CASE Gate
  <2>1. todo["writer"] # <<>> /\ "writer" \in Threads /\ Done("writer")
    BY <1>10, Zenon DEF Gate, Ahead, Threads
  <2> QED
    BY <1>5, <1>10, <2>1, Zenon DEF Gate, TypeOK
<1>11. CASE Connects \/ ConnectFails \/ Subscribed \/ Wakes
  BY <1>11, Zenon DEF Connects, ConnectFails, Subscribed, Wakes, TypeOK
<1>12. CASE PingFails \/ Dropped
  BY <1>12, Zenon DEF PingFails, Dropped, Loses, TypeOK
<1>13. CASE Look
  <2>1. asked' \in {"nothing", "on", "off"}
    BY <1>13, Zenon DEF Look, TypeOK
  <2> QED
    BY <1>13, <2>1, Zenon DEF Look, TypeOK
<1>14. CASE Outage
  <2>1. Restarted \in Plutos
    BY DEF Restarted, Plutos
  <2>2. pluto' \in Plutos /\ alive' \in BOOLEAN
    BY <1>14, <2>1, Zenon DEF Outage, TypeOK, Plutos
  <2> QED
    BY <1>14, <2>2, Zenon DEF Outage, TypeOK, Plutos
<1>15. CASE Return
  BY <1>15, Zenon DEF Return, TypeOK
<1>16. CASE UNCHANGED vars
  <2>1. todo' = todo /\ UNCHANGED <<configured, tx, open, pluto, online, monitor, seen, asked>>
    BY <1>16, Zenon DEF vars
  <2>2. todo' \in [Threads -> Seq(Steps)]
    BY <2>1, Zenon DEF TypeOK
  <2> QED
    BY <2>1, <2>2, TodoAlone, Zenon
<1> QED
  BY <1>1, <1>2, <1>3, <1>4, <1>6, <1>7, <1>8, <1>9, <1>10, <1>11, <1>12, <1>13, <1>14,
     <1>15, <1>16, Zenon DEF Next, Control, Writer, Advance, Threads

LEMMA TypedAtFirst == Init => TypeOK
<1>1. Restarted \in Plutos
  BY DEF Restarted, Plutos
<1>2. [t \in Threads |-> <<>>] \in [Threads -> Seq(Steps)]
  OBVIOUS
<1> QED
  BY <1>1, <1>2, Zenon DEF Init, TypeOK, Plutos

\* Whatever the two threads, the status worker and the Pluto do, every variable keeps
\* its type.
THEOREM TypeCorrect == Spec => []TypeOK
BY TypedAtFirst, Typed, PTL DEF Spec

-----------------------------------------------------------------------------
(* What has been decided reaches the Pluto.                                 *)

Left == todo["control"]
WriterSteps == {"configure", "mute", "settings", "configured", "gate"}

Orders == Orderly(Left) /\ todo["writer"] \in Seq(WriterSteps)

\* The Pluto is away, or it is not yet known, or not yet dealt with, that it has been.
Coming == ~(asked = "nothing" /\ online /\ worker = "listens" /\ alive /\ seen)

\* Unless everything is about to be sent again, the Pluto has its settings or they are
\* ahead; it is muted, or that is ahead, or it is on or about to be.
SetAhead ==
  \/ pluto.set
  \/ Has(Left, "settings")
  \/ ~configured /\ Has(Left, "configure")

MuteAhead ==
  \/ pluto.muted
  \/ Has(Left, "mute")
  \/ Has(Left, "on")
  \/ Left = <<>> /\ tx

IInv == TypeOK /\ Orders /\ ~Overlap /\ (~Coming => SetAhead /\ MuteAhead)

Apart == Next /\ ~Overlap' /\ ~Unnoticed

\* A call of the control that has not configured yet has publications ahead, and so
\* keeps the writer from publishing.
LEMMA NotBoth ==
  ASSUME ~Overlap
  PROVE  LET W == todo["writer"]
             P == Publications \cup {"configured"}
         IN ~((\E i \in 1..Len(Left) : Left[i] \in P) /\ (\E i \in 1..Len(W) : W[i] \in P))
BY Zenon DEF Overlap, Threads, Left

LEMMA WriterWaits ==
  ASSUME TypeOK, Orders, ~Overlap, Has(Left, "configure")
  PROVE  ~Configured("writer")
<1> SUFFICES ASSUME Configured("writer") PROVE FALSE
  OBVIOUS
<1> DEFINE W == todo["writer"]
<1>1. W # <<>> /\ Head(W) = "configured" /\ W \in Seq(Steps)
  BY Zenon DEF Configured, Ahead, TypeOK, Threads
<1>2. \E i \in 1..Len(W) : W[i] \in Publications \cup {"configured"}
  <2> HIDE DEF W
  <2>1. W[1] = "configured" /\ Len(W) \in Nat \ {0}
    BY <1>1, TailIs
  <2> QED
    BY <2>1
<1>3. \E i \in 1..Len(Left) : Left[i] \in Publications \cup {"configured"}
  <2>1. Has(Left, "run") \/ Has(Left, "mute")
    BY Zenon DEF Orders, Orderly
  <2> QED
    BY <2>1 DEF Has, Publications
<1> QED
  BY <1>2, <1>3, NotBoth, Zenon

\* What both threads have ahead of them stays in order.
LEMMA OrdersKept ==
  ASSUME TypeOK, Orders, [Next]_vars
  PROVE  Orders'
<1> DEFINE W == todo["writer"]
<1>1. Left \in Seq(Steps) /\ W \in Seq(WriterSteps) /\ Orderly(Left)
      /\ "control" \in Threads /\ "writer" \in Threads
  BY Zenon DEF TypeOK, Orders, Left, Threads
<1>2. ASSUME NEW on \in BOOLEAN, todo' = [todo EXCEPT !["control"] = Switch(on)] PROVE Orders'
  <2>1. todo'["control"] = Switch(on) /\ todo'["writer"] = W
    BY <1>1, <1>2, SwitchIs, TodoIs DEF Threads
  <2> QED
    BY <1>1, <2>1, SwitchIs, Zenon DEF Orders, Left
<1>3. CASE WriteMuxData
  <2>1. <<"configure", "gate">> \in Seq(Steps) /\ <<"configure", "gate">> \in Seq(WriterSteps)
    BY DEF Steps, WriterSteps
  <2>2. todo'["writer"] = <<"configure", "gate">> /\ todo'["control"] = Left
    BY <1>1, <1>3, <2>1, TodoIs DEF WriteMuxData, Left, Threads
  <2> QED
    BY <1>1, <2>1, <2>2, Zenon DEF Orders, Left
<1>4. ASSUME NEW x \in Seq(Steps), todo' = [todo EXCEPT !["control"] = x], Orderly(x) PROVE Orders'
  <2>1. todo'["control"] = x /\ todo'["writer"] = W
    BY <1>1, <1>4, TodoIs DEF Threads
  <2> QED
    BY <1>1, <1>4, <2>1, Zenon DEF Orders, Left
<1>5. ASSUME NEW x \in Seq(WriterSteps), todo' = [todo EXCEPT !["writer"] = x] PROVE Orders'
  <2>1. x \in Seq(Steps)
    BY DEF WriterSteps, Steps, Publications
  <2>2. todo'["writer"] = x /\ todo'["control"] = Left
    BY <1>1, <1>5, <2>1, TodoIs DEF Left, Threads
  <2> QED
    BY <1>1, <1>5, <2>2, Zenon DEF Orders, Left
<1>6. ASSUME Left # <<>>, Done("control") PROVE Orders'
  <2>1. Tail(Left) \in Seq(Steps) /\ todo' = [todo EXCEPT !["control"] = Tail(Left)]
    BY <1>1, <1>6, DoneIs, Zenon DEF Left
  <2>2. Orderly(Tail(Left))
    BY <1>1, <1>6, OrderlyTail
  <2> QED
    BY <1>4, <2>1, <2>2
<1>7. ASSUME W # <<>>, Done("writer") PROVE Orders'
  <2>1. todo' = [todo EXCEPT !["writer"] = Tail(W)]
    BY <1>1, <1>7, DoneIs, Zenon
  <2>2. Tail(W) \in Seq(WriterSteps)
    BY <1>1, <1>7, TailIs
  <2> QED
    BY <1>5, <2>1, <2>2
<1>8. CASE Configure("control")
  <2> DEFINE x == IF configured THEN Tail(Left) ELSE Configuration \o Tail(Left)
  <2>1. x \in Seq(Steps) /\ todo' = [todo EXCEPT !["control"] = x]
    BY <1>1, <1>8, ConfigureIs, Zenon DEF Left
  <2>2. Left # <<>>
    BY <1>8, Zenon DEF Configure, Ahead, Left
  <2>3. Tail(Left) \in Seq(Steps) /\ Orderly(Tail(Left)) /\ ~Has(Tail(Left), "configure")
    BY <1>1, <2>2, OrderlyTail, TailIs
  <2>4. Orderly(x)
    BY <2>3, OrderlyPrefixed, Zenon
  <2> HIDE DEF x
  <2> QED
    BY <1>4, <2>1, <2>4
<1>9. CASE Configure("writer")
  <2> DEFINE x == IF configured THEN Tail(W) ELSE Configuration \o Tail(W)
  <2>1. todo' = [todo EXCEPT !["writer"] = x] /\ W # <<>>
    BY <1>1, <1>9, ConfigureIs, Zenon DEF Configure, Ahead
  <2>2. Tail(W) \in Seq(WriterSteps)
    BY <1>1, <2>1, TailIs
  <2>3. Configuration \o Tail(W) \in Seq(WriterSteps)
    BY <2>2, Prefixed DEF WriterSteps
  <2>4. x \in Seq(WriterSteps)
    BY <2>2, <2>3, Zenon
  <2> HIDE DEF x
  <2> QED
    BY <1>5, <2>1, <2>4
<1>10. CASE \E on \in BOOLEAN : SetTransmitEnabled(on)
  BY <1>2, <1>10, Zenon DEF SetTransmitEnabled
<1>11. CASE Reconfigure
  <2>1. (asked = "on") \in BOOLEAN /\ todo' = [todo EXCEPT !["control"] = Switch(asked = "on")]
    BY <1>11, Zenon DEF Reconfigure
  <2> QED
    BY <1>2, <2>1
<1>12. CASE Configured("control") \/ Publish("control") \/ Close \/ Switched
  BY <1>6, <1>12, Zenon DEF Configured, Publish, Publishing, Close, Switched, Ahead, Left
<1>13. CASE Configured("writer") \/ Publish("writer") \/ Gate
  BY <1>7, <1>13, Zenon DEF Configured, Publish, Publishing, Gate, Ahead
<1>14. ASSUME UNCHANGED todo PROVE Orders'
  BY <1>1, <1>14, Zenon DEF Orders, Left
<1>15. CASE Connects \/ ConnectFails \/ Subscribed \/ PingFails \/ Dropped \/ Wakes
  <2>1. UNCHANGED sink
    BY <1>15, Zenon DEF Connects, ConnectFails, Subscribed, PingFails, Dropped, Wakes, Loses
  <2> QED
    BY <1>14, <2>1, Zenon DEF sink
<1>16. CASE Look \/ Outage \/ Return \/ UNCHANGED vars
  <2>1. UNCHANGED sink
    BY <1>16, Zenon DEF Look, Outage, Return, vars
  <2> QED
    BY <1>14, <2>1, Zenon DEF sink
<1> QED
  BY <1>3, <1>8, <1>9, <1>10, <1>11, <1>12, <1>13, <1>15, <1>16, Zenon
     DEF Next, Control, Writer, Advance

\* What the status worker, the daemon and the Pluto do by themselves leaves everything
\* to be sent again, unless an outage goes unnoticed.
LEMMA AwayIsComing ==
  ASSUME ~Unnoticed,
         \/ Connects \/ ConnectFails \/ Subscribed \/ PingFails \/ Dropped \/ Wakes
         \/ Look \/ Outage \/ Return
  PROVE  Coming'
<1>1. CASE Connects \/ ConnectFails \/ PingFails \/ Dropped \/ Wakes
  <2>1. worker' # "listens"
    BY <1>1, Zenon DEF Connects, ConnectFails, PingFails, Dropped, Wakes, Loses
  <2> QED
    BY <2>1, Zenon DEF Coming
<1>2. CASE Subscribed
  BY <1>2, Zenon DEF Subscribed, Unnoticed, Coming
<1>3. CASE Look
  <2>1. ~seen' \/ asked' # "nothing"
    BY <1>3, Zenon DEF Look
  <2> QED
    BY <2>1, Zenon DEF Coming
<1>4. CASE Outage
  BY <1>4, Zenon DEF Outage, Coming
<1>5. CASE Return
  BY <1>5, Zenon DEF Return, Unnoticed, Coming, monitor
<1> QED
  BY <1>1, <1>2, <1>3, <1>4, <1>5, Zenon

\* A step of the control takes one step of its call.
LEMMA ControlSteps ==
  ASSUME TypeOK, Orders, Left # <<>>, Done("control")
  PROVE  /\ \A s : Has(Left, s) <=> Head(Left) = s \/ Has(Left', s)
         /\ ~Has(Left', "configure")
         /\ Head(Left) \in {"on", "off"} => Left' = <<>>
         /\ Head(Left) = "unmute" => Has(Left', "on")
<1>1. Left \in Seq(Steps) /\ Orderly(Left) /\ "control" \in Threads
  BY Zenon DEF TypeOK, Orders, Left, Threads
<1>2. Left' = Tail(Left)
  <2>1. Tail(Left) \in Seq(Steps) /\ todo' = [todo EXCEPT !["control"] = Tail(Left)]
    BY <1>1, DoneIs, Zenon DEF Left
  <2> QED
    BY <1>1, <2>1, TodoIs DEF Left, Threads
<1>3. \A s : Has(Left, s) <=> Head(Left) = s \/ Has(Tail(Left), s)
  BY <1>1, HasTail
<1>4. Orderly(Tail(Left)) /\ ~Has(Tail(Left), "configure")
  BY <1>1, OrderlyTail
<1>5. /\ Head(Left) = Left[1] /\ Len(Left) \in Nat \ {0} /\ Len(Tail(Left)) = Len(Left) - 1
      /\ Tail(Left) \in Seq(Steps)
      /\ \A i \in 1..Len(Tail(Left)) : Tail(Left)[i] = Left[i + 1]
  BY <1>1, TailIs
<1>6. 1 \in 1..Len(Left) /\ Len(Left) \in 1..Len(Left)
  BY <1>5
<1>7. Head(Left) \in {"on", "off"} => Tail(Left) = <<>>
  <2> SUFFICES ASSUME Head(Left) \in {"on", "off"} PROVE Tail(Left) = <<>>
    OBVIOUS
  <2>1. Len(Left) = 1
    <3>1. Left[1] \in {"on", "off"}
      BY <1>5, Zenon
    <3> QED
      BY <1>6, <1>1, <3>1, Zenon DEF Orderly
  <2>2. Len(Tail(Left)) = 0
    BY <1>5, <2>1
  <2>3. Tail(Left) # <<>> => Len(Tail(Left)) \in Nat \ {0}
    BY <1>5, EmptySeq, Zenon
  <2> QED
    BY <2>2, <2>3
<1>8. Head(Left) = "unmute" => Has(Tail(Left), "on")
  <2> SUFFICES ASSUME Head(Left) = "unmute" PROVE Has(Tail(Left), "on")
    OBVIOUS
  <2>1. Left[Len(Left)] = "on"
    BY <1>6, <1>1, <1>5, Zenon DEF Orderly
  <2>2. Has(Left, "on")
    BY <1>6, <2>1, Zenon DEF Has
  <2> QED
    BY <1>3, <2>2
<1> QED
  BY <1>2, <1>3, <1>4, <1>7, <1>8, Zenon

\* The same for the step that configures.
LEMMA ControlConfigures ==
  ASSUME TypeOK, Orders, Configure("control")
  PROVE  /\ ~configured => Has(Left', "mute") /\ Has(Left', "settings")
         /\ configured => \A s : Has(Left, s) <=> s = "configure" \/ Has(Left', s)
<1>1. /\ Left \in Seq(Steps) /\ Orderly(Left) /\ "control" \in Threads
      /\ Left # <<>> /\ Head(Left) = "configure"
  BY Zenon DEF TypeOK, Orders, Left, Threads, Configure, Ahead
<1> DEFINE x == IF configured THEN Tail(Left) ELSE Configuration \o Tail(Left)
<1>2. Left' = x
  <2>1. x \in Seq(Steps) /\ todo' = [todo EXCEPT !["control"] = x]
    BY <1>1, ConfigureIs, Zenon DEF Left
  <2> HIDE DEF x
  <2> QED
    BY <1>1, <2>1, TodoIs DEF Left, Threads
<1>3. Tail(Left) \in Seq(Steps)
  BY <1>1, TailIs
<1>4. CASE configured
  <2>1. \A s : Has(Left, s) <=> Head(Left) = s \/ Has(Tail(Left), s)
    BY <1>1, HasTail
  <2> QED
    BY <1>1, <1>2, <1>4, <2>1, Zenon
<1>5. CASE ~configured
  <2> DEFINE d == Configuration \o Tail(Left)
  <2>1. d[1] = "mute" /\ d[2] = "settings" /\ Len(d) = Len(Tail(Left)) + 3 /\ Len(Tail(Left)) \in Nat
    BY <1>3, Prefixed DEF Steps, Publications
  <2> HIDE DEF d
  <2>2. Has(d, "mute") /\ Has(d, "settings")
    BY <2>1 DEF Has
  <2>3. Left' = d
    BY <1>2, <1>5 DEF d
  <2> QED
    BY <1>5, <2>2, <2>3, Zenon
<1> QED
  BY <1>4, <1>5

\* When the Pluto is there, what is published by one thread alone is obeyed.
LEMMA PublishedIsObeyed ==
  ASSUME TypeOK, ~Overlap, ~Coming, NEW t \in Threads, Publish(t)
  PROVE  pluto' = Obeyed(Head(todo[t]))
<1>1. Reached
  BY Zenon DEF Coming, Reached
<1>2. ~ \A u \in Threads : Publishing(u)
  <2> SUFFICES ASSUME \A u \in Threads : Publishing(u) PROVE Overlap
    OBVIOUS
  <2> SUFFICES ASSUME NEW u \in Threads
               PROVE  \E i \in 1..Len(todo[u]) : todo[u][i] \in Publications \cup {"configured"}
    BY DEF Overlap
  <2>1. todo[u] \in Seq(Steps) /\ todo[u] # <<>> /\ Head(todo[u]) \in Publications
    BY Zenon DEF TypeOK, Publishing
  <2>2. Head(todo[u]) = todo[u][1] /\ Len(todo[u]) \in Nat \ {0}
    BY <2>1, TailIs
  <2> QED
    BY <2>1, <2>2
<1> QED
  BY <1>1, <1>2, Zenon DEF Publish

LEMMA NothingAhead == \A s : ~Has(<<>>, s)
BY DEF Has

LEMMA ControlAhead ==
  ASSUME IInv, ~Coming,
         \/ Configure("control") \/ Configured("control") \/ Publish("control")
         \/ Close \/ Switched
  PROVE  SetAhead' /\ MuteAhead'
<1>1. /\ TypeOK /\ Orders /\ ~Overlap /\ SetAhead /\ MuteAhead /\ "control" \in Threads
      /\ pluto \in Plutos
  BY Zenon DEF IInv, Threads, TypeOK, Plutos
<1>2. CASE Configure("control")
  <2>1. /\ Left # <<>> /\ pluto' = pluto /\ configured' = configured
    BY <1>2, Zenon DEF Configure, Ahead, Left
  <2>2. /\ ~configured => Has(Left', "mute") /\ Has(Left', "settings")
        /\ configured => \A s : Has(Left, s) <=> s = "configure" \/ Has(Left', s)
    BY <1>1, <1>2, ControlConfigures
  <2>3. CASE configured
    <3>1. pluto.set \/ Has(Left, "settings")
      BY <1>1, <2>3, Zenon DEF SetAhead
    <3>2. pluto.muted \/ Has(Left, "mute") \/ Has(Left, "on")
      BY <1>1, <2>1, Zenon DEF MuteAhead
    <3>3. /\ Has(Left, "settings") => Has(Left', "settings")
          /\ Has(Left, "mute") => Has(Left', "mute")
          /\ Has(Left, "on") => Has(Left', "on")
      BY <2>2, <2>3
    <3> QED
      BY <2>1, <3>1, <3>2, <3>3, Zenon DEF SetAhead, MuteAhead
  <2>4. CASE ~configured
    BY <2>2, <2>4, Zenon DEF SetAhead, MuteAhead
  <2> QED
    BY <2>3, <2>4
<1>3. ASSUME Left # <<>>, Done("control"), Head(Left) # "configure",
             Head(Left) \notin {"on", "off"},
             pluto.set \/ Head(Left) = "settings" => pluto'.set,
             (pluto.muted /\ Head(Left) # "unmute") \/ Head(Left) = "mute" => pluto'.muted
      PROVE  SetAhead' /\ MuteAhead'
  <2> DEFINE h == Head(Left)
  <2>1. /\ \A s : Has(Left, s) <=> h = s \/ Has(Left', s)
        /\ ~Has(Left', "configure")
        /\ h = "unmute" => Has(Left', "on")
    BY <1>1, <1>3, ControlSteps
  <2>2. /\ Has(Left, "settings") => h = "settings" \/ Has(Left', "settings")
        /\ Has(Left, "mute") => h = "mute" \/ Has(Left', "mute")
        /\ Has(Left, "on") => Has(Left', "on")
        /\ ~Has(Left, "configure")
    BY <1>3, <2>1, Zenon
  <2>3. SetAhead'
    BY <1>1, <1>3, <2>2, Zenon DEF SetAhead
  <2>4. MuteAhead'
    BY <1>1, <1>3, <2>1, <2>2, Zenon DEF MuteAhead
  <2> QED
    BY <2>3, <2>4
<1>4. CASE Configured("control")
  BY <1>3, <1>4, Zenon DEF Configured, Ahead, Left
<1>5. CASE Close
  BY <1>3, <1>5, Zenon DEF Close, Ahead, Left
<1>6. CASE Publish("control")
  <2>1. Left # <<>> /\ Done("control") /\ Head(Left) \in Publications
    BY <1>6, Zenon DEF Publish, Publishing, Left
  <2>2. pluto' = Obeyed(Head(Left))
    BY <1>1, <1>6, PublishedIsObeyed, Zenon DEF Left
  <2>3. /\ pluto.set \/ Head(Left) = "settings" => pluto'.set
        /\ (pluto.muted /\ Head(Left) # "unmute") \/ Head(Left) = "mute" => pluto'.muted
    BY <1>1, <2>1, <2>2, ObeyedIs, Zenon
  <2>4. Head(Left) # "configure" /\ Head(Left) \notin {"on", "off"}
    BY <2>1 DEF Publications
  <2> QED
    BY <1>3, <2>1, <2>3, <2>4, Zenon
<1>7. CASE Switched
  <2>1. /\ Left # <<>> /\ Done("control") /\ Head(Left) \in {"on", "off"}
        /\ tx' = (Head(Left) = "on") /\ pluto' = pluto /\ configured' = configured
    BY <1>7, Zenon DEF Switched, Ahead, Left
  <2>2. Left' = <<>> /\ \A s : Has(Left, s) <=> Head(Left) = s \/ Has(Left', s)
    BY <1>1, <2>1, ControlSteps
  <2>3. ~Has(Left, "settings") /\ ~Has(Left, "configure") /\ ~Has(Left, "mute")
        /\ (Head(Left) = "off" => ~Has(Left, "on"))
    <3>1. \A s : Has(Left, s) <=> Head(Left) = s
      BY <2>2, NothingAhead, Zenon
    <3> QED
      BY <2>1, <3>1
  <2>4. pluto.set /\ (pluto.muted \/ Head(Left) = "on")
    BY <1>1, <2>1, <2>3, Zenon DEF SetAhead, MuteAhead
  <2> QED
    BY <2>1, <2>2, <2>4, Zenon DEF SetAhead, MuteAhead
<1> QED
  BY <1>2, <1>4, <1>5, <1>6, <1>7

LEMMA WriterAhead ==
  ASSUME IInv, ~Coming,
         \/ WriteMuxData \/ Configure("writer") \/ Configured("writer") \/ Publish("writer")
         \/ Gate
  PROVE  SetAhead' /\ MuteAhead'
<1>1. /\ TypeOK /\ Orders /\ ~Overlap /\ SetAhead /\ MuteAhead
      /\ "control" \in Threads /\ "writer" \in Threads /\ pluto \in Plutos
      /\ todo["writer"] \in Seq(WriterSteps) /\ todo \in [Threads -> Seq(Steps)]
  BY Zenon DEF IInv, Threads, TypeOK, Plutos, Orders
<1>2. Left' = Left /\ tx' = tx
  <2>1. \E x : todo' = [todo EXCEPT !["writer"] = x]
    BY Zenon DEF WriteMuxData, Configure, Configured, Publish, Gate, Done
  <2>2. todo'["control"] = todo["control"]
    BY <1>1, <2>1 DEF Threads
  <2> QED
    BY <2>2, Zenon DEF Left, WriteMuxData, Configure, Configured, Publish, Gate
<1>3. CASE WriteMuxData \/ Configure("writer") \/ Gate
  <2>1. pluto' = pluto /\ configured' = configured
    BY <1>3, Zenon DEF WriteMuxData, Configure, Gate
  <2> QED
    BY <1>1, <1>2, <2>1, Zenon DEF SetAhead, MuteAhead
<1>4. CASE Configured("writer")
  <2>1. pluto' = pluto /\ ~Has(Left, "configure")
    BY <1>1, <1>4, WriterWaits, Zenon DEF Configured
  <2> QED
    BY <1>1, <1>2, <2>1, Zenon DEF SetAhead, MuteAhead
<1>5. CASE Publish("writer")
  <2> DEFINE h == Head(todo["writer"])
  <2>1. todo["writer"] # <<>> /\ h \in Publications /\ configured' = configured
    BY <1>5, Zenon DEF Publish, Publishing
  <2>2. h # "unmute"
    <3>1. h \in WriterSteps
      BY <1>1, <2>1, TailIs
    <3> HIDE DEF h
    <3> QED
      BY <3>1 DEF WriterSteps
  <2>3. pluto' = Obeyed(h)
    BY <1>1, <1>5, PublishedIsObeyed, Zenon
  <2>4. (pluto.set => pluto'.set) /\ (pluto.muted => pluto'.muted)
    BY <1>1, <2>1, <2>2, <2>3, ObeyedIs, Zenon
  <2> QED
    BY <1>1, <1>2, <2>1, <2>4, Zenon DEF SetAhead, MuteAhead
<1> QED
  BY <1>3, <1>4, <1>5

LEMMA CallsLeaveComing ==
  ASSUME Control \/ WriteMuxData \/ Writer
  PROVE  Coming' <=> Coming
<1>1. UNCHANGED <<online, monitor, seen, asked>>
  <2>1. ASSUME NEW t \in Threads, Advance(t) PROVE UNCHANGED <<online, monitor, seen, asked>>
    BY <2>1, Zenon DEF Advance, Configure, Configured, Publish
  <2>2. CASE Close \/ Switched
    BY <2>2, Zenon DEF Close, Switched
  <2>3. CASE WriteMuxData \/ Gate
    BY <2>3, Zenon DEF WriteMuxData, Gate
  <2> QED
    BY <2>1, <2>2, <2>3, Zenon DEF Control, Writer, Threads
<1>2. asked' = asked /\ online' = online /\ worker' = worker /\ alive' = alive /\ seen' = seen
  BY <1>1, Zenon DEF monitor
<1> QED
  BY <1>2, Zenon DEF Coming

LEMMA Kept ==
  ASSUME IInv, [Apart]_vars
  PROVE  IInv'
<1>1. TypeOK' /\ Orders'
  BY Typed, OrdersKept, Zenon DEF IInv, Apart
<1>2. CASE UNCHANGED vars
  <2>1. /\ todo' = todo /\ pluto' = pluto /\ configured' = configured /\ tx' = tx
        /\ asked' = asked /\ online' = online /\ worker' = worker /\ alive' = alive
        /\ seen' = seen
    BY <1>2, Zenon DEF vars, sink, monitor
  <2>2. ~Overlap'
    BY <2>1, Zenon DEF IInv, Overlap
  <2>3. ~Coming' => SetAhead' /\ MuteAhead'
    BY <2>1, Zenon DEF IInv, Coming, SetAhead, MuteAhead, Left
  <2> QED
    BY <1>1, <2>2, <2>3, Zenon DEF IInv
<1>3. CASE Apart
  <2>1. ~Overlap' /\ ~Unnoticed /\ Next
    BY <1>3, Zenon DEF Apart
  <2>2. ASSUME NEW on \in BOOLEAN, SetTransmitEnabled(on), ~Coming'
        PROVE  SetAhead' /\ MuteAhead'
    <3>1. /\ Left = <<>> /\ todo' = [todo EXCEPT !["control"] = Switch(on)]
          /\ pluto' = pluto /\ ~Coming /\ TypeOK
      BY <2>2, Zenon DEF SetTransmitEnabled, Coming, Left, monitor, IInv
    <3>2. Left' = Switch(on)
      BY <3>1, SwitchIs, TodoIs DEF Left, Threads
    <3>3. pluto.set
      BY <3>1, NothingAhead, Zenon DEF IInv, SetAhead
    <3>4. Has(Left', "mute") \/ Has(Left', "on")
      BY <3>2, SwitchIs, Zenon
    <3> QED
      BY <3>1, <3>3, <3>4, Zenon DEF SetAhead, MuteAhead
  <2>3. CASE Reconfigure
    <3>1. /\ (asked = "on") \in BOOLEAN /\ todo' = [todo EXCEPT !["control"] = Switch(asked = "on")]
          /\ configured' = FALSE /\ TypeOK
      BY <2>3, Zenon DEF Reconfigure, IInv
    <3>2. Left' = Switch(asked = "on")
      BY <3>1, SwitchIs, TodoIs DEF Left, Threads
    <3>3. Has(Left', "configure") /\ (Has(Left', "mute") \/ Has(Left', "on"))
      BY <3>1, <3>2, SwitchIs, Zenon
    <3> QED
      BY <1>1, <2>1, <3>1, <3>3, Zenon DEF IInv, SetAhead, MuteAhead
  <2>4. CASE Control
    <3>1. Coming' <=> Coming
      BY <2>4, CallsLeaveComing
    <3>2. ~Coming => SetAhead' /\ MuteAhead'
      BY <2>4, ControlAhead, Zenon DEF Control, Advance
    <3> QED
      BY <1>1, <2>1, <3>1, <3>2, Zenon DEF IInv
  <2>5. CASE WriteMuxData \/ Writer
    <3>1. Coming' <=> Coming
      BY <2>5, CallsLeaveComing
    <3>2. ~Coming => SetAhead' /\ MuteAhead'
      BY <2>5, WriterAhead, Zenon DEF Writer, Advance
    <3> QED
      BY <1>1, <2>1, <3>1, <3>2, Zenon DEF IInv
  <2>6. CASE \/ Connects \/ ConnectFails \/ Subscribed \/ PingFails \/ Dropped \/ Wakes
             \/ Look \/ Outage \/ Return
    BY <1>1, <2>1, <2>6, AwayIsComing, Zenon DEF IInv
  <2>7. CASE \E on \in BOOLEAN : SetTransmitEnabled(on)
    BY <1>1, <2>1, <2>2, <2>7, Zenon DEF IInv
  <2> QED
    BY <2>1, <2>3, <2>4, <2>5, <2>6, <2>7, Zenon DEF Next
<1> QED
  BY <1>2, <1>3

LEMMA AtFirst == Init => IInv
<1> SUFFICES ASSUME Init PROVE IInv
  OBVIOUS
<1>1. Left = <<>> /\ todo["writer"] = <<>>
  BY DEF Init, Left, Threads
<1>2. Orders
  <2>1. Orderly(<<>>)
    BY NothingAhead DEF Orderly
  <2>2. <<>> \in Seq(WriterSteps)
    OBVIOUS
  <2> QED
    BY <1>1, <2>1, <2>2, Zenon DEF Orders
<1>3. ~Overlap
  <2>1. \A i : i \notin 1..Len(<<>>)
    OBVIOUS
  <2> QED
    BY <1>1, <2>1, Zenon DEF Overlap, Threads, Left
<1>4. Coming
  BY Zenon DEF Init, Coming
<1> QED
  BY <1>2, <1>3, <1>4, TypedAtFirst, Zenon DEF IInv

\* As long as the two threads do not publish at once and no outage goes unnoticed, a
\* Pluto whose return has been dealt with has its settings: configureTransmitter is
\* repeated whatever calls and outages fall into it.
THEOREM SettingsComeFirst == UndisturbedSpec => []SetBeforeOnAir
<1>1. IInv => SetBeforeOnAir
  <2> SUFFICES ASSUME IInv, Settled PROVE pluto.set
    BY DEF SetBeforeOnAir
  <2>1. Left = <<>> /\ ~Coming
    BY Zenon DEF Settled, Left, Coming
  <2> QED
    BY <2>1, NothingAhead, Zenon DEF IInv, SetAhead
<1> QED
  BY <1>1, AtFirst, Kept, PTL DEF UndisturbedSpec, Apart

\* Under the same conditions, what setTransmitEnabled and reconfigureTransmitter have
\* switched off is muted, whatever the writer configures in the meantime.
THEOREM OffIsMuted == UndisturbedSpec => []OffIsOff
<1>1. IInv => OffIsOff
  <2> SUFFICES ASSUME IInv, Settled, ~tx PROVE pluto.muted
    BY Zenon DEF OffIsOff, OnAir
  <2>1. Left = <<>> /\ ~Coming
    BY Zenon DEF Settled, Left, Coming
  <2> QED
    BY <2>1, NothingAhead, Zenon DEF IInv, MuteAhead
<1> QED
  BY <1>1, AtFirst, Kept, PTL DEF UndisturbedSpec, Apart

-----------------------------------------------------------------------------
(* The loop of a PC.                                                        *)

Requests == [line : Lines, level : BOOLEAN]
Actives == Inputs \cup {NoInput}

\* A session is that of the active input; after it the notice lasts for what is left
\* of the hold.
Announced ==
  /\ idle \in 0..Hold /\ noticeLeft \in 0..Hold
  /\ active = NoInput => session = {} /\ noticeLeft = Hold - idle
  /\ active # NoInput => session = {active} /\ last = active /\ idle = 0
  /\ last = NoInput => idle = Hold

\* Without a line nothing is believed; what the Pi may do later is doubted.
Believed ==
  /\ setup = NoLine => state = Unset
  /\ ~doubt => late = <<>>

PcInv ==
  /\ PcTypeOK
  /\ Announced /\ NoticeTellsLastAccess
  /\ Believed /\ BelievedIsTrue

LEMMA PcConstants ==
  /\ NoLine \notin Lines /\ NoInput \notin Inputs /\ Unset \notin BOOLEAN
  /\ FallbackEnabled \in BOOLEAN
  /\ Debounce \in Nat /\ Hold \in Nat \ {0} /\ Pause \in Nat \ {0} /\ Never \notin Nat
BY PcAssumption, PauseAssumption DEF PcAssumption

\* What the Pi has carried out leaves only lines active.
LEMMA ServedTyped == \A requests : Served(requests) \subseteq Lines
BY DEF Served

\* Without requests nothing changes.
LEMMA NothingServed ==
  ASSUME asserted \subseteq Lines
  PROVE  Served(<<>>) = asserted
<1>1. \A l : Decisive(<<>>, l) = {}
  BY DEF Decisive
<1> QED
  BY <1>1, Zenon DEF Served

\* Whatever waited, the line is in the end as the last request has it.
LEMMA LastServed ==
  ASSUME NEW requests \in Seq(Requests), NEW r \in Requests
  PROVE  r.line \in Served(Append(requests, r)) <=> r.level
<1> DEFINE q == Append(requests, r)
           n == Len(requests) + 1
<1>1. n \in DOMAIN q /\ q[n] = r /\ Len(q) = n /\ n \in Nat /\ DOMAIN q = 1..n
  OBVIOUS
<1> HIDE DEF q, n
<1>2. r.line \in Lines
  BY DEF Requests
<1>3. Decisive(q, r.line) = {n}
  <2>1. n \in Decisive(q, r.line)
    BY <1>1 DEF Decisive
  <2>2. ASSUME NEW i \in Decisive(q, r.line)
        PROVE  i = n
    <3>1. i \in 1..n /\ \A j \in (i + 1)..n : q[j].line # r.line
      BY <1>1 DEF Decisive
    <3>2. n \in (i + 1)..n \/ i = n
      BY <1>1, <3>1
    <3> QED
      BY <1>1, <3>1, <3>2
  <2> QED
    BY <2>1, <2>2
<1>4. r.line \in Served(q) <=> q[n].level
  BY <1>2, <1>3, Zenon DEF Served
<1> QED
  BY <1>1, <1>4 DEF q

LEMMA PcAtFirst == PcInit => PcInv
<1> SUFFICES ASSUME PcInit PROVE PcInv
  OBVIOUS
<1>1. PcTypeOK
  <2>1. /\ noticeLeft \in 0..Hold /\ idle \in 0..Hold
        /\ late \in Seq(Requests)
    BY PcConstants DEF PcInit
  <2>2. notice \in [of : Actives, ended : BOOLEAN]
    BY DEF PcInit, NoNotice, Actives
  <2> QED
    BY <2>1, <2>2, Zenon DEF PcInit, PcTypeOK, Requests, Actives
<1>2. Announced
  BY PcConstants DEF PcInit, Announced
<1>3. NoticeTellsLastAccess
  BY Zenon DEF PcInit, NoticeTellsLastAccess
<1>4. Believed /\ BelievedIsTrue
  BY Zenon DEF PcInit, Believed, BelievedIsTrue
<1> QED
  BY <1>1, <1>2, <1>3, <1>4 DEF PcInv

LEMMA IterationDoes ==
  ASSUME PcTypeOK, Iteration
  PROVE  /\ pc' = "ptt" /\ stable' \in 0..Debounce \cup {Never}
         /\ family' = active' /\ active' \in Actives /\ wanted' \in BOOLEAN
         /\ last' = IF active' # NoInput THEN active' ELSE last
         /\ UNCHANGED <<setup, state, late, asserted, doubt>>
         /\ \E dt \in 1..Pause :
              /\ idle' = IF active' # NoInput \/ active # NoInput THEN 0
                         ELSE More(idle, dt, Hold)
              /\ IF active' # NoInput THEN AnnounceAccess(active', Less(noticeLeft, dt))
                 ELSE AnnounceEnd(Less(noticeLeft, dt))
<1>1. PICK gateway \in BOOLEAN, sync \in BOOLEAN, video \in BOOLEAN, beacon \in BOOLEAN,
           dt \in 1..Pause : Choose(gateway, sync, video, beacon, dt)
  BY Zenon DEF Iteration
<1> DEFINE after   == StableAfter(sync, dt)
           steady  == after # Never /\ after >= Debounce
           present == {i \in {"gateway"} : gateway} \cup {i \in {"capture"} : steady}
<1>2. Chosen(present) \in Actives
  BY Zenon DEF Chosen, Inputs, Actives
<1>3. after \in 0..Debounce \cup {Never}
  <2>1. CASE ~sync
    BY <2>1 DEF StableAfter
  <2>2. CASE sync /\ stable = Never
    BY <2>2, PcConstants DEF StableAfter
  <2>3. CASE sync /\ stable # Never
    <3>1. stable \in 0..Debounce
      BY <2>3, Zenon DEF PcTypeOK
    <3>2. after = More(stable, dt, Debounce)
      BY <2>3, Zenon DEF StableAfter
    <3> QED
      BY <3>1, <3>2, PcConstants DEF More
  <2> QED
    BY <2>1, <2>2, <2>3
<1>4. /\ pc' = "ptt" /\ stable' = after
      /\ family' = Chosen(present) /\ active' = Chosen(present)
      /\ wanted' = (video \/ active' # NoInput
                      \/ (FallbackEnabled /\ (beacon \/ notice' # NoNotice)))
      /\ last' = IF active' # NoInput THEN active' ELSE last
      /\ idle' = IF active' # NoInput \/ active # NoInput THEN 0 ELSE More(idle, dt, Hold)
      /\ UNCHANGED <<setup, state, late, asserted, doubt>>
      /\ IF active' # NoInput THEN AnnounceAccess(active', Less(noticeLeft, dt))
         ELSE AnnounceEnd(Less(noticeLeft, dt))
  BY <1>1, Zenon DEF Choose, pi
<1> HIDE DEF after, present
<1>5. wanted' \in BOOLEAN
  BY <1>4, Zenon
<1> QED
  BY <1>2, <1>3, <1>4, <1>5, Zenon

LEMMA IterationKeeps ==
  ASSUME PcInv, Iteration
  PROVE  PcInv'
<1>1. /\ NoInput \notin Inputs /\ Hold \in Nat /\ Hold # 0 /\ Pause \in Nat
      /\ active \in Actives /\ last \in Actives
  BY PcConstants, Zenon DEF PcInv, PcTypeOK, Actives
<1>2. /\ idle \in 0..Hold /\ noticeLeft \in 0..Hold
      /\ active = NoInput => session = {} /\ noticeLeft = Hold - idle
      /\ active # NoInput => session = {active} /\ last = active /\ idle = 0
      /\ last = NoInput => idle = Hold
  BY Zenon DEF PcInv, Announced
<1>3. PICK dt \in 1..Pause :
         /\ idle' = IF active' # NoInput \/ active # NoInput THEN 0 ELSE More(idle, dt, Hold)
         /\ IF active' # NoInput THEN AnnounceAccess(active', Less(noticeLeft, dt))
            ELSE AnnounceEnd(Less(noticeLeft, dt))
  BY IterationDoes, Zenon DEF PcInv
<1>4. /\ pc' = "ptt" /\ stable' \in 0..Debounce \cup {Never}
      /\ family' = active' /\ active' \in Actives /\ wanted' \in BOOLEAN
      /\ last' = IF active' # NoInput THEN active' ELSE last
      /\ UNCHANGED <<setup, state, late, asserted, doubt>>
  BY IterationDoes, Zenon DEF PcInv
<1> DEFINE left == Less(noticeLeft, dt)
<1>5. left \in 0..Hold
  BY <1>1, <1>2 DEF Less
<1>6. /\ idle' \in 0..Hold /\ noticeLeft' \in 0..Hold
      /\ active' = NoInput => session' = {} /\ noticeLeft' = Hold - idle'
      /\ active' # NoInput => session' = {active'} /\ last' = active' /\ idle' = 0
      /\ last' = NoInput => idle' = Hold
      /\ notice' \in [of : Actives, ended : BOOLEAN] /\ tone' \in BOOLEAN
      /\ NoticeTellsLastAccess'
  <2>1. CASE active' # NoInput
    <3>1. /\ notice' = During(active') /\ tone' = FALSE /\ session' = {active'}
          /\ noticeLeft' \in {Hold, left} /\ idle' = 0 /\ last' = active'
      BY <1>3, <1>4, <2>1, Zenon DEF AnnounceAccess, Announce
    <3>2. notice' \in [of : Actives, ended : BOOLEAN]
      BY <1>4, <3>1 DEF During
    <3>3. NoticeTellsLastAccess'
      BY <2>1, <3>1, Zenon DEF NoticeTellsLastAccess, During
    <3> HIDE DEF left
    <3>4. idle' \in 0..Hold /\ noticeLeft' \in 0..Hold
      BY <1>1, <1>5, <3>1
    <3> QED
      BY <2>1, <3>1, <3>2, <3>3, <3>4, Zenon
  <2>2. CASE active' = NoInput /\ active # NoInput
    <3>1. session = {active} /\ last = active /\ last' = last /\ idle' = 0
      BY <1>2, <1>3, <1>4, <2>2, Zenon
    <3>2. active \in {"gateway", "capture"}
      BY <1>1, <2>2, Zenon DEF Actives, Inputs
    <3>3. (IF "gateway" \in session THEN "gateway" ELSE "capture") = active
      BY <3>1, <3>2
    <3>4. /\ notice' = After(active) /\ tone' = TRUE /\ noticeLeft' = Hold
          /\ session' = session \ {notice'.of}
      BY <1>3, <2>2, <3>1, <3>3, Zenon DEF AnnounceEnd
    <3>5. notice'.of = active /\ notice' \in [of : Actives, ended : BOOLEAN]
      BY <1>1, <3>4 DEF After
    <3>6. session' = {}
      BY <3>1, <3>4, <3>5, Zenon
    <3>7. idle' < Hold /\ idle' \in 0..Hold /\ noticeLeft' \in 0..Hold /\ noticeLeft' = Hold - idle'
      BY <1>1, <3>1, <3>4
    <3>8. NoticeTellsLastAccess'
      BY <2>2, <3>1, <3>4, <3>7, Zenon DEF NoticeTellsLastAccess, After
    <3> QED
      BY <2>2, <3>1, <3>4, <3>5, <3>6, <3>7, <3>8, Zenon
  <2>3. CASE active' = NoInput /\ active = NoInput
    <3>1. /\ session = {} /\ session' = {} /\ last' = last /\ noticeLeft = Hold - idle
          /\ noticeLeft' = left /\ idle' = More(idle, dt, Hold)
          /\ IF left = 0 THEN notice' = NoNotice /\ tone' = FALSE
             ELSE UNCHANGED <<notice, tone>>
      BY <1>2, <1>3, <1>4, <2>3, Zenon DEF AnnounceEnd
    <3>2. /\ More(idle, dt, Hold) \in 0..Hold /\ left = Hold - More(idle, dt, Hold)
          /\ left = 0 <=> ~(More(idle, dt, Hold) < Hold)
          /\ left # 0 => idle < Hold
          /\ idle = Hold => More(idle, dt, Hold) = Hold
      BY <1>1, <1>2, <3>1 DEF Less, More
    <3> HIDE DEF left
    <3>3. notice' \in [of : Actives, ended : BOOLEAN] /\ tone' \in BOOLEAN
      <4>1. NoNotice \in [of : Actives, ended : BOOLEAN]
        BY DEF NoNotice, Actives
      <4> QED
        BY <3>1, <4>1, Zenon DEF PcInv, PcTypeOK, Actives
    <3>4. NoticeTellsLastAccess'
      <4>1. CASE left = 0
        BY <2>3, <3>1, <3>2, <4>1, Zenon DEF NoticeTellsLastAccess
      <4>2. CASE left # 0
        <5>1. last # NoInput
          BY <1>1, <1>2, <3>2, <4>2
        <5>2. notice = After(last) /\ tone
          BY <2>3, <3>2, <4>2, <5>1, Zenon DEF PcInv, NoticeTellsLastAccess
        <5> QED
          BY <2>3, <3>1, <3>2, <4>2, <5>1, <5>2, Zenon DEF NoticeTellsLastAccess, After
      <4> QED
        BY <4>1, <4>2
    <3> QED
      BY <1>2, <1>5, <2>3, <3>1, <3>2, <3>3, <3>4, Zenon DEF left
  <2> QED
    BY <2>1, <2>2, <2>3
<1>7. PcTypeOK'
  <2>1. session' \subseteq Inputs
    <3>1. CASE active' = NoInput
      BY <1>6, <3>1, Zenon
    <3>2. CASE active' # NoInput
      <4>1. active' \in Inputs
        BY <1>4, <3>2, Zenon DEF Actives
      <4> QED
        BY <1>6, <3>2, <4>1
    <3> QED
      BY <3>1, <3>2
  <2>2. last' \in Actives
    BY <1>1, <1>4, Zenon
  <2> QED
    BY <1>4, <1>6, <2>1, <2>2, Zenon DEF PcInv, PcTypeOK, Actives
<1>8. Believed' /\ BelievedIsTrue'
  BY <1>4, Zenon DEF PcInv, Believed, BelievedIsTrue
<1> QED
  BY <1>6, <1>7, <1>8, Zenon DEF PcInv, Announced

\* Where only the session with the Pi changes, or the configuration.
LEMMA ChoiceLeft ==
  ASSUME PcInv, UNCHANGED <<stable, session, notice, tone, noticeLeft, active, last, idle>>
  PROVE  Announced' /\ NoticeTellsLastAccess'
BY Zenon DEF PcInv, Announced, NoticeTellsLastAccess

LEMMA PiTyped ==
  ASSUME PcInv, UNCHANGED <<stable, session, notice, tone, noticeLeft, active, last, idle>>,
         UNCHANGED <<pc, family, wanted, setup, state>>,
         late' \in Seq(Requests), asserted' \subseteq Lines, doubt' \in BOOLEAN
  PROVE  PcTypeOK'
<1>1. /\ pc' = pc /\ stable' = stable /\ family' = family /\ active' = active
      /\ session' = session /\ notice' = notice /\ tone' = tone /\ noticeLeft' = noticeLeft
      /\ wanted' = wanted /\ setup' = setup /\ state' = state /\ last' = last /\ idle' = idle
  BY Zenon
<1>2. PcTypeOK
  BY Zenon DEF PcInv
<1> HIDE DEF PcInv
<1> QED
  BY <1>1, <1>2, Zenon DEF PcTypeOK, Requests

LEMMA PttKeeps ==
  ASSUME PcInv, SetPiHardwarePtt
  PROVE  PcInv'
<1>1. UNCHANGED <<stable, family, session, notice, tone, noticeLeft, active, last, idle>>
      /\ UNCHANGED <<wanted, setup>>
  BY Zenon DEF SetPiHardwarePtt, NotNeeded, NotSent, Answered, Refused,
               TimesOut, choice
<1>2. pc' \in {"choose", "over"}
  BY Zenon DEF SetPiHardwarePtt, NotNeeded, NotSent, Answered, Refused,
               TimesOut, Ptt
<1>3. /\ late \in Seq(Requests) /\ asserted \subseteq Lines /\ wanted \in BOOLEAN
      /\ setup \in Lines \cup {NoLine} /\ state \in BOOLEAN \cup {Unset} /\ doubt \in BOOLEAN
  BY Zenon DEF PcInv, PcTypeOK, Requests
<1>4. Needed => Request \in Requests /\ Request.line = setup /\ Request.level = wanted
  <2> SUFFICES ASSUME Needed
               PROVE  /\ Request \in Requests
                      /\ Request.line = setup /\ Request.level = wanted
    OBVIOUS
  <2>1. setup \in Lines
    BY <1>3, Zenon DEF Needed
  <2> QED
    BY <1>3, <2>1 DEF Request, Requests
<1>5. /\ late' \in Seq(Requests) /\ asserted' \subseteq Lines
      /\ state' \in BOOLEAN \cup {Unset} /\ doubt' \in BOOLEAN
      /\ Believed' /\ BelievedIsTrue'
  <2>1. CASE NotNeeded
    BY <1>1, <1>3, <2>1, Zenon DEF NotNeeded, PcInv, Believed, BelievedIsTrue
  <2>2. CASE NotSent
    BY <1>1, <1>3, <2>2, Zenon DEF NotSent, pi, PcInv, Believed, BelievedIsTrue
  <2>3. CASE Answered
    <3>1. /\ Needed /\ asserted' = Served(Append(late, Request)) /\ late' = <<>>
          /\ state' = wanted /\ doubt' = FALSE /\ setup' = setup
      BY <2>3, Zenon DEF Answered
    <3>2. setup \in asserted' <=> wanted
      BY <1>3, <1>4, <3>1, LastServed, Zenon
    <3>3. late' \in Seq(Requests)
      BY <3>1
    <3>4. asserted' \subseteq Lines
      BY <3>1, ServedTyped, Zenon
    <3>5. Believed' /\ BelievedIsTrue'
      BY <3>1, <3>2, Zenon DEF Believed, BelievedIsTrue, Needed
    <3> QED
      BY <1>3, <3>1, <3>3, <3>4, <3>5, Zenon
  <2>4. CASE Refused
    <3>1. late' = <<>> /\ state' = state /\ setup' = setup
      BY <2>4, Zenon DEF Refused
    <3>2. \/ asserted' = Served(late) /\ doubt' = doubt
          \/ asserted' = Served(Append(late, Request)) /\ doubt' = TRUE
      BY <2>4, Zenon DEF Refused
    <3>3. ~doubt' => ~doubt /\ asserted' = asserted
      BY <1>3, <3>2, NothingServed, Zenon DEF PcInv, Believed
    <3>4. late' \in Seq(Requests)
      BY <3>1
    <3>5. asserted' \subseteq Lines /\ doubt' \in BOOLEAN
      BY <1>3, <3>2, ServedTyped, Zenon
    <3>6. Believed' /\ BelievedIsTrue'
      BY <3>1, <3>3, Zenon DEF PcInv, Believed, BelievedIsTrue
    <3> QED
      BY <1>3, <3>1, <3>4, <3>5, <3>6, Zenon
  <2>5. CASE TimesOut
    <3>1. /\ Needed /\ late' = Append(late, Request) /\ doubt' = TRUE
          /\ state' = state /\ setup' = setup /\ asserted' = asserted
      BY <2>5, Zenon DEF TimesOut
    <3>2. late' \in Seq(Requests)
      BY <1>3, <1>4, <3>1
    <3>3. Believed' /\ BelievedIsTrue'
      BY <3>1, Zenon DEF PcInv, Believed, BelievedIsTrue
    <3> QED
      BY <1>3, <3>1, <3>2, <3>3, Zenon
  <2> QED
    BY <2>1, <2>2, <2>3, <2>4, <2>5, Zenon DEF SetPiHardwarePtt
<1>6. PcTypeOK'
  BY <1>1, <1>2, <1>5, Zenon DEF PcInv, PcTypeOK, Requests
<1> QED
  BY <1>1, <1>5, <1>6, ChoiceLeft, Zenon DEF PcInv

LEMMA PcKept ==
  ASSUME PcInv, [PcNext]_pcVars
  PROVE  PcInv'
<1>1. CASE Iteration
  BY <1>1, IterationKeeps
<1>2. CASE SetPiHardwarePtt
  BY <1>2, PttKeeps
<1>3. CASE Reload
  <2>1. /\ UNCHANGED <<stable, session, notice, tone, noticeLeft, active, last, idle>>
        /\ UNCHANGED <<pc, wanted, late, asserted, doubt>>
        /\ setup' \in Lines \cup {NoLine} /\ family' = NoInput /\ state' = Unset
    BY <1>3, Zenon DEF Reload
  <2>2. PcTypeOK'
    BY <2>1, Zenon DEF PcInv, PcTypeOK
  <2>3. Believed' /\ BelievedIsTrue'
    BY <2>1, Zenon DEF PcInv, Believed, BelievedIsTrue
  <2> QED
    BY <2>1, <2>2, <2>3, ChoiceLeft, Zenon DEF PcInv
<1>4. CASE Shutdown
  <2>1. /\ UNCHANGED <<stable, session, notice, tone, noticeLeft, active, last, idle>>
        /\ UNCHANGED <<family, setup, state, late, asserted, doubt>>
        /\ pc' = "release" /\ wanted' = FALSE
    BY <1>4, Zenon DEF Shutdown, choice, pi
  <2>2. PcTypeOK'
    BY <2>1, Zenon DEF PcInv, PcTypeOK
  <2>3. Believed' /\ BelievedIsTrue'
    BY <2>1, Zenon DEF PcInv, Believed, BelievedIsTrue
  <2> QED
    BY <2>1, <2>2, <2>3, ChoiceLeft, Zenon DEF PcInv
<1>5. CASE Serve
  <2>1. /\ UNCHANGED <<stable, session, notice, tone, noticeLeft, active, last, idle>>
        /\ UNCHANGED <<pc, family, wanted, setup, state, doubt>>
        /\ late # <<>> /\ late' = Tail(late)
        /\ asserted' = Served(<<Head(late)>>) \/ asserted' = asserted
    BY <1>5, Zenon DEF Serve, choice
  <2>2. late \in Seq(Requests)
    BY Zenon DEF PcInv, PcTypeOK, Requests
  <2>3. late' \in Seq(Requests)
    BY <2>1, <2>2
  <2>4. PcTypeOK'
    <3>1. asserted' \subseteq Lines
      BY <2>1, ServedTyped, Zenon DEF PcInv, PcTypeOK
    <3>2. doubt' \in BOOLEAN
      BY <2>1, Zenon DEF PcInv, PcTypeOK
    <3> QED
      BY <2>1, <2>3, <3>1, <3>2, PiTyped, Zenon
  <2>5. doubt
    BY <2>1, Zenon DEF PcInv, Believed
  <2>6. Believed' /\ BelievedIsTrue'
    BY <2>1, <2>5, Zenon DEF PcInv, Believed, BelievedIsTrue
  <2> QED
    BY <2>1, <2>4, <2>6, ChoiceLeft, Zenon DEF PcInv
<1>6. CASE Reboot
  <2>1. /\ UNCHANGED <<stable, session, notice, tone, noticeLeft, active, last, idle>>
        /\ UNCHANGED <<pc, family, wanted, setup, state>>
        /\ late' = <<>> /\ asserted' = {} /\ doubt' = TRUE
    BY <1>6, Zenon DEF Reboot, choice
  <2>2. late' \in Seq(Requests)
    BY <2>1
  <2>3. PcTypeOK'
    <3>1. asserted' \subseteq Lines
      BY <2>1
    <3> QED
      BY <2>1, <2>2, <3>1, PiTyped, Zenon
  <2>4. Believed' /\ BelievedIsTrue'
    BY <2>1, Zenon DEF PcInv, Believed, BelievedIsTrue
  <2> QED
    BY <2>1, <2>3, <2>4, ChoiceLeft, Zenon DEF PcInv
<1>7. CASE UNCHANGED pcVars
  <2>1. /\ UNCHANGED <<stable, session, notice, tone, noticeLeft, active, last, idle>>
        /\ UNCHANGED <<pc, family, wanted, setup, state, late, asserted, doubt>>
    BY <1>7, Zenon DEF pcVars
  <2>2. PcTypeOK'
    <3>1. late' \in Seq(Requests) /\ asserted' \subseteq Lines /\ doubt' \in BOOLEAN
      BY <2>1, Zenon DEF PcInv, PcTypeOK, Requests
    <3> QED
      BY <2>1, <3>1, PiTyped, Zenon
  <2>3. Believed' /\ BelievedIsTrue'
    BY <2>1, Zenon DEF PcInv, Believed, BelievedIsTrue
  <2> QED
    BY <2>1, <2>2, <2>3, ChoiceLeft, Zenon DEF PcInv
<1> QED
  BY <1>1, <1>2, <1>3, <1>4, <1>5, <1>6, <1>7, Zenon DEF PcNext

\* Every variable of the loop of a PC keeps its type, for any lines and times.
THEOREM PcTypeCorrect == PcSpec => []PcTypeOK
<1>1. PcInv => PcTypeOK
  BY DEF PcInv
<1> QED
  BY <1>1, PcAtFirst, PcKept, PTL DEF PcSpec

\* For any hold and any length of an iteration, the notice of runPcGateway tells of the
\* access that runs or, for exactly the hold, of the last one.
THEOREM TheNoticeIsOfTheLast == PcSpec => []NoticeTellsLastAccess
<1>1. PcInv => NoticeTellsLastAccess
  BY DEF PcInv
<1> QED
  BY <1>1, PcAtFirst, PcKept, PTL DEF PcSpec

\* For any lines and any number of requests that are late, the level that
\* setPiHardwarePtt believes the Pi's line to have is its level, as long as the Pi has
\* done nothing since that was not answered.
THEOREM TheLevelIsKnown == PcSpec => []BelievedIsTrue
<1>1. PcInv => BelievedIsTrue
  BY DEF PcInv
<1> QED
  BY <1>1, PcAtFirst, PcKept, PTL DEF PcSpec
=============================================================================
