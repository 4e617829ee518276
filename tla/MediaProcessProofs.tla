------------------------- MODULE MediaProcessProofs -------------------------
(***************************************************************************)
(* Proofs about MediaProcess, for any inputs, notices and videos, and for  *)
(* any number of crashes and stalls of the child.                          *)
(***************************************************************************)
EXTENDS MediaProcess, SequenceTheorems, TLAPS

LEMMA FieldValues ==
  ASSUME NEW k \in Fields
  PROVE  ValuesOf(k) \subseteq AnyValue
BY DEF AnyValue

LEMMA FreshTyped ==
  /\ FreshFields \in [Fields -> AnyValue]
  /\ \A k \in Fields : FreshFields[k] \in ValuesOf(k)
<1>1. \A k \in Fields : FreshFields[k] \in ValuesOf(k)
  BY DEF FreshFields, ValuesOf, Fields, Cached
<1>2. \A k \in Fields : FreshFields[k] \in AnyValue
  BY <1>1, FieldValues
<1> QED
  BY <1>1, <1>2 DEF FreshFields

LEMMA ReplayHeadTyped ==
  [i \in 1..5 |-> Step(<<"select", "beacon", "notice", "tone", "preview">>[i])] \in Seq(StepType)
<1>1. \A k \in Steps : Step(k) \in StepType
  BY DEF Step, StepType
<1>2. \A i \in 1..5 : <<"select", "beacon", "notice", "tone", "preview">>[i] \in Steps
  BY DEF Steps, Fields, Cached
<1> QED
  BY <1>1, <1>2

LEMMA ReplayTyped == Replay \in Seq(StepType)
<1>1. \A k \in Steps : Step(k) \in StepType
  BY DEF Step, StepType
<1>3. <<Step("play")>> \in Seq(StepType) /\ <<Step("seek")>> \in Seq(StepType)
  BY <1>1 DEF Steps, Fields
<1> QED
  BY <1>3, ReplayHeadTyped DEF Replay

LEMMA StepTyped ==
  ASSUME NEW k \in Steps, NEW rest \in Seq(StepType)
  PROVE  /\ Step(k) \in StepType
         /\ <<Step(k)>> \in Seq(StepType)
         /\ <<Step(k)>> \o rest \in Seq(StepType)
<1>1. Step(k) \in StepType
  BY DEF Step, StepType
<1> QED
  BY <1>1

LEMMA FreshViewTyped ==
  /\ FreshView \in [Fields \cup {"ts"} -> AnyValue]
  /\ \A k \in Fields : FreshView[k] \in ValuesOf(k)
  /\ FreshView["ts"] = NoInput
<1>1. "ts" \notin Fields
  BY DEF Fields, Cached
<1>2. NoInput \in AnyValue
  <2>1. "select" \in Fields /\ NoInput \in ValuesOf("select")
    BY DEF Fields, Cached, ValuesOf
  <2> QED
    BY <2>1, FieldValues
<1> QED
  BY <1>1, <1>2, FreshTyped DEF FreshView

LEMMA RestartTyped ==
  ASSUME TypeOK, NEW rest \in Seq(StepType), Restart(rest)
  PROVE  /\ child' \in {"up", "down", "gone"}
         /\ stalled' \in BOOLEAN
         /\ cache' \in [Cached -> AnyValue \cup {Unset}]
         /\ \A k \in Cached : cache'[k] \in ValuesOf(k) \cup {Unset}
         /\ view' \in [Fields \cup {"ts"} -> AnyValue]
         /\ \A k \in Fields : view'[k] \in ValuesOf(k)
         /\ view'["ts"] \in Inputs \cup {NoInput}
         /\ todo' \in Seq(StepType)
<1>1. /\ cache' \in [Cached -> AnyValue \cup {Unset}]
      /\ \A k \in Cached : cache'[k] \in ValuesOf(k) \cup {Unset}
  BY DEF Restart, CacheAfterRestart, TypeOK
<1>2. todo' \in Seq(StepType)
  BY ReplayTyped DEF Restart
<1> QED
  BY <1>1, <1>2, FreshViewTyped DEF Restart

LEMMA OnwardsTyped ==
  ASSUME stage \in 1..10, Onwards
  PROVE  stage' \in 1..10
BY DEF Onwards

LEMMA InitTyped == Init => TypeOK
<1> SUFFICES ASSUME Init PROVE TypeOK
  OBVIOUS
<1>1. <<>> \in Seq(Inputs)
  OBVIOUS
<1>2. crashes \in 0..MaxCrashes /\ stalls \in 0..MaxStalls
  BY ConstantsAssumption DEF Init
<1>3. /\ cache \in [Cached -> AnyValue \cup {Unset}]
      /\ \A k \in Cached : cache[k] \in ValuesOf(k) \cup {Unset}
  BY DEF Init
<1>4. /\ desired \in [Fields -> AnyValue]
      /\ \A k \in Fields : desired[k] \in ValuesOf(k)
  BY FreshTyped DEF Init
<1>5. /\ view \in [Fields \cup {"ts"} -> AnyValue]
      /\ \A k \in Fields : view[k] \in ValuesOf(k)
      /\ view["ts"] \in Inputs \cup {NoInput}
  BY FreshViewTyped DEF Init
<1>6. todo \in Seq(StepType)
  BY ReplayTyped DEF Init
<1>7. child \in {"up", "down", "gone"} /\ stalled \in BOOLEAN /\ buffer \in Seq(Inputs)
  BY <1>1 DEF Init
<1>8. mode \in Modes
  BY DEF Init, Modes
<1>9. stage \in 1..10
  BY DEF Init
<1> QED
  BY <1>2, <1>3, <1>4, <1>5, <1>6, <1>7, <1>8, <1>9 DEF TypeOK

\* A call changes what is asked for, the parent's mode, the queue of sends and
\* the backlog; everything else is left to the sends.
LEMMA CallTyped == TypeOK /\ Call => TypeOK'
<1> SUFFICES ASSUME TypeOK, Call PROVE TypeOK'
  OBVIOUS
<1> USE DEF TypeOK
<1>0. /\ <<>> \in Seq(StepType)
      /\ \A k \in Steps : <<Step(k)>> \in Seq(StepType)
  BY StepTyped
<1>1. ASSUME NEW k \in {"select", "beacon", "preview"}, NEW v \in ValuesOf(k), SetCached(k, v)
      PROVE  TypeOK'
  <2>1. k \in Fields /\ k \in Steps /\ v \in AnyValue
    BY <1>1, FieldValues DEF Fields, Cached, Steps
  <2>2. /\ desired' \in [Fields -> AnyValue]
        /\ \A f \in Fields : desired'[f] \in ValuesOf(f)
    BY <1>1, <2>1 DEF SetCached
  <2>3. todo' \in Seq(StepType)
    BY <1>0, <1>1, <2>1 DEF SetCached
  <2> QED
    BY <1>1, <2>2, <2>3, OnwardsTyped DEF SetCached
<1>2. ASSUME NEW n \in Notices \cup {NoNotice}, NEW t \in BOOLEAN, SetAccessNotice(n, t)
      PROVE  TypeOK'
  <2>1. /\ "notice" \in Fields /\ "tone" \in Fields
        /\ n \in ValuesOf("notice") /\ (t /\ n # NoNotice) \in ValuesOf("tone")
    BY DEF Fields, Cached, ValuesOf
  <2>2. n \in AnyValue /\ (t /\ n # NoNotice) \in AnyValue
    BY <2>1, FieldValues
  <2>3. /\ desired' \in [Fields -> AnyValue]
        /\ \A f \in Fields : desired'[f] \in ValuesOf(f)
    BY <1>2, <2>1, <2>2 DEF SetAccessNotice
  <2>4. "notice" \in Steps /\ "toneIfChanged" \in Steps
    BY DEF Steps, Fields, Cached, Silent
  <2>5. todo' \in Seq(StepType)
    BY <1>0, <1>2, <2>4 DEF SetAccessNotice
  <2> QED
    BY <1>2, <2>3, <2>5, OnwardsTyped DEF SetAccessNotice
<1>3. ASSUME NEW v \in Videos, PlayFallbackVideo(v)
      PROVE  TypeOK'
  <2>1. /\ "play" \in Fields /\ "seek" \in Fields /\ "play" \in Steps
        /\ v \in ValuesOf("play") /\ NoSeek \in ValuesOf("seek")
    BY DEF Fields, Cached, ValuesOf, Steps
  <2>2. v \in AnyValue /\ NoSeek \in AnyValue
    BY <2>1, FieldValues
  <2>3. /\ desired' \in [Fields -> AnyValue]
        /\ \A f \in Fields : desired'[f] \in ValuesOf(f)
    BY <1>3, <2>1, <2>2 DEF PlayFallbackVideo
  <2> QED
    BY <1>0, <1>3, <2>1, <2>3, OnwardsTyped DEF PlayFallbackVideo, Modes
<1>4. CASE StopFallbackVideo
  <2>1. /\ "play" \in Fields /\ "seek" \in Fields /\ "stop" \in Steps
        /\ NoVideo \in ValuesOf("play") /\ NoSeek \in ValuesOf("seek")
    BY DEF Fields, Cached, ValuesOf, Steps
  <2>2. NoVideo \in AnyValue /\ NoSeek \in AnyValue
    BY <2>1, FieldValues
  <2>3. /\ desired' \in [Fields -> AnyValue]
        /\ \A f \in Fields : desired'[f] \in ValuesOf(f)
    BY <1>4, <2>1, <2>2 DEF StopFallbackVideo
  <2> QED
    BY <1>0, <1>4, <2>1, <2>3, OnwardsTyped DEF StopFallbackVideo, Modes
<1>5. ASSUME NEW p \in Seeks, SeekFallbackVideo(p)
      PROVE  TypeOK'
  <2>1. "seek" \in Fields /\ "seek" \in Steps /\ p \in ValuesOf("seek")
    BY DEF Fields, ValuesOf, Steps
  <2>2. p \in AnyValue
    BY <2>1, FieldValues
  <2>3. /\ desired' \in [Fields -> AnyValue]
        /\ \A f \in Fields : desired'[f] \in ValuesOf(f)
    BY <1>5, <2>1, <2>2 DEF SeekFallbackVideo
  <2> QED
    BY <1>0, <1>5, <2>1, <2>3, OnwardsTyped DEF SeekFallbackVideo
<1>6. CASE ReconfigurePluto
  <2>1. "reconfigure" \in Steps
    BY DEF Steps
  <2> QED
    BY <1>0, <1>6, <2>1, OnwardsTyped DEF ReconfigurePluto
<1>7. CASE Write
  <2>1. desired["select"] \in Inputs
    BY <1>7 DEF Write
  <2>2. buffer' \in Seq(Inputs)
    BY <1>7, <2>1 DEF Write
  <2>3. "ts" \in Steps /\ "trim" \in Steps
    BY DEF Steps, Silent
  <2>4. todo' \in Seq(StepType)
    BY <1>7, <2>3 DEF Write, Step, StepType
  <2> QED
    BY <1>7, <2>2, <2>4, OnwardsTyped DEF Write
<1>8. CASE Tick
  <2>1. "ts" \in Steps /\ "drain" \in Steps /\ "tick" \in Steps
    BY DEF Steps, Silent
  <2>2. todo' \in Seq(StepType)
    BY <1>8, <2>1 DEF Tick, Step, StepType
  <2> QED
    BY <1>8, <2>2, OnwardsTyped DEF Tick, Modes
<1>9. CASE Skip
  BY <1>9, OnwardsTyped DEF Skip
<1>10. /\ ValuesOf("select") = Inputs \cup {NoInput}
       /\ ValuesOf("beacon") = BOOLEAN /\ ValuesOf("preview") = BOOLEAN
  BY DEF ValuesOf
<1> QED
  BY <1>1, <1>2, <1>3, <1>4, <1>5, <1>6, <1>7, <1>8, <1>9, <1>10
     DEF Call, Select, SetBeaconAllowed, SetPreviewEnabled

LEMMA StoppedTyped ==
  ASSUME TypeOK
  PROVE  /\ StoppedVideo \in [Fields \cup {"ts"} -> AnyValue]
         /\ \A k \in Fields : StoppedVideo[k] \in ValuesOf(k)
         /\ StoppedVideo["ts"] = view["ts"]
<1>1. /\ "play" \in Fields /\ "seek" \in Fields /\ "ts" \notin Fields
      /\ NoVideo \in ValuesOf("play") /\ NoSeek \in ValuesOf("seek")
  BY DEF Fields, Cached, ValuesOf
<1>2. NoVideo \in AnyValue /\ NoSeek \in AnyValue
  BY <1>1, FieldValues
<1> QED
  BY <1>1, <1>2 DEF StoppedVideo, TypeOK

LEMMA DeliverTyped ==
  ASSUME TypeOK, NEW k \in Steps, Deliver(k), k = "ts" => buffer # <<>>
  PROVE  /\ view' \in [Fields \cup {"ts"} -> AnyValue]
         /\ \A f \in Fields : view'[f] \in ValuesOf(f)
         /\ view'["ts"] \in Inputs \cup {NoInput}
<1>0. /\ {"select", "notice", "tone", "beacon", "preview", "play", "seek"} \subseteq Fields
      /\ "ts" \notin Fields
  BY DEF Fields, Cached
<1>1. \A f \in Fields : desired[f] \in ValuesOf(f) /\ desired[f] \in AnyValue
  BY FieldValues DEF TypeOK
<1>2. /\ FALSE \in ValuesOf("tone") /\ TRUE \in ValuesOf("tone")
      /\ NoSeek \in ValuesOf("seek")
  BY DEF ValuesOf
<1>3. /\ FALSE \in AnyValue /\ TRUE \in AnyValue /\ NoSeek \in AnyValue
  BY <1>0, <1>2, FieldValues
<1>4. /\ view \in [Fields \cup {"ts"} -> AnyValue]
      /\ \A f \in Fields : view[f] \in ValuesOf(f)
      /\ view["ts"] \in Inputs \cup {NoInput}
  BY DEF TypeOK
<1>5. Inputs \cup {NoInput} \subseteq AnyValue
  BY <1>0, FieldValues DEF ValuesOf
<1>6. CASE k = "select"
  BY <1>0, <1>1, <1>4, <1>5, <1>6 DEF Deliver
<1>7. CASE k = "notice"
  BY <1>0, <1>1, <1>2, <1>3, <1>4, <1>7 DEF Deliver
<1>8. CASE k = "tone"
  <2>1. desired["tone"] \in BOOLEAN
    BY <1>0 DEF TypeOK, ValuesOf
  <2>2. (desired["tone"] /\ view["notice"] # NoNotice) \in BOOLEAN
    BY <2>1
  <2>3. (desired["tone"] /\ view["notice"] # NoNotice) \in ValuesOf("tone") \cap AnyValue
    BY <1>2, <1>3, <2>2
  <2> DEFINE b == desired["tone"] /\ view["notice"] # NoNotice
  <2>4. view' = [view EXCEPT !["tone"] = b]
    BY <1>8 DEF Deliver
  <2>5. b \in ValuesOf("tone") /\ b \in AnyValue
    BY <2>3
  <2> HIDE DEF b
  <2> QED
    BY <1>0, <1>4, <2>4, <2>5
<1>9. CASE k \in {"beacon", "preview"}
  BY <1>0, <1>1, <1>4, <1>9 DEF Deliver
<1>10. CASE k = "play"
  BY <1>0, <1>1, <1>2, <1>3, <1>4, <1>10 DEF Deliver
<1>11. CASE k = "stop"
  BY <1>0, <1>4, <1>11, StoppedTyped DEF Deliver
<1>12. CASE k = "seek"
  BY <1>0, <1>1, <1>4, <1>12 DEF Deliver
<1>13. CASE k = "tick"
  BY <1>4, <1>13, StoppedTyped DEF Deliver
<1>14. CASE k = "ts"
  <2>1. Head(buffer) \in Inputs
    BY <1>14 DEF TypeOK
  <2> QED
    BY <1>0, <1>4, <1>5, <1>14, <2>1, StoppedTyped DEF Deliver
<1>15. CASE k = "reconfigure"
  BY <1>4, <1>15 DEF Deliver
<1> QED
  BY <1>6, <1>7, <1>8, <1>9, <1>10, <1>11, <1>12, <1>13, <1>14, <1>15 DEF Deliver

LEMMA SendTyped == TypeOK /\ Send => TypeOK'
<1> SUFFICES ASSUME TypeOK, Send PROVE TypeOK'
  OBVIOUS
<1>0. /\ todo # <<>> => Tail(todo) \in Seq(StepType) /\ Head(todo) \in StepType
      /\ "tone" \in Steps /\ "ts" \in Steps
  BY DEF TypeOK, Steps, Fields, Cached
<1>1. CASE SendOk
  <2> DEFINE k == Head(todo).kind
  <2>1. todo # <<>> /\ k \in Steps
    BY <1>0, <1>1 DEF SendOk, Sending, StepType
  <2>2. Deliver(k) /\ (k = "ts" => buffer # <<>>) /\ cache' = CacheAfter(k)
    BY <1>1 DEF SendOk, Sending
  <2>3. /\ cache' \in [Cached -> AnyValue \cup {Unset}]
        /\ \A c \in Cached : cache'[c] \in ValuesOf(c) \cup {Unset}
    BY <2>2, FieldValues DEF CacheAfter, TypeOK, Fields
  <2>4. todo' \in Seq(StepType)
    BY <1>0, <1>1, <2>1, StepTyped DEF SendOk
  <2>5. buffer' \in Seq(Inputs)
    <3>1. buffer \in Seq(Inputs) /\ (buffer # <<>> => Tail(buffer) \in Seq(Inputs))
      BY DEF TypeOK
    <3>2. buffer' = IF k = "ts" THEN Tail(buffer) ELSE buffer
      BY <1>1, Zenon DEF SendOk
    <3> QED
      BY <2>2, <3>1, <3>2
  <2>6. /\ view' \in [Fields \cup {"ts"} -> AnyValue]
        /\ \A f \in Fields : view'[f] \in ValuesOf(f)
        /\ view'["ts"] \in Inputs \cup {NoInput}
    BY <2>1, <2>2, DeliverTyped
  <2> QED
    BY <1>1, <2>3, <2>4, <2>5, <2>6 DEF SendOk, TypeOK
<1>2. CASE SendBlocked
  BY <1>0, <1>2 DEF SendBlocked, Sending, TypeOK
<1>3. CASE Reap
  <2>1. todo # <<>>
    BY <1>3 DEF Reap, Sending
  <2>2. [Head(todo) EXCEPT !.ensured = TRUE] \in StepType
    BY <1>0, <2>1 DEF StepType
  <2>3. <<[Head(todo) EXCEPT !.ensured = TRUE]>> \o Tail(todo) \in Seq(StepType)
    BY <1>0, <2>1, <2>2
  <2> QED
    BY <1>3, <2>3, RestartTyped DEF Reap, TypeOK
<1>4. CASE BrokenPipe
  BY <1>0, <1>4, RestartTyped DEF BrokenPipe, Sending, TypeOK
<1>5. CASE Drain
  BY <1>0, <1>5, RestartTyped DEF Drain, TypeOK
<1>6. CASE FlushDone
  BY <1>0, <1>6 DEF FlushDone, TypeOK
<1>7. CASE Trim
  <2> DEFINE first == Len(buffer) - (MaxBacklog \div 2) + 1
  <2>1. buffer' \in Seq(Inputs)
    <3>1. buffer \in Seq(Inputs) /\ Len(buffer) \in Nat
      BY DEF TypeOK
    <3>2. MaxBacklog \in Nat /\ MaxBacklog \div 2 \in Nat /\ MaxBacklog \div 2 <= MaxBacklog
      BY ConstantsAssumption
    <3>3. ASSUME Len(buffer) > MaxBacklog
          PROVE  SubSeq(buffer, first, Len(buffer)) \in Seq(Inputs)
      <4>1. first \in Nat /\ first >= 1
        BY <3>1, <3>2, <3>3
      <4>2. \A i \in first..Len(buffer) : buffer[i] \in Inputs
        BY <3>1, <4>1
      <4> HIDE DEF first
      <4> QED
        BY <3>1, <4>1, <4>2, SubSeqProperties
    <3>4. buffer' = IF Len(buffer) > MaxBacklog THEN SubSeq(buffer, first, Len(buffer)) ELSE buffer
      BY <1>7, Zenon DEF Trim, first
    <3> HIDE DEF first
    <3> QED
      BY <3>1, <3>3, <3>4
  <2> QED
    BY <1>0, <1>7, <2>1 DEF Trim, TypeOK
<1>8. CASE ToneIfChanged
  <2>1. todo' \in Seq(StepType)
    BY <1>0, <1>8, StepTyped DEF ToneIfChanged
  <2> QED
    BY <1>8, <2>1 DEF ToneIfChanged, TypeOK
<1> QED
  BY <1>1, <1>2, <1>3, <1>4, <1>5, <1>6, <1>7, <1>8 DEF Send

LEMMA StepTypedNext == TypeOK /\ [Next]_vars => TypeOK'
<1> SUFFICES ASSUME TypeOK, [Next]_vars PROVE TypeOK'
  OBVIOUS
<1>1. CASE Destroy
  BY <1>1 DEF Destroy, TypeOK
<1>2. CASE Crash
  BY <1>2, ConstantsAssumption DEF Crash, TypeOK
<1>3. CASE Stall
  BY <1>3, ConstantsAssumption DEF Stall, TypeOK
<1>4. CASE Unstall
  BY <1>4 DEF Unstall, TypeOK
<1>5. CASE VideoEnds
  BY <1>5, StoppedTyped DEF VideoEnds, TypeOK
<1>6. CASE UNCHANGED vars
  BY <1>6 DEF vars, TypeOK
<1> QED
  BY <1>1, <1>2, <1>3, <1>4, <1>5, <1>6, CallTyped, SendTyped DEF Next

\* Every variable keeps its type, whatever the sends of a call meet.
THEOREM TypeCorrect == Spec => []TypeOK
BY InitTyped, StepTypedNext, PTL DEF Spec

-----------------------------------------------------------------------------
(* What the caches vouch for.                                               *)

\* What a message of each kind changes in the child, of what is cached.
LEMMA DeliverEffect ==
  ASSUME TypeOK, NEW k \in Steps, Deliver(k)
  PROVE  /\ \A f \in Mirrored : view'[f] = IF f = k THEN desired[f] ELSE view[f]
         /\ view'["tone"] => \/ k = "tone" /\ desired["tone"] = TRUE
                             \/ k # "tone" /\ view["tone"]
<1>0. /\ Mirrored = {"select", "beacon", "notice", "preview"}
      /\ Fields = {"select", "beacon", "notice", "tone", "preview", "play", "seek"}
  BY DEF Mirrored, Fields, Cached
<1>1. view \in [Fields \cup {"ts"} -> AnyValue]
  BY DEF TypeOK
<1>2. desired["tone"] \in BOOLEAN
  BY <1>0 DEF TypeOK, ValuesOf
<1>3. CASE k = "tone"
  <2>1. \A f \in Mirrored : view'[f] = view[f]
    BY <1>0, <1>1, <1>3 DEF Deliver
  <2>2. view'["tone"] = (desired["tone"] /\ view["notice"] # NoNotice)
    BY <1>0, <1>1, <1>3 DEF Deliver
  <2> QED
    BY <1>0, <1>2, <1>3, <2>1, <2>2
<1>4. CASE k \in {"select", "notice", "beacon", "preview"}
  BY <1>0, <1>1, <1>4 DEF Deliver
<1>5. CASE k \in {"play", "stop", "seek", "tick", "reconfigure", "ts"}
  BY <1>0, <1>1, <1>5 DEF Deliver, StoppedVideo
<1> QED
  BY <1>3, <1>4, <1>5 DEF Deliver

Coherent == CacheCoherent /\ NoStrayTone

LEMMA RestartCoherent ==
  ASSUME NEW rest, Restart(rest)
  PROVE  Coherent'
<1>1. /\ Mirrored \subseteq Cached /\ "tone" \notin Mirrored
      /\ "tone" \in Fields /\ "tone" # "ts"
  BY DEF Mirrored, Fields, Cached
<1>2. \A k \in Mirrored : cache'[k] = Unset
  BY <1>1 DEF Restart, CacheAfterRestart
<1>3. view'["tone"] = FALSE
  BY <1>1 DEF Restart, FreshView, FreshFields
<1> QED
  BY <1>2, <1>3 DEF Coherent, CacheCoherent, NoStrayTone

LEMMA InitCoherent == Init => Coherent
<1> SUFFICES ASSUME Init PROVE Coherent
  OBVIOUS
<1>1. Mirrored \subseteq Cached /\ "tone" \in Fields /\ "tone" # "ts"
  BY DEF Mirrored, Fields, Cached
<1>2. \A k \in Mirrored : cache[k] = Unset
  BY <1>1 DEF Init
<1>3. view["tone"] = FALSE
  BY <1>1 DEF Init, FreshView, FreshFields
<1> QED
  BY <1>2, <1>3 DEF Coherent, CacheCoherent, NoStrayTone

LEMMA SendOkFacts == TypeOK /\ SendOk => Head(todo).kind \in Steps
<1> SUFFICES ASSUME TypeOK, SendOk PROVE Head(todo).kind \in Steps
  OBVIOUS
<1>1. todo # <<>> /\ todo \in Seq(StepType)
  BY DEF SendOk, Sending, TypeOK
<1>2. Head(todo) \in StepType
  BY <1>1
<1> QED
  BY <1>2 DEF StepType

LEMMA SendOkCoherent == TypeOK /\ Coherent /\ SendOk => Coherent'
<1> SUFFICES ASSUME TypeOK, Coherent, SendOk PROVE Coherent'
  OBVIOUS
<1> DEFINE k == Head(todo).kind
<1>1. k \in Steps /\ Deliver(k) /\ cache' = CacheAfter(k) /\ child = "up" /\ child' = child
  BY SendOkFacts, Zenon DEF SendOk
<1>2. Mirrored \subseteq Cached /\ "tone" \in Cached /\ "tone" \notin Mirrored
  BY DEF Mirrored, Cached
<1>3. \A f \in Cached : cache'[f] = IF f = k THEN desired[f] ELSE cache[f]
  BY <1>1, Zenon DEF CacheAfter, TypeOK
<1> HIDE DEF k
<1>4. /\ \A f \in Mirrored : view'[f] = IF f = k THEN desired[f] ELSE view[f]
      /\ view'["tone"] => \/ k = "tone" /\ desired["tone"] = TRUE
                          \/ k # "tone" /\ view["tone"]
  BY <1>1, DeliverEffect
<1>5. CacheCoherent'
  BY <1>1, <1>2, <1>3, <1>4 DEF Coherent, CacheCoherent
<1>6. NoStrayTone'
  BY <1>1, <1>2, <1>3, <1>4 DEF Coherent, NoStrayTone
<1> QED
  BY <1>5, <1>6 DEF Coherent

LEMMA NextCoherent == TypeOK /\ Coherent /\ [Next]_vars => Coherent'
<1> SUFFICES ASSUME TypeOK, Coherent, [Next]_vars PROVE Coherent'
  OBVIOUS
<1> USE DEF Coherent, CacheCoherent, NoStrayTone
<1>1. CASE Call
  <2>1. UNCHANGED <<cache, view, child>>
    BY <1>1 DEF Call, Select, SetBeaconAllowed, SetPreviewEnabled, SetCached, SetAccessNotice,
         PlayFallbackVideo, StopFallbackVideo, SeekFallbackVideo, ReconfigurePluto, Write, Tick, Skip
  <2> QED
    BY <2>1
<1>2. CASE Destroy \/ Crash
  BY <1>2 DEF Destroy, Crash
<1>3. CASE SendOk
  BY <1>3, SendOkCoherent
<1>4. CASE SendBlocked \/ FlushDone \/ Trim \/ ToneIfChanged
  BY <1>4 DEF SendBlocked, FlushDone, Trim, ToneIfChanged
<1>5. CASE Reap \/ BrokenPipe
  BY <1>5, RestartCoherent DEF Reap, BrokenPipe
<1>6. CASE Drain
  BY <1>6, RestartCoherent DEF Drain
<1>7. CASE Stall \/ Unstall
  BY <1>7 DEF Stall, Unstall
<1>8. CASE VideoEnds
  <2>1. \A f \in Mirrored \cup {"tone"} : view'[f] = view[f]
    BY <1>8 DEF VideoEnds, StoppedVideo, TypeOK, Mirrored, Fields, Cached
  <2> QED
    BY <1>8, <2>1 DEF VideoEnds
<1>9. CASE UNCHANGED vars
  BY <1>9 DEF vars
<1> QED
  BY <1>1, <1>2, <1>3, <1>4, <1>5, <1>6, <1>7, <1>8, <1>9 DEF Next, Send

\* A setter may skip a send whose payload is cached: the living child holds
\* it, whatever sequence of crashes, replays and timed out sends went before.
THEOREM CachesAreCoherent == Spec => []CacheCoherent
<1>1. Init => TypeOK /\ Coherent
  BY InitTyped, InitCoherent
<1>2. TypeOK /\ Coherent /\ [Next]_vars => (TypeOK /\ Coherent)'
  BY StepTypedNext, NextCoherent
<1>3. Coherent => CacheCoherent
  BY DEF Coherent
<1> QED
  BY <1>1, <1>2, <1>3, PTL DEF Spec

\* No child sounds an end tone that the parent does not know of.
THEOREM NoToneIsStray == Spec => []NoStrayTone
<1>1. Init => TypeOK /\ Coherent
  BY InitTyped, InitCoherent
<1>2. TypeOK /\ Coherent /\ [Next]_vars => (TypeOK /\ Coherent)'
  BY StepTypedNext, NextCoherent
<1>3. Coherent => NoStrayTone
  BY DEF Coherent
<1> QED
  BY <1>1, <1>2, <1>3, PTL DEF Spec

-----------------------------------------------------------------------------
(* A new child is informed before anything else.                            *)

AllTold == \A k \in Cached : cache[k] # Unset

\* What the child has not been told yet is ahead in the queue, with nothing
\* before it but other cached kinds.
OwedIn(s, k) ==
  \E i \in 1..Len(s) : s[i].kind = k /\ \A j \in 1..i : s[j].kind \in Cached

Owed(k) == OwedIn(todo, k)

Informing ==
  child = "up" => /\ \A k \in Cached : cache[k] = Unset => Owed(k)
                  /\ stalled => AllTold

LEMMA OwedToTold ==
  ASSUME TypeOK, Informing, child = "up",
         todo = <<>> \/ Head(todo).kind \notin Cached
  PROVE  AllTold
<1> SUFFICES ASSUME NEW k \in Cached, cache[k] = Unset PROVE FALSE
  BY DEF AllTold
<1>1. PICK i \in 1..Len(todo) : \A j \in 1..i : todo[j].kind \in Cached
  BY DEF Informing, Owed, OwedIn
<1>2. todo \in Seq(StepType) /\ todo # <<>> /\ 1 \in 1..i
  BY <1>1 DEF TypeOK
<1>3. Head(todo) = todo[1]
  BY <1>2
<1> QED
  BY <1>1, <1>2, <1>3

LEMMA FiveKept ==
  ASSUME NEW S, NEW p \in Seq(S), NEW q \in Seq(S), Len(p) >= 5
  PROVE  /\ p \o q \in Seq(S) /\ Len(p \o q) >= 5
         /\ \A j \in 1..5 : (p \o q)[j] = p[j]
<1>1. Len(p) \in Nat /\ Len(q) \in Nat
  OBVIOUS
<1> QED
  BY <1>1, ConcatProperties

LEMMA ReplayOwes ==
  ASSUME NEW rest \in Seq(StepType), NEW k \in Cached
  PROVE  OwedIn(Replay \o rest, k)
<1> DEFINE five == <<"select", "beacon", "notice", "tone", "preview">>
           informs == [i \in 1..5 |-> Step(five[i])]
           video == IF desired["play"] = NoVideo THEN <<>> ELSE <<Step("play")>>
           position == IF desired["play"] = NoVideo \/ desired["seek"] = NoSeek
                         THEN <<>> ELSE <<Step("seek")>>
           first == informs \o video
           replay == first \o position
           whole == replay \o rest
<1>1. informs \in Seq(StepType) /\ video \in Seq(StepType) /\ position \in Seq(StepType)
  <2>1. "play" \in Steps /\ "seek" \in Steps
    BY DEF Steps, Fields
  <2>2. <<Step("play")>> \in Seq(StepType) /\ <<Step("seek")>> \in Seq(StepType)
    BY <2>1, StepTyped
  <2> QED
    BY <2>2, ReplayHeadTyped
<1>2. Len(informs) = 5 /\ \A i \in 1..5 : informs[i].kind = five[i]
  BY DEF Step
<1>3. \A i \in 1..5 : five[i] \in Cached
  BY DEF Fields, Cached
<1>4. PICK i \in 1..5 : five[i] = k
  BY DEF Cached
<1>5. Replay \o rest = whole
  BY DEF Replay
<1> HIDE DEF informs, video, position, five
<1>6. whole \in Seq(StepType) /\ Len(whole) >= 5 /\ \A j \in 1..5 : whole[j] = informs[j]
  <2>1. first \in Seq(StepType) /\ Len(first) >= 5 /\ \A j \in 1..5 : first[j] = informs[j]
    <3>1. Len(informs) >= 5
      BY <1>2
    <3> QED
      BY <1>1, <3>1, FiveKept
  <2> HIDE DEF first
  <2>2. replay \in Seq(StepType) /\ Len(replay) >= 5 /\ \A j \in 1..5 : replay[j] = first[j]
    BY <1>1, <2>1, FiveKept
  <2> HIDE DEF replay
  <2>3. whole \in Seq(StepType) /\ Len(whole) >= 5 /\ \A j \in 1..5 : whole[j] = replay[j]
    BY <2>2, FiveKept
  <2> HIDE DEF whole
  <2> QED
    BY <2>1, <2>2, <2>3
<1> HIDE DEF whole
<1>7. i \in 1..Len(whole)
  BY <1>6
<1>8. whole[i].kind = k /\ \A j \in 1..i : whole[j].kind \in Cached
  BY <1>2, <1>3, <1>4, <1>6
<1>9. OwedIn(whole, k)
  BY <1>7, <1>8 DEF OwedIn
<1> QED
  BY <1>5, <1>9

LEMMA RestartInforming ==
  ASSUME NEW rest \in Seq(StepType), Restart(rest)
  PROVE  Informing'
<1>1. \A k \in Cached : Owed(k)'
  BY ReplayOwes DEF Restart, Owed
<1> QED
  BY <1>1 DEF Restart, Informing

LEMMA SendOkInforming == TypeOK /\ Informing /\ SendOk => Informing'
<1> SUFFICES ASSUME TypeOK, Informing, SendOk PROVE Informing'
  OBVIOUS
<1> DEFINE c == Head(todo).kind
<1>1. /\ todo # <<>> /\ todo \in Seq(StepType) /\ Tail(todo) \in Seq(StepType)
      /\ child = "up" /\ ~stalled /\ child' = child /\ stalled' = stalled
  BY DEF SendOk, Sending, TypeOK
<1>2. cache' = CacheAfter(c) /\ (c # "ts" => todo' = Tail(todo))
  BY Zenon DEF SendOk
<1>3. \A k \in Cached : cache'[k] = IF k = c THEN desired[k] ELSE cache[k]
  BY <1>2, Zenon DEF CacheAfter, TypeOK
<1>4. \A k \in Cached : desired[k] # Unset
  BY ConstantsAssumption DEF TypeOK, ValuesOf, Cached, Fields
<1>5. CASE c \notin Cached
  BY <1>1, <1>3, <1>4, <1>5, OwedToTold DEF Informing, AllTold
<1>6. CASE c \in Cached
  <2> SUFFICES ASSUME NEW k \in Cached, cache'[k] = Unset PROVE Owed(k)'
    BY <1>1 DEF Informing
  <2>1. k # c /\ cache[k] = Unset
    BY <1>3, <1>4
  <2>2. PICK i \in 1..Len(todo) : todo[i].kind = k /\ \A j \in 1..i : todo[j].kind \in Cached
    BY <1>1, <2>1 DEF Informing, Owed, OwedIn
  <2>3. c = todo[1].kind
    BY <1>1
  <2>4. todo' = Tail(todo)
    BY <1>2, <1>6 DEF Fields, Cached
  <2> HIDE DEF c
  <2>5. i # 1
    BY <2>1, <2>2, <2>3
  <2>6. /\ Len(todo') = Len(todo) - 1
        /\ \A j \in 1..Len(todo') : todo'[j] = todo[j + 1]
    BY <1>1, <2>4
  <2>7. i - 1 \in 1..Len(todo')
    BY <1>1, <2>2, <2>5, <2>6
  <2>8. todo'[i - 1].kind = k /\ \A j \in 1..(i - 1) : todo'[j].kind \in Cached
    <3>1. i - 1 + 1 = i /\ todo'[i - 1] = todo[i - 1 + 1]
      BY <2>2, <2>6, <2>7
    <3>2. ASSUME NEW j \in 1..(i - 1) PROVE todo'[j].kind \in Cached
      <4>1. j \in 1..Len(todo') /\ j + 1 \in 1..i
        BY <1>1, <2>2, <2>6
      <4> QED
        BY <2>2, <2>6, <4>1
    <3> QED
      BY <2>2, <3>1, <3>2
  <2> QED
    BY <2>7, <2>8 DEF Owed, OwedIn
<1> QED
  BY <1>5, <1>6

LEMMA NextInforming == TypeOK /\ Informing /\ [Next]_vars => Informing'
<1> SUFFICES ASSUME TypeOK, Informing, [Next]_vars PROVE Informing'
  OBVIOUS
<1>0. todo # <<>> => Tail(todo) \in Seq(StepType) /\ Head(todo) \in StepType
  BY DEF TypeOK
<1>1. ASSUME AllTold, UNCHANGED cache PROVE Informing'
  BY <1>1 DEF AllTold, Informing
<1>2. CASE Call
  <2>1. todo = <<>> /\ UNCHANGED <<cache, child>>
    BY <1>2 DEF Call, At, Select, SetBeaconAllowed, SetPreviewEnabled, SetCached, SetAccessNotice,
         PlayFallbackVideo, StopFallbackVideo, SeekFallbackVideo, ReconfigurePluto, Write, Tick, Skip
  <2>2. CASE child = "up"
    BY <1>1, <2>1, <2>2, OwedToTold
  <2> QED
    BY <2>1, <2>2 DEF Informing
<1>3. CASE Destroy \/ Crash
  BY <1>3 DEF Destroy, Crash, Informing
<1>4. CASE SendOk
  BY <1>4, SendOkInforming
<1>5. CASE SendBlocked
  BY <1>1, <1>5 DEF SendBlocked, Informing
<1>6. CASE FlushDone \/ Trim \/ ToneIfChanged
  <2>1. todo # <<>> /\ Head(todo).kind \notin Cached /\ UNCHANGED <<cache, child>>
    BY <1>6 DEF FlushDone, Trim, ToneIfChanged, Fields, Cached
  <2>2. CASE child = "up"
    BY <1>1, <2>1, <2>2, OwedToTold
  <2> QED
    BY <2>1, <2>2 DEF Informing
<1>7. CASE Reap
  <2>1. todo # <<>>
    BY <1>7 DEF Reap, Sending
  <2>2. [Head(todo) EXCEPT !.ensured = TRUE] \in StepType
    BY <1>0, <2>1 DEF StepType
  <2>3. <<[Head(todo) EXCEPT !.ensured = TRUE]>> \o Tail(todo) \in Seq(StepType)
    BY <1>0, <2>1, <2>2
  <2> QED
    BY <1>7, <2>3, RestartInforming DEF Reap
<1>8. CASE BrokenPipe
  BY <1>0, <1>8, RestartInforming DEF BrokenPipe, Sending
<1>9. CASE Drain
  <2>1. todo # <<>> /\ Head(todo).kind \notin Cached
    BY <1>9 DEF Drain, Fields, Cached
  <2>2. CASE UNCHANGED <<cache, child>>
    <3>1. CASE child = "up"
      BY <1>1, <2>1, <2>2, <3>1, OwedToTold
    <3> QED
      BY <2>2, <3>1 DEF Informing
  <2>3. CASE Restart(Tail(todo))
    BY <1>0, <2>1, <2>3, RestartInforming
  <2> QED
    BY <1>9, <2>2, <2>3 DEF Drain
<1>10. CASE Stall
  BY <1>1, <1>10 DEF Stall, AllTold
<1>11. CASE Unstall \/ VideoEnds \/ UNCHANGED vars
  BY <1>11 DEF Unstall, VideoEnds, vars, Informing, Owed, OwedIn, AllTold
<1> QED
  BY <1>2, <1>3, <1>4, <1>5, <1>6, <1>7, <1>8, <1>9, <1>10, <1>11 DEF Next, Send

\* However often a child dies, and wherever in the replay, the next one is
\* told every cached kind before it is sent anything else, a video or a tick
\* included, and before the call that started it returns.
THEOREM ChildIsInformedFirst == Spec => []InformedFirst
<1>1. Init => TypeOK /\ Informing
  <2> SUFFICES ASSUME Init PROVE Informing
    BY InitTyped
  <2>1. todo = Replay /\ Replay = Replay \o <<>> /\ ~stalled
    BY ReplayTyped DEF Init
  <2>2. \A k \in Cached : Owed(k)
    <3>1. ASSUME NEW k \in Cached PROVE OwedIn(Replay \o <<>>, k)
      <4>1. <<>> \in Seq(StepType)
        OBVIOUS
      <4> QED
        BY <4>1, ReplayOwes
    <3> QED
      BY <2>1, <3>1 DEF Owed
  <2> QED
    BY <2>1, <2>2 DEF Informing
<1>2. TypeOK /\ Informing /\ [Next]_vars => (TypeOK /\ Informing)'
  BY StepTypedNext, NextInforming
<1>3. TypeOK /\ Informing => InformedFirst
  BY OwedToTold DEF InformedFirst, AllTold
<1> QED
  BY <1>1, <1>2, <1>3, PTL DEF Spec

-----------------------------------------------------------------------------
(* Every step is a step of the promise, or invisible in it.                 *)

want == [k \in Mirrored |-> desired[k]]
have == [k \in Mirrored |-> IF Known(k) THEN view[k] ELSE Unset]
open == child # "gone"

LEMMA MirroredValues ==
  ASSUME TypeOK
  PROVE  /\ \A k \in Mirrored : desired[k] \in ValuesOf(k) /\ desired[k] # Unset
         /\ Mirrored \subseteq Cached /\ Mirrored \subseteq Fields
BY ConstantsAssumption DEF TypeOK, Mirrored, Cached, Fields, ValuesOf

LEMMA InitPromised == Init => Promise!Init
<1> SUFFICES ASSUME Init PROVE Promise!Init
  OBVIOUS
<1>1. TypeOK
  BY InitTyped
<1>2. \A k \in Mirrored : ~Known(k)
  BY MirroredValues, <1>1 DEF Init, Known
<1> QED
  BY <1>1, <1>2, MirroredValues DEF Init, Promise!Init

\* A setter asks for something else of one kind, or sets nothing of a mirrored kind.
LEMMA CallPromised == TypeOK /\ Call => [Promise!Next]_(Promise!vars)
<1> SUFFICES ASSUME TypeOK, Call PROVE [Promise!Next]_(Promise!vars)
  OBVIOUS
<1>1. UNCHANGED <<cache, view, child>> /\ child # "gone"
  BY DEF Call, At, Select, SetBeaconAllowed, SetPreviewEnabled, SetCached, SetAccessNotice,
       PlayFallbackVideo, StopFallbackVideo, SeekFallbackVideo, ReconfigurePluto, Write, Tick, Skip
<1>2. have' = have
  BY <1>1 DEF have, Known
<1>3. ASSUME NEW k \in Mirrored, NEW v \in ValuesOf(k),
             \A f \in Mirrored : desired'[f] = IF f = k THEN v ELSE desired[f]
      PROVE  Promise!Want(k)
  <2>1. want' = [want EXCEPT ![k] = v]
    BY <1>3 DEF want
  <2> QED
    BY <1>1, <1>2, <2>1 DEF Promise!Want, have, want
<1>4. ASSUME \A f \in Mirrored : desired'[f] = desired[f]
      PROVE  UNCHANGED Promise!vars
  BY <1>1, <1>2, <1>4 DEF Promise!vars, have
<1>5. ASSUME NEW k \in {"select", "beacon", "preview"}, NEW v \in ValuesOf(k), SetCached(k, v)
      PROVE  Promise!Next
  BY <1>3, <1>5, MirroredValues DEF SetCached, TypeOK, Mirrored, Cached, Fields, Promise!Next
<1>6. ASSUME NEW n \in Notices \cup {NoNotice}, NEW t \in BOOLEAN, SetAccessNotice(n, t)
      PROVE  Promise!Next
  <2>1. \A f \in Mirrored : desired'[f] = IF f = "notice" THEN n ELSE desired[f]
    BY <1>6 DEF SetAccessNotice, TypeOK, Mirrored, Cached, Fields
  <2>2. "notice" \in Mirrored /\ n \in ValuesOf("notice")
    BY DEF Mirrored, Cached, ValuesOf
  <2> QED
    BY <1>3, <2>1, <2>2 DEF Promise!Next
<1>7. CASE \/ \E v \in Videos : PlayFallbackVideo(v)
           \/ StopFallbackVideo
           \/ \E p \in Seeks : SeekFallbackVideo(p)
  BY <1>4, <1>7 DEF PlayFallbackVideo, StopFallbackVideo, SeekFallbackVideo, TypeOK, Mirrored, Cached, Fields
<1>8. CASE ReconfigurePluto \/ Write \/ Tick \/ Skip
  BY <1>4, <1>8 DEF ReconfigurePluto, Write, Tick, Skip
<1>9. /\ ValuesOf("select") = Inputs \cup {NoInput}
      /\ ValuesOf("beacon") = BOOLEAN /\ ValuesOf("preview") = BOOLEAN
  BY DEF ValuesOf
<1> QED
  BY <1>5, <1>6, <1>7, <1>8, <1>9 DEF Call, Select, SetBeaconAllowed, SetPreviewEnabled

LEMMA RestartPromised ==
  ASSUME TypeOK, NEW rest, child = "down", Restart(rest), UNCHANGED desired
  PROVE  UNCHANGED Promise!vars
<1>1. \A k \in Mirrored : ~Known(k) /\ ~Known(k)'
  BY DEF Known, Restart, CacheAfterRestart, Mirrored, Cached
<1> QED
  BY <1>1 DEF Promise!vars, Restart

LEMMA SendOkPromised == TypeOK /\ Coherent /\ SendOk => [Promise!Next]_(Promise!vars)
<1> SUFFICES ASSUME TypeOK, Coherent, SendOk PROVE [Promise!Next]_(Promise!vars)
  OBVIOUS
<1>1. PICK k \in Steps : Deliver(k) /\ cache' = CacheAfter(k)
  BY SendOkFacts, Zenon DEF SendOk
<1>0. child = "up" /\ child' = child /\ desired' = desired
  BY Zenon DEF SendOk
<1>2. \A f \in Cached : cache'[f] = IF f = k THEN desired[f] ELSE cache[f]
  BY <1>1, Zenon DEF CacheAfter, TypeOK
<1>3. \A f \in Mirrored : view'[f] = IF f = k THEN desired[f] ELSE view[f]
  BY <1>1, DeliverEffect
<1>4. \A f \in Mirrored : f # k => (Known(f)' <=> Known(f)) /\ view'[f] = view[f]
  BY <1>0, <1>1, <1>2, <1>3, MirroredValues DEF Known
<1>5. ASSUME k \in Mirrored PROVE Known(k)' /\ view'[k] = desired[k]
  <2>1. k \in Cached /\ desired[k] # Unset
    BY <1>5, MirroredValues
  <2>2. cache'[k] = desired[k] /\ view'[k] = desired[k]
    BY <1>2, <1>3, <1>5, <2>1
  <2> QED
    BY <1>0, <1>1, <2>1, <2>2 DEF Known
<1>6. CASE k \in Mirrored
  <2>1. have' = [have EXCEPT ![k] = want[k]]
    <3>1. \A f \in Mirrored : have'[f] = IF f = k THEN want[f] ELSE have[f]
      <4>1. have'[k] = want[k]
        BY <1>5, <1>6 DEF have, want
      <4>2. \A f \in Mirrored : f # k => have'[f] = have[f]
        BY <1>4 DEF have
      <4> QED
        BY <4>1, <4>2
    <3>2. have' = [f \in Mirrored |-> have'[f]] /\ have = [f \in Mirrored |-> have[f]]
      BY DEF have
    <3> QED
      BY <1>6, <3>1, <3>2
  <2>2. want' = want /\ open /\ open' = open
    BY <1>0 DEF want, open
  <2>3. CASE have[k] = want[k]
    <3>1. have' = have
      BY <2>1, <2>3 DEF have
    <3> QED
      BY <2>2, <3>1 DEF Promise!vars, have, want, open
  <2>4. CASE have[k] # want[k]
    BY <1>6, <2>1, <2>2, <2>4 DEF Promise!Next, Promise!Learn, have, want, open
  <2> QED
    BY <2>3, <2>4
<1>7. CASE k \notin Mirrored
  <2>1. have' = have
    BY <1>4, <1>7 DEF have
  <2> QED
    BY <1>0, <1>1, <2>1 DEF Promise!vars, have
<1> QED
  BY <1>6, <1>7

LEMMA NextPromised == TypeOK /\ Coherent /\ [Next]_vars => [Promise!Next]_(Promise!vars)
<1> SUFFICES ASSUME TypeOK, Coherent, [Next]_vars PROVE [Promise!Next]_(Promise!vars)
  OBVIOUS
<1>1. ASSUME UNCHANGED <<desired, cache, child>>, \A k \in Mirrored : view'[k] = view[k]
      PROVE  UNCHANGED Promise!vars
  BY <1>1 DEF Promise!vars, Known
<1>2. CASE Call
  BY <1>2, CallPromised
<1>3. CASE Destroy
  <2>1. \A k \in Mirrored : ~Known(k)'
    BY <1>3 DEF Destroy, Known
  <2> QED
    BY <1>3, <2>1 DEF Destroy, Promise!Next, Promise!Close
<1>4. CASE Crash
  <2>1. \A k \in Mirrored : ~Known(k)'
    BY <1>4 DEF Crash, Known
  <2> QED
    BY <1>4, <2>1 DEF Crash, Promise!Next, Promise!Forget
<1>5. CASE SendOk
  BY <1>5, SendOkPromised
<1>6. CASE SendBlocked \/ FlushDone \/ Trim \/ ToneIfChanged \/ Stall \/ Unstall
  BY <1>1, <1>6 DEF SendBlocked, FlushDone, Trim, ToneIfChanged, Stall, Unstall
<1>7. CASE Reap \/ BrokenPipe
  BY <1>7, RestartPromised DEF Reap, BrokenPipe
<1>8. CASE Drain
  BY <1>1, <1>8, RestartPromised DEF Drain
<1>9. CASE VideoEnds
  <2>1. \A f \in Mirrored : view'[f] = view[f]
    BY <1>9 DEF VideoEnds, StoppedVideo, TypeOK, Mirrored, Fields, Cached
  <2> QED
    BY <1>1, <1>9, <2>1 DEF VideoEnds
<1>10. CASE UNCHANGED vars
  BY <1>1, <1>10 DEF vars
<1> QED
  BY <1>2, <1>3, <1>4, <1>5, <1>6, <1>7, <1>8, <1>9, <1>10 DEF Next, Send

\* The supervision, with its crashes, nested replays and timed out sends,
\* takes no step that its promise does not allow.
THEOREM KeepsItsPromise == Spec => Promise!Init /\ [][Promise!Next]_(Promise!vars)
<1>1. Init => TypeOK /\ Coherent /\ Promise!Init
  BY InitTyped, InitCoherent, InitPromised
<1>2. TypeOK /\ Coherent /\ [Next]_vars => (TypeOK /\ Coherent)' /\ [Promise!Next]_(Promise!vars)
  BY StepTypedNext, NextCoherent, NextPromised
<1> QED
  BY <1>1, <1>2, PTL DEF Spec

=============================================================================
