---------------------------- MODULE RequestsProofs ----------------------------
(***************************************************************************)
(* Proofs about Requests, for any configurations and videos and for any    *)
(* number of requests and of stops.                                        *)
(***************************************************************************)
EXTENDS Requests, TLAPS

-----------------------------------------------------------------------------
(* Types.  What the operators and the machines change is in different       *)
(* parts, so that a step disturbs few of them.                              *)

Parts ==
  /\ pending \in [Machines -> Configs \cup {None}]
  /\ shown \in [Machines -> Configs] /\ current \in [Machines -> Configs]
  /\ file \in [Machines -> Configs \cup {Torn}]
  /\ taken \in [Machines -> Configs \cup {None}] /\ fetched \in Configs \cup {None}

Places == stage \in [Machines -> Stages]

Commands ==
  /\ play \in Videos \cup {None} /\ player \in Videos \cup {None}
  /\ stop \in BOOLEAN /\ open \in BOOLEAN
  /\ last \in Videos \cup {None, "either"}

Ghosts ==
  /\ accepted \in [Machines -> Configs] /\ apart \in BOOLEAN
  /\ unsure \subseteq Machines /\ unsaved \subseteq Machines
  /\ left \in [puts : 0..MaxPuts, asks : 0..MaxAsks, stops : 0..MaxStops]

LEMMA TypeParts ==
  /\ TypeOK <=> Parts /\ Places /\ Commands /\ Ghosts
  /\ TypeOK' <=> Parts' /\ Places' /\ Commands' /\ Ghosts'
BY DEF TypeOK, Parts, Places, Commands, Ghosts

\* What is taken in hand stays there until it is in use.
InHand ==
  /\ \A m \in Machines : stage[m] \in {"fetch", "put", "show", "open", "write", "use"} =>
       taken[m] # None
  /\ stage["pc"] = "put" => fetched # None
  /\ stage["pi"] \notin {"fetch", "put", "play", "stop"}

\* What is written, before it is used.
WrittenFirst ==
  \A m \in Machines : stage[m] = "use" => m \in unsaved \/ file[m] = taken[m]

\* Which command was the last, while it waits.
Waiting ==
  /\ stop <=> open
  /\ stop => last \in {None, "either"}
  /\ stop /\ play # None /\ stage["pc"] = "stop" => last = "either"
  /\ ~stop => last \in {IF play = None THEN player ELSE play, "either"}

IInv == TypeOK /\ InHand /\ RunningIsSaved /\ WrittenFirst /\ Waiting


-----------------------------------------------------------------------------
(* What a step may be.                                                      *)

\* A step of the machine m.
Of(m) ==
  \/ Take(m) \/ NothingToTake(m) \/ Show(m) \/ Open(m)
  \/ Write(m) \/ WriteFails(m) \/ Use(m) \/ Stop(m) \/ Start(m)

LEMMA WantedAreConfigs == \A m \in Machines : Wanted(m) \subseteq Configs
BY DEF Wanted

LEMMA Steps ==
  ASSUME [Next]_vars
  PROVE  \/ \E m \in Machines : \E c \in Configs : Put(m, c)
         \/ \E v \in Videos : AskPlay(v)
         \/ AskStop
         \/ \E m \in Machines : Of(m)
         \/ Fetch \/ PutPi \/ TakePlay \/ TakeStop
         \/ UNCHANGED vars
BY WantedAreConfigs, Zenon DEF Next, Loop, Of

LEMMA Projections ==
  ASSUME TypeOK, fetched # None, taken["pc"] # None
  PROVE  Merged \in Configs
BY DEF TypeOK, Merged, Configs, Machines

LEMMA MachinesAre == Machines = {"pc", "pi"}
BY DEF Machines

LEMMA PartsPreserved ==
  ASSUME TypeOK, InHand, [Next]_vars
  PROVE  Parts'
<1> USE DEF TypeOK, Parts
<1>1. ASSUME NEW m \in Machines, NEW c \in Configs, Put(m, c) PROVE Parts'
  BY <1>1 DEF Put, Accept
<1>2. ASSUME NEW v \in Videos, AskPlay(v) PROVE Parts'
  BY <1>2 DEF AskPlay, config
<1>3. CASE AskStop
  BY <1>3 DEF AskStop, config
<1>4. ASSUME NEW m \in Machines, Take(m) PROVE Parts'
  BY <1>4 DEF Take
<1>5. ASSUME NEW m \in Machines, NothingToTake(m) PROVE Parts'
  BY <1>5 DEF NothingToTake, config
<1>6. ASSUME NEW m \in Machines, Show(m) PROVE Parts'
  BY <1>6, ConstantsAssumption DEF Show, Goes, InHand
<1>7. ASSUME NEW m \in Machines, Open(m) PROVE Parts'
  BY <1>7 DEF Open
<1>8. ASSUME NEW m \in Machines, Write(m) \/ WriteFails(m) PROVE Parts'
  <2>1. CASE Write(m)
    BY <2>1 DEF Write, Goes, InHand
  <2>2. CASE WriteFails(m)
    BY <2>2 DEF WriteFails, config
  <2> QED
    BY <1>8, <2>1, <2>2
<1>9. ASSUME NEW m \in Machines, Use(m) PROVE Parts'
  BY <1>9 DEF Use, Goes, InHand
<1>10. ASSUME NEW m \in Machines, Stop(m) PROVE Parts'
  BY <1>10 DEF Stop
<1>11. ASSUME NEW m \in Machines, Start(m) PROVE Parts'
  BY <1>11 DEF Start
<1>12. CASE Fetch
  BY <1>12, MachinesAre DEF Fetch, Goes, InHand, Configs
<1>13. CASE PutPi
  <2>1. Merged \in Configs
    BY <1>13, Projections, MachinesAre DEF PutPi, Goes, InHand
  <2> QED
    BY <1>13, <2>1, MachinesAre DEF PutPi, Accept
<1>14. CASE TakePlay
  BY <1>14 DEF TakePlay, config
<1>15. CASE TakeStop
  BY <1>15 DEF TakeStop, config
<1>16. CASE UNCHANGED vars
  BY <1>16 DEF vars, config
<1> QED
  BY <1>1, <1>2, <1>3, <1>4, <1>5, <1>6, <1>7, <1>8, <1>9, <1>10, <1>11, <1>12, <1>13,
     <1>14, <1>15, <1>16, Steps, Zenon DEF Of

LEMMA PlacesPreserved ==
  ASSUME TypeOK, [Next]_vars
  PROVE  Places'
<1> USE DEF TypeOK, Places
<1>1. ASSUME NEW m \in Machines, NEW c \in Configs, Put(m, c) PROVE Places'
  BY <1>1 DEF Put
<1>2. ASSUME NEW v \in Videos, AskPlay(v) PROVE Places'
  BY <1>2 DEF AskPlay
<1>3. CASE AskStop
  BY <1>3 DEF AskStop
<1>4. ASSUME NEW m \in Machines, Of(m) PROVE Places'
  BY <1>4 DEF Of, Take, NothingToTake, Show, Open, Write, WriteFails, Use, Stop, Start, Goes, Stages
<1>5. CASE Fetch \/ PutPi \/ TakePlay \/ TakeStop
  BY <1>5, MachinesAre DEF Fetch, PutPi, TakePlay, TakeStop, Goes, Stages
<1>6. CASE UNCHANGED vars
  BY <1>6 DEF vars
<1> QED
  BY <1>1, <1>2, <1>3, <1>4, <1>5, <1>6, Steps, Zenon

LEMMA CommandsPreserved ==
  ASSUME TypeOK, [Next]_vars
  PROVE  Commands'
<1> USE DEF TypeOK, Commands
<1>1. ASSUME NEW m \in Machines, NEW c \in Configs, Put(m, c) PROVE Commands'
  BY <1>1 DEF Put, commands
<1>2. ASSUME NEW v \in Videos, AskPlay(v) PROVE Commands'
  BY <1>2 DEF AskPlay
<1>3. CASE AskStop
  BY <1>3 DEF AskStop
<1>4. ASSUME NEW m \in Machines, Of(m) PROVE Commands'
  BY <1>4 DEF Of, Take, NothingToTake, Show, Open, Write, WriteFails, Use, Stop, Start, commands
<1>5. CASE Fetch \/ PutPi
  BY <1>5 DEF Fetch, PutPi, commands
<1>6. CASE TakePlay \/ TakeStop
  BY <1>6 DEF TakePlay, TakeStop
<1>7. CASE UNCHANGED vars
  BY <1>7 DEF vars, commands
<1> QED
  BY <1>1, <1>2, <1>3, <1>4, <1>5, <1>6, <1>7, Steps, Zenon

LEMMA GhostsPreserved ==
  ASSUME TypeOK, InHand, [Next]_vars
  PROVE  Ghosts'
<1> USE ConstantsAssumption DEF TypeOK, Ghosts
<1>1. ASSUME NEW m \in Machines, NEW c \in Configs, Put(m, c) PROVE Ghosts'
  BY <1>1 DEF Put, Accept
<1>2. ASSUME NEW v \in Videos, AskPlay(v) PROVE Ghosts'
  BY <1>2 DEF AskPlay, ghosts
<1>3. CASE AskStop
  BY <1>3 DEF AskStop, ghosts
<1>4. ASSUME NEW m \in Machines, Of(m), ~Stop(m) PROVE Ghosts'
  <2>1. UNCHANGED <<accepted, unsure, left>>
    BY <1>4, Zenon DEF Of, Take, NothingToTake, Show, Open, Write, WriteFails, Use, Start, ghosts
  <2>2. unsaved' \subseteq Machines
    BY <1>4 DEF Of, Take, NothingToTake, Show, Open, Write, WriteFails, Use, Start, ghosts
  <2>3. apart' \in BOOLEAN
    BY <1>4, Zenon DEF Of, Take, NothingToTake, Show, Open, Write, WriteFails, Use, Start, ghosts
  <2> QED
    BY <2>1, <2>2, <2>3
<1>5. ASSUME NEW m \in Machines, Stop(m) PROVE Ghosts'
  BY <1>5 DEF Stop
<1>6. CASE Fetch
  BY <1>6 DEF Fetch, ghosts
<1>7. CASE PutPi
  <2>1. Merged \in Configs
    BY <1>7, Projections, MachinesAre DEF PutPi, Goes, InHand
  <2>2. accepted' \in {accepted, [accepted EXCEPT !["pi"] = Merged]}
    BY <1>7, Zenon DEF PutPi, Accept
  <2>3. unsure' \subseteq unsure
    BY <1>7, Zenon DEF PutPi, Accept
  <2>4. apart' \in BOOLEAN
    BY <1>7, Zenon DEF PutPi
  <2> QED
    BY <1>7, <2>1, <2>2, <2>3, <2>4 DEF PutPi
<1>8. CASE TakePlay \/ TakeStop
  BY <1>8 DEF TakePlay, TakeStop, ghosts
<1>9. CASE UNCHANGED vars
  BY <1>9 DEF vars, ghosts
<1> QED
  BY <1>1, <1>2, <1>3, <1>4, <1>5, <1>6, <1>7, <1>8, <1>9, Steps, Zenon

LEMMA TypePreserved ==
  ASSUME TypeOK, InHand, [Next]_vars
  PROVE  TypeOK'
BY PartsPreserved, PlacesPreserved, CommandsPreserved, GhostsPreserved, TypeParts

-----------------------------------------------------------------------------
(* Configurations.                                                          *)

\* Where a machine is, and what it has in hand, changes with its own steps only.
LEMMA InHandPreserved ==
  ASSUME TypeOK, InHand, [Next]_vars
  PROVE  InHand'
<1> USE ConstantsAssumption, MachinesAre DEF TypeOK, InHand
<1>1. ASSUME NEW m \in Machines, NEW c \in Configs, Put(m, c) PROVE InHand'
  BY <1>1 DEF Put
<1>2. ASSUME NEW v \in Videos, AskPlay(v) PROVE InHand'
  BY <1>2 DEF AskPlay, config
<1>3. CASE AskStop
  BY <1>3 DEF AskStop, config
<1>4. ASSUME NEW m \in Machines, Take(m) PROVE InHand'
  BY <1>4 DEF Take, Goes, PushesPi
<1>5. ASSUME NEW m \in Machines, NothingToTake(m) \/ Show(m) \/ Open(m) \/ Write(m) \/ WriteFails(m)
      PROVE  InHand'
  BY <1>5 DEF NothingToTake, Show, Open, Write, WriteFails, Goes, config
<1>6. ASSUME NEW m \in Machines, Use(m) \/ Stop(m) \/ Start(m) PROVE InHand'
  BY <1>6 DEF Use, Stop, Start, Goes
<1>7. CASE Fetch
  BY <1>7 DEF Fetch, Goes, Configs
<1>8. CASE PutPi
  BY <1>8 DEF PutPi, Goes
<1>9. CASE TakePlay \/ TakeStop
  BY <1>9 DEF TakePlay, TakeStop, Goes, config
<1>10. CASE UNCHANGED vars
  BY <1>10 DEF vars, config
<1> QED
  BY <1>1, <1>2, <1>3, <1>4, <1>5, <1>6, <1>7, <1>8, <1>9, <1>10, Steps, Zenon DEF Of

Saved == RunningIsSaved /\ WrittenFirst

LEMMA SavedPreserved ==
  ASSUME TypeOK, Saved, [Next]_vars
  PROVE  Saved'
<1> USE MachinesAre DEF TypeOK, Saved, RunningIsSaved, WrittenFirst, Runs, ghosts
<1>1. ASSUME NEW m \in Machines, NEW c \in Configs, Put(m, c) PROVE Saved'
  BY <1>1 DEF Put
<1>2. ASSUME NEW v \in Videos, AskPlay(v) PROVE Saved'
  BY <1>2 DEF AskPlay, config
<1>3. CASE AskStop
  BY <1>3 DEF AskStop, config
<1>4. ASSUME NEW m \in Machines, Take(m) \/ NothingToTake(m) \/ Show(m) PROVE Saved'
  BY <1>4 DEF Take, NothingToTake, Show, Goes, config
<1>5. ASSUME NEW m \in Machines, Open(m) \/ Write(m) \/ WriteFails(m) PROVE Saved'
  BY <1>5 DEF Open, Write, WriteFails, Goes, config
<1>6. ASSUME NEW m \in Machines, Use(m) PROVE Saved'
  BY <1>6 DEF Use, Goes
<1>7. ASSUME NEW m \in Machines, Stop(m) \/ Start(m) PROVE Saved'
  BY <1>7 DEF Stop, Start, Goes
<1>8. CASE Fetch \/ PutPi
  BY <1>8 DEF Fetch, PutPi, Goes
<1>9. CASE TakePlay \/ TakeStop
  BY <1>9 DEF TakePlay, TakeStop, Goes, config
<1>10. CASE UNCHANGED vars
  BY <1>10 DEF vars, config
<1> QED
  BY <1>1, <1>2, <1>3, <1>4, <1>5, <1>6, <1>7, <1>8, <1>9, <1>10, Steps, Zenon DEF Of

-----------------------------------------------------------------------------
(* Commands.                                                                *)

LEMMA WaitingPreserved ==
  ASSUME TypeOK, Waiting, [Next]_vars
  PROVE  Waiting'
<1> USE MachinesAre DEF TypeOK, Waiting
<1>1. ASSUME NEW m \in Machines, NEW c \in Configs, Put(m, c) PROVE Waiting'
  BY <1>1 DEF Put, commands
<1>2. ASSUME NEW v \in Videos, AskPlay(v) PROVE Waiting'
  <2>1. UNCHANGED <<stop, open>> /\ play' = v
    BY <1>2 DEF AskPlay
  <2>2. last' = IF open THEN "either" ELSE v
    BY <1>2 DEF AskPlay
  <2>3. CASE stop
    BY <2>1, <2>2, <2>3
  <2>4. CASE ~stop
    <3>1. ~stop' /\ ~open' /\ last' = v
      BY <2>1, <2>2, <2>4, Zenon
    <3>2. v # None
      BY ConstantsAssumption
    <3>3. last' \in {IF play' = None THEN player' ELSE play', "either"}
      BY <2>1, <3>1, <3>2
    <3> QED
      BY <3>1, <3>3, Zenon
  <2> QED
    BY <2>3, <2>4
<1>3. CASE AskStop
  BY <1>3 DEF AskStop
<1>4. ASSUME NEW m \in Machines, Of(m), ~Stop(m) PROVE Waiting'
  BY <1>4 DEF Of, Take, NothingToTake, Show, Open, Write, WriteFails, Use, Start, Goes, commands
<1>5. ASSUME NEW m \in Machines, Stop(m) PROVE Waiting'
  BY <1>5 DEF Stop, commands
<1>6. CASE Fetch \/ PutPi
  BY <1>6 DEF Fetch, PutPi, Goes, commands
<1>7. CASE TakePlay
  BY <1>7 DEF TakePlay, Goes
<1>8. CASE TakeStop
  BY <1>8 DEF TakeStop, Goes
<1>9. CASE UNCHANGED vars
  BY <1>9 DEF vars, commands
<1> QED
  BY <1>1, <1>2, <1>3, <1>4, <1>5, <1>6, <1>7, <1>8, <1>9, Steps, Zenon

-----------------------------------------------------------------------------
(* The theorems.                                                            *)

LEMMA Invariant == Spec => []IInv
<1>1. Init => IInv
  <2> SUFFICES ASSUME Init PROVE IInv
    OBVIOUS
  <2> USE ConstantsAssumption, MachinesAre DEF Init
  <2>1. Parts /\ Places
    BY DEF Parts, Places, Stages, Wanted
  <2>2. Commands
    BY DEF Commands
  <2>3. Ghosts
    <3>0. \A m \in Machines : accepted[m] \in Configs
      BY DEF Wanted
    <3>1. /\ accepted \in [Machines -> Configs]
          /\ unsure \subseteq Machines /\ unsaved \subseteq Machines
      BY <3>0 DEF Wanted
    <3>2. apart \in BOOLEAN
      BY Zenon
    <3>3. left \in [puts : 0..MaxPuts, asks : 0..MaxAsks, stops : 0..MaxStops]
      OBVIOUS
    <3> QED
      BY <3>1, <3>2, <3>3 DEF Ghosts
  <2>4. InHand /\ Saved /\ Waiting
    BY DEF InHand, Saved, RunningIsSaved, WrittenFirst, Waiting
  <2> QED
    BY <2>1, <2>2, <2>3, <2>4, TypeParts DEF IInv, Saved
<1>2. IInv /\ [Next]_vars => IInv'
  BY TypePreserved, InHandPreserved, SavedPreserved, WaitingPreserved DEF IInv, Saved
<1> QED
  BY <1>1, <1>2, PTL DEF Spec

\* Every variable of the API, the loops and the services keeps its type.
THEOREM TypeCorrect == Spec => []TypeOK
<1>1. IInv => TypeOK
  BY DEF IInv
<1> QED
  BY <1>1, Invariant, PTL

\* What a machine works with is what it would start with again, except while it
\* writes the next configuration or after a write that failed: for any configurations, and wherever in a reload
\* the services are killed and restarted.
THEOREM WhatRunsIsSaved == Spec => []RunningIsSaved
<1>1. IInv => RunningIsSaved
  BY DEF IInv
<1> QED
  BY <1>1, Invariant, PTL

\* When everything accepted has been carried out, what is played is what was asked
\* for last, except where two requests change places: for any number of videos,
\* plays and stops.
THEOREM TheLastCommandWins == Spec => []LastCommandWins
<1>1. IInv => LastCommandWins
  BY DEF IInv, Waiting, LastCommandWins
<1> QED
  BY <1>1, Invariant, PTL

=============================================================================
