------------------------------- MODULE Mirror -------------------------------
(***************************************************************************)
(* What the media child's supervision promises its caller, with no         *)
(* messages, caches or processes in it: `want' is what the daemon asks     *)
(* for, `have' what the transmitting side has been told of it.  The other  *)
(* side may lose everything at any moment; whatever it learns is what is   *)
(* wanted at that moment; and it does learn it, unless it is closed.       *)
(***************************************************************************)
CONSTANTS Kinds, Value(_), Unknown   \* Unknown is no value of any kind

VARIABLES want, have, open

vars == <<want, have, open>>

TypeOK ==
  /\ \A k \in Kinds : want[k] \in Value(k) /\ have[k] \in Value(k) \cup {Unknown}
  /\ open \in BOOLEAN

Init ==
  /\ \A k \in Kinds : want[k] \in Value(k)
  /\ have = [k \in Kinds |-> Unknown]
  /\ open = TRUE

\* The caller asks for something else.
Want(k) ==
  /\ open
  /\ \E v \in Value(k) : want' = [want EXCEPT ![k] = v]
  /\ UNCHANGED <<have, open>>

\* The other side learns what is wanted now.
Learn(k) ==
  /\ open
  /\ have[k] # want[k]
  /\ have' = [have EXCEPT ![k] = want[k]]
  /\ UNCHANGED <<want, open>>

\* The other side dies.
Forget ==
  /\ open
  /\ have' = [k \in Kinds |-> Unknown]
  /\ UNCHANGED <<want, open>>

Close ==
  /\ open' = FALSE
  /\ have' = [k \in Kinds |-> Unknown]
  /\ UNCHANGED want

Next == Forget \/ Close \/ \E k \in Kinds : Want(k) \/ Learn(k)

Spec == Init /\ [][Next]_vars /\ \A k \in Kinds : WF_vars(Learn(k))

=============================================================================
