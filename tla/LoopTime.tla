------------------------------ MODULE LoopTime ------------------------------
(***************************************************************************)
(* Time in the daemon's loops.  A point in time that the code keeps is the *)
(* time that is left to it, and a time that has passed is counted no       *)
(* further than it makes a difference.                                     *)
(***************************************************************************)
EXTENDS Naturals

CONSTANT Pause    \* how long an iteration of a loop takes at most

ASSUME PauseAssumption == Pause \in Nat \ {0}

\* What is left of x, and what x has grown to, when dt has passed.
Less(x, dt) == IF x > dt THEN x - dt ELSE 0
More(x, dt, most) == IF x + dt > most THEN most ELSE x + dt

=============================================================================
