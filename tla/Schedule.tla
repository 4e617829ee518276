------------------------------ MODULE Schedule ------------------------------
(***************************************************************************)
(* The operating hours: minutesSinceMidnight() and beaconScheduleActive()  *)
(* of src/src/daemon.cpp.  Outside them the beacon is silent unless        *)
(* somebody uses the repeater.  What the other modules call the allowed    *)
(* beacon is the value of this function, which they let change at any      *)
(* time.                                                                   *)
(*                                                                         *)
(* Times are UTC and given as minutes of the day; parseClockTime() lets    *)
(* nothing but a time of the day through.                                  *)
(***************************************************************************)
EXTENDS Integers

Hour == 60
Day == 24 * Hour
Minutes == 0..Day - 1

\* minutesSinceMidnight(), of the four digits of "hh:mm".
MinutesSinceMidnight(h1, h2, m1, m2) == (h1 * 10 + h2) * Hour + (m1 * 10 + m2)

\* beaconScheduleActive(), if there is a schedule.  A schedule that ends when it
\* begins lasts all day, and one that ends before it begins goes on past midnight.
BeaconScheduleActive(start, end, current) ==
  \/ start = end
  \/ start < end /\ start <= current /\ current < end
  \/ end < start /\ (start <= current \/ current < end)

-----------------------------------------------------------------------------
(* What it is meant to be.                                                  *)

\* How long after `from' the next time is that the clock shows `to'.
After(from, to) == (to - from) % Day

\* The clock that runs round: on from `start' until just before `end'.
OnFrom(start, end, current) == start = end \/ After(start, current) < After(start, end)

=============================================================================
