------------------------------- MODULE Clock -------------------------------
(* The wall clock the service and the SMS gateway read.  Both machines are  *)
(* taken to show the same time; a tick is the unit of all the durations.    *)
EXTENDS Integers

CONSTANT MaxTime  \* bound: no step goes beyond this time

ASSUME MaxTimeAssumption == MaxTime \in Nat

VARIABLE now

ClockInit == now = 0

\* Time passes between any two steps of the programs.
Tick == now < MaxTime /\ now' = now + 1

=============================================================================
