----------------------------- MODULE MCTimers ------------------------------
(* Instances of Timers for TLC. *)
EXTENDS Timers, TLC

CONSTANTS t1, t2, t3

\* Timers are interchangeable.
TimerSymmetry == Permutations(Timer)

\* Arguments: Timeout.Infinite is -1, and a period of 0 means once.
DuesSafety == {-1, 0, 1}
PeriodsSafety == {0, 2}
DueNow == {0}
PeriodsOnce == {-1}

=============================================================================
