---------------------------- MODULE MCScheduler ----------------------------
(* Small instances of Scheduler for TLC. *)
EXTENDS Scheduler

CONSTANTS t1, t2

\* GetQuantumDebit
Debits == [p \in Priority |-> 2 ^ (SystemHighest - p)]
=============================================================================
