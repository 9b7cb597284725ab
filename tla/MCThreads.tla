----------------------------- MODULE MCThreads -----------------------------
(***************************************************************************)
(* Small instances of Threads for TLC.  Each configuration chooses the     *)
(* calls the managed program makes, so that every question is asked with   *)
(* the calls that bear on it and as few others as possible.                *)
(***************************************************************************)
EXTENDS Threads, TLC

\* Threads are interchangeable: nothing orders them and Init picks any main.
ThreadSymmetry == Permutations(Thread)
=============================================================================
