--------------------------- MODULE MCCompletions ---------------------------
(* Instances of Completions for TLC. *)
EXTENDS Completions

CONSTANTS isr1, isr2, user1, timer, com

=============================================================================
