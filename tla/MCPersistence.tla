--------------------------- MODULE MCPersistence ---------------------------
(* Instances of Persistence for TLC. *)
EXTENDS Persistence, TLC

CONSTANTS a, b, v1, v2

\* All references have the default priority, so that the last set comes first.
OnePriority == [i \in Id |-> 0]

\* The first identity is more important than the second.
TwoPriorities == (a :> 1) @@ (b :> 0)

\* With one priority, identities and values are interchangeable.
StoreSymmetry == Permutations(Id) \cup Permutations(Value)

=============================================================================
