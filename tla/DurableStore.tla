---------------------------- MODULE DurableStore ----------------------------
(***************************************************************************)
(* What extended weak references promise to a program: a store with a      *)
(* volatile and a durable side.  An object set by the program is at first  *)
(* in the volatile side only, and its old version is gone.  Later it is    *)
(* saved, and it may go back to the volatile side to make room.  A reset   *)
(* brings back what was saved, and of the rest what the memory retained.   *)
(* Nothing else is ever stored, and nothing saved changes under a program  *)
(* that does not set or drop it.                                           *)
(***************************************************************************)
EXTENDS Integers

CONSTANTS Id, Value, NONE

VARIABLES
    cache,   \* what the program sees under each identity
    stored   \* what survives the loss of the memory

vars == <<cache, stored>>

Init ==
    /\ cache = [i \in Id |-> NONE]
    /\ stored = [i \in Id |-> NONE]

\* The program sets an object: until it is saved, neither version is durable.
Put(i, v) ==
    /\ cache' = [cache EXCEPT ![i] = v]
    /\ stored' = [stored EXCEPT ![i] = NONE]

\* Objects that nobody wants any longer, or for which there is no memory.
Forget(S) ==
    /\ cache' = [i \in Id |-> IF i \in S THEN NONE ELSE cache[i]]
    /\ stored' = [i \in Id |-> IF i \in S THEN NONE ELSE stored[i]]

Save(i) ==
    /\ stored' = [stored EXCEPT ![i] = cache[i]]
    /\ UNCHANGED cache

Withdraw(i) ==
    /\ stored' = [stored EXCEPT ![i] = NONE]
    /\ UNCHANGED cache

\* S is what the memory retains over the reset.
Reset(S) ==
    /\ cache' = [i \in Id |-> IF stored[i] # NONE THEN stored[i]
                              ELSE IF i \in S THEN cache[i] ELSE NONE]
    /\ UNCHANGED stored

Next ==
    \/ \E i \in Id : \/ \E v \in Value : Put(i, v)
                     \/ Save(i)
                     \/ Withdraw(i)
    \/ \E S \in SUBSET Id : Forget(S) \/ Reset(S)

Spec == Init /\ [][Next]_vars

=============================================================================
