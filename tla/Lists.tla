------------------------------- MODULE Lists -------------------------------
(***************************************************************************)
(* The intrusive doubly linked lists of the runtime (CLR_RT_DblLinkedList) *)
(* and of the HAL (HAL_DblLinkedList): the sequence of the nodes.  A node  *)
(* has one pair of links, so that it is in one list at a time and linking  *)
(* it removes it from where it is.                                         *)
(***************************************************************************)
EXTENDS Integers, Sequences

Members(s) == {s[i] : i \in 1..Len(s)}

\* The list without its i-th node.
Drop(s, i) == [j \in 1..(Len(s) - 1) |-> IF j < i THEN s[j] ELSE s[j + 1]]

Position(s, x) == CHOOSE i \in 1..Len(s) : s[i] = x

\* Unlink: a node that is in no list has no neighbours and nothing changes.
Unlink(s, x) == IF x \in Members(s) THEN Drop(s, Position(s, x)) ELSE s

\* LinkAtBack unlinks the node from wherever it is first.
LinkAtBack(s, x) == Append(Unlink(s, x), x)

\* InsertBeforeNode of a node x that is not in the list: x is before the node
\* at k, or at the end when k is the tail.
InsertBefore(s, k, x) ==
    [j \in 1..(Len(s) + 1) |-> IF j < k THEN s[j] ELSE IF j = k THEN x ELSE s[j - 1]]

=============================================================================
