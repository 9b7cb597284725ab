------------------------------- MODULE MCWire -------------------------------
(* Small instances of Wire for TLC. *)
EXTENDS Wire

CONSTANTS write, read, status

Sizes == [c \in Cmd |-> IF c = write THEN 2 ELSE 0]
ReplySizes == [c \in Cmd |-> IF c = read THEN 2 ELSE 0]
RetriesOf == [c \in Cmd |-> IF c = status THEN 2 ELSE 5]
=============================================================================
