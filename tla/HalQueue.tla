------------------------------ MODULE HalQueue ------------------------------
(***************************************************************************)
(* Hal_Queue_UnknownSize, the ring buffer of the PAL's drivers.  A queue   *)
(* is a record of the members of the class.  The class hands out pointers  *)
(* into m_data and its callers copy under the same lock, so here Push      *)
(* stores the bytes and Front is what a caller copies before Pop.  A place *)
(* that was popped is Free: no caller may use it again.                    *)
(***************************************************************************)
EXTENDS Integers, Sequences

Free == -1      \* what a place holds that is not in use

\* A queue of n bytes from S
QueueType(n, S) ==
    {q \in [writer : 0..(n - 1), reader : 0..(n - 1), size : {n},
            full : BOOLEAN, data : [0..(n - 1) -> {Free} \cup S]] :
        q.full => q.writer = q.reader}

Initialize(n) ==
    [writer |-> 0, reader |-> 0, size |-> n, full |-> FALSE,
     data |-> [i \in 0..(n - 1) |-> Free]]

NumberOfElements(q) ==
    IF q.writer < q.reader THEN q.size + q.writer - q.reader
    ELSE IF q.full THEN q.size
    ELSE q.writer - q.reader

IsEmpty(q) == q.writer = q.reader /\ ~q.full

\* operator[]: the byte that is i places behind the reader
At(q, i) == q.data[IF q.reader + i >= q.size THEN q.reader + i - q.size
                                              ELSE q.reader + i]

Contents(q) == [i \in 1..NumberOfElements(q) |-> At(q, i - 1)]

\* A mutation: the index runs on past the end of the buffer.
Wrap_Past(q, i) == i

Wrap(q, i) == IF i = q.size THEN 0 ELSE i

AtMost(a, b) == IF a < b THEN a ELSE b

\* A mutation: a Push goes on to the end, over bytes that were not read.
Room_PastReader(q, n) ==
    IF q.full THEN 0 ELSE AtMost(q.size - q.writer, n)

\* How many of n bytes one Push takes: a Push does not go past the end
Room(q, n) ==
    IF q.full THEN 0
    ELSE AtMost(IF q.writer < q.reader THEN q.reader - q.writer
                                       ELSE q.size - q.writer, n)

Push(q, bytes) ==
    LET end == Wrap(q, q.writer + Len(bytes))
    IN  [q EXCEPT
            !.writer = end,
            !.full = (end = q.reader),
            !.data = [i \in 0..(q.size - 1) |->
                        IF q.writer <= i /\ i < q.writer + Len(bytes)
                        THEN bytes[i - q.writer + 1] ELSE q.data[i]]]

\* A mutation: the writer at the place of the reader is taken for one in
\* front of it.
Given_WhenFull(q, n) ==
    IF IsEmpty(q) THEN 0
    ELSE AtMost(IF q.writer < q.reader THEN q.size - q.reader
                                       ELSE q.writer - q.reader, n)

\* How many of n bytes one Pop gives: a Pop does not go past the end
Given(q, n) ==
    IF IsEmpty(q) THEN 0
    ELSE AtMost(IF q.writer <= q.reader THEN q.size - q.reader
                                        ELSE q.writer - q.reader, n)

Front(q, n) == [i \in 1..Given(q, n) |-> q.data[q.reader + i - 1]]

\* Pop moves both ends of an empty queue to the start of the buffer
Pop(q, n) ==
    IF n = 0 THEN q
    ELSE IF IsEmpty(q) THEN [q EXCEPT !.writer = 0, !.reader = 0]
    ELSE [q EXCEPT
            !.reader = Wrap(q, q.reader + Given(q, n)),
            !.full = FALSE,
            !.data = [i \in 0..(q.size - 1) |->
                        IF q.reader <= i /\ i < q.reader + Given(q, n)
                        THEN Free ELSE q.data[i]]]
=============================================================================
