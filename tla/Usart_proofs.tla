---------------------------- MODULE Usart_proofs ----------------------------
(***************************************************************************)
(* Theorems about Usart, for queues and requests of any size: first what   *)
(* the operators of HalQueue do to a queue, then what the two drivers do   *)
(* to a port, then the inductive invariants, each step by step.            *)
(***************************************************************************)
EXTENDS Usart, SequenceTheorems, TLAPS

(* The ring buffer. *)
\* The number of elements of a ring of n places between the reader r and the
\* writer w, and the place of its element i.
Count(n, w, r, f) ==
    IF w < r THEN n + w - r ELSE IF f THEN n ELSE w - r
Place(n, r, i) == IF r + i >= n THEN r + i - n ELSE r + i

Holds(q, s) ==
    /\ NumberOfElements(q) = Len(s)
    /\ \A h \in Int : 0 <= h /\ h < Len(s) => At(q, h) = s[h + 1]

\* The fields of a queue.
LEMMA QueueFields ==
    ASSUME NEW n \in Nat \ {0}, NEW S, NEW q \in QueueType(n, S)
    PROVE  /\ q.writer \in 0..(n - 1) /\ q.reader \in 0..(n - 1)
           /\ q.size = n /\ q.full \in BOOLEAN
           /\ q.data \in [0..(n - 1) -> {Free} \cup S]
           /\ q.full => q.writer = q.reader
BY DEF QueueType

\* The number of elements is what the indices say.
LEMMA CountType ==
    ASSUME NEW n \in Nat \ {0}, NEW S, NEW q \in QueueType(n, S)
    PROVE  /\ NumberOfElements(q) \in 0..n
           /\ NumberOfElements(q) = 0 <=> IsEmpty(q)
           /\ NumberOfElements(q) = n <=> q.full
BY QueueFields DEF NumberOfElements, IsEmpty

\* Contents is the sequence that the queue holds.
LEMMA HoldsContents ==
    ASSUME NEW n \in Nat \ {0}, NEW S, NEW q \in QueueType(n, S),
           NEW B, NEW s \in Seq(B)
    PROVE  Holds(q, s) <=> Contents(q) = s
<1>1. NumberOfElements(q) \in Nat /\ Len(s) \in Nat
  BY CountType
<1>2. ASSUME Holds(q, s) PROVE Contents(q) = s
  <2>1. s = [i \in 1..Len(s) |-> s[i]]
    OBVIOUS
  <2>2. ASSUME NEW i \in 1..Len(s) PROVE At(q, i - 1) = s[i]
    <3>1. PICK h \in Int : h = i - 1
      OBVIOUS
    <3>2. 0 <= h /\ h < Len(s) /\ h + 1 = i
      BY <1>1, <3>1
    <3>3. At(q, h) = s[h + 1]
      BY <1>2, <3>2 DEF Holds
    <3> QED BY <3>1, <3>2, <3>3
  <2>3. Contents(q) = [i \in 1..Len(s) |-> At(q, i - 1)]
    BY <1>2 DEF Contents, Holds
  <2> QED BY <2>1, <2>2, <2>3
<1>3. ASSUME Contents(q) = s PROVE Holds(q, s)
  <2> DEFINE k == NumberOfElements(q)
  <2>1. s = [i \in 1..k |-> At(q, i - 1)]
    BY <1>3 DEF Contents
  <2>2. DOMAIN s = 1..k
    BY <2>1
  <2>3. Len(s) = k
    <3> HIDE DEF k
    <3> QED BY <1>1, <2>2 DEF k
  <2>4. \A i \in 1..k : s[i] = At(q, i - 1)
    BY <2>1
  <2>5. ASSUME NEW h \in Int, 0 <= h, h < Len(s) PROVE At(q, h) = s[h + 1]
    <3>1. PICK i \in Int : i = h + 1
      OBVIOUS
    <3>2. i \in 1..k /\ i - 1 = h
      <4> HIDE DEF k
      <4> QED BY <1>1, <2>3, <2>5, <3>1
    <3>3. s[i] = At(q, i - 1)
      BY <2>4, <3>2
    <3> QED BY <3>1, <3>2, <3>3
  <2> QED BY <2>3, <2>5 DEF Holds
<1> QED BY <1>2, <1>3

\* A new queue is empty.
LEMMA InitializeLemma ==
    ASSUME NEW n \in Nat \ {0}, NEW S
    PROVE  Initialize(n) \in QueueType(n, S) /\ Holds(Initialize(n), <<>>)
<1>1. Initialize(n) \in QueueType(n, S)
  BY DEF Initialize, QueueType
<1>2. NumberOfElements(Initialize(n)) = 0
  BY DEF NumberOfElements, Initialize
<1> QED BY <1>1, <1>2 DEF Holds

\* There is room for at least one byte, unless the queue is full.
LEMMA RoomLemma ==
    ASSUME NEW n \in Nat \ {0}, NEW S, NEW q \in QueueType(n, S), NEW k \in Nat
    PROVE  /\ Room(q, k) \in 0..k
           /\ Room(q, k) + NumberOfElements(q) <= n
           /\ Room(q, k) + q.writer <= n
           /\ q.writer < q.reader => Room(q, k) + q.writer <= q.reader
           /\ (~q.full /\ k # 0) => Room(q, k) # 0
           /\ q.full => Room(q, k) = 0
BY QueueFields DEF Room, AtMost, NumberOfElements

\* The ring in terms of its indices.
LEMMA Ring ==
    ASSUME NEW n \in Nat \ {0}, NEW S, NEW q \in QueueType(n, S)
    PROVE  /\ NumberOfElements(q) = Count(n, q.writer, q.reader, q.full)
           /\ \A i \in Int : At(q, i) = q.data[Place(n, q.reader, i)]
BY QueueFields DEF NumberOfElements, Count, At, Place

\* n, w, r: the size of the ring and the indices of the writer and the reader.
Indices(n, w, r) == 0 <= w /\ w < n /\ 0 <= r /\ r < n
Counted(l, n, w, r, f) == l = Count(n, w, r, f)
Advanced(e, n, w, m) == e = IF w + m = n THEN 0 ELSE w + m

\* There is room for m bytes behind w, or g bytes stand behind r, up to the
\* other index or the end of the buffer.
HasRoom(n, w, r, m) == 0 < m /\ w + m <= n /\ (w < r => w + m <= r)
HasBytes(n, w, r, f, g) ==
    /\ f => w = r
    /\ w = r => f
    /\ 0 < g /\ r + g <= n /\ (r < w => r + g <= w)

\* The bytes that are in the queue keep their places.
LEMMA OldPlace ==
    ASSUME NEW n \in Int, NEW w \in Int, NEW r \in Int, NEW m \in Int, NEW h \in Int,
           NEW l \in Int, Indices(n, w, r), HasRoom(n, w, r, m),
           Counted(l, n, w, r, FALSE), 0 <= h, h < l
    PROVE  /\ Place(n, r, h) \in 0..(n - 1)
           /\ ~(w <= Place(n, r, h) /\ Place(n, r, h) < w + m)
BY DEF Count, Counted, Place, Indices, HasRoom

\* The bytes that stay are those behind the popped ones.
LEMMA StayingPlace ==
    ASSUME NEW n \in Int, NEW w \in Int, NEW r \in Int, NEW g \in Int,
           NEW e \in Int, NEW f \in BOOLEAN, NEW h \in Int, NEW l \in Int,
           Indices(n, w, r), HasBytes(n, w, r, f, g), Advanced(e, n, r, g),
           Counted(l, n, w, r, f), 0 <= h, h < l - g
    PROVE  /\ Place(n, e, h) = Place(n, r, h + g)
           /\ Place(n, e, h) \in 0..(n - 1)
           /\ ~(r <= Place(n, e, h) /\ Place(n, e, h) < r + g)
BY DEF Count, Counted, Place, Indices, HasBytes, Advanced

\* l elements of s are in the ring.
Stored(n, r, data, s, l) ==
    \A h \in Int : 0 <= h /\ h < l => data[Place(n, r, h)] = s[h + 1]

\* The bytes of d are written at the m places from w; g places from r are freed.
Written(n, w, m, old, new, d) ==
    \A j \in 0..(n - 1) :
        new[j] = IF w <= j /\ j < w + m THEN d[j - w + 1] ELSE old[j]
Erased(n, r, g, old, new) ==
    \A j \in 0..(n - 1) : new[j] = IF r <= j /\ j < r + g THEN Free ELSE old[j]

\* t is s, of length l, with d behind it; t is s without its first g elements.
Joined(t, s, d, l, c) ==
    \A h \in Int : 0 <= h /\ h < c =>
        t[h + 1] = IF h < l THEN s[h + 1] ELSE d[h - l + 1]
Dropped(t, s, g, c) ==
    \A h \in Int : 0 <= h /\ h < c => t[h + 1] = s[h + g + 1]

\* What is stored behind the contents is appended to them.
LEMMA RingPush ==
    ASSUME NEW n \in Int, NEW w \in Int, NEW r \in Int, NEW m \in Int,
           NEW l \in Int, NEW c \in Int, NEW old, NEW new, NEW s, NEW d, NEW t,
           Indices(n, w, r), HasRoom(n, w, r, m), Counted(l, n, w, r, FALSE),
           Stored(n, r, old, s, l), Written(n, w, m, old, new, d),
           c = l + m, Joined(t, s, d, l, c)
    PROVE  Stored(n, r, new, t, c)
<1> SUFFICES ASSUME NEW h \in Int, 0 <= h, h < c
             PROVE  new[Place(n, r, h)] = t[h + 1]
  BY DEF Stored
<1>2. t[h + 1] = IF h < l THEN s[h + 1] ELSE d[h - l + 1]
  BY DEF Joined
<1>3. PICK a : a = Place(n, r, h)
  OBVIOUS
<1>4. CASE h < l
  <2>1. a \in 0..(n - 1) /\ ~(w <= a /\ a < w + m)
    BY <1>3, <1>4, OldPlace
  <2>2. new[a] = old[a]
    BY <2>1 DEF Written
  <2>3. old[Place(n, r, h)] = s[h + 1]
    BY <1>4 DEF Stored
  <2> QED BY <1>2, <1>3, <1>4, <2>2, <2>3
<1>5. CASE ~(h < l)
  <2>1. a \in 0..(n - 1) /\ w <= a /\ a < w + m /\ a - w + 1 = h - l + 1
    BY <1>3, <1>5 DEF Count, Counted, Place, Indices, HasRoom
  <2>2. new[a] = d[a - w + 1]
    BY <2>1 DEF Written
  <2> QED BY <1>2, <1>3, <1>5, <2>1, <2>2
<1> QED BY <1>4, <1>5

\* What is taken from the front is gone, and the rest stays.
LEMMA RingPop ==
    ASSUME NEW n \in Int, NEW w \in Int, NEW r \in Int, NEW g \in Int,
           NEW e \in Int, NEW f \in BOOLEAN, NEW l \in Int, NEW c \in Int,
           NEW old, NEW new, NEW s, NEW t,
           Indices(n, w, r), HasBytes(n, w, r, f, g), Advanced(e, n, r, g),
           Counted(l, n, w, r, f), Stored(n, r, old, s, l),
           Erased(n, r, g, old, new), c = l - g, Dropped(t, s, g, c)
    PROVE  Stored(n, e, new, t, c)
<1> SUFFICES ASSUME NEW h \in Int, 0 <= h, h < c
             PROVE  new[Place(n, e, h)] = t[h + 1]
  BY DEF Stored
<1>1. t[h + 1] = s[h + g + 1]
  BY DEF Dropped
<1>2. h < l - g
  OBVIOUS
<1>3. PICK a : a = Place(n, e, h)
  OBVIOUS
<1>4. /\ a = Place(n, r, h + g) /\ a \in 0..(n - 1)
      /\ ~(r <= a /\ a < r + g)
  BY <1>2, <1>3, StayingPlace
<1>5. new[a] = old[a]
  BY <1>4 DEF Erased
<1>6. PICK k \in Int : k = h + g
  OBVIOUS
<1>7. 0 <= k /\ k < l
  BY <1>6 DEF HasBytes
<1>8. old[Place(n, r, k)] = s[k + 1]
  BY <1>7 DEF Stored
<1> QED BY <1>1, <1>3, <1>4, <1>5, <1>6, <1>8

\* Push appends what there is room for.
LEMMA PushLemma ==
    ASSUME NEW n \in Nat \ {0}, NEW S, NEW q \in QueueType(n, S),
           NEW k \in Nat, NEW d \in Seq(S), Len(d) = Room(q, k), Len(d) # 0,
           NEW B, NEW s \in Seq(B), Holds(q, s)
    PROVE  Push(q, d) \in QueueType(n, S) /\ Holds(Push(q, d), s \o d)
<1>1. PICK m \in Int : m = Len(d)
  OBVIOUS
<1>2. PICK l \in Int : l = Len(s)
  OBVIOUS
<1>3. PICK w \in Int, r \in Int :
        /\ w = q.writer /\ r = q.reader
        /\ 0 <= w /\ w < n /\ 0 <= r /\ r < n
  BY QueueFields
<1>4. /\ q.size = n /\ q.full \in BOOLEAN
      /\ q.data \in [0..(n - 1) -> {Free} \cup S]
      /\ q.full => w = r
  BY <1>3, QueueFields
<1>5. Indices(n, w, r)
  BY <1>3 DEF Indices
<1>6. HasRoom(n, w, r, m) /\ q.full = FALSE /\ m \in Nat
  <2>1. /\ m \in 0..k /\ m # 0 /\ m + w <= n
        /\ w < r => m + w <= r
        /\ q.full => m = 0
    BY <1>1, <1>3, RoomLemma
  <2> QED BY <1>3, <1>4, <2>1 DEF HasRoom
<1>7. PICK e \in Int : e = Wrap(q, w + m)
  BY <1>4 DEF Wrap
<1>8. Advanced(e, n, w, m) /\ e \in 0..(n - 1)
  BY <1>3, <1>4, <1>6, <1>7 DEF Advanced, HasRoom, Wrap
<1>9. PICK new : new = [i \in 0..(q.size - 1) |->
                    IF w <= i /\ i < w + m THEN d[i - w + 1] ELSE q.data[i]]
  OBVIOUS
<1>10. new \in [0..(n - 1) -> {Free} \cup S] /\ Written(n, w, m, q.data, new, d)
  <2>1. \A j \in 1..m : d[j] \in S
    BY <1>1
  <2>2. \A i \in 0..(n - 1) : w <= i /\ i < w + m => i - w + 1 \in 1..m
    BY <1>3, <1>6
  <2>3. new = [i \in 0..(n - 1) |->
                    IF w <= i /\ i < w + m THEN d[i - w + 1] ELSE q.data[i]]
    BY <1>4, <1>9
  <2> QED BY <1>4, <2>1, <2>2, <2>3 DEF Written
<1>11. PICK p : p = Push(q, d)
  OBVIOUS
<1>12. p = [q EXCEPT !.writer = e, !.full = (e = r), !.data = new]
  BY <1>1, <1>3, <1>7, <1>9, <1>11 DEF Push
<1>13. p \in QueueType(n, S)
  BY <1>3, <1>4, <1>8, <1>10, <1>12 DEF QueueType
<1>14. /\ p.writer = e /\ p.reader = r /\ p.full \in BOOLEAN
       /\ p.full <=> e = r
       /\ p.data = new
  BY <1>3, <1>12 DEF QueueType
<1>15. Counted(l, n, w, r, FALSE)
  <2>1. l = NumberOfElements(q)
    BY <1>2 DEF Holds
  <2>2. NumberOfElements(q) = Count(n, q.writer, q.reader, q.full)
    BY Ring
  <2> QED BY <1>3, <1>6, <2>1, <2>2 DEF Counted
<1>16. Stored(n, r, q.data, s, l)
  <2>1. \A h \in Int : At(q, h) = q.data[Place(n, r, h)]
    BY <1>3, Ring
  <2>2. \A h \in Int : 0 <= h /\ h < l => At(q, h) = s[h + 1]
    BY <1>2 DEF Holds
  <2> QED BY <2>1, <2>2 DEF Stored
<1>17. PICK c \in Int : c = l + m
  OBVIOUS
<1>18. PICK f \in BOOLEAN : f = p.full /\ (f <=> e = r)
  BY <1>14
<1>19. Counted(c, n, e, r, f)
  <2>1. n \in Int
    OBVIOUS
  <2> QED BY <2>1, <1>5, <1>6, <1>8, <1>15, <1>17, <1>18
          DEF Count, Counted, Indices, HasRoom, Advanced
<1>20. PICK t : t = s \o d
  OBVIOUS
<1>21. Len(t) = c
  <2>1. Len(s \o d) = Len(s) + Len(d)
    OBVIOUS
  <2> QED BY <1>1, <1>2, <1>17, <1>20, <2>1
<1>22. Joined(t, s, d, l, c)
  <2> SUFFICES ASSUME NEW h \in Int, 0 <= h, h < c
               PROVE  t[h + 1] = IF h < l THEN s[h + 1] ELSE d[h - l + 1]
    BY DEF Joined
  <2>1. PICK i \in Int : i = h + 1
    OBVIOUS
  <2>2. i \in 1..(Len(s) + Len(d)) /\ (i <= Len(s) <=> h < l)
        /\ i - Len(s) = h - l + 1
    BY <1>1, <1>2, <1>17, <2>1
  <2>3. (s \o d)[i] = IF i <= Len(s) THEN s[i] ELSE d[i - Len(s)]
    BY <2>2
  <2> QED BY <1>20, <2>1, <2>2, <2>3
<1>23. Stored(n, r, new, t, c)
  <2>1. n \in Int
    OBVIOUS
  <2> QED BY <2>1, <1>5, <1>6, <1>10, <1>15, <1>16, <1>17, <1>22, RingPush
<1>24. Holds(p, t)
  <2>1. /\ NumberOfElements(p) = Count(n, e, r, f)
        /\ \A h \in Int : At(p, h) = new[Place(n, r, h)]
    BY <1>13, <1>14, <1>18, Ring
  <2> QED BY <1>19, <1>21, <1>23, <2>1 DEF Holds, Counted, Stored
<1> QED BY <1>11, <1>13, <1>20, <1>24

\* There is at least one byte to give, unless the queue is empty.
LEMMA GivenLemma ==
    ASSUME NEW n \in Nat \ {0}, NEW S, NEW q \in QueueType(n, S), NEW k \in Nat
    PROVE  /\ Given(q, k) \in 0..k
           /\ Given(q, k) <= NumberOfElements(q)
           /\ Given(q, k) + q.reader <= n
           /\ q.reader < q.writer => Given(q, k) + q.reader <= q.writer
           /\ (~IsEmpty(q) /\ k # 0) => Given(q, k) # 0
           /\ IsEmpty(q) => Given(q, k) = 0
BY QueueFields DEF Given, AtMost, NumberOfElements, IsEmpty

\* What Front copies are the first bytes of the contents.
LEMMA FrontLemma ==
    ASSUME NEW n \in Nat \ {0}, NEW S, NEW q \in QueueType(n, S), NEW k \in Nat,
           NEW B, NEW s \in Seq(B), Holds(q, s)
    PROVE  Front(q, k) = SubSeq(s, 1, Given(q, k))
<1>1. PICK g \in Int : g = Given(q, k)
  BY GivenLemma
<1>2. 0 <= g /\ g <= Len(s) /\ g + q.reader <= n
  BY <1>1, GivenLemma DEF Holds
<1>3. ASSUME NEW i \in 1..g PROVE q.data[q.reader + i - 1] = s[i]
  <2>1. PICK h \in Int : h = i - 1
    OBVIOUS
  <2>2. 0 <= h /\ h < Len(s) /\ h + 1 = i
    BY <1>2, <2>1
  <2>3. q.reader \in Int /\ q.size = n /\ n \in Int
    BY QueueFields
  <2>4. At(q, h) = q.data[q.reader + i - 1]
    BY <1>2, <2>1, <2>3 DEF At
  <2> QED BY <2>2, <2>4 DEF Holds
<1>4. SubSeq(s, 1, g) = [i \in 1..g |-> s[i]]
  BY <1>2
<1> QED BY <1>1, <1>3, <1>4 DEF Front

\* Pop takes away what Front has copied.
LEMMA PopLemma ==
    ASSUME NEW n \in Nat \ {0}, NEW S, NEW q \in QueueType(n, S), NEW k \in Nat,
           NEW B, NEW s \in Seq(B), Holds(q, s)
    PROVE  /\ Pop(q, k) \in QueueType(n, S)
           /\ Holds(Pop(q, k), SubSeq(s, Given(q, k) + 1, Len(s)))
<1>1. PICK g \in Int : g = Given(q, k) /\ g \in 0..k
  BY GivenLemma
<1>2. PICK l \in Int : l = Len(s)
  OBVIOUS
<1>3. PICK w \in Int, r \in Int :
        /\ w = q.writer /\ r = q.reader
        /\ 0 <= w /\ w < n /\ 0 <= r /\ r < n
  BY QueueFields
<1>4. /\ q.size = n /\ q.full \in BOOLEAN
      /\ q.data \in [0..(n - 1) -> {Free} \cup S]
      /\ q.full => w = r
  BY <1>3, QueueFields
<1>5. CASE k = 0 \/ IsEmpty(q)
  <2>1. g = 0
    BY <1>1, <1>5, GivenLemma
  <2>2. SubSeq(s, Given(q, k) + 1, Len(s)) = s
    <3>1. SubSeq(s, 1, Len(s)) = s
      OBVIOUS
    <3>2. Given(q, k) + 1 = 1
      BY <1>1, <2>1
    <3> QED BY <3>1, <3>2
  <2>3. CASE k = 0
    BY <1>1, <2>1, <2>2, <2>3 DEF Pop
  <2>4. CASE k # 0
    <3>1. PICK p : p = Pop(q, k)
      OBVIOUS
    <3>2. p = [q EXCEPT !.writer = 0, !.reader = 0]
      BY <1>5, <2>4, <3>1 DEF Pop
    <3>3. q.full = FALSE
      BY <1>4, <1>5, <2>4 DEF IsEmpty
    <3>4. p \in QueueType(n, S)
      <4>1. 0 \in 0..(n - 1)
        OBVIOUS
      <4>2. q \in [writer : 0..(n - 1), reader : 0..(n - 1), size : {n},
                   full : BOOLEAN, data : [0..(n - 1) -> {Free} \cup S]]
        BY DEF QueueType
      <4>3. p \in [writer : 0..(n - 1), reader : 0..(n - 1), size : {n},
                   full : BOOLEAN, data : [0..(n - 1) -> {Free} \cup S]]
        BY <3>2, <4>1, <4>2
      <4>4. p.writer = p.reader
        BY <3>2, <4>2
      <4> QED BY <4>3, <4>4 DEF QueueType
    <3>5. NumberOfElements(p) = 0 /\ NumberOfElements(q) = 0
      <4>1. p.writer = 0 /\ p.reader = 0 /\ p.full = FALSE
        BY <1>3, <3>2, <3>3 DEF QueueType
      <4> QED BY <1>5, <2>4, <4>1, CountType DEF NumberOfElements
    <3>6. Holds(p, s)
      BY <3>5 DEF Holds
    <3> QED BY <1>1, <2>1, <2>2, <3>1, <3>4, <3>6
  <2> QED BY <2>3, <2>4
<1>6. CASE k # 0 /\ ~IsEmpty(q)
  <2>1. PICK f \in BOOLEAN : f = q.full
    BY <1>4
  <2>2. Indices(n, w, r) /\ HasBytes(n, w, r, f, g)
    <3>1. /\ g + r <= n /\ g # 0
          /\ r < w => g + r <= w
      BY <1>1, <1>3, <1>6, GivenLemma
    <3>2. f => w = r /\ (w = r => f)
      BY <1>3, <1>4, <1>6, <2>1 DEF IsEmpty
    <3> QED BY <1>1, <1>3, <1>4, <1>6, <2>1, <3>1 DEF Indices, HasBytes, IsEmpty
  <2>3. PICK e \in Int : e = Wrap(q, r + g)
    BY <1>4 DEF Wrap
  <2>4. Advanced(e, n, r, g) /\ e \in 0..(n - 1)
    BY <1>3, <1>4, <2>2, <2>3 DEF Advanced, HasBytes, Wrap
  <2>5. PICK new : new = [i \in 0..(q.size - 1) |->
                        IF r <= i /\ i < r + g THEN Free ELSE q.data[i]]
    OBVIOUS
  <2>6. new \in [0..(n - 1) -> {Free} \cup S] /\ Erased(n, r, g, q.data, new)
    <3>1. new = [i \in 0..(n - 1) |->
                        IF r <= i /\ i < r + g THEN Free ELSE q.data[i]]
      BY <1>4, <2>5
    <3> QED BY <1>4, <3>1 DEF Erased
  <2>7. PICK p : p = Pop(q, k)
    OBVIOUS
  <2>8. p = [q EXCEPT !.reader = e, !.full = FALSE, !.data = new]
    BY <1>1, <1>3, <1>6, <2>3, <2>5, <2>7 DEF Pop
  <2>9. p \in QueueType(n, S)
    BY <1>3, <1>4, <2>4, <2>6, <2>8 DEF QueueType
  <2>10. p.writer = w /\ p.reader = e /\ p.full = FALSE /\ p.data = new
    BY <1>3, <2>8 DEF QueueType
  <2>11. Counted(l, n, w, r, f)
    <3>1. l = NumberOfElements(q)
      BY <1>2 DEF Holds
    <3>2. NumberOfElements(q) = Count(n, q.writer, q.reader, q.full)
      BY Ring
    <3> QED BY <1>3, <2>1, <3>1, <3>2 DEF Counted
  <2>12. Stored(n, r, q.data, s, l)
    <3>1. \A h \in Int : At(q, h) = q.data[Place(n, r, h)]
      BY <1>3, Ring
    <3>2. \A h \in Int : 0 <= h /\ h < l => At(q, h) = s[h + 1]
      BY <1>2 DEF Holds
    <3> QED BY <3>1, <3>2 DEF Stored
  <2>13. PICK c \in Int : c = l - g
    OBVIOUS
  <2>14. 0 <= c /\ Counted(c, n, w, e, FALSE)
    <3>1. n \in Int
      OBVIOUS
    <3> QED BY <2>2, <2>4, <2>11, <2>13, <3>1
            DEF Count, Counted, Indices, HasBytes, Advanced
  <2>15. PICK t : t = SubSeq(s, g + 1, Len(s))
    OBVIOUS
  <2>16. Len(t) = c /\ Dropped(t, s, g, c)
    <3>1. g \in Nat /\ g <= Len(s)
      BY <1>1, <1>2, <2>13, <2>14
    <3>2. t = [i \in 1..(Len(s) - g) |-> s[i + g]]
      BY <2>15, <3>1
    <3>3. Len(t) = c
      BY <1>2, <2>13, <3>1, <3>2
    <3>4. ASSUME NEW h \in Int, 0 <= h, h < c PROVE t[h + 1] = s[h + g + 1]
      <4>1. PICK i \in Int : i = h + 1
        OBVIOUS
      <4>2. i \in 1..(Len(s) - g) /\ i + g = h + g + 1
        BY <1>2, <2>13, <3>4, <4>1
      <4>3. t[i] = s[i + g]
        BY <3>2, <4>2
      <4> QED BY <4>1, <4>2, <4>3
    <3> QED BY <3>3, <3>4 DEF Dropped
  <2>17. Stored(n, e, new, t, c)
    <3>1. n \in Int
      OBVIOUS
    <3> QED BY <2>2, <2>4, <2>6, <2>11, <2>12, <2>13, <2>16, <3>1, RingPop
  <2>18. Holds(p, t)
    <3>1. /\ NumberOfElements(p) = Count(n, w, e, FALSE)
          /\ \A h \in Int : At(p, h) = new[Place(n, e, h)]
      BY <2>9, <2>10, Ring
    <3> QED BY <2>14, <2>16, <2>17, <3>1 DEF Holds, Counted, Stored
  <2> QED BY <1>1, <2>7, <2>9, <2>15, <2>18
<1> QED BY <1>5, <1>6

-----------------------------------------------------------------------------
\* DrainQueue leaves nothing: its two Pops take what is before and what is
\* behind the end of the buffer.
LEMMA DrainLemma ==
    ASSUME NEW n \in Nat \ {0}, NEW S, NEW q \in QueueType(n, S),
           NEW B, NEW s \in Seq(B), Holds(q, s)
    PROVE  DrainQueue(q) \in QueueType(n, S) /\ Holds(DrainQueue(q), <<>>)
<1>1. PICK k : k = NumberOfElements(q) /\ k \in Nat /\ k = Len(s)
  BY CountType DEF Holds
<1>2. PICK p : p = Pop(q, k)
  OBVIOUS
<1>3. PICK g \in Int : g = Given(q, k) /\ 0 <= g /\ g <= k
  BY <1>1, GivenLemma
<1>4. PICK t : t = SubSeq(s, g + 1, Len(s))
  OBVIOUS
<1>5. p \in QueueType(n, S) /\ Holds(p, t)
  BY <1>1, <1>2, <1>3, <1>4, PopLemma
<1>6. t \in Seq(B) /\ Len(t) = k - g
  BY <1>1, <1>3, <1>4
<1>7. PICK j : j = NumberOfElements(p) /\ j \in Nat /\ j = Len(t)
  BY <1>5, CountType DEF Holds
<1>8. PICK h \in Int : h = Given(p, j) /\ 0 <= h /\ h <= j
  BY <1>5, <1>7, GivenLemma
<1>9. h = j
  <2>1. CASE j = 0
    BY <1>8, <2>1
  <2>2. CASE j # 0
    <3>0. k \in Int /\ j \in Int /\ j = k - g
      BY <1>1, <1>6, <1>7
    <3>1. g < k /\ k # 0 /\ ~IsEmpty(q)
      <4>1. g < k /\ k # 0
        BY <1>3, <1>7, <2>2, <3>0
      <4> QED BY <1>1, <4>1, CountType
    <3>2. /\ q.writer \in 0..(n - 1) /\ q.reader \in 0..(n - 1) /\ q.size = n
          /\ q.full => q.writer = q.reader
          /\ q.full \in BOOLEAN
      BY QueueFields
    <3>3. q.writer <= q.reader /\ g = n - q.reader
      BY <1>1, <1>3, <3>1, <3>2 DEF Given, AtMost, NumberOfElements, IsEmpty
    <3>4. Wrap(q, q.reader + g) = 0
      BY <3>2, <3>3 DEF Wrap
    <3>5. p.writer = q.writer /\ p.reader = 0 /\ p.full = FALSE /\ p.size = n
      BY <1>2, <1>3, <3>1, <3>2, <3>4 DEF Pop, QueueType
    <3> QED BY <1>7, <1>8, <2>2, <3>2, <3>5 DEF Given, AtMost, NumberOfElements, IsEmpty
  <2> QED BY <2>1, <2>2
<1>10. /\ Pop(p, j) \in QueueType(n, S)
       /\ Holds(Pop(p, j), SubSeq(t, h + 1, Len(t)))
  BY <1>5, <1>6, <1>7, <1>8, PopLemma
<1>11. SubSeq(t, h + 1, Len(t)) = <<>>
  BY <1>6, <1>7, <1>9
<1> QED BY <1>1, <1>2, <1>7, <1>10, <1>11 DEF DrainQueue

-----------------------------------------------------------------------------
(* What the operators of the two drivers do to a port. *)

\* The fields that neither flags nor interrupts touch.
SameData(p, q) ==
    /\ q.TxQueue = p.TxQueue /\ q.RxQueue = p.RxQueue
    /\ q.rhr = p.rhr /\ q.thr = p.thr
SameEvent(p, q) == q.fDataEventSet = p.fDataEventSet /\ q.posted = p.posted

Lines == {"Rx", "Tx"}

\* The flags that flow control of the receiver leaves alone.
FixedBits == FlowBits \cup {"INITIALIZED", "TX_XON_STATE"}

\* What is to be sent will be sent.
Armed(p) == Pending(p) => InterruptState(p, "Tx")

\* q is p after a change of what the receiver asks for.
Mild(p, q) ==
    /\ q \in PortType /\ SameData(p, q) /\ SameEvent(p, q)
    /\ \A b \in FixedBits : b \in q.Flag <=> b \in p.Flag
    /\ q.refs = q.imr
    /\ HW_IN \notin p.Flag => p.refs \subseteq q.refs
    /\ HW_IN \notin p.Flag /\ PowerSaved(q) => PowerSaved(p)
    /\ InterruptState(p, "Tx") => InterruptState(q, "Tx")
    /\ Armed(p) => Armed(q)

LEMMA ToldPowerSaveLemma ==
    ASSUME NEW b \in PortType, NEW p \in PortType
    PROVE  /\ ToldPowerSave(b, p) \in PortType
           /\ SameData(p, ToldPowerSave(b, p)) /\ SameEvent(p, ToldPowerSave(b, p))
           /\ ToldPowerSave(b, p).refs = p.refs /\ ToldPowerSave(b, p).imr = p.imr
           /\ ToldPowerSave(b, p).Flag \ {"POWERSAVE"} = p.Flag \ {"POWERSAVE"}
           /\ PowerSaved(ToldPowerSave(b, p)) => PowerSaved(p) \/ p.refs = {}
           /\ b.refs = {} /\ p.refs # {} => ~PowerSaved(ToldPowerSave(b, p))
<1>1. "POWERSAVE" \in FlagBits
  BY DEF FlagBits
<1> QED BY <1>1 DEF ToldPowerSave, PortType, SameData, SameEvent, PowerSaved, Has, Set, Clear

\* An interrupt is turned on or off, and nothing else but the power-save flag.
LEMMA InterruptOnLemma ==
    ASSUME NEW p \in PortType, NEW r \in Lines
    PROVE  /\ InterruptOn(p, r) \in PortType
           /\ SameData(p, InterruptOn(p, r)) /\ SameEvent(p, InterruptOn(p, r))
           /\ InterruptOn(p, r).refs = p.refs \cup {r}
           /\ InterruptOn(p, r).imr = p.imr \cup {r}
           /\ InterruptOn(p, r).Flag \ {"POWERSAVE"} = p.Flag \ {"POWERSAVE"}
           /\ PowerSaved(InterruptOn(p, r)) => PowerSaved(p)
           /\ p.refs = {} => ~PowerSaved(InterruptOn(p, r))
<1> DEFINE o == [p EXCEPT !.refs = @ \cup {r}, !.imr = @ \cup {r}]
<1>1. /\ o \in PortType /\ SameData(p, o) /\ SameEvent(p, o)
      /\ o.refs = p.refs \cup {r} /\ o.imr = p.imr \cup {r} /\ o.Flag = p.Flag
  BY DEF PortType, SameData, SameEvent, Lines
<1>2. CASE InterruptState(p, r)
  BY <1>2 DEF InterruptOn, InterruptState, SameData, SameEvent, PortType
<1>3. CASE ~InterruptState(p, r)
  <2>1. InterruptOn(p, r) = ToldPowerSave(p, o)
    BY <1>3 DEF InterruptOn
  <2> HIDE DEF o
  <2> QED BY <1>1, <2>1, ToldPowerSaveLemma DEF SameData, SameEvent, PowerSaved, Has
<1> QED BY <1>2, <1>3

LEMMA InterruptOffLemma ==
    ASSUME NEW p \in PortType, NEW r \in Lines, p.refs = p.imr
    PROVE  /\ InterruptOff(p, r) \in PortType
           /\ SameData(p, InterruptOff(p, r)) /\ SameEvent(p, InterruptOff(p, r))
           /\ InterruptOff(p, r).refs = p.refs \ {r}
           /\ InterruptOff(p, r).imr = p.imr \ {r}
           /\ InterruptOff(p, r).Flag \ {"POWERSAVE"} = p.Flag \ {"POWERSAVE"}
           /\ PowerSaved(InterruptOff(p, r)) =>
                PowerSaved(p) \/ InterruptOff(p, r).refs = {}
<1> DEFINE o == [p EXCEPT !.refs = @ \ {r}, !.imr = @ \ {r}]
<1>1. /\ o \in PortType /\ SameData(p, o) /\ SameEvent(p, o)
      /\ o.refs = p.refs \ {r} /\ o.imr = p.imr \ {r} /\ o.Flag = p.Flag
  BY DEF PortType, SameData, SameEvent, Lines
<1>2. CASE ~InterruptState(p, r)
  BY <1>2 DEF InterruptOff, InterruptState, SameData, SameEvent, PortType
<1>3. CASE InterruptState(p, r)
  <2>1. InterruptOff(p, r) = ToldPowerSave(p, o)
    BY <1>3 DEF InterruptOff
  <2> HIDE DEF o
  <2> QED BY <1>1, <2>1, ToldPowerSaveLemma DEF SameData, SameEvent, PowerSaved, Has
<1> QED BY <1>2, <1>3

\* Only flags change.
LEMMA FlagsLemma ==
    ASSUME NEW p \in PortType, NEW F, F \subseteq FlagBits
    PROVE  LET q == [p EXCEPT !.Flag = F]
           IN  /\ q \in PortType /\ SameData(p, q) /\ SameEvent(p, q)
               /\ q.refs = p.refs /\ q.imr = p.imr /\ q.Flag = F
BY DEF PortType, SameData, SameEvent

LEMMA SendXOFFLemma ==
    ASSUME NEW p \in PortType, NEW bit \in XoffBits, p.refs = p.imr
    PROVE  /\ Mild(p, SendXOFF(p, bit))
           /\ \A b \in FlagBits \ {"POWERSAVE", "TX_BUFFERXOFF", bit} :
                b \in SendXOFF(p, bit).Flag <=> b \in p.Flag
           /\ PowerSaved(p) => SendXOFF(p, bit) = p
           /\ ~PowerSaved(p) => bit \in SendXOFF(p, bit).Flag
<1> DEFINE q == SendXOFF(p, bit)
<1>1. bit \in FlagBits /\ bit \notin FixedBits \cup {"POWERSAVE", "TX_BUFFERXOFF", "TX_BUFFERXON"}
      /\ "TX_BUFFERXOFF" \in FlagBits /\ "TX_BUFFERXOFF" \notin FixedBits \cup {"POWERSAVE"}
      /\ FixedBits \subseteq FlagBits /\ "POWERSAVE" \notin FixedBits
      /\ HW_IN \in FixedBits
  BY DEF XoffBits, FULL, HALT, FlagBits, FixedBits, FlowBits, SW_IN, SW_OUT, HW_IN
<1>2. CASE PowerSaved(p)
  BY <1>1, <1>2 DEF SendXOFF, Mild, SameData, SameEvent, Armed
<1>3. CASE ~PowerSaved(p) /\ RxXoffState(p) # {}
  <2>1. q = [p EXCEPT !.Flag = p.Flag \cup {bit}]
    BY <1>3 DEF SendXOFF, Set
  <2>2. /\ q \in PortType /\ SameData(p, q) /\ SameEvent(p, q)
        /\ q.refs = p.refs /\ q.imr = p.imr /\ q.Flag = p.Flag \cup {bit}
    <3> HIDE DEF q
    <3>1. p.Flag \cup {bit} \subseteq FlagBits
      BY <1>1 DEF PortType
    <3> QED BY <2>1, <3>1, FlagsLemma
  <2>3. Pending(q) => Pending(p)
    <3> HIDE DEF q
    <3> QED BY <1>1, <2>2 DEF Pending, NextChar, Has, SameData
  <2> HIDE DEF q
  <2> QED BY <1>1, <1>3, <2>2, <2>3 DEF Mild, Armed, InterruptState, PowerSaved, Has, q
<1>4. CASE ~PowerSaved(p) /\ RxXoffState(p) = {}
  <2> DEFINE o == [p EXCEPT !.Flag = p.Flag \cup {"TX_BUFFERXOFF"}]
             i == InterruptOn(o, "Tx")
  <2>1. q = [i EXCEPT !.Flag = i.Flag \cup {bit}]
    BY <1>4 DEF SendXOFF, Set
  <2>2. /\ o \in PortType /\ SameData(p, o) /\ SameEvent(p, o)
        /\ o.refs = p.refs /\ o.imr = p.imr /\ o.Flag = p.Flag \cup {"TX_BUFFERXOFF"}
    <3>1. p.Flag \cup {"TX_BUFFERXOFF"} \subseteq FlagBits
      BY <1>1 DEF PortType
    <3> QED BY <3>1, FlagsLemma
  <2> HIDE DEF q, o
  <2>3. /\ i \in PortType /\ SameData(o, i) /\ SameEvent(o, i)
        /\ i.refs = p.refs \cup {"Tx"} /\ i.imr = p.imr \cup {"Tx"}
        /\ i.Flag \ {"POWERSAVE"} = o.Flag \ {"POWERSAVE"}
        /\ PowerSaved(i) => PowerSaved(o)
    BY <2>2, InterruptOnLemma DEF Lines
  <2> HIDE DEF i
  <2>4. /\ q \in PortType /\ SameData(i, q) /\ SameEvent(i, q)
        /\ q.refs = i.refs /\ q.imr = i.imr /\ q.Flag = i.Flag \cup {bit}
    <3>1. i.Flag \cup {bit} \subseteq FlagBits
      BY <1>1, <2>3 DEF PortType
    <3> QED BY <2>1, <2>3, <3>1, FlagsLemma
  <2>5. ~PowerSaved(q) /\ InterruptState(q, "Tx")
    BY <1>1, <1>4, <2>2, <2>3, <2>4 DEF PowerSaved, Has, InterruptState
  <2>6. SameData(p, q) /\ SameEvent(p, q)
    BY <2>2, <2>3, <2>4 DEF SameData, SameEvent
  <2>7. \A b \in FlagBits \ {"POWERSAVE", "TX_BUFFERXOFF", bit} :
            b \in q.Flag <=> b \in p.Flag
    BY <2>2, <2>3, <2>4
  <2> QED BY <1>1, <1>4, <2>2, <2>3, <2>4, <2>5, <2>6, <2>7 DEF Mild, Armed, q
<1> QED BY <1>2, <1>3, <1>4

LEMMA SendXONLemma ==
    ASSUME NEW p \in PortType, NEW bit \in XoffBits, p.refs = p.imr
    PROVE  /\ Mild(p, SendXON(p, bit))
           /\ \A b \in FlagBits \ {"POWERSAVE", "TX_BUFFERXON", bit} :
                b \in SendXON(p, bit).Flag <=> b \in p.Flag
           /\ ~PowerSaved(p) =>
                /\ bit \notin SendXON(p, bit).Flag
                /\ p.Flag \cap XoffBits \subseteq {bit} =>
                    "TX_BUFFERXON" \in SendXON(p, bit).Flag
                /\ "TX_BUFFERXON" \in p.Flag =>
                    "TX_BUFFERXON" \in SendXON(p, bit).Flag
<1> DEFINE q == SendXON(p, bit)
           c == [p EXCEPT !.Flag = p.Flag \ {bit}]
<1>1. bit \in FlagBits /\ bit \notin FixedBits \cup {"POWERSAVE", "TX_BUFFERXOFF", "TX_BUFFERXON"}
      /\ "TX_BUFFERXON" \in FlagBits /\ "TX_BUFFERXON" \notin FixedBits \cup {"POWERSAVE"}
      /\ FixedBits \subseteq FlagBits /\ "POWERSAVE" \notin FixedBits
      /\ HW_IN \in FixedBits
  BY DEF XoffBits, FULL, HALT, FlagBits, FixedBits, FlowBits, SW_IN, SW_OUT, HW_IN
<1>2. CASE PowerSaved(p)
  BY <1>1, <1>2 DEF SendXON, Mild, SameData, SameEvent, Armed
<1>3. /\ c \in PortType /\ SameData(p, c) /\ SameEvent(p, c)
      /\ c.refs = p.refs /\ c.imr = p.imr /\ c.Flag = p.Flag \ {bit}
  <2>1. p.Flag \ {bit} \subseteq FlagBits
    BY DEF PortType
  <2> QED BY <2>1, FlagsLemma
<1>4. CASE ~PowerSaved(p) /\ RxXoffState(c) # {}
  <2>1. q = c
    BY <1>4 DEF SendXON, Clear
  <2> HIDE DEF q, c
  <2>2. Pending(q) => Pending(p)
    BY <1>1, <1>3, <2>1 DEF Pending, NextChar, Has, SameData
  <2>3. ~(p.Flag \cap XoffBits \subseteq {bit})
    BY <1>3, <1>4 DEF RxXoffState
  <2> QED BY <1>1, <1>3, <1>4, <2>1, <2>2, <2>3 DEF Mild, Armed, InterruptState, PowerSaved, Has, q
<1>5. CASE ~PowerSaved(p) /\ RxXoffState(c) = {}
  <2> DEFINE o == [c EXCEPT !.Flag = c.Flag \cup {"TX_BUFFERXON"}]
  <2>1. q = InterruptOn(o, "Tx")
    BY <1>5 DEF SendXON, Set, Clear
  <2> HIDE DEF q, c
  <2>2. /\ o \in PortType /\ SameData(c, o) /\ SameEvent(c, o)
        /\ o.refs = p.refs /\ o.imr = p.imr /\ o.Flag = c.Flag \cup {"TX_BUFFERXON"}
    <3>1. c.Flag \cup {"TX_BUFFERXON"} \subseteq FlagBits
      BY <1>1, <1>3 DEF PortType
    <3> QED BY <1>3, <3>1, FlagsLemma
  <2> HIDE DEF o
  <2>3. /\ q \in PortType /\ SameData(o, q) /\ SameEvent(o, q)
        /\ q.refs = p.refs \cup {"Tx"} /\ q.imr = p.imr \cup {"Tx"}
        /\ q.Flag \ {"POWERSAVE"} = o.Flag \ {"POWERSAVE"}
        /\ PowerSaved(q) => PowerSaved(o)
    BY <2>1, <2>2, InterruptOnLemma DEF Lines
  <2>4. ~PowerSaved(q) /\ InterruptState(q, "Tx")
    BY <1>1, <1>3, <1>5, <2>2, <2>3 DEF PowerSaved, Has, InterruptState
  <2>5. SameData(p, q) /\ SameEvent(p, q)
    BY <1>3, <2>2, <2>3 DEF SameData, SameEvent
  <2>6. \A b \in FlagBits \ {"POWERSAVE", "TX_BUFFERXON", bit} :
            b \in q.Flag <=> b \in p.Flag
    BY <1>3, <2>2, <2>3
  <2>7. bit \notin q.Flag /\ "TX_BUFFERXON" \in q.Flag
    BY <1>1, <1>3, <2>2, <2>3
  <2> QED BY <1>1, <1>5, <2>3, <2>4, <2>5, <2>6, <2>7 DEF Mild, Armed, q
<1> QED BY <1>2, <1>4, <1>5

LEMMA MildTransitive ==
    ASSUME NEW p, NEW q, NEW o, Mild(p, q), Mild(q, o)
    PROVE  Mild(p, o)
<1>1. HW_IN \in FixedBits
  BY DEF FixedBits, FlowBits
<1> QED BY <1>1 DEF Mild, SameData, SameEvent

\* The receiver's interrupt alone is turned on or off.
LEMMA RxLemma ==
    ASSUME NEW p \in PortType, p.refs = p.imr
    PROVE  /\ Mild(p, InterruptOn(p, "Rx"))
           /\ HW_IN \in p.Flag => Mild(p, InterruptOff(p, "Rx"))
           /\ InterruptOn(p, "Rx").Flag \ {"POWERSAVE"} = p.Flag \ {"POWERSAVE"}
           /\ InterruptOff(p, "Rx").Flag \ {"POWERSAVE"} = p.Flag \ {"POWERSAVE"}
<1>1. /\ InterruptOn(p, "Rx") \in PortType
      /\ SameData(p, InterruptOn(p, "Rx")) /\ SameEvent(p, InterruptOn(p, "Rx"))
      /\ InterruptOn(p, "Rx").refs = p.refs \cup {"Rx"}
      /\ InterruptOn(p, "Rx").imr = p.imr \cup {"Rx"}
      /\ InterruptOn(p, "Rx").Flag \ {"POWERSAVE"} = p.Flag \ {"POWERSAVE"}
      /\ PowerSaved(InterruptOn(p, "Rx")) => PowerSaved(p)
  BY InterruptOnLemma DEF Lines
<1>2. /\ InterruptOff(p, "Rx") \in PortType
      /\ SameData(p, InterruptOff(p, "Rx")) /\ SameEvent(p, InterruptOff(p, "Rx"))
      /\ InterruptOff(p, "Rx").refs = p.refs \ {"Rx"}
      /\ InterruptOff(p, "Rx").imr = p.imr \ {"Rx"}
      /\ InterruptOff(p, "Rx").Flag \ {"POWERSAVE"} = p.Flag \ {"POWERSAVE"}
  BY InterruptOffLemma DEF Lines
<1>3. FixedBits \subseteq FlagBits /\ "POWERSAVE" \notin FixedBits
  BY DEF FlagBits, FixedBits, FlowBits, SW_IN, SW_OUT, HW_IN
<1>4. /\ Pending(InterruptOn(p, "Rx")) => Pending(p)
      /\ Pending(InterruptOff(p, "Rx")) => Pending(p)
  BY <1>1, <1>2 DEF Pending, NextChar, Has, SameData
<1> QED BY <1>1, <1>2, <1>3, <1>4 DEF Mild, Armed, InterruptState

\* The flags of software flow control
SoftBits == XoffBits \cup {"TX_BUFFERXOFF", "TX_BUFFERXON"}

\* The receiver is held off: no halt of the clock and no XON is forgotten.
LEMMA HoldOffLemma ==
    ASSUME NEW p \in PortType, p.refs = p.imr
    PROVE  /\ Mild(p, HoldOff(p))
           /\ HALT \in HoldOff(p).Flag <=> HALT \in p.Flag
           /\ "TX_BUFFERXON" \in HoldOff(p).Flag <=> "TX_BUFFERXON" \in p.Flag
           /\ SW_IN \notin p.Flag =>
                \A b \in SoftBits : b \in HoldOff(p).Flag <=> b \in p.Flag
<1> DEFINE q == IF Has(p, SW_IN) THEN SendXOFF(p, FULL) ELSE p
<1>1. Mild(p, q) /\ (\A b \in {HALT, "TX_BUFFERXON"} : b \in q.Flag <=> b \in p.Flag)
  <2>1. FULL \in XoffBits /\ {HALT, "TX_BUFFERXON"} \subseteq
            FlagBits \ {"POWERSAVE", "TX_BUFFERXOFF", FULL}
    BY DEF XoffBits, FULL, HALT, FlagBits
  <2>2. Mild(p, p)
    BY DEF Mild, SameData, SameEvent
  <2>3. CASE Has(p, SW_IN)
    BY <2>1, <2>3, SendXOFFLemma
  <2> QED BY <2>2, <2>3
<1>2. SW_IN \notin p.Flag => q = p
  BY DEF Has
<1>3. HoldOff(p) = IF Has(q, HW_IN) THEN InterruptOff(q, "Rx") ELSE q
  <2>1. Has(q, HW_IN) <=> Has(p, HW_IN)
    BY <1>1 DEF Mild, FixedBits, FlowBits, Has
  <2> QED BY <2>1 DEF HoldOff
<1> HIDE DEF q
<1>4. Mild(q, HoldOff(p)) /\ HoldOff(p).Flag \ {"POWERSAVE"} = q.Flag \ {"POWERSAVE"}
  <2>1. q \in PortType /\ q.refs = q.imr
    BY <1>1 DEF Mild
  <2>2. Mild(q, q)
    BY <2>1 DEF Mild, SameData, SameEvent
  <2> QED BY <1>3, <2>1, <2>2, RxLemma DEF Has
<1>5. "POWERSAVE" \notin SoftBits \cup {HALT, "TX_BUFFERXON"}
  BY DEF SoftBits, XoffBits, FULL, HALT
<1> QED BY <1>1, <1>2, <1>4, <1>5, MildTransitive

\* The receiver is let go: the XON is on its way, unless the clock is halted.
LEMMA LetGoLemma ==
    ASSUME NEW p \in PortType, p.refs = p.imr
    PROVE  /\ Mild(p, LetGo(p))
           /\ HALT \in LetGo(p).Flag <=> HALT \in p.Flag
           /\ SW_IN \in p.Flag /\ ~PowerSaved(p) =>
                /\ FULL \notin LetGo(p).Flag
                /\ HALT \notin p.Flag => "TX_BUFFERXON" \in LetGo(p).Flag
           /\ SW_IN \notin p.Flag =>
                \A b \in SoftBits : b \in LetGo(p).Flag <=> b \in p.Flag
<1> DEFINE q == IF Has(p, SW_IN) THEN SendXON(p, FULL) ELSE p
<1>1. /\ Mild(p, q)
      /\ HALT \in q.Flag <=> HALT \in p.Flag
      /\ SW_IN \in p.Flag /\ ~PowerSaved(p) =>
            /\ FULL \notin q.Flag
            /\ HALT \notin p.Flag => "TX_BUFFERXON" \in q.Flag
  <2>1. FULL \in XoffBits /\ HALT \in FlagBits \ {"POWERSAVE", "TX_BUFFERXON", FULL}
    BY DEF XoffBits, FULL, HALT, FlagBits
  <2>2. Mild(p, p)
    BY DEF Mild, SameData, SameEvent
  <2>3. HALT \notin p.Flag => p.Flag \cap XoffBits \subseteq {FULL}
    BY DEF XoffBits
  <2>4. CASE Has(p, SW_IN)
    BY <2>1, <2>3, <2>4, SendXONLemma
  <2> QED BY <2>2, <2>4 DEF Has
<1>2. SW_IN \notin p.Flag => q = p
  BY DEF Has
<1>3. LetGo(p) = IF Has(q, HW_IN) THEN InterruptOn(q, "Rx") ELSE q
  <2>1. Has(q, HW_IN) <=> Has(p, HW_IN)
    BY <1>1 DEF Mild, FixedBits, FlowBits, Has
  <2> QED BY <2>1 DEF LetGo
<1> HIDE DEF q
<1>4. Mild(q, LetGo(p)) /\ LetGo(p).Flag \ {"POWERSAVE"} = q.Flag \ {"POWERSAVE"}
  <2>1. q \in PortType /\ q.refs = q.imr
    BY <1>1 DEF Mild
  <2>2. Mild(q, q)
    BY <2>1 DEF Mild, SameData, SameEvent
  <2> QED BY <1>3, <2>1, <2>2, RxLemma
<1>5. "POWERSAVE" \notin SoftBits \cup {HALT, FULL, "TX_BUFFERXON"}
  BY DEF SoftBits, XoffBits, FULL, HALT
<1> QED BY <1>1, <1>2, <1>4, <1>5, MildTransitive

\* The marks are apart: who passes the high one is above the low one.
LEMMA Marks ==
    ASSUME NEW k \in Nat, k # 0, k >= HighWaterMark
    PROVE  k > LowWaterMark /\ LowWaterMark \in Nat
<1>1. RxSize \in Nat \ {0}
  BY UsartAssumption
<1> QED BY <1>1 DEF HighWaterMark, LowWaterMark

\* q is p after a character was received.
Hears(p, q) ==
    /\ q \in PortType /\ q.refs = q.imr
    /\ q.TxQueue = p.TxQueue /\ q.thr = p.thr
    /\ \A b \in FixedBits \ {"TX_XON_STATE"} : b \in q.Flag <=> b \in p.Flag
    /\ HW_IN \notin p.Flag => p.refs \subseteq q.refs
    /\ HW_IN \notin p.Flag /\ PowerSaved(q) => PowerSaved(p)
    /\ InterruptState(p, "Tx") => InterruptState(q, "Tx")
    /\ Armed(p) => Armed(q)
    /\ \A b \in {HALT, "TX_BUFFERXON"} : b \in q.Flag <=> b \in p.Flag
    /\ \/ \A b \in SoftBits : b \in q.Flag <=> b \in p.Flag
       \/ SW_IN \in p.Flag /\ NumberOfElements(q.RxQueue) > LowWaterMark
    /\ NumberOfElements(q.RxQueue) >= NumberOfElements(p.RxQueue)
    /\ p.posted => q.posted
    /\ (p.fDataEventSet => p.posted) => (q.fDataEventSet => q.posted)

QueueSizes == TxSize \in Nat \ {0} /\ RxSize \in Nat \ {0}

LEMMA Sizes == QueueSizes
BY UsartAssumption DEF QueueSizes

\* The character is stored, taken for flow control, or dropped.
LEMMA AddCharLemma ==
    ASSUME NEW p \in PortType, p.refs = p.imr, NEW c \in Char, NEW byte \in Bytes,
           NEW s \in Seq(Bytes), Holds(p.RxQueue, s)
    PROVE  LET q == AddCharToRxBuffer(p, c, byte)
           IN  /\ Hears(p, q)
               /\ Holds(q.RxQueue, IF Accepts(p, c) THEN Append(s, byte) ELSE s)
               /\ Accepts(p, c) => q.fDataEventSet
               /\ ~Accepts(p, c) => q.RxQueue = p.RxQueue
<1> DEFINE q == AddCharToRxBuffer(p, c, byte)
<1>1. p.RxQueue \in QueueType(RxSize, Bytes)
  BY DEF PortType
<1>2. NumberOfElements(p.RxQueue) \in Nat /\ NumberOfElements(p.RxQueue) = Len(s)
  BY <1>1, Sizes, CountType DEF QueueSizes, Holds
<1>3. /\ "TX_XON_STATE" \in FlagBits
      /\ "TX_XON_STATE" \notin SoftBits \cup (FixedBits \ {"TX_XON_STATE"})
                \cup {HALT, HW_IN, "POWERSAVE", "TX_BUFFERXON", "TX_BUFFERXOFF"}
      /\ HW_IN \in FixedBits
  BY DEF FlagBits, FlowBits, SW_IN, SW_OUT, HW_IN, SoftBits, XoffBits, FULL, HALT, FixedBits
<1>4. ASSUME q \in {Clear(p, "TX_XON_STATE"), Set(p, "TX_XON_STATE"), p}, ~Accepts(p, c)
      PROVE  /\ Hears(p, q)
             /\ Holds(q.RxQueue, IF Accepts(p, c) THEN Append(s, byte) ELSE s)
             /\ Accepts(p, c) => q.fDataEventSet
             /\ ~Accepts(p, c) => q.RxQueue = p.RxQueue
  <2>1. PICK F \in SUBSET FlagBits :
            q = [p EXCEPT !.Flag = F] /\ F \ {"TX_XON_STATE"} = p.Flag \ {"TX_XON_STATE"}
    <3>1. p = [p EXCEPT !.Flag = p.Flag] /\ p.Flag \in SUBSET FlagBits
      BY DEF PortType
    <3>2. /\ p.Flag \cup {"TX_XON_STATE"} \in SUBSET FlagBits
          /\ p.Flag \ {"TX_XON_STATE"} \in SUBSET FlagBits
      BY <1>3, <3>1
    <3>3. CASE q = Clear(p, "TX_XON_STATE")
      <4>1. q = [p EXCEPT !.Flag = p.Flag \ {"TX_XON_STATE"}]
        BY <3>3 DEF Clear
      <4> QED BY <3>2, <4>1
    <3>4. CASE q = Set(p, "TX_XON_STATE")
      <4>1. q = [p EXCEPT !.Flag = p.Flag \cup {"TX_XON_STATE"}]
        BY <3>4 DEF Set
      <4> QED BY <3>2, <4>1
    <3>5. CASE q = p
      BY <3>1, <3>5
    <3> QED BY <1>4, <3>3, <3>4, <3>5
  <2> HIDE DEF q
  <2>2. /\ q \in PortType /\ SameData(p, q) /\ SameEvent(p, q)
        /\ q.refs = p.refs /\ q.imr = p.imr /\ q.Flag = F
    BY <2>1, FlagsLemma
  <2>3. Pending(q) => Pending(p)
    BY <1>3, <2>1, <2>2 DEF Pending, NextChar, Has, SameData
  <2>4. Hears(p, q)
    BY <1>2, <1>3, <2>1, <2>2, <2>3
       DEF Hears, SameData, SameEvent, Armed, InterruptState, PowerSaved, Has
  <2> QED BY <1>4, <2>2, <2>4 DEF SameData
<1>5. CASE Accepts(p, c)
  <2> DEFINE o == [p EXCEPT !.RxQueue = Push(p.RxQueue, <<byte>>)]
             h == IF NumberOfElements(o.RxQueue) >= HighWaterMark
                  THEN HoldOff(o) ELSE o
  <2>1. q = SetDataEvent(h)
    BY <1>5 DEF AddCharToRxBuffer, Accepts
  <2>2. /\ Push(p.RxQueue, <<byte>>) \in QueueType(RxSize, Bytes)
        /\ Holds(Push(p.RxQueue, <<byte>>), Append(s, byte))
    <3>1. Room(p.RxQueue, 1) = 1
      BY <1>1, <1>5, Sizes, RoomLemma DEF QueueSizes, Accepts
    <3>2. PICK d : d = <<byte>>
      OBVIOUS
    <3>3. d \in Seq(Bytes) /\ Len(d) = 1 /\ Append(s, byte) = s \o d
      BY <3>2
    <3>4. Len(d) = Room(p.RxQueue, 1) /\ Len(d) # 0 /\ 1 \in Nat
      BY <3>1, <3>3
    <3>5. PICK r : r = p.RxQueue
      OBVIOUS
    <3> HIDE DEF q, o, h
    <3>6. Push(r, d) \in QueueType(RxSize, Bytes) /\ Holds(Push(r, d), s \o d)
      BY <1>1, <3>3, <3>4, <3>5, Sizes, PushLemma DEF QueueSizes
    <3> QED BY <3>2, <3>3, <3>5, <3>6
  <2>3. /\ o \in PortType /\ o.RxQueue = Push(p.RxQueue, <<byte>>)
        /\ o.Flag = p.Flag /\ o.TxQueue = p.TxQueue /\ o.rhr = p.rhr /\ o.thr = p.thr
        /\ o.refs = p.refs /\ o.imr = p.imr /\ SameEvent(p, o)
    BY <2>2 DEF PortType, SameEvent
  <2>4. NumberOfElements(o.RxQueue) = Len(s) + 1
    <3>1. Len(Append(s, byte)) = Len(s) + 1
      OBVIOUS
    <3> QED BY <2>2, <2>3, <3>1 DEF Holds
  <2> HIDE DEF q, o
  <2>5. /\ Mild(o, h)
        /\ \A b \in {HALT, "TX_BUFFERXON"} : b \in h.Flag <=> b \in o.Flag
        /\ \/ \A b \in SoftBits : b \in h.Flag <=> b \in o.Flag
           \/ SW_IN \in o.Flag /\ NumberOfElements(o.RxQueue) > LowWaterMark
    <3>1. Mild(o, o)
      BY <2>3 DEF Mild, SameData, SameEvent
    <3>2. CASE NumberOfElements(o.RxQueue) >= HighWaterMark
      <4>1. NumberOfElements(o.RxQueue) > LowWaterMark
        <5>1. Len(s) + 1 \in Nat /\ Len(s) + 1 # 0
          OBVIOUS
        <5> QED BY <2>4, <3>2, <5>1, Marks
      <4> QED BY <2>3, <3>2, <4>1, HoldOffLemma
    <3> QED BY <3>1, <3>2
  <2> HIDE DEF h
  <2>6. /\ q \in PortType /\ SameData(h, q) /\ q.Flag = h.Flag
        /\ q.refs = h.refs /\ q.imr = h.imr /\ q.fDataEventSet
        /\ h.posted => q.posted
        /\ (h.fDataEventSet => h.posted) => q.posted
    <3>1. h \in PortType
      BY <2>5 DEF Mild
    <3> QED BY <2>1, <3>1 DEF SetDataEvent, PortType, SameData
  <2>7. /\ q.RxQueue = o.RxQueue /\ q.TxQueue = p.TxQueue /\ q.thr = p.thr
        /\ (p.posted => q.posted) /\ q.refs = q.imr
        /\ (p.fDataEventSet => p.posted) => q.posted
    BY <2>3, <2>5, <2>6 DEF SameData, SameEvent, Mild
  <2>8. /\ \A b \in FixedBits : b \in q.Flag <=> b \in p.Flag
        /\ HW_IN \notin p.Flag => p.refs \subseteq q.refs
        /\ HW_IN \notin p.Flag /\ PowerSaved(q) => PowerSaved(p)
    BY <2>3, <2>5, <2>6 DEF Mild, PowerSaved, Has
  <2>9. /\ InterruptState(p, "Tx") => InterruptState(q, "Tx")
        /\ Armed(p) => Armed(q)
    <3>1. Pending(o) <=> Pending(p)
      BY <2>3 DEF Pending, NextChar, Has
    <3>2. Pending(q) <=> Pending(h)
      BY <2>6 DEF Pending, NextChar, Has, SameData
    <3> QED BY <2>3, <2>5, <2>6, <3>1, <3>2 DEF Mild, Armed, InterruptState
  <2>10. NumberOfElements(q.RxQueue) >= NumberOfElements(p.RxQueue)
    BY <1>2, <2>4, <2>7
  <2>11. Hears(p, q)
    BY <2>3, <2>5, <2>6, <2>7, <2>8, <2>9, <2>10 DEF Hears
  <2> QED BY <1>5, <2>2, <2>3, <2>6, <2>7, <2>11 DEF q
<1>6. CASE ~Accepts(p, c)
  <2>1. q \in {Clear(p, "TX_XON_STATE"), Set(p, "TX_XON_STATE"), p}
    BY <1>6 DEF AddCharToRxBuffer, Accepts
  <2> QED BY <1>4, <1>6, <2>1
<1> QED BY <1>5, <1>6

\* An interrupt has taken the character from the holding register.
LEMMA ReceiveLemma ==
    ASSUME NEW byte \in Bytes, port \in PortType, port.refs = port.imr,
           NEW s \in Seq(Bytes), Holds(port.RxQueue, s)
    PROVE  LET q == Receive(byte)
           IN  /\ Hears(port, q) /\ q.rhr = None
               /\ Holds(q.RxQueue, IF port.rhr # None /\ Accepts(port, port.rhr)
                                   THEN Append(s, byte) ELSE s)
               /\ q.RxQueue # port.RxQueue => q.fDataEventSet
               /\ port.rhr = None => q = port
<1> DEFINE q == Receive(byte)
<1>1. CASE port.rhr = None
  <2>1. q = port
    BY <1>1 DEF Receive
  <2>2. NumberOfElements(port.RxQueue) \in Nat
    <3>1. port.RxQueue \in QueueType(RxSize, Bytes)
      BY DEF PortType
    <3> QED BY <3>1, Sizes, CountType DEF QueueSizes
  <2>3. Hears(port, port)
    BY <2>2 DEF Hears
  <2> QED BY <1>1, <2>1, <2>3
<1>2. CASE port.rhr # None
  <2> DEFINE a == AddCharToRxBuffer(port, port.rhr, byte)
  <2>1. port.rhr \in Char
    BY DEF PortType
  <2>2. /\ Hears(port, a)
        /\ Holds(a.RxQueue, IF Accepts(port, port.rhr) THEN Append(s, byte) ELSE s)
        /\ Accepts(port, port.rhr) => a.fDataEventSet
        /\ ~Accepts(port, port.rhr) => a.RxQueue = port.RxQueue
    BY <2>1, AddCharLemma
  <2>3. q = [a EXCEPT !.rhr = None]
    BY <1>2 DEF Receive
  <2> HIDE DEF q, a
  <2>4. a \in PortType
    BY <2>2 DEF Hears
  <2>5. /\ q \in PortType /\ q.rhr = None /\ SameEvent(a, q)
        /\ q.TxQueue = a.TxQueue /\ q.RxQueue = a.RxQueue /\ q.thr = a.thr
        /\ q.Flag = a.Flag /\ q.refs = a.refs /\ q.imr = a.imr
    BY <2>3, <2>4 DEF PortType, SameEvent, Char
  <2>6. Pending(q) <=> Pending(a)
    BY <2>5 DEF Pending, NextChar, Has
  <2>7. Hears(port, q)
    BY <2>2, <2>5, <2>6
       DEF Hears, SameEvent, PowerSaved, Has, InterruptState, Armed
  <2> QED BY <1>2, <2>2, <2>5, <2>7 DEF SameEvent, q
<1> QED BY <1>1, <1>2

LEMMA ReplaceTx ==
    ASSUME NEW p \in PortType, NEW Q \in QueueType(TxSize, Bytes)
    PROVE  LET q == [p EXCEPT !.TxQueue = Q]
           IN  /\ q \in PortType /\ q.TxQueue = Q /\ q.RxQueue = p.RxQueue
               /\ q.Flag = p.Flag /\ q.refs = p.refs /\ q.imr = p.imr
               /\ q.rhr = p.rhr /\ q.thr = p.thr /\ SameEvent(p, q)
BY DEF PortType, SameEvent

LEMMA ReplaceRx ==
    ASSUME NEW p \in PortType, NEW Q \in QueueType(RxSize, Bytes)
    PROVE  LET q == [p EXCEPT !.RxQueue = Q]
           IN  /\ q \in PortType /\ q.RxQueue = Q /\ q.TxQueue = p.TxQueue
               /\ q.Flag = p.Flag /\ q.refs = p.refs /\ q.imr = p.imr
               /\ q.rhr = p.rhr /\ q.thr = p.thr /\ SameEvent(p, q)
BY DEF PortType, SameEvent

\* The next character goes to the transmitter.
LEMMA SendNextCharLemma ==
    ASSUME NEW p \in PortType, NEW s \in Seq(Bytes), Holds(p.TxQueue, s), Pending(p)
    PROVE  LET q == SendNextChar(p)
           IN  /\ q \in PortType /\ q.thr = NextChar(p)
               /\ Holds(q.TxQueue, TakeNext(p, s)) /\ TakeNext(p, s) \in Seq(Bytes)
               /\ q.RxQueue = p.RxQueue /\ q.rhr = p.rhr /\ SameEvent(p, q)
               /\ q.refs = p.refs /\ q.imr = p.imr
               /\ NextChar(p) = "XOFF" =>
                    "TX_BUFFERXOFF" \in p.Flag /\ q.Flag = p.Flag \ {"TX_BUFFERXOFF"}
               /\ NextChar(p) = "XON" =>
                    "TX_BUFFERXOFF" \notin p.Flag /\ q.Flag = p.Flag \ {"TX_BUFFERXON"}
               /\ NextChar(p) = "data" =>
                    /\ p.Flag \cap {"TX_BUFFERXOFF", "TX_BUFFERXON"} = {}
                    /\ q.Flag = p.Flag
               /\ NextChar(p) \in {"XOFF", "XON", "data"}
<1> DEFINE o == RemoveCharFromTxBuffer(p)
           q == SendNextChar(p)
<1>1. p.TxQueue \in QueueType(TxSize, Bytes)
  BY DEF PortType
<1>2. NextChar(p) \in {"XOFF", "XON", "data"}
  BY DEF Pending, NextChar, None
<1>3. /\ o \in PortType /\ o.RxQueue = p.RxQueue /\ o.rhr = p.rhr /\ SameEvent(p, o)
      /\ o.refs = p.refs /\ o.imr = p.imr
      /\ Holds(o.TxQueue, TakeNext(p, s)) /\ TakeNext(p, s) \in Seq(Bytes)
      /\ o.Flag = CASE NextChar(p) = "XOFF" -> p.Flag \ {"TX_BUFFERXOFF"}
                    [] NextChar(p) = "XON" -> p.Flag \ {"TX_BUFFERXON"}
                    [] NextChar(p) = "data" -> p.Flag
  <2>1. CASE NextChar(p) = "XOFF"
    <3>1. o = [p EXCEPT !.Flag = p.Flag \ {"TX_BUFFERXOFF"}]
      BY <2>1 DEF RemoveCharFromTxBuffer, Clear
    <3>2. p.Flag \ {"TX_BUFFERXOFF"} \subseteq FlagBits
      BY DEF PortType
    <3>3. TakeNext(p, s) = s
      BY <2>1 DEF TakeNext
    <3> HIDE DEF o
    <3> QED BY <2>1, <3>1, <3>2, <3>3, FlagsLemma DEF SameData
  <2>2. CASE NextChar(p) = "XON"
    <3>1. o = [p EXCEPT !.Flag = p.Flag \ {"TX_BUFFERXON"}]
      BY <2>2 DEF RemoveCharFromTxBuffer, Clear
    <3>2. p.Flag \ {"TX_BUFFERXON"} \subseteq FlagBits
      BY DEF PortType
    <3>3. TakeNext(p, s) = s
      BY <2>2 DEF TakeNext
    <3> HIDE DEF o
    <3> QED BY <2>2, <3>1, <3>2, <3>3, FlagsLemma DEF SameData
  <2>3. CASE NextChar(p) = "data"
    <3>1. o = [p EXCEPT !.TxQueue = Pop(p.TxQueue, 1)]
      BY <2>3 DEF RemoveCharFromTxBuffer
    <3>2. ~IsEmpty(p.TxQueue)
      BY <2>3 DEF NextChar, None
    <3>3. Given(p.TxQueue, 1) = 1
      BY <1>1, <3>2, Sizes, GivenLemma DEF QueueSizes
    <3>4. TakeNext(p, s) = SubSeq(s, 1 + 1, Len(s))
      BY <2>3 DEF TakeNext, Rest
    <3>5. PICK r : r = p.TxQueue
      OBVIOUS
    <3> HIDE DEF o
    <3>6. /\ Pop(r, 1) \in QueueType(TxSize, Bytes)
          /\ Holds(Pop(r, 1), SubSeq(s, Given(r, 1) + 1, Len(s)))
      BY <1>1, <3>5, Sizes, PopLemma DEF QueueSizes
    <3>7. TakeNext(p, s) \in Seq(Bytes)
      BY <3>4
    <3> QED BY <2>3, <3>1, <3>3, <3>4, <3>5, <3>6, <3>7, ReplaceTx
  <2> QED BY <1>2, <2>1, <2>2, <2>3
<1>4. q = [o EXCEPT !.thr = NextChar(p)]
  BY DEF SendNextChar
<1> HIDE DEF o, q
<1>5. /\ q \in PortType /\ q.thr = NextChar(p) /\ q.TxQueue = o.TxQueue
      /\ q.RxQueue = o.RxQueue /\ q.rhr = o.rhr /\ SameEvent(o, q)
      /\ q.refs = o.refs /\ q.imr = o.imr /\ q.Flag = o.Flag
  BY <1>2, <1>3, <1>4 DEF PortType, SameEvent, Char
<1>6. /\ NextChar(p) = "XOFF" => "TX_BUFFERXOFF" \in p.Flag
      /\ NextChar(p) = "XON" => "TX_BUFFERXOFF" \notin p.Flag
      /\ NextChar(p) = "data" => p.Flag \cap {"TX_BUFFERXOFF", "TX_BUFFERXON"} = {}
  BY DEF NextChar, Has, None
<1> QED BY <1>2, <1>3, <1>5, <1>6 DEF SameEvent, q

\* The port is opened: all is reset and both interrupts are on.
LEMMA InitializePortLemma ==
    ASSUME NEW p \in PortType, NEW flow \in SUBSET FlowBits
    PROVE  LET q == InitializePort(p, flow)
           IN  /\ q \in PortType /\ q.refs = Lines /\ q.imr = Lines
               /\ q.Flag = {"INITIALIZED", "TX_XON_STATE"} \cup flow
               /\ q.TxQueue = Initialize(TxSize) /\ q.RxQueue = Initialize(RxSize)
               /\ q.rhr = None /\ q.thr = None
               /\ ~q.fDataEventSet /\ q.posted = p.posted
<1> DEFINE F == {"INITIALIZED", "TX_XON_STATE"} \cup flow
           o == [p EXCEPT !.Flag = F, !.fDataEventSet = FALSE,
                          !.TxQueue = Initialize(TxSize),
                          !.RxQueue = Initialize(RxSize)]
           c == [o EXCEPT !.imr = {}, !.rhr = None, !.thr = None]
           t == InterruptOn(c, "Tx")
           q == InitializePort(p, flow)
<1>1. q = InterruptOn(t, "Rx")
  BY DEF InitializePort, CPU_USART_Initialize, ProtectPins
<1>2. F \subseteq FlagBits /\ "POWERSAVE" \notin F
  BY DEF FlagBits, FlowBits, SW_IN, SW_OUT, HW_IN
<1>3. /\ Initialize(TxSize) \in QueueType(TxSize, Bytes)
      /\ Initialize(RxSize) \in QueueType(RxSize, Bytes)
  BY Sizes, InitializeLemma DEF QueueSizes
<1> HIDE DEF F, q
<1>4. /\ o \in PortType /\ o.Flag = F /\ o.refs = p.refs
      /\ o.TxQueue = Initialize(TxSize) /\ o.RxQueue = Initialize(RxSize)
      /\ ~o.fDataEventSet /\ o.posted = p.posted
  BY <1>2, <1>3 DEF PortType
<1> HIDE DEF o
<1>5. /\ c \in PortType /\ c.Flag = F /\ c.refs = p.refs /\ c.imr = {}
      /\ c.TxQueue = Initialize(TxSize) /\ c.RxQueue = Initialize(RxSize)
      /\ c.rhr = None /\ c.thr = None
      /\ ~c.fDataEventSet /\ c.posted = p.posted
  BY <1>4 DEF PortType, Char
<1> HIDE DEF c
<1>6. /\ t \in PortType /\ SameData(c, t) /\ SameEvent(c, t)
      /\ t.refs = c.refs \cup {"Tx"} /\ t.imr = {"Tx"}
      /\ t.Flag \ {"POWERSAVE"} = c.Flag \ {"POWERSAVE"}
      /\ PowerSaved(t) => PowerSaved(c)
  BY <1>5, InterruptOnLemma DEF Lines
<1> HIDE DEF t
<1>7. /\ q \in PortType /\ SameData(t, q) /\ SameEvent(t, q)
      /\ q.refs = t.refs \cup {"Rx"} /\ q.imr = {"Tx", "Rx"}
      /\ q.Flag \ {"POWERSAVE"} = t.Flag \ {"POWERSAVE"}
      /\ PowerSaved(q) => PowerSaved(t)
  BY <1>1, <1>6, InterruptOnLemma DEF Lines
<1>8. q.refs = Lines /\ q.imr = Lines
  <2>1. p.refs \subseteq Lines
    BY DEF PortType, Lines
  <2> QED BY <1>5, <1>6, <1>7, <2>1 DEF Lines
<1>9. q.Flag = F
  BY <1>2, <1>5, <1>6, <1>7 DEF PowerSaved, Has
<1> QED BY <1>5, <1>6, <1>7, <1>8, <1>9 DEF SameData, SameEvent, F, q

\* The port is closed; what it holds stays.
LEMMA UninitializePortLemma ==
    ASSUME NEW p \in PortType, p.refs = p.imr
    PROVE  LET q == UninitializePort(p)
           IN  /\ q \in PortType /\ q.refs = q.imr /\ ~Initialized(q)
               /\ q.TxQueue = p.TxQueue /\ q.RxQueue = p.RxQueue
               /\ q.posted = p.posted /\ (q.fDataEventSet => p.fDataEventSet)
<1> DEFINE F == p.Flag \ {"INITIALIZED"}
           o == [p EXCEPT !.Flag = F, !.fDataEventSet = FALSE]
           r == InterruptOff(o, "Rx")
           t == InterruptOff(r, "Tx")
           q == UninitializePort(p)
<1>1. CASE ~Initialized(p)
  BY <1>1 DEF UninitializePort
<1>2. CASE Initialized(p)
  <2>1. q = [t EXCEPT !.thr = None]
    BY <1>2 DEF UninitializePort, CPU_USART_Uninitialize, ProtectPins, Clear
  <2>2. /\ o \in PortType /\ o.Flag = F /\ o.refs = p.refs /\ o.imr = p.imr
        /\ o.TxQueue = p.TxQueue /\ o.RxQueue = p.RxQueue
        /\ ~o.fDataEventSet /\ o.posted = p.posted
    BY DEF PortType
  <2> HIDE DEF o, q
  <2>3. /\ r \in PortType /\ SameData(o, r) /\ SameEvent(o, r)
        /\ r.refs = o.refs \ {"Rx"} /\ r.imr = o.imr \ {"Rx"}
        /\ r.Flag \ {"POWERSAVE"} = o.Flag \ {"POWERSAVE"}
    BY <2>2, InterruptOffLemma DEF Lines
  <2> HIDE DEF r
  <2>4. /\ t \in PortType /\ SameData(r, t) /\ SameEvent(r, t)
        /\ t.refs = r.refs \ {"Tx"} /\ t.imr = r.imr \ {"Tx"}
        /\ t.Flag \ {"POWERSAVE"} = r.Flag \ {"POWERSAVE"}
    <3>1. r.refs = r.imr
      BY <2>2, <2>3
    <3> QED BY <2>3, <3>1, InterruptOffLemma DEF Lines
  <2> HIDE DEF t
  <2>5. /\ q \in PortType /\ q.Flag = t.Flag /\ q.refs = t.refs /\ q.imr = t.imr
        /\ q.TxQueue = t.TxQueue /\ q.RxQueue = t.RxQueue /\ SameEvent(t, q)
    BY <2>1, <2>4 DEF PortType, SameEvent, Char
  <2>6. "INITIALIZED" \notin q.Flag
    BY <2>2, <2>3, <2>4, <2>5
  <2> QED BY <2>2, <2>3, <2>4, <2>5, <2>6 DEF SameData, SameEvent, Initialized, Has, q
<1> QED BY <1>1, <1>2

-----------------------------------------------------------------------------
(* The calls and the threads. *)

\* A call in progress is one of its operation, asks for at least one byte,
\* and has not taken them all before its end; a thread waits for at least one.
CallShape ==
    /\ call.op = None => call = NoCall
    /\ call.pc = None => call = NoCall
    /\ call.op = "read" => call.pc \in {"enter", "loop", "end"}
    /\ call.op = "write" => call.pc \in {"enter", "store", "loop", "end"}
    /\ call.op = "flush" => call.pc \in {"enter", "drain", "holding", "flushed"}
    /\ call.op \in Roles => call.left # 0 /\ thread[call.op].state = "running"
    /\ call.pc = "enter" => call.done = 0
    /\ call.pc \in {"loop", "store"} => call.done # call.left
    /\ \A r \in Roles :
        thread[r].state \in {"waiting", "ready"} => thread[r].left # 0

ThreadType == [state : {"idle", "running", "waiting", "ready"}, left : Counts]

CallOK ==
    /\ call \in CallType /\ call.done <= call.left
    /\ thread \in [Roles -> ThreadType]
    /\ CallShape

LEMMA CountsLemma ==
    /\ 0 \in Counts /\ Counts \subseteq Nat
    /\ \A r \in Roles : \A n \in 1..MaxCount(r) : n \in Counts
    /\ \A n \in Counts : \A m \in Nat : m <= n => m \in Counts
BY UsartAssumption DEF Counts, Roles, MaxCount

LEMMA NoCallLemma ==
    /\ NoCall \in CallType /\ NoCall.done = 0 /\ NoCall.left = 0
    /\ NoCall.op = None /\ NoCall.pc = None
    /\ None \notin Roles \cup {"flush", "read", "write"}
    /\ None \notin {"enter", "store", "loop", "end", "drain", "holding", "flushed"}
BY CountsLemma DEF NoCall, CallType, None, Roles

\* The threads that wait are made ready and the others left alone.
LEMMA WokenLemma ==
    ASSUME NEW ts \in [Roles -> ThreadType]
    PROVE  /\ Woken(ts) \in [Roles -> ThreadType]
           /\ \A r \in Roles :
                /\ Woken(ts)[r].left = ts[r].left
                /\ Woken(ts)[r].state # "waiting"
                /\ ts[r].state # "waiting" => Woken(ts)[r] = ts[r]
                /\ ts[r].state = "waiting" => Woken(ts)[r].state = "ready"
BY DEF Woken, ThreadType

\* No call is in progress and the threads are as they ought to be.
LEMMA NoCallOK ==
    ASSUME call' = NoCall, thread' \in [Roles -> ThreadType],
           \A r \in Roles :
                thread'[r].state \in {"waiting", "ready"} => thread'[r].left # 0
    PROVE  CallOK'
BY NoCallLemma DEF CallOK, CallShape

\* A Read or Write begins, or goes on with what is left.
LEMMA EnterOK ==
    ASSUME NEW r \in Roles, NEW n \in Counts, n # 0,
           call' = [NoCall EXCEPT !.op = r, !.pc = "enter", !.left = n],
           thread' \in [Roles -> ThreadType], thread'[r].state = "running",
           \A s \in Roles :
                thread'[s].state \in {"waiting", "ready"} => thread'[s].left # 0
    PROVE  CallOK'
<1>1. /\ call'.op = r /\ call'.pc = "enter" /\ call'.left = n /\ call'.done = 0
      /\ call' \in CallType
  BY NoCallLemma DEF NoCall, CallType, Roles
<1>2. 0 <= n
  BY CountsLemma
<1> QED BY <1>1, <1>2, NoCallLemma DEF CallOK, CallShape, Roles

\* A thread that runs becomes idle.
LEMMA IdleLemma ==
    ASSUME thread \in [Roles -> ThreadType], NEW r \in Roles,
           \A s \in Roles :
                thread[s].state \in {"waiting", "ready"} => thread[s].left # 0,
           thread' = [thread EXCEPT ![r] = Idle]
    PROVE  /\ thread' \in [Roles -> ThreadType]
           /\ \A s \in Roles :
                thread'[s].state \in {"waiting", "ready"} => thread'[s].left # 0
BY CountsLemma DEF Idle, ThreadType

LEMMA ReturnedLemma ==
    ASSUME CallOK, NEW r \in Roles, call.op = r, NEW n \in Nat, n <= call.left,
           Returned(r, n)
    PROVE  CallOK'
<1>1. /\ call \in CallType /\ call.left \in Counts /\ call.left # 0
      /\ thread \in [Roles -> ThreadType] /\ thread[r].state = "running"
      /\ \A s \in Roles :
            thread[s].state \in {"waiting", "ready"} => thread[s].left # 0
  BY DEF CallOK, CallShape, CallType
<1>2. CASE thread' = [thread EXCEPT ![r] = Idle] /\ call' = NoCall
  BY <1>1, <1>2, IdleLemma, NoCallOK
<1>3. CASE /\ thread' = [thread EXCEPT ![r] = [state |-> "waiting", left |-> call.left]]
           /\ call' = NoCall
  <2>1. /\ thread' \in [Roles -> ThreadType]
        /\ \A s \in Roles :
            thread'[s].state \in {"waiting", "ready"} => thread'[s].left # 0
    BY <1>1, <1>3 DEF ThreadType
  <2> QED BY <1>3, <2>1, NoCallOK
<1>4. CASE /\ call' = [NoCall EXCEPT !.op = r, !.pc = "enter", !.left = call.left - n]
           /\ n # call.left /\ thread' = thread
  <2>1. call.left - n \in Counts /\ call.left - n # 0
    <3>1. call.left \in Nat /\ call.left - n \in Nat /\ call.left - n <= call.left
          /\ call.left - n # 0
      BY <1>1, <1>4, CountsLemma
    <3> QED BY <1>1, <3>1, CountsLemma
  <2> QED BY <1>1, <1>4, <2>1, EnterOK
<1> QED BY <1>2, <1>3, <1>4 DEF Returned

LEMMA RefusedLemma ==
    ASSUME CallOK, NEW r \in Roles, Refused(r)
    PROVE  CallOK'
BY IdleLemma, NoCallOK DEF CallOK, CallShape, Refused

\* A call goes on with another step of its own.
LEMMA StepOK ==
    ASSUME CallOK, call.op # None, call' \in CallType, thread' = thread,
           call'.op = call.op, call'.left = call.left, call'.done <= call'.left,
           call'.pc \in {"loop", "store"} => call'.done # call'.left,
           call'.pc # "enter", call'.pc # None,
           call.op = "read" => call'.pc \in {"loop", "end"},
           call.op = "write" => call'.pc \in {"store", "loop", "end"},
           call.op = "flush" => call'.pc \in {"drain", "holding", "flushed"}
    PROVE  CallOK'
BY NoCallLemma DEF CallOK, CallShape

\* What the queues and the registers hold, and what the streams say.
Matched ==
    /\ port.refs = port.imr
    /\ Holds(port.TxQueue, stream.tx) /\ Holds(port.RxQueue, stream.rx)

PortOK ==
    /\ port \in PortType
    /\ stream \in [rx : Seq(Bytes), tx : Seq(Bytes)]
    /\ Matched

SignalsOK == com \in BOOLEAN /\ raised \in BOOLEAN /\ stopped \in BOOLEAN

Base == PortOK /\ CallOK /\ SignalsOK

\* How many bytes the loops of Read and Write ask for and get.
LEMMA LoopLemma ==
    ASSUME port \in PortType, CallOK, call.pc = "loop", call.op \in Roles
    PROVE  /\ call.left - call.done \in Nat /\ call.left - call.done # 0
           /\ Given(port.RxQueue, call.left - call.done) \in 0..(call.left - call.done)
           /\ Room(port.TxQueue, call.left - call.done) \in 0..(call.left - call.done)
<1>1. call.left \in Nat /\ call.done \in Nat /\ call.done <= call.left
      /\ call.done # call.left
  BY CountsLemma DEF CallOK, CallShape, CallType
<1>2. call.left - call.done \in Nat /\ call.left - call.done # 0
  BY <1>1
<1>3. /\ port.RxQueue \in QueueType(RxSize, Bytes)
      /\ port.TxQueue \in QueueType(TxSize, Bytes)
  BY DEF PortType
<1> QED BY <1>2, <1>3, Sizes, GivenLemma, RoomLemma DEF QueueSizes

LEMMA CallStep ==
    ASSUME Base, [Next]_vars
    PROVE  CallOK'
<1> USE DEF Base
<1>0. /\ call \in CallType /\ thread \in [Roles -> ThreadType]
      /\ \A r \in Roles :
            thread[r].state \in {"waiting", "ready"} => thread[r].left # 0
      /\ call.left \in Nat /\ call.done \in Nat
  BY CountsLemma DEF CallOK, CallShape, CallType
<1>1. CASE UNCHANGED <<call, thread>>
  BY <1>1 DEF CallOK, CallShape
<1>2. ASSUME NEW byte \in Bytes, Interrupt(byte) PROVE CallOK'
  BY <1>1, <1>2 DEF Interrupt
<1>3. CASE Transmit
  BY <1>1, <1>3 DEF Transmit
<1>4. CASE ProcessActivity
  <2>1. call' = NoCall /\ thread' = Woken(thread)
    BY <1>4 DEF ProcessActivity
  <2> QED BY <1>0, <2>1, WokenLemma, NoCallOK
<1>5. ASSUME NEW r \in Roles, NEW n \in Counts, n # 0, Begin(r, n),
             thread' = [thread EXCEPT ![r] = Running]
      PROVE  CallOK'
  <2>1. /\ thread' \in [Roles -> ThreadType] /\ thread'[r].state = "running"
        /\ \A s \in Roles :
            thread'[s].state \in {"waiting", "ready"} => thread'[s].left # 0
    BY <1>0, <1>5, CountsLemma DEF Running, ThreadType
  <2> QED BY <1>5, <2>1, EnterOK DEF Begin
<1>6. ASSUME NEW r \in Roles, GoOn(r) PROVE CallOK'
  <2>1. thread[r].left \in Counts /\ thread[r].left # 0
    BY <1>0, <1>6 DEF GoOn, ThreadType
  <2> QED BY <1>5, <1>6, <2>1 DEF GoOn
<1>7. CASE ReadEnter
  <2>1. CASE Refused("read")
    BY <2>1, RefusedLemma DEF Roles
  <2>2. CASE call' = [call EXCEPT !.pc = "loop"] /\ UNCHANGED thread
    <3>1. /\ call' \in CallType /\ call'.op = "read" /\ call'.left = call.left
          /\ call'.done = 0 /\ call'.pc = "loop" /\ call.left # 0 /\ call.op = "read"
      BY <1>0, <1>7, <2>2 DEF CallOK, CallShape, CallType, ReadEnter, Roles
    <3> QED BY <1>0, <2>2, <3>1, NoCallLemma, StepOK
  <2> QED BY <1>7, <2>1, <2>2 DEF ReadEnter
<1>8. CASE ReadLoop
  <2>1. PICK n : n = call.left - call.done
    OBVIOUS
  <2>2. PICK k : k = Given(port.RxQueue, n)
    OBVIOUS
  <2>3. call.op = "read" /\ call.pc = "loop" /\ thread' = thread
    BY <1>8 DEF ReadLoop
  <2>4. call' = [call EXCEPT !.done = @ + k, !.pc = IF ReadStops(k, n) THEN "end" ELSE @]
    BY <1>8, <2>1, <2>2 DEF ReadLoop
  <2>5. k \in Nat /\ k <= n /\ n \in Nat
    BY <2>1, <2>2, <2>3, LoopLemma DEF PortOK, Roles
  <2>6. /\ call.done + k <= call.left /\ call.done + k \in Nat
        /\ ~ReadStops(k, n) => call.done + k # call.left
    BY <1>0, <2>1, <2>5 DEF ReadStops
  <2>7. call.done + k \in Counts
    BY <1>0, <2>6, CountsLemma DEF CallType
  <2>8. /\ call' \in CallType /\ call'.op = "read" /\ call'.left = call.left
        /\ call'.done = call.done + k
        /\ call'.pc = IF ReadStops(k, n) THEN "end" ELSE "loop"
    BY <1>0, <2>3, <2>4, <2>7 DEF CallType
  <2> QED BY <1>0, <2>3, <2>6, <2>8, NoCallLemma, StepOK
<1>9. CASE ReadEnd
  BY <1>0, <1>9, ReturnedLemma DEF ReadEnd, Roles, CallOK
<1>10. CASE WriteEnter
  <2>1. CASE Refused("write")
    BY <2>1, RefusedLemma DEF Roles
  <2>2. CASE Returned("write", 0)
    BY <1>0, <1>10, <2>2, ReturnedLemma DEF Roles, WriteEnter
  <2>3. CASE call' = [call EXCEPT !.pc = "loop"] /\ UNCHANGED thread
    <3>1. /\ call' \in CallType /\ call'.op = "write" /\ call'.left = call.left
          /\ call'.done = 0 /\ call'.pc = "loop" /\ call.left # 0 /\ call.op = "write"
      BY <1>0, <1>10, <2>3 DEF CallOK, CallShape, CallType, WriteEnter, Roles
    <3> QED BY <1>0, <2>3, <3>1, NoCallLemma, StepOK
  <2>4. CASE /\ call' = [call EXCEPT !.pc = "store", !.flags = port.Flag]
             /\ UNCHANGED thread
    <3>1. port.Flag \in SUBSET FlagBits
      BY DEF PortOK, PortType
    <3>2. /\ call' \in CallType /\ call'.op = "write" /\ call'.left = call.left
          /\ call'.done = 0 /\ call'.pc = "store" /\ call.left # 0 /\ call.op = "write"
      BY <1>0, <1>10, <2>4, <3>1 DEF CallOK, CallShape, CallType, WriteEnter, Roles
    <3> QED BY <1>0, <2>4, <3>2, NoCallLemma, StepOK
  <2> QED BY <1>10, <2>1, <2>2, <2>3, <2>4 DEF WriteEnter
<1>11. CASE WriteStore
  <2>1. /\ call' = [call EXCEPT !.pc = "loop", !.flags = {}] /\ UNCHANGED thread
        /\ call.op = "write" /\ call.pc = "store" /\ call.done # call.left
        /\ call.done <= call.left
    BY <1>11 DEF WriteStore, CallOK, CallShape
  <2>2. /\ call' \in CallType /\ call'.op = "write" /\ call'.left = call.left
        /\ call'.done = call.done /\ call'.pc = "loop"
    BY <1>0, <2>1 DEF CallType
  <2> QED BY <2>1, <2>2, NoCallLemma, StepOK
<1>12. CASE WriteLoop
  <2>1. PICK k : k = Room(port.TxQueue, call.left - call.done)
    OBVIOUS
  <2>2. PICK stop \in BOOLEAN :
            /\ stop = (\/ call.round = 1 \/ call.done + k = call.left
                       \/ k = 0 /\ ~Has(port, HW_IN))
            /\ call' = [call EXCEPT !.done = @ + k, !.round = IF stop THEN 0 ELSE 1,
                                    !.pc = IF stop THEN "end" ELSE @]
    BY <1>12, <2>1 DEF WriteLoop
  <2>3. call.op = "write" /\ call.pc = "loop" /\ thread' = thread
    BY <1>12 DEF WriteLoop
  <2>4. k \in Nat /\ k <= call.left - call.done /\ call.left - call.done \in Nat
    BY <2>1, <2>3, LoopLemma DEF PortOK, Roles
  <2>5. /\ call.done + k <= call.left /\ call.done + k \in Nat
        /\ ~stop => call.done + k # call.left
    BY <1>0, <2>2, <2>4
  <2>6. call.done + k \in Counts
    BY <1>0, <2>5, CountsLemma DEF CallType
  <2>7. /\ call' \in CallType /\ call'.op = "write" /\ call'.left = call.left
        /\ call'.done = call.done + k
        /\ call'.pc = IF stop THEN "end" ELSE "loop"
    <3>1. PICK p \in {"loop", "end"}, i \in 0..1 :
            /\ p = (IF stop THEN "end" ELSE "loop")
            /\ call' = [call EXCEPT !.done = call.done + k, !.round = i, !.pc = p]
      <4>1. CASE stop
        <5>1. call' = [call EXCEPT !.done = call.done + k, !.round = 0, !.pc = "end"]
          BY <2>2, <4>1
        <5> QED BY <4>1, <5>1
      <4>2. CASE ~stop
        <5>1. call' = [call EXCEPT !.done = call.done + k, !.round = 1, !.pc = "loop"]
          BY <2>2, <2>3, <4>2
        <5> QED BY <4>2, <5>1
      <4> QED BY <4>1, <4>2
    <3> QED BY <1>0, <2>3, <2>6, <3>1 DEF CallType
  <2> QED BY <1>0, <2>2, <2>3, <2>5, <2>7, NoCallLemma, StepOK
<1>13. CASE WriteEnd
  BY <1>0, <1>13, ReturnedLemma DEF WriteEnd, Roles, CallOK
<1>14. ASSUME NEW pc \in {"drain", "holding", "flushed"}, Goto(pc), UNCHANGED thread,
              call.op = "flush"
       PROVE  CallOK'
  <2>1. /\ call' \in CallType /\ call'.op = call.op /\ call'.left = call.left
        /\ call'.done = call.done /\ call'.pc = pc
    BY <1>0, <1>14 DEF Goto, CallType
  <2> QED BY <1>14, <2>1, NoCallLemma, StepOK DEF CallOK
<1>15. CASE FlushEnter \/ FlushDrained
  BY <1>14, <1>15 DEF FlushEnter, FlushDrained
<1>16. CASE FlushPoll
  BY <1>1, <1>16 DEF FlushPoll
<1>17. CASE FlushReturns \/ (\E flow \in Flows : Open(flow))
  BY <1>0, <1>17, NoCallOK DEF FlushReturns, Open
<1>18. CASE Close
  <2>1. call' = NoCall /\ thread' = Woken(thread)
    BY <1>18 DEF Close
  <2> QED BY <1>0, <2>1, WokenLemma, NoCallOK
<1>19. ASSUME NEW c, Arrive(c) PROVE CallOK'
  BY <1>1, <1>19 DEF Arrive
<1>20. ASSUME NEW r \in Roles, NEW n \in 1..MaxCount(r), StartCall(r, n)
       PROVE  CallOK'
  <2>1. n \in Counts /\ n # 0
    BY CountsLemma, UsartAssumption DEF MaxCount
  <2> QED BY <1>5, <1>20, <2>1 DEF StartCall
<1>21. ASSUME NEW r \in Roles, WaitExpires(r) PROVE CallOK'
  <2>1. /\ thread' \in [Roles -> ThreadType] /\ call' = NoCall
        /\ \A s \in Roles :
            thread'[s].state \in {"waiting", "ready"} => thread'[s].left # 0
    BY <1>0, <1>21 DEF WaitExpires, ThreadType
  <2> QED BY <2>1, NoCallOK
<1>22. CASE StartFlush
  <2>1. /\ call' \in CallType /\ call'.op = "flush" /\ call'.pc = "enter"
        /\ call'.done = 0 /\ call'.left = 0 /\ thread' = thread
    BY <1>22, NoCallLemma DEF StartFlush, NoCall, CallType
  <2> QED BY <1>0, <2>1, NoCallLemma DEF CallOK, CallShape, Roles
<1>23. ASSUME NEW fRx, Discard(fRx) PROVE CallOK'
  BY <1>1, <1>23 DEF Discard
<1>24. CASE PrepareForClockStop \/ ClockStopFinished
  BY <1>1, <1>24 DEF PrepareForClockStop, ClockStopFinished
<1>25. CASE UNCHANGED vars
  BY <1>1, <1>25 DEF vars
<1> QED
  BY <1>2, <1>3, <1>4, <1>6, <1>7, <1>8, <1>9, <1>10, <1>11, <1>12, <1>13, <1>15,
     <1>16, <1>17, <1>18, <1>19, <1>20, <1>21, <1>22, <1>23, <1>24, <1>25
  DEF Next, CallSteps, Environment

\* The next character of p has gone to the transmitter of q.
Sent(p, q) ==
    /\ Pending(p) /\ q \in PortType /\ q.thr = NextChar(p)
    /\ q.refs = p.refs /\ q.imr = p.imr
    /\ q.RxQueue = p.RxQueue /\ SameEvent(p, q)
    /\ \/ /\ q.thr = "XOFF" /\ "TX_BUFFERXOFF" \in p.Flag
          /\ q.Flag = p.Flag \ {"TX_BUFFERXOFF"}
       \/ /\ q.thr = "XON" /\ "TX_BUFFERXOFF" \notin p.Flag
          /\ q.Flag = p.Flag \ {"TX_BUFFERXON"}
       \/ /\ q.thr = "data" /\ p.Flag \cap {"TX_BUFFERXOFF", "TX_BUFFERXON"} = {}
          /\ q.Flag = p.Flag

\* There was nothing to send and the transmit interrupt is off in q.
Stilled(p, q) ==
    /\ ~Pending(p) /\ q \in PortType /\ SameData(p, q) /\ SameEvent(p, q)
    /\ q.refs = p.refs \ {"Tx"} /\ q.imr = p.imr \ {"Tx"}
    /\ q.Flag \ {"POWERSAVE"} = p.Flag \ {"POWERSAVE"}
    /\ PowerSaved(q) => PowerSaved(p) \/ q.refs = {}

LEMMA SentLemma ==
    ASSUME NEW p \in PortType, NEW s \in Seq(Bytes), Holds(p.TxQueue, s), Pending(p)
    PROVE  /\ Sent(p, SendNextChar(p))
           /\ Holds(SendNextChar(p).TxQueue, TakeNext(p, s))
           /\ TakeNext(p, s) \in Seq(Bytes)
BY SendNextCharLemma DEF Sent

LEMMA StilledLemma ==
    ASSUME NEW p \in PortType, p.refs = p.imr, ~Pending(p)
    PROVE  Stilled(p, InterruptOff(p, "Tx"))
BY InterruptOffLemma DEF Stilled, Lines

\* Both holding registers are served, the event is set, and p is the port
\* between the two.
Served(p) ==
    /\ Hears(port, p) /\ (p.RxQueue # port.RxQueue => p.fDataEventSet)
    /\ com'
    /\ port' = p \/ Stilled(p, port') \/ (p.thr = None /\ Sent(p, port'))

LEMMA InterruptLemma ==
    ASSUME PortOK, NEW byte \in Bytes, Interrupt(byte)
    PROVE  PortOK' /\ \E p \in PortType : Served(p)
<1>1. /\ port \in PortType /\ port.refs = port.imr
      /\ stream.rx \in Seq(Bytes) /\ stream.tx \in Seq(Bytes)
      /\ Holds(port.TxQueue, stream.tx) /\ Holds(port.RxQueue, stream.rx)
  BY DEF PortOK, Matched
<1>2. PICK p : p = Receive(byte)
  OBVIOUS
<1>3. PICK rx : rx = IF port.rhr # None /\ Accepts(port, port.rhr)
                     THEN Append(stream.rx, byte) ELSE stream.rx
  OBVIOUS
<1>4. /\ Hears(port, p) /\ Holds(p.RxQueue, rx)
      /\ p.RxQueue # port.RxQueue => p.fDataEventSet
      /\ port.rhr = None => p = port
  BY <1>1, <1>2, <1>3, ReceiveLemma
<1>5. rx \in Seq(Bytes)
  BY <1>1, <1>3
<1>6. /\ p \in PortType /\ p.refs = p.imr /\ p.TxQueue = port.TxQueue
      /\ Holds(p.TxQueue, stream.tx) /\ Holds(p.RxQueue, rx)
  BY <1>1, <1>4 DEF Hears
<1>7. com'
  <2>1. CASE port.rhr # None
    BY <2>1 DEF Interrupt
  <2>2. CASE port.rhr = None
    BY <1>1, <1>2, <1>4, <2>2 DEF Interrupt
  <2> QED BY <2>1, <2>2
<1>8. /\ stream'.rx = rx
      /\ stream' \in [rx : {rx}, tx : {TakeNext(p, stream.tx), stream.tx}]
  BY <1>2, <1>3 DEF Interrupt
<1>9. CASE port.thr = None /\ "Tx" \in p.refs
  <2>1. /\ stream'.tx = TakeNext(p, stream.tx)
        /\ port' = IF NextChar(p) = None THEN InterruptOff(p, "Tx") ELSE SendNextChar(p)
    BY <1>2, <1>9 DEF Interrupt
  <2>2. CASE ~Pending(p)
    <3>1. Stilled(p, port')
      BY <1>6, <2>1, <2>2, StilledLemma DEF Pending
    <3>2. stream'.tx = stream.tx
      BY <2>1, <2>2 DEF Pending, TakeNext, None
    <3>3. PortOK'
      BY <1>1, <1>5, <1>6, <1>8, <3>1, <3>2 DEF PortOK, Matched, Stilled, SameData
    <3> QED BY <1>4, <1>6, <1>7, <3>1, <3>3 DEF Served
  <2>3. CASE Pending(p)
    <3>1. /\ Sent(p, port') /\ Holds(port'.TxQueue, stream'.tx)
          /\ stream'.tx \in Seq(Bytes)
      BY <1>1, <1>6, <2>1, <2>3, SentLemma DEF Pending
    <3>2. p.thr = None
      BY <1>4, <1>9 DEF Hears
    <3>3. PortOK'
      BY <1>1, <1>5, <1>6, <1>8, <3>1 DEF PortOK, Matched, Sent
    <3> QED BY <1>4, <1>6, <1>7, <3>1, <3>2, <3>3 DEF Served
  <2> QED BY <2>2, <2>3
<1>10. CASE ~(port.thr = None /\ "Tx" \in p.refs)
  <2>1. port' = p /\ stream'.tx = stream.tx
    BY <1>2, <1>10 DEF Interrupt
  <2>2. PortOK'
    BY <1>1, <1>5, <1>6, <1>8, <2>1 DEF PortOK, Matched
  <2> QED BY <1>4, <1>6, <1>7, <2>1, <2>2 DEF Served
<1> QED BY <1>9, <1>10

\* Nothing is taken from or put into the queues.
LEMMA SameQueues ==
    ASSUME PortOK, port' \in PortType, port'.refs = port'.imr,
           port'.TxQueue = port.TxQueue, port'.RxQueue = port.RxQueue,
           stream' = stream
    PROVE  PortOK'
BY DEF PortOK, Matched

\* p is the port without the bytes that one round of Read took; the receiver
\* is let go when that passes the low water mark.
Taken(p) ==
    /\ p \in PortType /\ p.refs = p.imr /\ p.Flag = port.Flag
    /\ p.refs = port.refs /\ p.thr = port.thr /\ SameEvent(port, p)
    /\ p.TxQueue = port.TxQueue
    /\ NumberOfElements(p.RxQueue) \in Nat
    /\ NumberOfElements(p.RxQueue) <= NumberOfElements(port.RxQueue)
    /\ IF /\ NumberOfElements(port.RxQueue) > LowWaterMark
          /\ NumberOfElements(p.RxQueue) <= LowWaterMark
       THEN port' = LetGo(p) ELSE port' = p

LEMMA ReadLoopLemma ==
    ASSUME PortOK, CallOK, ReadLoop
    PROVE  /\ PortOK' /\ \E p \in PortType : Taken(p)
           /\ call'.pc = "end" /\ call'.done = 0 => IsEmpty(port'.RxQueue)
<1>1. /\ port \in PortType /\ port.refs = port.imr
      /\ stream.rx \in Seq(Bytes) /\ stream.tx \in Seq(Bytes)
      /\ Holds(port.TxQueue, stream.tx) /\ Holds(port.RxQueue, stream.rx)
      /\ port.RxQueue \in QueueType(RxSize, Bytes)
  BY DEF PortOK, Matched, PortType
<1>2. PICK n \in Nat : n = call.left - call.done /\ n # 0
  BY <1>1, LoopLemma DEF ReadLoop, Roles
<1>3. PICK r : r = port.RxQueue
  OBVIOUS
<1>4. PICK k : k = Given(r, n) /\ k \in Nat
  BY <1>1, <1>3, Sizes, GivenLemma DEF QueueSizes
<1>5. PICK s \in Seq(Bytes) : s = stream.rx
  BY <1>1
<1>6. PICK p : p = [port EXCEPT !.RxQueue = Pop(r, n)]
  OBVIOUS
<1>7. PICK t : t = SubSeq(s, k + 1, Len(s))
  OBVIOUS
<1>8. Pop(r, n) \in QueueType(RxSize, Bytes) /\ Holds(Pop(r, n), t)
  BY <1>1, <1>3, <1>4, <1>5, <1>7, Sizes, PopLemma DEF QueueSizes
<1>9. t \in Seq(Bytes)
  BY <1>4, <1>7
<1>10. /\ p \in PortType /\ p.RxQueue = Pop(r, n) /\ p.TxQueue = port.TxQueue
       /\ p.Flag = port.Flag /\ p.refs = port.refs /\ p.imr = port.imr
       /\ p.thr = port.thr /\ SameEvent(port, p)
  BY <1>1, <1>6, <1>8, ReplaceRx
<1>11. /\ NumberOfElements(p.RxQueue) \in Nat
       /\ NumberOfElements(p.RxQueue) <= NumberOfElements(port.RxQueue)
  <2>1. /\ NumberOfElements(p.RxQueue) \in Nat
        /\ NumberOfElements(port.RxQueue) \in Nat
    BY <1>1, <1>8, <1>10, Sizes, CountType DEF QueueSizes
  <2>2. Len(t) <= Len(s)
    BY <1>4, <1>7
  <2> QED BY <1>1, <1>5, <1>8, <1>10, <2>1, <2>2 DEF Holds
<1>12. /\ port' = IF PassesLowWaterMark(r, n) THEN LetGo(p) ELSE p
       /\ stream' = [stream EXCEPT !.rx = Rest(@, k)]
       /\ call' = [call EXCEPT !.done = @ + k, !.pc = IF ReadStops(k, n) THEN "end" ELSE @]
  BY <1>2, <1>3, <1>4, <1>6 DEF ReadLoop
<1>13. Taken(p)
  BY <1>1, <1>3, <1>10, <1>11, <1>12 DEF Taken, PassesLowWaterMark
<1>14. /\ port' \in PortType /\ port'.refs = port'.imr
       /\ port'.TxQueue = port.TxQueue /\ port'.RxQueue = p.RxQueue
  <2>1. Mild(p, LetGo(p))
    BY <1>1, <1>10, LetGoLemma
  <2> QED BY <1>1, <1>10, <1>12, <2>1 DEF Mild, SameData
<1>15. stream' \in [rx : Seq(Bytes), tx : Seq(Bytes)] /\ stream'.rx = t
       /\ stream'.tx = stream.tx
  <2>1. Rest(s, k) = t
    BY <1>7 DEF Rest
  <2>2. stream' = [stream EXCEPT !.rx = t]
    BY <1>5, <1>12, <2>1
  <2> QED BY <1>9, <2>2 DEF PortOK
<1>16. PortOK'
  BY <1>1, <1>8, <1>10, <1>14, <1>15 DEF PortOK, Matched
<1>17. ASSUME call'.pc = "end", call'.done = 0
       PROVE  IsEmpty(port'.RxQueue)
  <2>1. call.done \in Nat /\ call \in CallType
    BY CountsLemma DEF CallOK, CallType
  <2>2. call'.done = call.done + k
    BY <1>12, <2>1 DEF CallType
  <2>3. k = 0
    BY <1>4, <1>17, <2>1, <2>2
  <2>4. IsEmpty(r)
    BY <1>1, <1>2, <1>3, <1>4, <2>3, Sizes, GivenLemma DEF QueueSizes
  <2>5. NumberOfElements(r) = 0 /\ NumberOfElements(p.RxQueue) = 0
    <3>1. NumberOfElements(r) = 0
      BY <1>1, <1>3, <2>4, Sizes, CountType DEF QueueSizes
    <3> QED BY <1>3, <1>11, <3>1
  <2> QED BY <1>8, <1>10, <1>14, <2>5, Sizes, CountType DEF QueueSizes
<1> QED BY <1>10, <1>13, <1>16, <1>17

\* What was not read is gone, and the receiver is let go.
LEMMA DiscardLemma ==
    ASSUME PortOK, NEW fRx \in BOOLEAN, Discard(fRx)
    PROVE  /\ PortOK'
           /\ fRx => /\ \E p \in PortType :
                            /\ p.Flag = port.Flag /\ p.refs = port.refs
                            /\ p.refs = p.imr /\ p.thr = port.thr
                            /\ p.TxQueue = port.TxQueue /\ SameEvent(port, p)
                            /\ port' = LetGo(p)
                     /\ IsEmpty(port'.RxQueue)
           /\ ~fRx => /\ port'.Flag = port.Flag /\ port'.refs = port.refs
                      /\ port'.imr = port.imr /\ port'.thr = port.thr
                      /\ port'.RxQueue = port.RxQueue /\ SameEvent(port, port')
                      /\ IsEmpty(port'.TxQueue)
<1>1. /\ port \in PortType /\ port.refs = port.imr
      /\ stream.rx \in Seq(Bytes) /\ stream.tx \in Seq(Bytes)
      /\ Holds(port.TxQueue, stream.tx) /\ Holds(port.RxQueue, stream.rx)
      /\ port.RxQueue \in QueueType(RxSize, Bytes)
      /\ port.TxQueue \in QueueType(TxSize, Bytes)
  BY DEF PortOK, Matched, PortType
<1>2. <<>> \in Seq(Bytes) /\ Len(<<>>) = 0
  OBVIOUS
<1>3. CASE fRx
  <2>1. PICK Q : Q = DrainQueue(port.RxQueue)
    OBVIOUS
  <2>2. PICK p : p = [port EXCEPT !.RxQueue = Q]
    OBVIOUS
  <2>3. Q \in QueueType(RxSize, Bytes) /\ Holds(Q, <<>>)
    BY <1>1, <2>1, Sizes, DrainLemma DEF QueueSizes
  <2>4. /\ p \in PortType /\ p.RxQueue = Q /\ p.TxQueue = port.TxQueue
        /\ p.Flag = port.Flag /\ p.refs = port.refs /\ p.imr = port.imr
        /\ p.thr = port.thr /\ SameEvent(port, p)
    BY <1>1, <2>2, <2>3, ReplaceRx
  <2>5. port' = LetGo(p)
    BY <1>3, <2>1, <2>2 DEF Discard, DiscardRx
  <2>6. /\ port' \in PortType /\ port'.refs = port'.imr
        /\ port'.TxQueue = port.TxQueue /\ port'.RxQueue = Q
    BY <1>1, <2>4, <2>5, LetGoLemma DEF Mild, SameData
  <2>7. stream' \in [rx : Seq(Bytes), tx : Seq(Bytes)] /\ stream'.rx = <<>>
        /\ stream'.tx = stream.tx
    BY <1>2, <1>3 DEF Discard, PortOK
  <2>8. PortOK'
    BY <1>1, <2>3, <2>6, <2>7 DEF PortOK, Matched
  <2>9. IsEmpty(port'.RxQueue)
    BY <1>2, <2>3, <2>6, Sizes, CountType DEF QueueSizes, Holds
  <2> QED BY <1>1, <1>3, <2>4, <2>5, <2>8, <2>9
<1>4. CASE ~fRx
  <2>1. PICK Q : Q = DrainQueue(port.TxQueue)
    OBVIOUS
  <2>2. port' = [port EXCEPT !.TxQueue = Q]
    BY <1>4, <2>1 DEF Discard, DiscardTx
  <2>3. Q \in QueueType(TxSize, Bytes) /\ Holds(Q, <<>>)
    BY <1>1, <2>1, Sizes, DrainLemma DEF QueueSizes
  <2>4. /\ port' \in PortType /\ port'.TxQueue = Q /\ port'.RxQueue = port.RxQueue
        /\ port'.Flag = port.Flag /\ port'.refs = port.refs /\ port'.imr = port.imr
        /\ port'.thr = port.thr /\ SameEvent(port, port')
    BY <1>1, <2>2, <2>3, ReplaceTx
  <2>5. stream' \in [rx : Seq(Bytes), tx : Seq(Bytes)] /\ stream'.rx = stream.rx
        /\ stream'.tx = <<>>
    BY <1>2, <1>4 DEF Discard, PortOK
  <2>6. PortOK'
    BY <1>1, <2>3, <2>4, <2>5 DEF PortOK, Matched
  <2>7. IsEmpty(port'.TxQueue)
    BY <1>2, <2>3, <2>4, Sizes, CountType DEF QueueSizes, Holds
  <2> QED BY <1>4, <2>4, <2>6, <2>7
<1> QED BY <1>3, <1>4

\* A session begins with empty queues and both interrupts on.
LEMMA OpenLemma ==
    ASSUME PortOK, NEW flow \in Flows, Open(flow)
    PROVE  /\ PortOK' /\ flow \in SUBSET FlowBits
           /\ port'.refs = Lines /\ port'.imr = Lines
           /\ port'.Flag = {"INITIALIZED", "TX_XON_STATE"} \cup flow
           /\ IsEmpty(port'.TxQueue) /\ IsEmpty(port'.RxQueue)
           /\ port'.thr = None /\ ~port'.fDataEventSet
<1>1. PICK p : p = UninitializePort(port)
  OBVIOUS
<1>2. flow \in SUBSET FlowBits
  BY UsartAssumption
<1>3. p \in PortType
  BY <1>1, UninitializePortLemma DEF PortOK, Matched
<1>4. port' = InitializePort(p, flow) /\ stream' = [rx |-> <<>>, tx |-> <<>>]
  BY <1>1 DEF Open
<1>5. /\ port' \in PortType /\ port'.refs = Lines /\ port'.imr = Lines
      /\ port'.Flag = {"INITIALIZED", "TX_XON_STATE"} \cup flow
      /\ port'.TxQueue = Initialize(TxSize) /\ port'.RxQueue = Initialize(RxSize)
      /\ port'.thr = None /\ ~port'.fDataEventSet
  BY <1>2, <1>3, <1>4, InitializePortLemma
<1>6. Holds(port'.TxQueue, <<>>) /\ Holds(port'.RxQueue, <<>>)
  BY <1>5, Sizes, InitializeLemma DEF QueueSizes
<1>7. PortOK'
  BY <1>4, <1>5, <1>6 DEF PortOK, Matched
<1>8. IsEmpty(port'.TxQueue) /\ IsEmpty(port'.RxQueue)
  BY <1>5 DEF Initialize, IsEmpty
<1> QED BY <1>2, <1>5, <1>7, <1>8

LEMMA CloseLemma ==
    ASSUME PortOK, Close
    PROVE  /\ PortOK' /\ ~Initialized(port') /\ port'.RxQueue = port.RxQueue
           /\ port'.posted = port.posted
           /\ port'.fDataEventSet => port.fDataEventSet
<1>1. port \in PortType /\ port.refs = port.imr
  BY DEF PortOK, Matched
<1>2. port' = UninitializePort(port) /\ stream' = stream
  BY DEF Close
<1>3. /\ port' \in PortType /\ port'.refs = port'.imr /\ ~Initialized(port')
      /\ port'.TxQueue = port.TxQueue /\ port'.RxQueue = port.RxQueue
      /\ port'.posted = port.posted /\ (port'.fDataEventSet => port.fDataEventSet)
  BY <1>1, <1>2, UninitializePortLemma
<1> QED BY <1>2, <1>3, SameQueues

\* One round of Write puts bytes into the queue.
LEMMA WriteLoopLemma ==
    ASSUME PortOK, CallOK, WriteLoop
    PROVE  /\ PortOK'
           /\ port'.Flag = port.Flag /\ port'.refs = port.refs
           /\ port'.imr = port.imr /\ port'.thr = port.thr
           /\ port'.RxQueue = port.RxQueue /\ SameEvent(port, port')
<1>1. /\ port \in PortType /\ port.refs = port.imr
      /\ stream.rx \in Seq(Bytes) /\ stream.tx \in Seq(Bytes)
      /\ Holds(port.TxQueue, stream.tx) /\ Holds(port.RxQueue, stream.rx)
      /\ port.TxQueue \in QueueType(TxSize, Bytes)
  BY DEF PortOK, Matched, PortType
<1>2. PICK n \in Nat : n = call.left - call.done
  BY <1>1, LoopLemma DEF WriteLoop, Roles
<1>3. PICK r : r = port.TxQueue
  OBVIOUS
<1>4. PICK k \in Nat : k = Room(r, n)
  BY <1>1, <1>3, Sizes, RoomLemma DEF QueueSizes
<1>5. PICK data \in [1..k -> Bytes] :
        /\ port' = IF k = 0 THEN port ELSE [port EXCEPT !.TxQueue = Push(@, data)]
        /\ stream' = [stream EXCEPT !.tx = @ \o data]
  BY <1>2, <1>3, <1>4 DEF WriteLoop
<1>6. data \in Seq(Bytes) /\ Len(data) = k
  <2>1. data \in Seq(Bytes)
    BY <1>5
  <2>2. DOMAIN data = 1..k
    BY <1>5
  <2> QED BY <2>1, <2>2
<1>7. PICK s \in Seq(Bytes) : s = stream.tx
  BY <1>1
<1>8. /\ stream' \in [rx : Seq(Bytes), tx : Seq(Bytes)]
      /\ stream'.rx = stream.rx /\ stream'.tx = s \o data
  <2>1. s \o data \in Seq(Bytes)
    BY <1>6
  <2>2. stream' = [stream EXCEPT !.tx = s \o data]
    BY <1>5, <1>7
  <2> QED BY <2>1, <2>2 DEF PortOK
<1>9. CASE k = 0
  <2>1. s \o data = s
    BY <1>6, <1>9
  <2>2. port' = port
    BY <1>5, <1>9
  <2> QED BY <1>1, <1>7, <1>8, <2>1, <2>2 DEF PortOK, Matched, SameEvent
<1>10. CASE k # 0
  <2>1. /\ Push(r, data) \in QueueType(TxSize, Bytes)
        /\ Holds(Push(r, data), s \o data)
    BY <1>1, <1>3, <1>4, <1>6, <1>7, <1>10, Sizes, PushLemma DEF QueueSizes
  <2>2. PICK Q : Q = Push(r, data)
    OBVIOUS
  <2>3. port' = [port EXCEPT !.TxQueue = Q]
    BY <1>3, <1>5, <1>10, <2>2
  <2>4. /\ port' \in PortType /\ port'.TxQueue = Q /\ port'.RxQueue = port.RxQueue
        /\ port'.Flag = port.Flag /\ port'.refs = port.refs /\ port'.imr = port.imr
        /\ port'.thr = port.thr /\ SameEvent(port, port')
    BY <1>1, <2>1, <2>2, <2>3, ReplaceTx
  <2> QED BY <1>1, <1>8, <2>1, <2>2, <2>4 DEF PortOK, Matched
<1> QED BY <1>9, <1>10

\* Flush feeds the transmitter itself.
LEMMA FlushPollLemma ==
    ASSUME PortOK, FlushPoll
    PROVE  PortOK' /\ Sent(port, port') /\ TxBufferEmpty(port)
<1>1. /\ port \in PortType /\ stream.tx \in Seq(Bytes) /\ Holds(port.TxQueue, stream.tx)
  BY DEF PortOK, Matched
<1>2. Pending(port)
  BY DEF FlushPoll, Pending, NextChar, None
<1>3. /\ port' = SendNextChar(port)
      /\ stream' = [stream EXCEPT !.tx = TakeNext(port, @)]
  BY DEF FlushPoll
<1>4. /\ Sent(port, port') /\ Holds(port'.TxQueue, TakeNext(port, stream.tx))
      /\ TakeNext(port, stream.tx) \in Seq(Bytes)
  BY <1>1, <1>2, <1>3, SentLemma
<1>5. /\ stream' \in [rx : Seq(Bytes), tx : Seq(Bytes)]
      /\ stream'.rx = stream.rx /\ stream'.tx = TakeNext(port, stream.tx)
  BY <1>3, <1>4 DEF PortOK
<1> QED BY <1>4, <1>5 DEF PortOK, Matched, Sent, FlushPoll

\* The clock is about to stop or runs again.
LEMMA ClockLemma ==
    ASSUME PortOK, PrepareForClockStop \/ ClockStopFinished
    PROVE  PortOK' /\ Mild(port, port')
<1>1. /\ port \in PortType /\ port.refs = port.imr /\ HALT \in XoffBits
  BY DEF PortOK, Matched, XoffBits
<1>2. Mild(port, port') /\ stream' = stream
  BY <1>1, SendXOFFLemma, SendXONLemma DEF PrepareForClockStop, ClockStopFinished
<1> QED BY <1>2, SameQueues DEF Mild, SameData

\* The steps that change one field of the port, or only its interrupts.
LEMMA SmallSteps ==
    ASSUME PortOK, CallOK
    PROVE  /\ Transmit => PortOK'
           /\ (\E c \in Char : Arrive(c)) => PortOK'
           /\ ReadEnter \/ ReadEnd \/ WriteStore \/ WriteEnd => PortOK'
<1>1. /\ port \in PortType /\ port.refs = port.imr
      /\ "TX_XON_STATE" \in FlagBits /\ None \in Char
      /\ call.flags \cup {"TX_XON_STATE"} \in SUBSET FlagBits
  BY DEF PortOK, Matched, FlagBits, Char, CallOK, CallType
<1>2. Transmit => PortOK'
  BY <1>1, SameQueues DEF Transmit, PortType
<1>3. (\E c \in Char : Arrive(c)) => PortOK'
  BY <1>1, SameQueues DEF Arrive, PortType
<1>4. ReadEnter \/ ReadEnd => PortOK'
  <2>1. SUFFICES ASSUME ReadEnter \/ ReadEnd PROVE PortOK'
    OBVIOUS
  <2>2. stream' = stream
    BY <2>1 DEF ReadEnter, ReadEnd
  <2>3. CASE ReadEnter
    <3>1. port' = port \/ port' = [port EXCEPT !.posted = FALSE]
      BY <2>3 DEF ReadEnter
    <3>2. /\ port' \in PortType /\ port'.refs = port'.imr
          /\ port'.TxQueue = port.TxQueue /\ port'.RxQueue = port.RxQueue
      BY <1>1, <3>1 DEF PortType
    <3> QED BY <1>1, <2>2, <3>2, SameQueues
  <2>4. CASE ReadEnd
    <3>1. PICK p : p = [port EXCEPT !.fDataEventSet = FALSE]
      OBVIOUS
    <3>2. /\ p \in PortType /\ p.refs = p.imr
          /\ p.TxQueue = port.TxQueue /\ p.RxQueue = port.RxQueue
      BY <1>1, <3>1 DEF PortType
    <3>3. /\ SetDataEvent(p) \in PortType
          /\ SetDataEvent(p).refs = p.refs /\ SetDataEvent(p).imr = p.imr
          /\ SetDataEvent(p).TxQueue = p.TxQueue
          /\ SetDataEvent(p).RxQueue = p.RxQueue
      BY <3>2 DEF PortType, SetDataEvent
    <3>4. port' = p \/ port' = SetDataEvent(p)
      BY <2>4, <3>1 DEF ReadEnd
    <3> QED BY <1>1, <2>2, <3>2, <3>3, <3>4, SameQueues
  <2> QED BY <2>1, <2>3, <2>4
<1>5. WriteStore => PortOK'
  <2>1. SUFFICES ASSUME WriteStore PROVE PortOK'
    OBVIOUS
  <2>2. PICK F \in SUBSET FlagBits : port' = [port EXCEPT !.Flag = F]
    BY <1>1, <2>1 DEF WriteStore
  <2>3. stream' = stream
    BY <2>1 DEF WriteStore
  <2> QED BY <1>1, <2>2, <2>3, FlagsLemma, SameQueues DEF SameData
<1>6. WriteEnd => PortOK'
  <2>1. SUFFICES ASSUME WriteEnd PROVE PortOK'
    OBVIOUS
  <2>0. PICK o : o = InterruptOn(port, "Tx")
    OBVIOUS
  <2>2. (port' = port \/ port' = o) /\ stream' = stream
    BY <2>0, <2>1 DEF WriteEnd
  <2>3. /\ port' \in PortType /\ port'.refs = port'.imr
        /\ port'.TxQueue = port.TxQueue /\ port'.RxQueue = port.RxQueue
    <3>1. /\ o \in PortType /\ o.refs = o.imr
          /\ o.TxQueue = port.TxQueue /\ o.RxQueue = port.RxQueue
      <4>1. /\ o \in PortType /\ SameData(port, o)
            /\ o.refs = port.refs \cup {"Tx"} /\ o.imr = port.imr \cup {"Tx"}
        BY <1>1, <2>0, InterruptOnLemma DEF Lines
      <4> QED BY <1>1, <4>1 DEF SameData
    <3> QED BY <1>1, <2>2, <3>1
  <2> QED BY <2>2, <2>3, SameQueues
<1> QED BY <1>2, <1>3, <1>4, <1>5, <1>6

LEMMA PortStep ==
    ASSUME Base, [Next]_vars
    PROVE  PortOK'
<1>0. PortOK /\ CallOK
  BY DEF Base
<1>1. CASE UNCHANGED <<port, stream>>
  BY <1>0, <1>1 DEF PortOK, Matched
<1>2. ASSUME NEW byte \in Bytes, Interrupt(byte) PROVE PortOK'
  BY <1>0, <1>2, InterruptLemma
<1>3. CASE Transmit \/ ReadEnter \/ ReadEnd \/ WriteStore \/ WriteEnd
  BY <1>0, <1>3, SmallSteps
<1>4. ASSUME NEW c \in {"data", "XON", "XOFF"}, Arrive(c) PROVE PortOK'
  BY <1>0, <1>4, SmallSteps DEF Char
<1>5. CASE ReadLoop \/ WriteLoop \/ FlushPoll \/ Close
  BY <1>0, <1>5, ReadLoopLemma, WriteLoopLemma, FlushPollLemma, CloseLemma
<1>6. ASSUME NEW flow \in Flows, Open(flow) PROVE PortOK'
  BY <1>0, <1>6, OpenLemma
<1>7. ASSUME NEW fRx \in BOOLEAN, Discard(fRx) PROVE PortOK'
  BY <1>0, <1>7, DiscardLemma
<1>8. CASE PrepareForClockStop \/ ClockStopFinished
  BY <1>0, <1>8, ClockLemma
<1>9. CASE \/ ProcessActivity \/ WriteEnter \/ FlushEnter \/ FlushDrained
           \/ FlushReturns \/ StartFlush \/ (\E r \in Roles : GoOn(r))
           \/ (\E r \in Roles : WaitExpires(r))
           \/ (\E r \in Roles : \E n \in 1..MaxCount(r) : StartCall(r, n))
  BY <1>1, <1>9 DEF ProcessActivity, WriteEnter, FlushEnter, FlushDrained,
       FlushReturns, StartFlush, GoOn, WaitExpires, StartCall
<1>10. CASE UNCHANGED vars
  BY <1>1, <1>10 DEF vars
<1> QED
  BY <1>2, <1>3, <1>4, <1>5, <1>6, <1>7, <1>8, <1>9, <1>10
  DEF Next, CallSteps, Environment

LEMMA SignalsStep ==
    ASSUME Base, [Next]_vars
    PROVE  SignalsOK'
<1>0. com \in BOOLEAN /\ raised \in BOOLEAN /\ stopped \in BOOLEAN
  BY DEF Base, SignalsOK
<1>1. CASE UNCHANGED <<com, raised, stopped>>
  BY <1>0, <1>1 DEF SignalsOK
<1>2. ASSUME NEW r, NEW n, Returned(r, n) \/ Refused(r)
      PROVE  raised' \in BOOLEAN
  BY <1>0, <1>2 DEF Returned, Refused
<1>3. ASSUME NEW byte, Interrupt(byte) PROVE SignalsOK'
  BY <1>0, <1>3 DEF Interrupt, SignalsOK
<1>4. CASE Transmit
  BY <1>0, <1>4 DEF Transmit, Outcome, SignalsOK
<1>5. CASE ProcessActivity \/ (\E flow \in Flows : Open(flow)) \/ Close
  BY <1>0, <1>5 DEF ProcessActivity, Open, Close, SignalsOK
<1>6. CASE ReadEnter \/ ReadEnd \/ WriteEnter \/ WriteEnd
  <2>1. raised' \in BOOLEAN /\ UNCHANGED <<com, stopped>>
    BY <1>0, <1>2, <1>6 DEF ReadEnter, ReadEnd, WriteEnter, WriteEnd
  <2> QED BY <1>0, <2>1 DEF SignalsOK
<1>7. CASE FlushPoll
  BY <1>0, <1>7 DEF FlushPoll, SignalsOK
<1>8. CASE \/ ReadLoop \/ WriteStore \/ WriteLoop \/ FlushEnter \/ FlushDrained
           \/ FlushReturns \/ Environment \/ (\E r \in Roles : GoOn(r))
  BY <1>1, <1>8 DEF ReadLoop, WriteStore, WriteLoop, FlushEnter, FlushDrained,
       FlushReturns, Environment, GoOn, Arrive, StartCall, WaitExpires, StartFlush,
       Discard, PrepareForClockStop, ClockStopFinished
<1>9. CASE UNCHANGED vars
  BY <1>1, <1>9 DEF vars
<1> QED BY <1>3, <1>4, <1>5, <1>6, <1>7, <1>8, <1>9 DEF Next, CallSteps

LEMMA BaseInit == Init => Base
<1> SUFFICES ASSUME Init PROVE Base
  OBVIOUS
<1>1. /\ Initialize(TxSize) \in QueueType(TxSize, Bytes) /\ Holds(Initialize(TxSize), <<>>)
      /\ Initialize(RxSize) \in QueueType(RxSize, Bytes) /\ Holds(Initialize(RxSize), <<>>)
  BY Sizes, InitializeLemma DEF QueueSizes
<1>2. /\ port.TxQueue = Initialize(TxSize) /\ port.RxQueue = Initialize(RxSize)
      /\ port.refs = {} /\ port.imr = {}
      /\ stream = [rx |-> <<>>, tx |-> <<>>]
  BY DEF Init
<1>3. port \in PortType
  BY <1>1 DEF Init, PortType, Char
<1>4. PortOK
  BY <1>1, <1>2, <1>3 DEF PortOK, Matched
<1>5. call = NoCall /\ thread = [r \in Roles |-> Idle]
  BY DEF Init
<1>6. thread \in [Roles -> ThreadType] /\ \A r \in Roles : thread[r].state = "idle"
  BY <1>5, CountsLemma DEF Idle, ThreadType
<1>7. CallOK
  BY <1>5, <1>6, NoCallLemma DEF CallOK, CallShape
<1>8. SignalsOK
  BY DEF Init, SignalsOK
<1> QED BY <1>4, <1>7, <1>8 DEF Base

LEMMA BaseInvariant == Spec => []Base
<1>1. Base /\ [Next]_vars => Base'
  BY CallStep, PortStep, SignalsStep DEF Base
<1> QED BY <1>1, BaseInit, PTL DEF Spec

\* Types: what the steps of the driver store stays within its range.
THEOREM TypeCorrect == Spec => []TypeOK
<1>1. Base => TypeOK
  BY DEF Base, PortOK, CallOK, SignalsOK, ThreadType, TypeOK
<1> QED BY <1>1, BaseInvariant, PTL

\* The queues lose, invent and reorder nothing (Hal_Queue_UnknownSize under
\* USART_Driver::Read and Write and the interrupt), for every size of them.
THEOREM StreamsStayIntact == Spec => []StreamsIntact
<1>1. ASSUME NEW m \in Nat \ {0}, NEW q \in QueueType(m, Bytes),
             NEW s \in Seq(Bytes), Holds(q, s)
      PROVE  Carries(q, s)
  <2>1. Contents(q) = s
    BY <1>1, HoldsContents
  <2>2. ASSUME NEW n \in Counts PROVE Front(q, n) = SubSeq(s, 1, Given(q, n))
    <3>1. n \in Nat
      BY CountsLemma
    <3> QED BY <1>1, <3>1, FrontLemma
  <2> QED BY <2>1, <2>2 DEF Carries
<1>2. Base => StreamsIntact
  <2>1. SUFFICES ASSUME Base PROVE StreamsIntact
    OBVIOUS
  <2>2. /\ port.TxQueue \in QueueType(TxSize, Bytes)
        /\ port.RxQueue \in QueueType(RxSize, Bytes)
        /\ stream.tx \in Seq(Bytes) /\ stream.rx \in Seq(Bytes)
        /\ Holds(port.TxQueue, stream.tx) /\ Holds(port.RxQueue, stream.rx)
    BY <2>1 DEF Base, PortOK, Matched, PortType
  <2> QED BY <1>1, <2>2, Sizes DEF StreamsIntact, QueueSizes
<1> QED BY <1>2, BaseInvariant, PTL

-----------------------------------------------------------------------------
(* The port goes on working. *)

Writing == call.op = "write" /\ call.pc # "enter"
Storing == call.op = "write" /\ call.pc = "store"

\* A port without RTS/CTS that is open.
Plain(p) == Initialized(p) /\ ~Has(p, HW_IN)

\* Its receiver is on, and so it is not in power-save mode.
Goes(p) == Plain(p) => "Rx" \in p.refs /\ ~PowerSaved(p)

LineOK == Goes(port) /\ (Plain(port) => Armed(port) \/ Writing)

\* The flags that Write has loaded are those of the port, but for what the
\* interrupt changes before they are stored.
StoreOK ==
    Storing =>
        /\ Initialized(port)
        /\ "INITIALIZED" \in call.flags /\ "POWERSAVE" \notin call.flags
        /\ \A b \in FlowBits \cup {HALT} : b \in call.flags <=> b \in port.Flag
        /\ "TX_BUFFERXON" \in port.Flag => "TX_BUFFERXON" \in call.flags

\* q is p after a step that does not disturb LineOK.
Keep(p, q) ==
    /\ Plain(q) <=> Plain(p)
    /\ Plain(p) /\ "Rx" \in p.refs =>
        "Rx" \in q.refs /\ (PowerSaved(q) => PowerSaved(p))
    /\ Armed(p) => Armed(q)

LEMMA FixedLemma ==
    /\ {"INITIALIZED", HW_IN, SW_IN} \subseteq FixedBits \ {"TX_XON_STATE"}
    /\ FlowBits \subseteq FixedBits \ {"TX_XON_STATE"}
    /\ FlowBits \cap {"POWERSAVE", "INITIALIZED", "TX_XON_STATE"} = {}
    /\ XoffBits \cap (FlowBits \cup {"POWERSAVE", "INITIALIZED", "TX_XON_STATE"}) = {}
    /\ FULL # HALT /\ SW_IN # HW_IN
    /\ SW_IN \in FlowBits /\ SW_OUT \in FlowBits /\ HW_IN \in FlowBits
    /\ FULL \in XoffBits /\ HALT \in XoffBits
    /\ {"TX_BUFFERXOFF", "TX_BUFFERXON"} \cap
            (FlowBits \cup XoffBits \cup {"POWERSAVE", "INITIALIZED", "TX_XON_STATE"}) = {}
BY DEF FixedBits, FlowBits, XoffBits, FULL, HALT, SW_IN, SW_OUT, HW_IN

LEMMA OtherBits ==
    ASSUME NEW F, NEW G, NEW bit, F \ {bit} = G \ {bit}
    PROVE  \A b : b # bit => (b \in F <=> b \in G)
OBVIOUS

\* What Plain looks at is none of the other flags.
LEMMA PlainLemma ==
    ASSUME NEW p, NEW q, NEW bit, bit \notin {"INITIALIZED", HW_IN},
           q.Flag \ {bit} = p.Flag \ {bit}
    PROVE  Plain(q) <=> Plain(p)
<1>1. /\ "INITIALIZED" \in q.Flag <=> "INITIALIZED" \in p.Flag
      /\ HW_IN \in q.Flag <=> HW_IN \in p.Flag
  BY OtherBits
<1> QED BY <1>1 DEF Plain, Initialized, Has

LEMMA KeepLemma ==
    ASSUME NEW p, NEW q
    PROVE  /\ Mild(p, q) \/ Hears(p, q) => Keep(p, q)
           /\ Stilled(p, q) \/ Sent(p, q) => Keep(p, q)
           /\ q.Flag = p.Flag /\ q.refs = p.refs /\ q.imr = p.imr
                /\ q.TxQueue = p.TxQueue => Keep(p, q)
<1>1. Mild(p, q) => Keep(p, q)
  BY FixedLemma DEF Mild, Keep, Plain, Initialized, Has
<1>2. Hears(p, q) => Keep(p, q)
  BY FixedLemma DEF Hears, Keep, Plain, Initialized, Has
<1>3. Stilled(p, q) => Keep(p, q)
  <2> SUFFICES ASSUME Stilled(p, q) PROVE Keep(p, q)
    OBVIOUS
  <2>1. ~Pending(q)
    BY DEF Stilled, SameData, Pending, NextChar, Has
  <2>2. Plain(q) <=> Plain(p)
    BY FixedLemma, PlainLemma DEF Stilled
  <2>3. "Rx" \in p.refs => "Rx" \in q.refs /\ (PowerSaved(q) => PowerSaved(p))
    BY DEF Stilled
  <2> QED BY <2>1, <2>2, <2>3 DEF Keep, Armed
<1>4. Sent(p, q) => Keep(p, q)
  <2> SUFFICES ASSUME Sent(p, q) PROVE Keep(p, q)
    OBVIOUS
  <2>1. PICK bit \in {"TX_BUFFERXOFF", "TX_BUFFERXON"} :
            q.Flag \ {bit} = p.Flag \ {bit}
    BY DEF Sent
  <2>2. bit \notin {"INITIALIZED", HW_IN, "POWERSAVE"}
    BY FixedLemma
  <2>3. /\ Plain(q) <=> Plain(p)
        /\ PowerSaved(q) <=> PowerSaved(p)
    BY <2>1, <2>2, PlainLemma, OtherBits DEF PowerSaved, Has
  <2>4. q.refs = p.refs /\ q.imr = p.imr /\ Pending(p)
    BY DEF Sent
  <2> QED BY <2>3, <2>4 DEF Keep, Armed, InterruptState
<1>5. ASSUME q.Flag = p.Flag, q.refs = p.refs, q.imr = p.imr, q.TxQueue = p.TxQueue
      PROVE  Keep(p, q)
  <2>1. Pending(q) <=> Pending(p)
    BY <1>5 DEF Pending, NextChar, Has
  <2>2. (Plain(q) <=> Plain(p)) /\ (PowerSaved(q) <=> PowerSaved(p))
    BY <1>5 DEF Plain, Initialized, PowerSaved, Has
  <2> QED BY <1>5, <2>1, <2>2 DEF Keep, Armed, InterruptState
<1> QED BY <1>1, <1>2, <1>3, <1>4, <1>5

LEMMA KeepTransitive ==
    ASSUME NEW p, NEW q, NEW o, Keep(p, q), Keep(q, o)
    PROVE  Keep(p, o)
BY DEF Keep

\* The steps that keep the line going.
LEMMA PortKept ==
    ASSUME Base, [Next]_vars,
           ~WriteStore, ~WriteLoop, ~WriteEnd, ~Close,
           ~(\E flow \in Flows : Open(flow))
    PROVE  Keep(port, port')
<1>0. PortOK /\ CallOK /\ port \in PortType /\ port.refs = port.imr
  BY DEF Base, PortOK, Matched
<1>1. CASE port' = port
  BY <1>1, KeepLemma
<1>2. ASSUME NEW byte \in Bytes, Interrupt(byte) PROVE Keep(port, port')
  <2>1. PICK p \in PortType : Served(p)
    BY <1>0, <1>2, InterruptLemma
  <2> QED BY <2>1, KeepLemma, KeepTransitive DEF Served
<1>3. CASE \/ Transmit \/ ReadEnter \/ ReadEnd
           \/ \E c \in {"data", "XON", "XOFF"} : Arrive(c)
  <2>1. /\ port'.Flag = port.Flag /\ port'.refs = port.refs /\ port'.imr = port.imr
        /\ port'.TxQueue = port.TxQueue
    BY <1>0, <1>3 DEF Transmit, ReadEnter, ReadEnd, SetDataEvent, Arrive, PortType
  <2> QED BY <2>1, KeepLemma
<1>4. CASE ReadLoop
  <2>1. PICK p \in PortType : Taken(p)
    BY <1>0, <1>4, ReadLoopLemma
  <2>2. Keep(port, p) /\ p.refs = p.imr /\ (port' = p \/ port' = LetGo(p))
    BY <1>0, <2>1, KeepLemma DEF Taken
  <2>3. Keep(p, LetGo(p))
    BY <2>2, LetGoLemma, KeepLemma
  <2> QED BY <2>2, <2>3, KeepTransitive
<1>5. ASSUME NEW fRx \in BOOLEAN, Discard(fRx) PROVE Keep(port, port')
  <2>1. CASE fRx
    <3>1. PICK p \in PortType :
                /\ p.Flag = port.Flag /\ p.refs = port.refs /\ p.refs = p.imr
                /\ p.TxQueue = port.TxQueue /\ port' = LetGo(p)
      BY <1>0, <1>5, <2>1, DiscardLemma
    <3>2. Keep(port, p)
      BY <1>0, <3>1, KeepLemma
    <3>3. Keep(p, LetGo(p))
      BY <3>1, LetGoLemma, KeepLemma
    <3> QED BY <3>1, <3>2, <3>3, KeepTransitive
  <2>2. CASE ~fRx
    <3>1. /\ port'.Flag = port.Flag /\ port'.refs = port.refs
          /\ port'.imr = port.imr /\ IsEmpty(port'.TxQueue)
      BY <1>0, <1>5, <2>2, DiscardLemma
    <3> QED BY <3>1 DEF Keep, Plain, Initialized, PowerSaved, Has, Armed,
                        InterruptState, Pending, NextChar
  <2> QED BY <2>1, <2>2
<1>6. CASE FlushPoll
  BY <1>0, <1>6, FlushPollLemma, KeepLemma
<1>7. CASE PrepareForClockStop \/ ClockStopFinished
  BY <1>0, <1>7, ClockLemma, KeepLemma
<1>8. CASE \/ ProcessActivity \/ WriteEnter \/ FlushEnter \/ FlushDrained
           \/ FlushReturns \/ StartFlush \/ (\E r \in Roles : GoOn(r))
           \/ (\E r \in Roles : WaitExpires(r))
           \/ (\E r \in Roles : \E n \in 1..MaxCount(r) : StartCall(r, n))
  BY <1>1, <1>8 DEF ProcessActivity, WriteEnter, FlushEnter, FlushDrained,
       FlushReturns, StartFlush, GoOn, WaitExpires, StartCall
<1>9. CASE UNCHANGED vars
  BY <1>1, <1>9 DEF vars
<1> QED
  BY <1>2, <1>3, <1>4, <1>5, <1>6, <1>7, <1>8, <1>9 DEF Next, CallSteps, Environment

LEMMA LineStep ==
    ASSUME Base, LineOK, StoreOK, [Next]_vars
    PROVE  LineOK'
<1>0. PortOK /\ CallOK /\ port \in PortType /\ port.refs = port.imr
  BY DEF Base, PortOK, Matched
<1>1. ASSUME Keep(port, port'), Writing => Writing' PROVE LineOK'
  BY <1>1 DEF LineOK, Goes, Keep
<1>2. CASE WriteStore
  <2>1. /\ port'.Flag = call.flags \cup {"TX_XON_STATE"} /\ port'.refs = port.refs
        /\ call.op = "write" /\ call.pc = "store"
        /\ call'.op = "write" /\ call'.pc = "loop"
    BY <1>0, <1>2 DEF WriteStore, PortType, CallOK, CallType
  <2>2. /\ Plain(port') <=> Plain(port) /\ ~PowerSaved(port')
    BY <2>1, FixedLemma DEF StoreOK, Storing, Plain, Initialized, PowerSaved, Has, FlowBits
  <2> QED BY <2>1, <2>2 DEF LineOK, Goes, Writing
<1>3. CASE WriteLoop
  <2>1. /\ port'.Flag = port.Flag /\ port'.refs = port.refs
        /\ call.op = "write" /\ call.pc = "loop"
    BY <1>0, <1>3, WriteLoopLemma DEF WriteLoop
  <2>2. PICK pc, k, i :
            /\ call' = [call EXCEPT !.done = k, !.round = i, !.pc = pc]
            /\ pc \in {"end", call.pc}
    BY <1>3 DEF WriteLoop
  <2>3. call'.op = "write" /\ call'.pc # "enter"
    BY <1>0, <2>1, <2>2 DEF CallOK, CallType
  <2> QED BY <2>1, <2>3 DEF LineOK, Goes, Plain, Initialized, PowerSaved, Has, Writing
<1>4. CASE WriteEnd
  <2>1. PICK o : o = InterruptOn(port, "Tx")
    OBVIOUS
  <2>2. /\ o.refs = port.refs \cup {"Tx"} /\ o.imr = port.imr \cup {"Tx"}
        /\ o.Flag \ {"POWERSAVE"} = port.Flag \ {"POWERSAVE"}
        /\ PowerSaved(o) => PowerSaved(port)
    BY <1>0, <2>1, InterruptOnLemma DEF Lines
  <2>3. port' = IF PowerSaved(port) THEN port ELSE o
    BY <1>4, <2>1 DEF WriteEnd
  <2>4. CASE PowerSaved(port)
    BY <2>3, <2>4 DEF LineOK, Goes
  <2>5. CASE ~PowerSaved(port)
    <3>1. Plain(o) <=> Plain(port)
      BY <2>2, FixedLemma, PlainLemma
    <3>2. Armed(o)
      BY <2>2 DEF Armed, InterruptState
    <3> QED BY <2>2, <2>3, <2>5, <3>1, <3>2 DEF LineOK, Goes
  <2> QED BY <2>4, <2>5
<1>5. ASSUME NEW flow \in Flows, Open(flow) PROVE LineOK'
  <2>1. /\ port'.refs = Lines /\ port'.imr = Lines
        /\ port'.Flag = {"INITIALIZED", "TX_XON_STATE"} \cup flow
        /\ flow \in SUBSET FlowBits
    BY <1>0, <1>5, OpenLemma
  <2>2. ~PowerSaved(port')
    BY <2>1, FixedLemma DEF PowerSaved, Has
  <2> QED BY <2>1, <2>2 DEF LineOK, Goes, Armed, InterruptState, Lines
<1>6. CASE Close
  BY <1>0, <1>6, CloseLemma DEF LineOK, Goes, Plain
<1>7. CASE ~(WriteStore \/ WriteLoop \/ WriteEnd \/ Close \/ \E flow \in Flows : Open(flow))
  <2>1. Keep(port, port')
    BY <1>7, PortKept
  <2>2. Writing => Writing'
    <3>1. SUFFICES ASSUME Writing PROVE call' = call
      BY DEF Writing
    <3>2. call # NoCall /\ call.op = "write" /\ call.pc # "enter"
      BY <3>1, NoCallLemma DEF Writing
    <3> QED BY <1>7, <3>2 DEF Next, vars, CallSteps, Environment, Interrupt, Transmit,
              ProcessActivity, GoOn, Begin, ReadEnter, ReadLoop, ReadEnd, WriteEnter,
              FlushEnter, FlushPoll, FlushDrained, FlushReturns, Arrive, StartCall,
              WaitExpires, StartFlush, Discard, PrepareForClockStop, ClockStopFinished
  <2> QED BY <1>1, <2>1, <2>2
<1> QED BY <1>2, <1>3, <1>4, <1>5, <1>6, <1>7

\* What happens while a call is in progress.
LEMMA FreeSteps ==
    ASSUME [Next]_vars, call # NoCall
    PROVE  \/ CallSteps \/ Transmit \/ UNCHANGED vars
           \/ \E byte \in Bytes : Interrupt(byte)
           \/ \E c \in {"data", "XON", "XOFF"} : Arrive(c)
BY DEF Next, Environment, ProcessActivity, GoOn, Begin, StartCall, WaitExpires,
       StartFlush, Discard, PrepareForClockStop, ClockStopFinished

\* How Write comes to store the flags it has loaded: nothing but the
\* interrupt, the line and the peer goes on in between.
LEMMA StoringLemma ==
    ASSUME Base, [Next]_vars, Storing'
    PROVE  \/ /\ port' = port /\ stopped' = stopped /\ call'.flags = port.Flag
              /\ Initialized(port) /\ ~PowerSaved(port)
           \/ /\ Storing /\ call' = call
              /\ \/ Transmit \/ UNCHANGED vars
                 \/ \E byte \in Bytes : Interrupt(byte)
                 \/ \E c \in {"data", "XON", "XOFF"} : Arrive(c)
<1>0. call \in CallType /\ call'.op = "write" /\ call'.pc = "store"
  BY DEF Storing, Base, CallOK
<1>1. CASE call' = call
  <2>1. Storing /\ call # NoCall /\ call.op = "write" /\ call.pc = "store"
    BY <1>0, <1>1, NoCallLemma DEF Storing
  <2>2. ~WriteStore
    BY <1>0, <2>1 DEF WriteStore, CallType
  <2>3. ~CallSteps
    BY <2>1, <2>2 DEF CallSteps, ReadEnter, ReadLoop, ReadEnd, WriteEnter, WriteLoop,
        WriteEnd, FlushEnter, FlushPoll, FlushDrained, FlushReturns, Open, Close
  <2> QED BY <1>1, <2>1, <2>3, FreeSteps
<1>2. CASE call' # call
  <2>1. ASSUME NEW r, NEW n, Begin(r, n) PROVE FALSE
    BY <1>0, <2>1, NoCallLemma DEF Begin, NoCall, CallType
  <2>2. call' # NoCall
    BY <1>0, NoCallLemma
  <2>3. ASSUME NEW r, NEW n, Returned(r, n) PROVE FALSE
    <3>1. call' = [NoCall EXCEPT !.op = r, !.pc = "enter", !.left = call.left - n]
      BY <1>2, <2>2, <2>3 DEF Returned
    <3> QED BY <1>0, <3>1 DEF NoCall
  <2>4. ~WriteStore
    BY <1>0 DEF WriteStore, CallType
  <2>5. ~WriteLoop
    <3>1. SUFFICES ASSUME WriteLoop PROVE call'.pc # "store"
      BY <1>0
    <3>2. PICK p : p # "store" /\ call'.pc = p
      BY <1>0, <3>1 DEF WriteLoop, CallType
    <3> QED BY <3>2
  <2>6. ~ReadLoop /\ ~ReadEnter
    BY <1>0, <2>2 DEF ReadLoop, ReadEnter, Refused, CallType
  <2>7. ~StartFlush /\ ~FlushEnter /\ ~FlushDrained
    <3>1. \A pc : Goto(pc) => call'.op = call.op
      BY <1>0 DEF Goto, CallType
    <3> QED BY <1>0, <3>1 DEF StartFlush, FlushEnter, FlushDrained, NoCall
  <2>8. WriteEnter
    BY <1>2, <2>1, <2>2, <2>3, <2>4, <2>5, <2>6, <2>7
    DEF Next, vars, CallSteps, Environment, Interrupt, Transmit, ProcessActivity, GoOn,
        StartCall, ReadEnd, WriteEnd, FlushPoll, FlushReturns, Open, Close, Arrive,
        WaitExpires, Discard, PrepareForClockStop, ClockStopFinished
  <2>9. call' = [call EXCEPT !.pc = "store", !.flags = port.Flag]
    BY <1>0, <2>2, <2>3, <2>8 DEF WriteEnter, Refused, CallType
  <2>10. Initialized(port) /\ ~PowerSaved(port)
    BY <2>2, <2>8 DEF WriteEnter, Refused
  <2>11. port' = port /\ stopped' = stopped
    BY <2>8 DEF WriteEnter
  <2> QED BY <1>0, <2>9, <2>10, <2>11 DEF CallType
<1> QED BY <1>1, <1>2

LEMMA StoreStep ==
    ASSUME Base, StoreOK, [Next]_vars
    PROVE  StoreOK'
<1> SUFFICES ASSUME Storing' PROVE StoreOK'
  BY DEF StoreOK
<1>0. PortOK /\ CallOK /\ port \in PortType
  BY DEF Base, PortOK
<1>1. CASE /\ port' = port /\ call'.flags = port.Flag
           /\ Initialized(port) /\ ~PowerSaved(port)
  BY <1>1 DEF StoreOK, Initialized, PowerSaved, Has
<1>2. ASSUME Storing, call' = call, Initialized(port'),
             \A b \in FlowBits \cup {HALT} : b \in port'.Flag <=> b \in port.Flag,
             "TX_BUFFERXON" \in port'.Flag => "TX_BUFFERXON" \in port.Flag
      PROVE  StoreOK'
  BY <1>2 DEF StoreOK
<1>3. ASSUME Storing, call' = call, port'.Flag = port.Flag PROVE StoreOK'
  BY <1>2, <1>3 DEF StoreOK, Initialized, Has
<1>4. ASSUME Storing, call' = call, NEW byte \in Bytes, Interrupt(byte) PROVE StoreOK'
  <2>1. PICK p \in PortType : Served(p)
    BY <1>0, <1>4, InterruptLemma
  <2>2. /\ "INITIALIZED" \in p.Flag
        /\ \A b \in FlowBits \cup {HALT, "TX_BUFFERXON"} : b \in p.Flag <=> b \in port.Flag
    BY <1>4, <2>1, FixedLemma DEF Served, Hears, StoreOK, Initialized, Has
  <2>3. PICK bit \in {"POWERSAVE", "TX_BUFFERXOFF", "TX_BUFFERXON"} :
            /\ port'.Flag \ {bit} = p.Flag \ {bit}
            /\ bit \in port'.Flag => bit \in p.Flag \/ bit = "POWERSAVE"
    BY <2>1 DEF Served, Stilled, Sent
  <2>4. \A b \in FlowBits \cup {HALT, "INITIALIZED"} : b # bit
    BY FixedLemma
  <2>5. \A b \in FlowBits \cup {HALT, "INITIALIZED"} : b \in port'.Flag <=> b \in p.Flag
    BY <2>3, <2>4, OtherBits
  <2>6. "TX_BUFFERXON" \in port'.Flag => "TX_BUFFERXON" \in port.Flag
    BY <2>2, <2>3
  <2> QED BY <1>2, <1>4, <2>2, <2>5, <2>6 DEF Initialized, Has
<1>5. Transmit \/ (\E c \in {"data", "XON", "XOFF"} : Arrive(c)) \/ UNCHANGED vars
        => port'.Flag = port.Flag
  BY <1>0 DEF Transmit, Arrive, PortType, vars
<1> QED BY <1>1, <1>3, <1>4, <1>5, StoringLemma

\* In a port without RTS/CTS the line goes on.
PortInv == LineOK /\ StoreOK

LEMMA PortInit == Init => PortInv
<1> SUFFICES ASSUME Init PROVE PortInv
  OBVIOUS
<1>1. ~Initialized(port) /\ call.op = None
  BY NoCallLemma DEF Init, Initialized, Has
<1> QED BY <1>1, NoCallLemma DEF PortInv, LineOK, StoreOK, Goes, Plain, Storing

LEMMA PortInvariant == Spec => [](Base /\ PortInv)
<1>1. Base /\ PortInv /\ [Next]_vars => PortInv'
  BY LineStep, StoreStep DEF PortInv
<1> QED BY <1>1, BaseInvariant, PortInit, PTL DEF Spec

\* Whatever Flush, Discard, the interrupt and flow control do, a port
\* without RTS/CTS never stops sending and never falls into power-save mode.
THEOREM PortKeepsGoing == Spec => []PortGoesOn
<1>1. PortInv => PortGoesOn
  BY DEF PortInv, LineOK, Goes, Plain, Armed, Writing, PortGoesOn, TransmitterRuns
<1> QED BY <1>1, PortInvariant, PTL

-----------------------------------------------------------------------------
(* Events and waits. *)

\* A Read is under way that has not yet looked whether anything is left.
Between == call.op = "read" /\ call.pc # "enter"

DataOK ==
    ~Between =>
        /\ port.fDataEventSet => port.posted
        /\ Initialized(port) /\ ~IsEmpty(port.RxQueue) => port.posted

\* Whatever does not belong to a Read in progress keeps what was announced.
LEMMA DataKept ==
    ASSUME Base, StoreOK, [Next]_vars, ~ReadEnter, ~ReadLoop, ~ReadEnd,
           port.fDataEventSet => port.posted,
           Initialized(port) /\ ~IsEmpty(port.RxQueue) => port.posted
    PROVE  /\ port'.fDataEventSet => port'.posted
           /\ Initialized(port') /\ ~IsEmpty(port'.RxQueue) => port'.posted
<1>0. PortOK /\ CallOK /\ port \in PortType /\ port.refs = port.imr
  BY DEF Base, PortOK, Matched
<1>1. ASSUME SameEvent(port, port'), Initialized(port') => Initialized(port),
             port'.RxQueue = port.RxQueue \/ IsEmpty(port'.RxQueue)
      PROVE  /\ port'.fDataEventSet => port'.posted
             /\ Initialized(port') /\ ~IsEmpty(port'.RxQueue) => port'.posted
  BY <1>1 DEF SameEvent
<1>2. ASSUME NEW byte \in Bytes, Interrupt(byte)
      PROVE  /\ port'.fDataEventSet => port'.posted
             /\ Initialized(port') /\ ~IsEmpty(port'.RxQueue) => port'.posted
  <2>1. PICK p \in PortType : Served(p)
    BY <1>0, <1>2, InterruptLemma
  <2>2. /\ SameEvent(p, port') /\ port'.RxQueue = p.RxQueue
        /\ Initialized(port') <=> Initialized(port)
    <3>1. PICK bit \in {"POWERSAVE", "TX_BUFFERXOFF", "TX_BUFFERXON"} :
            port'.Flag \ {bit} = p.Flag \ {bit}
      BY <2>1 DEF Served, Stilled, Sent
    <3>2. "INITIALIZED" \in port'.Flag <=> "INITIALIZED" \in p.Flag
      BY <3>1, OtherBits
    <3>3. "INITIALIZED" \in p.Flag <=> "INITIALIZED" \in port.Flag
      BY <2>1, FixedLemma DEF Served, Hears
    <3>4. SameEvent(p, port') /\ port'.RxQueue = p.RxQueue
      BY <2>1 DEF Served, Stilled, Sent, SameData, SameEvent
    <3> QED BY <3>2, <3>3, <3>4 DEF Initialized, Has
  <2>3. /\ p.fDataEventSet => p.posted
        /\ port.posted => p.posted
        /\ p.RxQueue # port.RxQueue => p.fDataEventSet
    BY <2>1 DEF Served, Hears
  <2> QED BY <2>2, <2>3 DEF SameEvent
<1>3. CASE Transmit \/ \E c \in {"data", "XON", "XOFF"} : Arrive(c)
  <2>1. /\ SameEvent(port, port') /\ port'.Flag = port.Flag
        /\ port'.RxQueue = port.RxQueue
    BY <1>0, <1>3 DEF Transmit, Arrive, PortType, SameEvent
  <2> QED BY <1>1, <2>1 DEF Initialized, Has
<1>4. CASE WriteStore
  <2>1. /\ SameEvent(port, port') /\ port'.RxQueue = port.RxQueue /\ Initialized(port)
    BY <1>0, <1>4 DEF WriteStore, PortType, SameEvent, StoreOK, Storing
  <2> QED BY <1>1, <2>1
<1>5. CASE WriteLoop
  <2>1. /\ SameEvent(port, port') /\ port'.Flag = port.Flag
        /\ port'.RxQueue = port.RxQueue
    BY <1>0, <1>5, WriteLoopLemma
  <2> QED BY <1>1, <2>1 DEF Initialized, Has
<1>6. CASE WriteEnd
  <2>1. PICK o : o = InterruptOn(port, "Tx")
    OBVIOUS
  <2>2. /\ SameData(port, o) /\ SameEvent(port, o)
        /\ o.Flag \ {"POWERSAVE"} = port.Flag \ {"POWERSAVE"}
    BY <1>0, <2>1, InterruptOnLemma DEF Lines
  <2>3. "INITIALIZED" \in o.Flag <=> "INITIALIZED" \in port.Flag
    BY <2>2, OtherBits
  <2>4. port' = port \/ port' = o
    BY <1>6, <2>1 DEF WriteEnd
  <2> QED BY <1>1, <2>2, <2>3, <2>4 DEF SameData, SameEvent, Initialized, Has
<1>7. ASSUME Mild(port, port')
      PROVE  /\ port'.fDataEventSet => port'.posted
             /\ Initialized(port') /\ ~IsEmpty(port'.RxQueue) => port'.posted
  BY <1>1, <1>7, FixedLemma DEF Mild, SameData, Initialized, Has
<1>8. CASE PrepareForClockStop \/ ClockStopFinished
  BY <1>0, <1>7, <1>8, ClockLemma
<1>9. CASE FlushPoll
  <2>1. Sent(port, port')
    BY <1>0, <1>9, FlushPollLemma
  <2>2. PICK bit \in {"TX_BUFFERXOFF", "TX_BUFFERXON"} :
            port'.Flag \ {bit} = port.Flag \ {bit}
    BY <2>1 DEF Sent
  <2>3. "INITIALIZED" \in port'.Flag <=> "INITIALIZED" \in port.Flag
    BY <2>2, OtherBits
  <2> QED BY <1>1, <2>1, <2>3 DEF Sent, Initialized, Has
<1>10. ASSUME NEW flow \in Flows, Open(flow)
       PROVE  /\ port'.fDataEventSet => port'.posted
              /\ Initialized(port') /\ ~IsEmpty(port'.RxQueue) => port'.posted
  BY <1>0, <1>10, OpenLemma
<1>11. CASE Close
  BY <1>0, <1>11, CloseLemma
<1>12. ASSUME NEW fRx \in BOOLEAN, Discard(fRx)
       PROVE  /\ port'.fDataEventSet => port'.posted
              /\ Initialized(port') /\ ~IsEmpty(port'.RxQueue) => port'.posted
  <2>1. CASE fRx
    <3>1. PICK p \in PortType :
                /\ p.Flag = port.Flag /\ p.refs = p.imr
                /\ SameEvent(port, p) /\ port' = LetGo(p)
      BY <1>0, <1>12, <2>1, DiscardLemma
    <3>2. Mild(p, port')
      BY <3>1, LetGoLemma
    <3>3. SameEvent(port, port') /\ (Initialized(port') <=> Initialized(port))
      BY <3>1, <3>2, FixedLemma DEF Mild, SameEvent, Initialized, Has
    <3>4. IsEmpty(port'.RxQueue)
      BY <1>0, <1>12, <2>1, DiscardLemma
    <3> QED BY <1>1, <3>3, <3>4
  <2>2. CASE ~fRx
    <3>1. /\ port'.Flag = port.Flag /\ port'.RxQueue = port.RxQueue
          /\ SameEvent(port, port')
      BY <1>0, <1>12, <2>2, DiscardLemma
    <3> QED BY <1>1, <3>1 DEF Initialized, Has
  <2> QED BY <2>1, <2>2
<1>13. CASE port' = port
  BY <1>1, <1>13 DEF SameEvent
<1>14. CASE \/ ProcessActivity \/ WriteEnter \/ FlushEnter \/ FlushDrained
            \/ FlushReturns \/ StartFlush \/ (\E r \in Roles : GoOn(r))
            \/ (\E r \in Roles : WaitExpires(r))
            \/ (\E r \in Roles : \E n \in 1..MaxCount(r) : StartCall(r, n))
  BY <1>13, <1>14 DEF ProcessActivity, WriteEnter, FlushEnter, FlushDrained,
       FlushReturns, StartFlush, GoOn, WaitExpires, StartCall
<1>15. CASE UNCHANGED vars
  BY <1>13, <1>15 DEF vars
<1> QED
  BY <1>2, <1>3, <1>4, <1>5, <1>6, <1>8, <1>9, <1>10, <1>11, <1>12, <1>14, <1>15
  DEF Next, CallSteps, Environment

LEMMA DataStep ==
    ASSUME Base, StoreOK, DataOK, [Next]_vars
    PROVE  DataOK'
<1>0. call \in CallType /\ port \in PortType
  BY DEF Base, CallOK, PortOK
<1>1. CASE ReadEnter
  <2>1. ~Between
    BY <1>1 DEF ReadEnter, Between
  <2>2. CASE Refused("read") /\ UNCHANGED port
    BY <2>1, <2>2 DEF DataOK
  <2>3. CASE call' = [call EXCEPT !.pc = "loop"]
    <3>1. Between'
      BY <1>0, <1>1, <2>3 DEF ReadEnter, Between, CallType
    <3> QED BY <3>1 DEF DataOK
  <2> QED BY <1>1, <2>2, <2>3 DEF ReadEnter
<1>2. CASE ReadLoop
  <2>1. PICK p : p # "enter" /\ call'.pc = p /\ call'.op = "read"
    BY <1>0, <1>2 DEF ReadLoop, CallType
  <2> QED BY <2>1 DEF DataOK, Between
<1>3. CASE ReadEnd
  <2>1. PICK p : p = [port EXCEPT !.fDataEventSet = FALSE]
    OBVIOUS
  <2>2. p \in PortType /\ ~p.fDataEventSet /\ p.RxQueue = port.RxQueue
    BY <1>0, <2>1 DEF PortType
  <2>3. port' = IF IsEmpty(p.RxQueue) THEN p ELSE SetDataEvent(p)
    BY <1>3, <2>1 DEF ReadEnd
  <2>4. CASE IsEmpty(p.RxQueue)
    BY <2>2, <2>3, <2>4 DEF DataOK
  <2>5. CASE ~IsEmpty(p.RxQueue)
    <3>1. port'.posted
      BY <2>2, <2>3, <2>5 DEF SetDataEvent, PortType
    <3> QED BY <3>1 DEF DataOK
  <2> QED BY <2>4, <2>5
<1>4. CASE ~(ReadEnter \/ ReadLoop \/ ReadEnd)
  <2>1. CASE ~Between
    BY <1>4, <2>1, DataKept DEF DataOK
  <2>2. CASE Between
    <3>1. call' = call
      <4>1. call # NoCall /\ call.op = "read" /\ call.pc # "enter"
        BY <2>2, NoCallLemma DEF Between
      <4>2. ~CallSteps
        BY <1>4, <4>1 DEF CallSteps, WriteEnter, WriteStore, WriteLoop,
             WriteEnd, FlushEnter, FlushPoll, FlushDrained, FlushReturns, Open, Close
      <4> QED BY <4>1, <4>2, FreeSteps DEF Interrupt, Transmit, Arrive, vars
    <3> QED BY <2>2, <3>1 DEF DataOK, Between
  <2> QED BY <2>1, <2>2
<1> QED BY <1>1, <1>2, <1>3, <1>4

LEMMA DataInvariant == Spec => []DataOK
<1>1. Init => DataOK
  BY DEF Init, DataOK, Initialized, Has
<1>2. Base /\ PortInv /\ DataOK /\ [Next]_vars => DataOK'
  BY DataStep DEF PortInv
<1> QED BY <1>1, <1>2, PortInvariant, PTL DEF Spec

\* While there is something to read, the application has been told since its
\* last Read: fDataEventSet never holds an event back that is needed.
THEOREM DataIsAnnounced == Spec => []DataAnnounced
<1>1. DataOK => DataAnnounced
  BY DEF DataOK, Between, DataAnnounced
<1> QED BY <1>1, DataInvariant, PTL

\* A Read that waits, or is about to, has seen an empty queue.
ReadWaits ==
    \/ thread["read"].state = "waiting"
    \/ call.op = "read" /\ call.pc = "end" /\ call.done = 0

\* The transmitter of p will set the event, or the peer has stopped it.
TxServed(p) == TxStopped(p) \/ InterruptState(p, "Tx")

WaitOK ==
    /\ ReadWaits => IsEmpty(port.RxQueue) \/ com
    /\ thread["write"].state = "waiting" => TxServed(port) \/ com
    /\ Writing /\ PowerSaved(port) => com

LEMMA MildServes ==
    ASSUME NEW p, NEW q, Mild(p, q)
    PROVE  TxServed(p) => TxServed(q)
BY DEF Mild, TxServed, TxStopped, Has, FixedBits, FlowBits

\* What a step that sets no event leaves alone.
LEMMA Undisturbed ==
    ASSUME Base, [Next]_vars, ~com',
           ~WriteStore, ~ProcessActivity, ~Close
    PROVE  /\ ~com
           /\ ReadLoop \/ port'.RxQueue = port.RxQueue \/ IsEmpty(port'.RxQueue)
           /\ TxServed(port) => TxServed(port')
<1>0. PortOK /\ CallOK /\ port \in PortType /\ port.refs = port.imr
  BY DEF Base, PortOK, Matched
<1>1. ASSUME port'.Flag = port.Flag, port'.refs = port.refs, port'.imr = port.imr
      PROVE  TxServed(port) => TxServed(port')
  BY <1>1 DEF TxServed, TxStopped, Has, InterruptState
<1>2. ASSUME NEW byte \in Bytes, Interrupt(byte) PROVE FALSE
  BY <1>0, <1>2, InterruptLemma DEF Served
<1>3. CASE \/ Transmit \/ ReadEnter \/ ReadEnd
           \/ \E c \in {"data", "XON", "XOFF"} : Arrive(c)
  <2>1. /\ port'.Flag = port.Flag /\ port'.refs = port.refs /\ port'.imr = port.imr
        /\ port'.RxQueue = port.RxQueue /\ com' = com
    BY <1>0, <1>3 DEF Transmit, ReadEnter, ReadEnd, SetDataEvent, Arrive, PortType
  <2> QED BY <1>1, <2>1
<1>4. CASE ReadLoop
  <2>1. PICK p \in PortType : Taken(p)
    BY <1>0, <1>4, ReadLoopLemma
  <2>2. /\ p.Flag = port.Flag /\ p.refs = port.refs /\ p.imr = port.imr
        /\ p.refs = p.imr /\ (port' = p \/ port' = LetGo(p))
    BY <1>0, <2>1 DEF Taken
  <2>3. TxServed(port) => TxServed(p)
    BY <2>2 DEF TxServed, TxStopped, Has, InterruptState
  <2>4. TxServed(p) => TxServed(port')
    BY <2>2, LetGoLemma, MildServes
  <2>5. com' = com
    BY <1>4 DEF ReadLoop
  <2> QED BY <1>4, <2>3, <2>4, <2>5
<1>5. CASE WriteLoop
  <2>1. com' = com
    BY <1>5 DEF WriteLoop
  <2> QED BY <1>0, <1>1, <1>5, <2>1, WriteLoopLemma
<1>6. CASE WriteEnd
  <2>1. PICK o : o = InterruptOn(port, "Tx")
    OBVIOUS
  <2>2. /\ SameData(port, o) /\ o.refs = port.refs \cup {"Tx"}
        /\ o.imr = port.imr \cup {"Tx"}
    BY <1>0, <2>1, InterruptOnLemma DEF Lines
  <2>3. (port' = port \/ port' = o) /\ com' = com
    BY <1>6, <2>1 DEF WriteEnd
  <2> QED BY <2>2, <2>3 DEF SameData, TxServed, InterruptState
<1>7. CASE PrepareForClockStop \/ ClockStopFinished
  <2>1. com' = com
    BY <1>7 DEF PrepareForClockStop, ClockStopFinished
  <2> QED BY <1>0, <1>7, <2>1, ClockLemma, MildServes DEF Mild, SameData
<1>8. CASE FlushPoll
  <2>1. Sent(port, port')
    BY <1>0, <1>8, FlushPollLemma
  <2>2. PICK bit \in {"TX_BUFFERXOFF", "TX_BUFFERXON"} :
            port'.Flag \ {bit} = port.Flag \ {bit}
    BY <2>1 DEF Sent
  <2>3. bit \notin {SW_OUT, "TX_XON_STATE"}
    BY FixedLemma
  <2>4. /\ SW_OUT \in port'.Flag <=> SW_OUT \in port.Flag
        /\ "TX_XON_STATE" \in port'.Flag <=> "TX_XON_STATE" \in port.Flag
    BY <2>2, <2>3, OtherBits
  <2>5. com' = (com \/ NextChar(port) = "data")
    BY <1>8 DEF FlushPoll
  <2>6. port'.refs = port.refs /\ port'.imr = port.imr /\ port'.RxQueue = port.RxQueue
    BY <2>1 DEF Sent
  <2>7. TxServed(port) => TxServed(port')
    BY <2>4, <2>6 DEF TxServed, TxStopped, Has, InterruptState
  <2> QED BY <2>5, <2>6, <2>7
<1>9. ASSUME NEW flow \in Flows, Open(flow)
      PROVE  ~com /\ IsEmpty(port'.RxQueue) /\ TxServed(port')
  <2>1. com' = com
    BY <1>9 DEF Open
  <2> QED BY <1>0, <1>9, <2>1, OpenLemma DEF TxServed, InterruptState, Lines
<1>10. ASSUME NEW fRx \in BOOLEAN, Discard(fRx)
       PROVE  /\ ~com
              /\ port'.RxQueue = port.RxQueue \/ IsEmpty(port'.RxQueue)
              /\ TxServed(port) => TxServed(port')
  <2>0. com' = com
    BY <1>10 DEF Discard
  <2>1. CASE fRx
    <3>1. PICK p \in PortType :
                /\ p.Flag = port.Flag /\ p.refs = port.refs
                /\ p.refs = p.imr /\ port' = LetGo(p)
      BY <1>0, <1>10, <2>1, DiscardLemma
    <3>2. TxServed(port) => TxServed(p)
      BY <1>0, <3>1 DEF TxServed, TxStopped, Has, InterruptState
    <3>3. TxServed(p) => TxServed(port')
      BY <3>1, LetGoLemma, MildServes
    <3>4. IsEmpty(port'.RxQueue)
      BY <1>0, <1>10, <2>1, DiscardLemma
    <3> QED BY <2>0, <3>2, <3>3, <3>4
  <2>2. CASE ~fRx
    <3>1. /\ port'.Flag = port.Flag /\ port'.refs = port.refs
          /\ port'.imr = port.imr /\ port'.RxQueue = port.RxQueue
      BY <1>0, <1>10, <2>2, DiscardLemma
    <3> QED BY <1>1, <2>0, <3>1
  <2> QED BY <2>1, <2>2
<1>11. CASE port' = port /\ com' = com
  BY <1>11
<1>12. CASE \/ WriteEnter \/ FlushEnter \/ FlushDrained
            \/ FlushReturns \/ StartFlush \/ (\E r \in Roles : GoOn(r))
            \/ (\E r \in Roles : WaitExpires(r))
            \/ (\E r \in Roles : \E n \in 1..MaxCount(r) : StartCall(r, n))
  BY <1>11, <1>12 DEF WriteEnter, FlushEnter, FlushDrained,
       FlushReturns, StartFlush, GoOn, WaitExpires, StartCall
<1>13. CASE UNCHANGED vars
  BY <1>11, <1>13 DEF vars
<1> QED
  BY <1>2, <1>3, <1>4, <1>5, <1>6, <1>7, <1>8, <1>9, <1>10, <1>12, <1>13
  DEF Next, CallSteps, Environment

\* How a thread comes to wait.
LEMMA WaitingLemma ==
    ASSUME Base, [Next]_vars, NEW r \in Roles, thread'[r].state = "waiting"
    PROVE  \/ thread[r].state = "waiting" /\ call.op # r
              /\ ~ProcessActivity /\ ~Close
           \/ call.op = r /\ \/ ReadEnd /\ call.done = 0
                             \/ WriteEnd
                             \/ WriteEnter /\ TxStopped(port)
<1>0. /\ thread \in [Roles -> ThreadType]
      /\ call.op = r => thread[r].state = "running"
  BY DEF Base, CallOK, CallShape
<1>1. ~ProcessActivity /\ ~Close
  BY <1>0, WokenLemma DEF ProcessActivity, Close
<1>2. CASE thread[r].state = "waiting"
  BY <1>0, <1>1, <1>2
<1>3. CASE thread[r].state # "waiting"
  <2>1. thread' # thread
    BY <1>3
  <2>2. ASSUME NEW s \in Roles, thread' = [thread EXCEPT ![s] = Idle] PROVE FALSE
    BY <1>0, <1>3, <2>2 DEF Idle
  <2>3. ASSUME NEW s \in Roles, Refused(s) PROVE FALSE
    BY <2>2, <2>3 DEF Refused
  <2>4. ASSUME NEW s \in Roles, NEW n, Returned(s, n)
        PROVE  n = 0 /\ s = r
    BY <1>0, <1>3, <2>1, <2>2, <2>4 DEF Returned
  <2>5. ASSUME NEW s \in Roles, thread' = [thread EXCEPT ![s] = Running] PROVE FALSE
    BY <1>0, <1>3, <2>5 DEF Running
  <2>6. ASSUME NEW s \in Roles, WaitExpires(s) PROVE FALSE
    BY <1>0, <1>3, <2>6 DEF WaitExpires, ThreadType
  <2>7. "read" \in Roles /\ "write" \in Roles
    BY DEF Roles
  <2>8. CASE ReadEnter
    BY <2>1, <2>3, <2>7, <2>8 DEF ReadEnter
  <2>9. CASE WriteEnter
    <3>1. ~Refused("write")
      BY <2>3, <2>7
    <3>2. TxStopped(port) /\ Returned("write", 0)
      BY <2>1, <2>9, <3>1 DEF WriteEnter
    <3> QED BY <2>4, <2>7, <2>9, <3>2 DEF WriteEnter
  <2>10. CASE ReadEnd
    BY <2>4, <2>7, <2>10 DEF ReadEnd
  <2>11. CASE WriteEnd
    BY <2>4, <2>7, <2>11 DEF WriteEnd
  <2>12. ~(\E s \in Roles : GoOn(s) \/ \E n \in 1..MaxCount(s) : StartCall(s, n))
    BY <2>5 DEF GoOn, StartCall
  <2> QED BY <1>1, <2>1, <2>6, <2>8, <2>9, <2>10, <2>11, <2>12
    DEF Next, vars, CallSteps, Environment, Interrupt, Transmit, ReadLoop, WriteStore,
        WriteLoop, FlushEnter, FlushPoll, FlushDrained, FlushReturns, Open, Arrive,
        StartFlush, Discard, PrepareForClockStop, ClockStopFinished
<1> QED BY <1>2, <1>3

LEMMA WaitStep ==
    ASSUME Base, PortInv, WaitOK, [Next]_vars
    PROVE  WaitOK'
<1>0. /\ PortOK /\ CallOK /\ port \in PortType /\ call \in CallType
      /\ port.refs = port.imr /\ "read" \in Roles /\ "write" \in Roles
  BY DEF Base, PortOK, CallOK, Matched, Roles
<1>1. CASE com'
  BY <1>1 DEF WaitOK
<1>2. CASE ~com'
  <2>1. ASSUME thread'["read"].state = "waiting"
        PROVE  IsEmpty(port'.RxQueue)
    <3>1. CASE thread["read"].state = "waiting" /\ call.op # "read" /\ ~ProcessActivity /\ ~Close
      <4>1. CASE WriteStore
        <5>1. port'.RxQueue = port.RxQueue /\ com' = com
          BY <1>0, <4>1 DEF WriteStore, PortType
        <5> QED BY <1>2, <3>1, <5>1 DEF WaitOK, ReadWaits
      <4>2. CASE ~WriteStore
        <5>1. ~com /\ (port'.RxQueue = port.RxQueue \/ IsEmpty(port'.RxQueue))
          BY <1>2, <3>1, <4>2, Undisturbed DEF ReadLoop
        <5> QED BY <3>1, <5>1 DEF WaitOK, ReadWaits
      <4> QED BY <4>1, <4>2
    <3>2. CASE ReadEnd /\ call.done = 0
      <4>1. port'.RxQueue = port.RxQueue /\ com' = com
        BY <1>0, <3>2 DEF ReadEnd, SetDataEvent, PortType
      <4> QED BY <1>2, <3>2, <4>1 DEF WaitOK, ReadWaits, ReadEnd
    <3> QED BY <1>0, <2>1, <3>1, <3>2, WaitingLemma DEF WriteEnd, WriteEnter
  <2>2. ASSUME call'.op = "read", call'.pc = "end", call'.done = 0
        PROVE  IsEmpty(port'.RxQueue)
    <3>1. CASE ReadLoop
      BY <1>0, <2>2, <3>1, ReadLoopLemma
    <3>2. CASE ~ReadLoop
      <4>1. call' = call
        <5> SUFFICES ASSUME call' # call PROVE FALSE
          OBVIOUS
        <5>1. ASSUME NEW r, NEW n, call' = [NoCall EXCEPT !.op = r, !.pc = "enter", !.left = n]
              PROVE FALSE
          BY <2>2, <5>1 DEF NoCall
        <5>2. call' # NoCall
          BY <2>2, NoCallLemma
        <5>3. ASSUME NEW pc, call.op = "flush" /\ Goto(pc) PROVE FALSE
          BY <1>0, <2>2, <5>3 DEF Goto, CallType
        <5>4. ~ReadEnter
          BY <1>0, <2>2, <5>2 DEF ReadEnter, Refused, CallType
        <5>5. ~WriteStore /\ ~WriteLoop
          BY <1>0, <2>2 DEF WriteStore, WriteLoop, CallType
        <5>6. ~WriteEnter
          <6> SUFFICES ASSUME WriteEnter PROVE FALSE
            OBVIOUS
          <6>1. \/ call' = [call EXCEPT !.pc = "loop"]
                \/ call' = [call EXCEPT !.pc = "store", !.flags = port.Flag]
                \/ call' = call
            BY <5>1, <5>2 DEF WriteEnter, Refused, Returned
          <6> QED BY <1>0, <2>2, <6>1 DEF CallType
        <5>7. ASSUME NEW r, NEW n, Returned(r, n) PROVE FALSE
          BY <5>1, <5>2, <5>7 DEF Returned
        <5>8. ~StartFlush
          BY <2>2 DEF StartFlush, NoCall
        <5>9. ~CallSteps
          BY <3>2, <5>2, <5>3, <5>4, <5>5, <5>6, <5>7
          DEF CallSteps, ReadEnd, WriteEnd, FlushEnter, FlushPoll, FlushDrained,
              FlushReturns, Open, Close
        <5> QED BY <5>1, <5>8, <5>9
          DEF Next, vars, Environment, Interrupt, Transmit, ProcessActivity,
              GoOn, Begin, Arrive, StartCall, WaitExpires, Discard,
              PrepareForClockStop, ClockStopFinished
      <4>2. ReadWaits /\ call # NoCall /\ call.op = "read"
        BY <2>2, <4>1, NoCallLemma DEF ReadWaits
      <4>3. ~WriteStore /\ ~ProcessActivity /\ ~Close
        BY <4>2 DEF WriteStore, ProcessActivity, Close
      <4> QED BY <1>2, <3>2, <4>2, <4>3, Undisturbed DEF WaitOK
    <3> QED BY <3>1, <3>2
  <2>3. ASSUME thread'["write"].state = "waiting"
        PROVE  TxServed(port')
    <3>1. CASE /\ thread["write"].state = "waiting" /\ call.op # "write"
               /\ ~ProcessActivity /\ ~Close
      BY <1>2, <3>1, Undisturbed DEF WaitOK, WriteStore
    <3>2. CASE WriteEnd
      <4>1. com' = com /\ Writing
        BY <3>2 DEF WriteEnd, Writing
      <4>2. ~PowerSaved(port)
        BY <1>2, <4>1 DEF WaitOK
      <4>3. PICK o : o = InterruptOn(port, "Tx")
        OBVIOUS
      <4>4. o.refs = port.refs \cup {"Tx"} /\ o.imr = port.imr \cup {"Tx"}
        BY <1>0, <4>3, InterruptOnLemma DEF Lines
      <4>5. port' = o
        BY <3>2, <4>2, <4>3 DEF WriteEnd
      <4> QED BY <4>4, <4>5 DEF TxServed, InterruptState
    <3>3. CASE WriteEnter /\ TxStopped(port)
      BY <3>3 DEF WriteEnter, TxServed
    <3> QED BY <1>0, <2>3, <3>1, <3>2, <3>3, WaitingLemma DEF ReadEnd
  <2>4. ASSUME Writing' PROVE ~PowerSaved(port')
    <3>1. CASE WriteStore
      <4>1. port'.Flag = call.flags \cup {"TX_XON_STATE"} /\ Storing
        BY <1>0, <3>1 DEF WriteStore, PortType, Storing
      <4> QED BY <4>1 DEF PortInv, StoreOK, PowerSaved, Has
    <3>2. CASE WriteEnter
      <4>1. port' = port
        BY <3>2 DEF WriteEnter
      <4>2. ~PowerSaved(port)
        <5>1. call' # NoCall
          BY <2>4, NoCallLemma DEF Writing
        <5> QED BY <3>2, <5>1 DEF WriteEnter, Refused
      <4> QED BY <4>1, <4>2
    <3>3. CASE WriteLoop
      <4>1. port'.Flag = port.Flag /\ com' = com /\ Writing
        BY <1>0, <3>3, WriteLoopLemma DEF WriteLoop, Writing
      <4> QED BY <1>2, <4>1 DEF WaitOK, PowerSaved, Has
    <3>4. CASE call' = call
      <4>1. Writing /\ call # NoCall /\ call.op = "write" /\ call.pc # "enter"
        BY <2>4, <3>4, NoCallLemma DEF Writing
      <4>2. CASE \E byte \in Bytes : Interrupt(byte)
        BY <1>0, <1>2, <4>2, InterruptLemma DEF Served
      <4>3. CASE \/ Transmit \/ UNCHANGED vars
                 \/ \E c \in {"data", "XON", "XOFF"} : Arrive(c)
        <5>1. port'.Flag = port.Flag /\ com' = com
          BY <1>0, <4>3 DEF Transmit, Arrive, PortType, vars
        <5> QED BY <1>2, <4>1, <5>1 DEF WaitOK, PowerSaved, Has
      <4>4. CASE WriteEnd
        <5>1. call' = NoCall \/ call'.pc = "enter"
          BY <4>4 DEF WriteEnd, Returned, NoCall
        <5> QED BY <3>4, <4>1, <5>1
      <4>5. ~CallSteps \/ WriteStore \/ WriteLoop \/ WriteEnd
        BY <4>1 DEF CallSteps, ReadEnter, ReadLoop, ReadEnd, WriteEnter, FlushEnter,
             FlushPoll, FlushDrained, FlushReturns, Open, Close
      <4> QED BY <3>1, <3>3, <4>1, <4>2, <4>3, <4>4, <4>5, FreeSteps
    <3>5. CASE call' # call /\ ~WriteStore /\ ~WriteEnter /\ ~WriteLoop
      <4>1. call' # NoCall /\ call'.op = "write" /\ call'.pc # "enter"
        BY <2>4, NoCallLemma DEF Writing
      <4>2. ASSUME NEW r, NEW n, call' = [NoCall EXCEPT !.op = r, !.pc = "enter", !.left = n]
            PROVE FALSE
        BY <4>1, <4>2 DEF NoCall
      <4>3. ASSUME NEW r, NEW n, Returned(r, n) PROVE FALSE
        BY <3>5, <4>1, <4>2, <4>3 DEF Returned
      <4>4. ASSUME NEW pc, call.op = "flush" /\ Goto(pc) PROVE FALSE
        BY <1>0, <4>1, <4>4 DEF Goto, CallType
      <4>5. ~ReadEnter /\ ~ReadLoop
        BY <1>0, <4>1 DEF ReadEnter, ReadLoop, Refused, CallType
      <4>6. ~StartFlush
        BY <4>1 DEF StartFlush, NoCall
      <4>7. ~CallSteps
        BY <3>5, <4>1, <4>3, <4>4, <4>5
        DEF CallSteps, ReadEnd, WriteEnd, FlushEnter, FlushPoll, FlushDrained,
            FlushReturns, Open, Close
      <4> QED BY <3>5, <4>2, <4>6, <4>7
        DEF Next, vars, Environment, Interrupt, Transmit, ProcessActivity,
            GoOn, Begin, Arrive, StartCall, WaitExpires, Discard,
            PrepareForClockStop, ClockStopFinished
    <3> QED BY <3>1, <3>2, <3>3, <3>4, <3>5
  <2> QED BY <2>1, <2>2, <2>3, <2>4 DEF WaitOK, ReadWaits
<1> QED BY <1>1, <1>2

LEMMA WaitInvariant == Spec => []WaitOK
<1>1. Init => WaitOK
  BY DEF Init, WaitOK, ReadWaits, Initialized, Has, NoCall, None, Writing, Idle, Roles
<1>2. Base /\ PortInv /\ WaitOK /\ [Next]_vars => WaitOK'
  BY WaitStep
<1> QED BY <1>1, <1>2, PortInvariant, PTL DEF Spec

\* No wake-up is lost between the test of a queue and WaitEvents: a Read
\* with something to read and a Write with room are about to be woken.
THEOREM WakeupsArrive == Spec => []NoLostWakeup
<1>1. WaitOK => NoLostWakeup
  BY DEF WaitOK, ReadWaits, TxServed, NoLostWakeup
<1> QED BY <1>1, WaitInvariant, PTL

-----------------------------------------------------------------------------
(* The peer that was stopped is released. *)

\* No value of Handshake asks for XON/XOFF and RTS/CTS together.
OneControl == \A flow \in Flows : ~(SW_IN \in flow /\ HW_IN \in flow)

Filled(p) == NumberOfElements(p.RxQueue) > LowWaterMark

\* What the peer of p will have been told last, if st is what it knows now.
Stops(p, st) ==
    ~Has(p, "TX_BUFFERXON") /\ (Has(p, "TX_BUFFERXOFF") \/ Outcome(st, p.thr))

\* Who is stopped will be released by reading or by the clock; without
\* software flow control nobody is.
Soft(p, st) ==
    Initialized(p) =>
        /\ ~(Has(p, SW_IN) /\ Has(p, HW_IN))
        /\ ~Has(p, SW_IN) =>
            p.Flag \cap SoftBits = {} /\ p.thr \in {None, "data"} /\ ~st
        /\ Has(p, FULL) => Filled(p)
        /\ Stops(p, st) => Has(p, HALT) \/ Filled(p)

\* The same is true of the flags that Write is about to store.
StoreSoft ==
    Storing =>
        /\ SW_IN \notin call.flags => call.flags \cap SoftBits = {}
        /\ FULL \in call.flags => Filled(port)
        /\ /\ "TX_BUFFERXON" \notin call.flags
           /\ "TX_BUFFERXOFF" \in call.flags \/ Outcome(stopped, port.thr)
           => HALT \in call.flags \/ Filled(port)

SoftOK == Soft(port, stopped) /\ StoreSoft

LEMMA SoftBitsLemma ==
    /\ SoftBits = {FULL, HALT, "TX_BUFFERXOFF", "TX_BUFFERXON"}
    /\ SoftBits \cap (FlowBits \cup {"POWERSAVE", "INITIALIZED", "TX_XON_STATE"}) = {}
    /\ None \notin {"data", "XON", "XOFF"}
BY DEF SoftBits, XoffBits, FULL, HALT, FlowBits, SW_IN, SW_OUT, HW_IN, None

LEMMA SoftSame ==
    ASSUME NEW p, NEW q, NEW st, Soft(p, st), q.thr = p.thr,
           \A b \in SoftBits \cup {"INITIALIZED", SW_IN, HW_IN} :
                b \in q.Flag <=> b \in p.Flag,
           Filled(p) => Filled(q)
    PROVE  Soft(q, st)
<1>1. q.Flag \cap SoftBits = p.Flag \cap SoftBits
  OBVIOUS
<1>2. /\ Has(q, SW_IN) <=> Has(p, SW_IN)
      /\ Has(q, HW_IN) <=> Has(p, HW_IN)
      /\ Initialized(q) <=> Initialized(p)
      /\ Has(q, FULL) <=> Has(p, FULL)
      /\ Has(q, HALT) <=> Has(p, HALT)
      /\ Stops(q, st) <=> Stops(p, st)
  BY SoftBitsLemma DEF Has, Initialized, Stops
<1> QED BY <1>1, <1>2 DEF Soft

\* Letting the receiver go makes Soft true again.
LEMMA LetGoSoft ==
    ASSUME NEW p \in PortType, p.refs = p.imr, NEW st,
           Initialized(p) =>
                /\ ~(Has(p, SW_IN) /\ Has(p, HW_IN))
                /\ Has(p, SW_IN) => ~PowerSaved(p)
                /\ ~Has(p, SW_IN) =>
                    p.Flag \cap SoftBits = {} /\ p.thr \in {None, "data"} /\ ~st
    PROVE  Soft(LetGo(p), st)
<1> DEFINE q == LetGo(p)
<1>1. /\ Mild(p, q) /\ (HALT \in q.Flag <=> HALT \in p.Flag)
      /\ SW_IN \in p.Flag /\ ~PowerSaved(p) =>
            /\ FULL \notin q.Flag
            /\ HALT \notin p.Flag => "TX_BUFFERXON" \in q.Flag
      /\ SW_IN \notin p.Flag =>
            \A b \in SoftBits : b \in q.Flag <=> b \in p.Flag
  BY LetGoLemma
<1> HIDE DEF q
<1>2. /\ \A b \in {"INITIALIZED", SW_IN, HW_IN} : b \in q.Flag <=> b \in p.Flag
      /\ q.thr = p.thr
  BY <1>1, FixedLemma DEF Mild, SameData
<1> SUFFICES ASSUME Initialized(q)
             PROVE  /\ ~(Has(q, SW_IN) /\ Has(q, HW_IN))
                    /\ ~Has(q, SW_IN) =>
                        q.Flag \cap SoftBits = {} /\ q.thr \in {None, "data"} /\ ~st
                    /\ Has(q, FULL) => Filled(q)
                    /\ Stops(q, st) => Has(q, HALT) \/ Filled(q)
  BY DEF Soft, q
<1>3. Initialized(p) /\ ~(Has(q, SW_IN) /\ Has(q, HW_IN))
  BY <1>2 DEF Initialized, Has
<1>4. CASE SW_IN \in p.Flag
  <2>1. /\ FULL \notin q.Flag /\ SW_IN \in q.Flag
        /\ HALT \in q.Flag \/ "TX_BUFFERXON" \in q.Flag
    BY <1>1, <1>2, <1>3, <1>4 DEF Has
  <2> QED BY <1>3, <2>1 DEF Has, Stops
<1>5. CASE SW_IN \notin p.Flag
  <2>1. /\ p.Flag \cap SoftBits = {} /\ p.thr \in {None, "data"} /\ ~st
    BY <1>3, <1>5 DEF Has
  <2>2. q.Flag \cap SoftBits = {}
    BY <1>1, <1>5, <2>1
  <2>3. ~Stops(q, st)
    BY <1>2, <2>1, <2>2, SoftBitsLemma DEF Stops, Has, Outcome
  <2>4. ~Has(q, FULL)
    BY <2>2, SoftBitsLemma DEF Has
  <2> QED BY <1>2, <1>3, <2>1, <2>2, <2>3, <2>4
<1> QED BY <1>4, <1>5

LEMMA CountOfRx ==
    ASSUME NEW p \in PortType
    PROVE  NumberOfElements(p.RxQueue) \in Nat /\ LowWaterMark \in Nat
<1>1. p.RxQueue \in QueueType(RxSize, Bytes)
  BY DEF PortType
<1>2. NumberOfElements(p.RxQueue) \in Nat
  BY <1>1, Sizes, CountType DEF QueueSizes
<1>3. LowWaterMark \in Nat
  BY Sizes DEF QueueSizes, LowWaterMark
<1> QED BY <1>2, <1>3

LEMMA HearsSoft ==
    ASSUME NEW p \in PortType, NEW q, Hears(p, q), NEW st, Soft(p, st)
    PROVE  Soft(q, st) /\ (Filled(p) => Filled(q))
<1>1. /\ \A b \in {"INITIALIZED", SW_IN, HW_IN} : b \in q.Flag <=> b \in p.Flag
      /\ q.thr = p.thr
  BY FixedLemma DEF Hears
<1>2. Filled(p) => Filled(q)
  <2>1. q \in PortType /\ NumberOfElements(q.RxQueue) >= NumberOfElements(p.RxQueue)
    BY DEF Hears
  <2> QED BY <2>1, CountOfRx DEF Filled
<1>3. CASE \A b \in SoftBits : b \in q.Flag <=> b \in p.Flag
  BY <1>1, <1>2, <1>3, SoftSame
<1>4. CASE SW_IN \in p.Flag /\ Filled(q)
  BY <1>1, <1>2, <1>4 DEF Soft, Initialized, Has
<1> QED BY <1>2, <1>3, <1>4 DEF Hears, Filled

LEMMA StilledSoft ==
    ASSUME NEW p, NEW q, Stilled(p, q), NEW st, Soft(p, st)
    PROVE  Soft(q, st)
<1>1. "POWERSAVE" \notin SoftBits \cup {"INITIALIZED", SW_IN, HW_IN}
  BY SoftBitsLemma, FixedLemma
<1>2. \A b \in SoftBits \cup {"INITIALIZED", SW_IN, HW_IN} :
            b \in q.Flag <=> b \in p.Flag
  BY <1>1, OtherBits DEF Stilled
<1> QED BY <1>2, SoftSame DEF Stilled, SameData, Filled

LEMMA SentSoft ==
    ASSUME NEW p, NEW q, Sent(p, q), NEW st, Soft(p, st),
           p.thr = None \/ ~Has(p, SW_IN)
    PROVE  Soft(q, st)
<1>1. PICK bit \in {"TX_BUFFERXOFF", "TX_BUFFERXON"} :
            /\ q.Flag \ {bit} = p.Flag \ {bit}
            /\ q.Flag \subseteq p.Flag
  BY DEF Sent
<1>2. /\ \A b \in {"INITIALIZED", SW_IN, HW_IN, FULL, HALT} :
            b \in q.Flag <=> b \in p.Flag
      /\ Filled(q) <=> Filled(p)
  <2>1. bit \notin {"INITIALIZED", SW_IN, HW_IN, FULL, HALT}
    BY FixedLemma
  <2>2. Filled(q) <=> Filled(p)
    BY DEF Sent, Filled
  <2> QED BY <1>1, <2>1, <2>2, OtherBits
<1> SUFFICES ASSUME Initialized(q) PROVE Soft(q, st)
  BY DEF Soft
<1>3. Initialized(p)
  BY <1>2 DEF Initialized, Has
<1>4. CASE ~Has(p, SW_IN)
  <2>1. p.Flag \cap SoftBits = {} /\ ~st
    BY <1>3, <1>4 DEF Soft
  <2>2. ~Has(p, "TX_BUFFERXOFF") /\ ~Has(p, "TX_BUFFERXON")
    BY <2>1, SoftBitsLemma DEF Has
  <2>3. q.thr = "data" /\ q.Flag = p.Flag
    <3>1. NextChar(p) \in {"data", None}
      BY <2>2 DEF NextChar
    <3> QED BY <3>1, SoftBitsLemma DEF Sent, Pending
  <2>4. ~Stops(q, st)
    BY <2>1, <2>2, <2>3 DEF Stops, Outcome, Has
  <2>5. ~Has(q, FULL)
    BY <2>1, <2>3, SoftBitsLemma DEF Has
  <2> QED BY <1>3, <1>4, <2>1, <2>3, <2>4, <2>5 DEF Soft, Has
<1>5. CASE Has(p, SW_IN)
  <2>1. p.thr = None
    BY <1>5
  <2>2. Stops(q, st) => Stops(p, st)
    BY <2>1, SoftBitsLemma DEF Sent, Stops, Has, Outcome, NextChar
  <2> QED BY <1>2, <1>3, <1>5, <2>2 DEF Soft, Has
<1> QED BY <1>4, <1>5

LEMMA SoftStep ==
    ASSUME OneControl, Base, PortInv, SoftOK, [Next]_vars
    PROVE  Soft(port', stopped')
<1>0. /\ PortOK /\ CallOK /\ port \in PortType /\ call \in CallType
      /\ port.refs = port.imr /\ Soft(port, stopped)
  BY DEF Base, PortOK, CallOK, Matched, SoftOK
<1>1. Initialized(port) /\ Has(port, SW_IN) => Plain(port) /\ ~PowerSaved(port)
  BY <1>0 DEF Soft, Plain, PortInv, LineOK, Goes
<1>2. ASSUME port'.Flag = port.Flag, port'.thr = port.thr,
             port'.RxQueue = port.RxQueue, stopped' = stopped
      PROVE  Soft(port', stopped')
  BY <1>0, <1>2, SoftSame DEF Filled
<1>3. ASSUME NEW byte \in Bytes, Interrupt(byte) PROVE Soft(port', stopped')
  <2>1. PICK p \in PortType : Served(p)
    BY <1>0, <1>3, InterruptLemma
  <2>2. Soft(p, stopped)
    BY <1>0, <2>1, HearsSoft DEF Served
  <2>3. stopped' = stopped
    BY <1>3 DEF Interrupt
  <2> QED BY <2>1, <2>2, <2>3, StilledSoft, SentSoft DEF Served
<1>4. CASE Transmit
  <2>1. /\ port'.Flag = port.Flag /\ port'.thr = None
        /\ port'.RxQueue = port.RxQueue /\ stopped' = Outcome(stopped, port.thr)
    BY <1>0, <1>4 DEF Transmit, PortType
  <2>2. Outcome(stopped', port'.thr) <=> Outcome(stopped, port.thr)
    BY <2>1, SoftBitsLemma DEF Outcome
  <2>3. Stops(port', stopped') <=> Stops(port, stopped)
    BY <2>1, <2>2 DEF Stops, Has
  <2>4. Initialized(port) /\ ~Has(port, SW_IN) => ~stopped'
    BY <1>0, <2>1, SoftBitsLemma DEF Soft, Outcome
  <2> QED BY <1>0, <2>1, <2>3, <2>4 DEF Soft, Initialized, Has, Filled
<1>5. CASE ReadEnter \/ ReadEnd \/ \E c \in {"data", "XON", "XOFF"} : Arrive(c)
  BY <1>0, <1>2, <1>5 DEF ReadEnter, ReadEnd, SetDataEvent, Arrive, PortType
<1>6. ASSUME NEW p \in PortType, p.Flag = port.Flag, p.refs = p.imr,
             p.thr = port.thr
      PROVE  Soft(LetGo(p), stopped)
  <2>1. Initialized(p) =>
                /\ ~(Has(p, SW_IN) /\ Has(p, HW_IN))
                /\ Has(p, SW_IN) => ~PowerSaved(p)
                /\ ~Has(p, SW_IN) =>
                    p.Flag \cap SoftBits = {} /\ p.thr \in {None, "data"} /\ ~stopped
    BY <1>0, <1>1, <1>6 DEF Soft, Initialized, PowerSaved, Has
  <2> QED BY <1>6, <2>1, LetGoSoft
<1>7. CASE ReadLoop
  <2>1. PICK p \in PortType : Taken(p)
    BY <1>0, <1>7, ReadLoopLemma
  <2>2. stopped' = stopped /\ p.Flag = port.Flag /\ p.refs = p.imr /\ p.thr = port.thr
    BY <1>7, <2>1 DEF ReadLoop, Taken
  <2>3. CASE port' = LetGo(p)
    BY <1>6, <2>2, <2>3
  <2>4. CASE port' # LetGo(p)
    <3>1. port' = p /\ (Filled(port) => Filled(p))
      BY <1>0, <2>1, <2>4, CountOfRx DEF Taken, Filled
    <3> QED BY <1>0, <2>2, <3>1, SoftSame
  <2> QED BY <2>3, <2>4
<1>8. CASE WriteStore
  <2>1. /\ port'.Flag = call.flags \cup {"TX_XON_STATE"} /\ port'.thr = port.thr
        /\ port'.RxQueue = port.RxQueue /\ stopped' = stopped /\ Storing
    BY <1>0, <1>8 DEF WriteStore, PortType, Storing
  <2>2. Initialized(port) /\ \A b \in {SW_IN, HW_IN} : b \in call.flags <=> b \in port.Flag
    BY <2>1, FixedLemma DEF PortInv, StoreOK
  <2>3. /\ \A b \in SoftBits \cup {SW_IN, HW_IN} : b \in port'.Flag <=> b \in call.flags
        /\ Filled(port') <=> Filled(port)
    <3>1. "TX_XON_STATE" \notin SoftBits \cup {SW_IN, HW_IN}
      BY SoftBitsLemma, FixedLemma
    <3> QED BY <2>1, <3>1 DEF Filled
  <2>4. ~(Has(port', SW_IN) /\ Has(port', HW_IN))
    BY <1>0, <2>2, <2>3 DEF Soft, Has
  <2>5. ~Has(port', SW_IN) =>
            port'.Flag \cap SoftBits = {} /\ port'.thr \in {None, "data"} /\ ~stopped'
    BY <1>0, <2>1, <2>2, <2>3 DEF SoftOK, StoreSoft, Soft, Has
  <2>6. Has(port', FULL) => Filled(port')
    BY <2>1, <2>3, SoftBitsLemma DEF SoftOK, StoreSoft, Has
  <2>7. Stops(port', stopped') => Has(port', HALT) \/ Filled(port')
    BY <2>1, <2>3, SoftBitsLemma DEF SoftOK, StoreSoft, Stops, Has
  <2> QED BY <2>4, <2>5, <2>6, <2>7 DEF Soft
<1>9. CASE WriteLoop
  <2>1. stopped' = stopped
    BY <1>9 DEF WriteLoop
  <2> QED BY <1>0, <1>2, <1>9, <2>1, WriteLoopLemma
<1>10. CASE WriteEnd
  <2>1. PICK o : o = InterruptOn(port, "Tx")
    OBVIOUS
  <2>2. /\ SameData(port, o)
        /\ o.Flag \ {"POWERSAVE"} = port.Flag \ {"POWERSAVE"}
    BY <1>0, <2>1, InterruptOnLemma DEF Lines
  <2>3. "POWERSAVE" \notin SoftBits \cup {"INITIALIZED", SW_IN, HW_IN}
    BY SoftBitsLemma, FixedLemma
  <2>4. Soft(o, stopped)
    <3>1. \A b \in SoftBits \cup {"INITIALIZED", SW_IN, HW_IN} :
                b \in o.Flag <=> b \in port.Flag
      BY <2>2, <2>3, OtherBits
    <3> QED BY <1>0, <2>2, <3>1, SoftSame DEF SameData, Filled
  <2>5. (port' = port \/ port' = o) /\ stopped' = stopped
    BY <1>10, <2>1 DEF WriteEnd
  <2> QED BY <1>0, <2>4, <2>5
<1>11. CASE FlushPoll
  <2>1. Sent(port, port') /\ TxBufferEmpty(port) /\ stopped' = stopped
    BY <1>0, <1>11, FlushPollLemma DEF FlushPoll
  <2>2. CASE Initialized(port) /\ Has(port, SW_IN)
    <3>1. Armed(port)
      BY <1>1, <1>11, <2>2 DEF PortInv, LineOK, Writing, FlushPoll
    <3>2. port.thr = None
      BY <2>1, <3>1 DEF Sent, Armed, InterruptState, TxBufferEmpty
    <3> QED BY <1>0, <2>1, <3>2, SentSoft
  <2>3. CASE ~Has(port, SW_IN)
    BY <1>0, <2>1, <2>3, SentSoft
  <2>4. CASE ~Initialized(port)
    <3>1. PICK bit \in {"TX_BUFFERXOFF", "TX_BUFFERXON"} :
            port'.Flag \ {bit} = port.Flag \ {bit}
      BY <2>1 DEF Sent
    <3>2. ~Initialized(port')
      BY <2>4, <3>1, OtherBits DEF Initialized, Has
    <3> QED BY <3>2 DEF Soft
  <2> QED BY <2>2, <2>3, <2>4
<1>12. ASSUME NEW flow \in Flows, Open(flow) PROVE Soft(port', stopped')
  <2>1. /\ port'.Flag = {"INITIALIZED", "TX_XON_STATE"} \cup flow
        /\ port'.thr = None /\ stopped' = FALSE /\ flow \in SUBSET FlowBits
    BY <1>0, <1>12, OpenLemma DEF Open
  <2>2. port'.Flag \cap SoftBits = {}
    BY <2>1, SoftBitsLemma
  <2>3. ~(Has(port', SW_IN) /\ Has(port', HW_IN))
    BY <2>1, FixedLemma DEF OneControl, Has
  <2>4. ~Stops(port', stopped') /\ ~Has(port', FULL)
    BY <2>1, <2>2, SoftBitsLemma DEF Stops, Outcome, Has
  <2> QED BY <2>1, <2>2, <2>3, <2>4 DEF Soft
<1>13. CASE Close
  BY <1>0, <1>13, CloseLemma DEF Soft
<1>14. ASSUME NEW fRx \in BOOLEAN, Discard(fRx) PROVE Soft(port', stopped')
  <2>1. stopped' = stopped
    BY <1>14 DEF Discard
  <2>2. CASE fRx
    <3>1. PICK p \in PortType :
                /\ p.Flag = port.Flag /\ p.refs = p.imr
                /\ p.thr = port.thr /\ port' = LetGo(p)
      BY <1>0, <1>14, <2>2, DiscardLemma
    <3> QED BY <1>6, <2>1, <3>1
  <2>3. CASE ~fRx
    BY <1>0, <1>2, <1>14, <2>1, <2>3, DiscardLemma
  <2> QED BY <2>2, <2>3
<1>15. CASE PrepareForClockStop
  <2>1. /\ port' = SendXOFF(port, HALT) /\ stopped' = stopped /\ Has(port, SW_IN)
    BY <1>15 DEF PrepareForClockStop
  <2>2. /\ Mild(port, port')
        /\ FULL \in port'.Flag <=> FULL \in port.Flag
        /\ ~PowerSaved(port) => HALT \in port'.Flag
    <3>1. FULL \in FlagBits \ {"POWERSAVE", "TX_BUFFERXOFF", HALT} /\ HALT \in XoffBits
      BY FixedLemma DEF FlagBits
    <3> QED BY <1>0, <2>1, <3>1, SendXOFFLemma
  <2>3. /\ \A b \in {"INITIALIZED", SW_IN, HW_IN} : b \in port'.Flag <=> b \in port.Flag
        /\ Filled(port') <=> Filled(port)
    BY <2>2, FixedLemma DEF Mild, SameData, Filled
  <2> QED BY <1>0, <1>1, <2>1, <2>2, <2>3 DEF Soft, Initialized, Has
<1>16. CASE ClockStopFinished
  <2>1. /\ port' = SendXON(port, HALT) /\ stopped' = stopped /\ Has(port, SW_IN)
    BY <1>16 DEF ClockStopFinished
  <2>2. /\ Mild(port, port')
        /\ FULL \in port'.Flag <=> FULL \in port.Flag
        /\ ~PowerSaved(port) /\ FULL \notin port.Flag => "TX_BUFFERXON" \in port'.Flag
    <3>1. FULL \in FlagBits \ {"POWERSAVE", "TX_BUFFERXON", HALT} /\ HALT \in XoffBits
          /\ (FULL \notin port.Flag => port.Flag \cap XoffBits \subseteq {HALT})
      BY FixedLemma DEF FlagBits, XoffBits
    <3> QED BY <1>0, <2>1, <3>1, SendXONLemma
  <2>3. /\ \A b \in {"INITIALIZED", SW_IN, HW_IN} : b \in port'.Flag <=> b \in port.Flag
        /\ Filled(port') <=> Filled(port)
    BY <2>2, FixedLemma DEF Mild, SameData, Filled
  <2> QED BY <1>0, <1>1, <2>1, <2>2, <2>3 DEF Soft, Stops, Initialized, Has
<1>17. CASE port' = port /\ stopped' = stopped
  BY <1>2, <1>17
<1>18. CASE \/ ProcessActivity \/ WriteEnter \/ FlushEnter \/ FlushDrained
            \/ FlushReturns \/ StartFlush \/ (\E r \in Roles : GoOn(r))
            \/ (\E r \in Roles : WaitExpires(r))
            \/ (\E r \in Roles : \E n \in 1..MaxCount(r) : StartCall(r, n))
  BY <1>17, <1>18 DEF ProcessActivity, WriteEnter, FlushEnter, FlushDrained,
       FlushReturns, StartFlush, GoOn, WaitExpires, StartCall
<1>19. CASE UNCHANGED vars
  BY <1>17, <1>19 DEF vars
<1> QED
  BY <1>3, <1>4, <1>5, <1>7, <1>8, <1>9, <1>10, <1>11, <1>12, <1>13, <1>14, <1>15,
     <1>16, <1>18, <1>19
  DEF Next, CallSteps, Environment

LEMMA StoreSoftStep ==
    ASSUME Base, PortInv, SoftOK, [Next]_vars
    PROVE  StoreSoft'
<1>0. /\ PortOK /\ CallOK /\ port \in PortType /\ Soft(port, stopped)
  BY DEF Base, PortOK, SoftOK
<1> SUFFICES ASSUME Storing' PROVE StoreSoft'
  BY DEF StoreSoft
<1>1. CASE /\ port' = port /\ stopped' = stopped /\ call'.flags = port.Flag
           /\ Initialized(port)
  BY <1>0, <1>1 DEF StoreSoft, Soft, Stops, Has, Filled
<1>2. ASSUME Storing, call' = call, Filled(port) => Filled(port'),
             /\ Outcome(stopped', port'.thr) /\ "TX_BUFFERXON" \notin call.flags
                => Outcome(stopped, port.thr) \/ HALT \in call.flags \/ Filled(port')
      PROVE  StoreSoft'
  BY <1>2 DEF SoftOK, StoreSoft, Filled
<1>3. ASSUME Storing, call' = call,
             Transmit \/ UNCHANGED vars \/ \E c \in {"data", "XON", "XOFF"} : Arrive(c)
      PROVE  StoreSoft'
  <2>1. port'.RxQueue = port.RxQueue
    BY <1>0, <1>3 DEF Transmit, Arrive, PortType, vars
  <2>2. Outcome(stopped', port'.thr) <=> Outcome(stopped, port.thr)
    <3>1. CASE Transmit
      <4>1. port'.thr = None /\ stopped' = Outcome(stopped, port.thr)
        BY <1>0, <3>1 DEF Transmit, PortType
      <4> QED BY <4>1, SoftBitsLemma DEF Outcome
    <3>2. CASE ~Transmit
      <4>1. port'.thr = port.thr /\ stopped' = stopped
        BY <1>0, <1>3, <3>2 DEF Arrive, PortType, vars
      <4> QED BY <4>1
    <3> QED BY <3>1, <3>2
  <2> QED BY <1>2, <1>3, <2>1, <2>2 DEF Filled
<1>4. ASSUME Storing, call' = call, NEW byte \in Bytes, Interrupt(byte)
      PROVE  StoreSoft'
  <2>1. PICK p \in PortType : Served(p)
    BY <1>0, <1>4, InterruptLemma
  <2>2. Soft(p, stopped) /\ (Filled(port) => Filled(p))
    BY <1>0, <2>1, HearsSoft DEF Served
  <2>3. stopped' = stopped /\ p.thr = port.thr
    BY <1>4, <2>1 DEF Interrupt, Served, Hears
  <2>4. Filled(port') <=> Filled(p)
    BY <2>1 DEF Served, Stilled, Sent, SameData, Filled
  <2>5. CASE port' = p \/ Stilled(p, port')
    <3>1. port'.thr = port.thr
      BY <2>3, <2>5 DEF Stilled, SameData
    <3> QED BY <1>2, <1>4, <2>2, <2>3, <2>4, <3>1
  <2>6. CASE p.thr = None /\ Sent(p, port')
    <3>1. CASE port'.thr # "XOFF"
      <4>1. Outcome(stopped', port'.thr) => Outcome(stopped, port.thr)
        BY <2>3, <2>6, <3>1, SoftBitsLemma DEF Outcome
      <4> QED BY <1>2, <1>4, <2>2, <2>4, <4>1
    <3>2. CASE port'.thr = "XOFF"
      <4>1. Has(p, "TX_BUFFERXOFF")
        BY <2>6, <3>2 DEF Sent, Has
      <4>2. /\ Initialized(p)
            /\ HALT \in p.Flag <=> HALT \in call.flags
            /\ "TX_BUFFERXON" \in p.Flag => "TX_BUFFERXON" \in call.flags
        BY <1>4, <2>1, FixedLemma DEF Served, Hears, PortInv, StoreOK, Initialized, Has
      <4>3. "TX_BUFFERXON" \notin call.flags => HALT \in call.flags \/ Filled(p)
        BY <2>2, <4>1, <4>2 DEF Soft, Stops, Has
      <4> QED BY <1>2, <1>4, <2>2, <2>4, <4>3
    <3> QED BY <3>1, <3>2
  <2> QED BY <2>1, <2>5, <2>6 DEF Served
<1> QED BY <1>1, <1>3, <1>4, StoringLemma

\* Reading releases a peer that this session stopped, whenever Write stores
\* the flags and the interrupt comes, if no port has both kinds of flow
\* control on its receiver (the enumeration Handshake has no such value).
THEOREM ReadingReleasesPeer ==
    ASSUME OneControl
    PROVE  Spec => []ReadingReleases
<1>1. Init => SoftOK
  BY NoCallLemma DEF Init, SoftOK, Soft, StoreSoft, Initialized, Has, Storing
<1>2. Base /\ PortInv /\ SoftOK /\ [Next]_vars => SoftOK'
  BY SoftStep, StoreSoftStep DEF SoftOK
<1>3. SoftOK => ReadingReleases
  BY DEF SoftOK, Soft, Stops, Filled, WillBeStopped, ReadingReleases
<1> QED BY <1>1, <1>2, <1>3, PortInvariant, PTL DEF Spec
=============================================================================
