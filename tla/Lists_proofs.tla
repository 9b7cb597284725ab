---------------------------- MODULE Lists_proofs ----------------------------
(* What the operations of Lists return, for lists of any length. *)
EXTENDS Lists, WellFoundedInduction, TLAPS

NoDup(s) == \A i, j \in 1..Len(s) : s[i] = s[j] => i = j

-----------------------------------------------------------------------------
(* The lists *)

\* A nonempty set of places has a first one.
LEMMA LeastPlace ==
    ASSUME NEW S \in SUBSET Nat, S # {}
    PROVE  \E i \in S : \A j \in S : i <= j
<1>1. PICK i \in S : \A j \in S : ~(<<j, i>> \in OpToRel(<, Nat))
  BY NatLessThanWellFounded, WFMin
<1>2. \A j \in S : ~(j < i)
  BY <1>1 DEF OpToRel
<1> QED BY <1>2

\* Removing the i-th node of a list keeps the others, and their being distinct.
LEMMA DropLemma ==
    ASSUME NEW S, NEW s \in Seq(S), NEW i \in 1..Len(s)
    PROVE  /\ Drop(s, i) \in Seq(S)
           /\ Len(Drop(s, i)) = Len(s) - 1
           /\ Members(Drop(s, i)) \subseteq Members(s)
           /\ Members(s) \subseteq Members(Drop(s, i)) \cup {s[i]}
           /\ NoDup(s) => NoDup(Drop(s, i)) /\ s[i] \notin Members(Drop(s, i))
<1> DEFINE d == Drop(s, i)
<1>1. Len(s) - 1 \in Nat
  OBVIOUS
<1>2. d \in Seq(S)
  <2>1. \A j \in 1..(Len(s) - 1) : (IF j < i THEN s[j] ELSE s[j + 1]) \in S
    OBVIOUS
  <2> QED BY <2>1, <1>1 DEF Drop
<1>3. Len(d) = Len(s) - 1
  BY <1>1 DEF Drop
<1>4. \A j \in 1..(Len(s) - 1) : d[j] = IF j < i THEN s[j] ELSE s[j + 1]
  BY DEF Drop
<1>5. Members(d) \subseteq Members(s)
  BY <1>3, <1>4 DEF Members
<1>6. Members(s) \subseteq Members(d) \cup {s[i]}
  <2> SUFFICES ASSUME NEW k \in 1..Len(s), k # i
               PROVE  s[k] \in Members(d)
    BY DEF Members
  <2>1. CASE k < i
    <3>1. k \in 1..Len(d) /\ d[k] = s[k]
      BY <2>1, <1>3, <1>4
    <3> QED BY <3>1 DEF Members
  <2>2. CASE k > i
    <3>1. k - 1 \in 1..Len(d) /\ d[k - 1] = s[k]
      BY <2>2, <1>3, <1>4
    <3> QED BY <3>1 DEF Members
  <2> QED BY <2>1, <2>2
<1>7. ASSUME NoDup(s)
      PROVE  NoDup(d) /\ s[i] \notin Members(d)
  <2>1. Len(s) \in Nat
    OBVIOUS
  <2>2. NoDup(d)
    BY <1>3, <1>4, <1>7, <2>1 DEF NoDup
  <2>3. ASSUME NEW j \in 1..(Len(s) - 1) PROVE d[j] # s[i]
    <3>1. CASE j < i
      <4>1. d[j] = s[j] /\ j \in 1..Len(s) /\ j # i
        BY <1>4, <2>1, <3>1
      <4> QED BY <1>7, <4>1 DEF NoDup
    <3>2. CASE ~(j < i)
      <4>1. d[j] = s[j + 1] /\ j + 1 \in 1..Len(s) /\ j + 1 # i
        BY <1>4, <2>1, <3>2
      <4> QED BY <1>7, <4>1 DEF NoDup
    <3> QED BY <3>1, <3>2
  <2> QED BY <1>3, <2>2, <2>3 DEF Members
<1> QED BY <1>2, <1>3, <1>5, <1>6, <1>7

\* Unlinking a node removes it and nothing else.
LEMMA UnlinkLemma ==
    ASSUME NEW S, NEW s \in Seq(S), NEW x, NoDup(s)
    PROVE  /\ Unlink(s, x) \in Seq(S)
           /\ NoDup(Unlink(s, x))
           /\ Members(Unlink(s, x)) = Members(s) \ {x}
<1>1. CASE x \in Members(s)
  <2> DEFINE i == Position(s, x)
  <2>1. i \in 1..Len(s) /\ s[i] = x
    BY <1>1 DEF Members, Position
  <2>2. Unlink(s, x) = Drop(s, i)
    BY <1>1 DEF Unlink
  <2> HIDE DEF i
  <2> QED BY <2>1, <2>2, DropLemma
<1>2. CASE x \notin Members(s)
  BY <1>2 DEF Unlink
<1> QED BY <1>1, <1>2

\* LinkAtBack moves or adds one node.
LEMMA LinkAtBackLemma ==
    ASSUME NEW S, NEW s \in Seq(S), NEW x \in S, NoDup(s)
    PROVE  /\ LinkAtBack(s, x) \in Seq(S)
           /\ NoDup(LinkAtBack(s, x))
           /\ Members(LinkAtBack(s, x)) = Members(s) \cup {x}
<1> DEFINE u == Unlink(s, x)
<1>1. u \in Seq(S) /\ NoDup(u) /\ Members(u) = Members(s) \ {x}
  BY UnlinkLemma
<1>2. LinkAtBack(s, x) = Append(u, x)
  BY DEF LinkAtBack
<1> HIDE DEF u
<1>3. /\ Append(u, x) \in Seq(S)
      /\ Len(Append(u, x)) = Len(u) + 1
      /\ \A j \in 1..Len(u) : Append(u, x)[j] = u[j]
      /\ Append(u, x)[Len(u) + 1] = x
  BY <1>1
<1>4. Members(Append(u, x)) = Members(u) \cup {x}
  BY <1>1, <1>3 DEF Members
<1>5. \A j \in 1..Len(u) : u[j] # x
  BY <1>1 DEF Members
<1>6. NoDup(Append(u, x))
  BY <1>1, <1>3, <1>5 DEF NoDup
<1> QED BY <1>1, <1>2, <1>3, <1>4, <1>6

LEMMA MembersLemma ==
    ASSUME NEW S, NEW s \in Seq(S)
    PROVE  Members(s) \subseteq S
BY DEF Members

\* InsertBefore adds one node and keeps the order of the others.
LEMMA InsertBeforeLemma ==
    ASSUME NEW S, NEW s \in Seq(S), NEW x \in S, NEW k \in 1..(Len(s) + 1)
    PROVE  /\ InsertBefore(s, k, x) \in Seq(S)
           /\ Len(InsertBefore(s, k, x)) = Len(s) + 1
           /\ \A j \in 1..(Len(s) + 1) :
                InsertBefore(s, k, x)[j] =
                    IF j < k THEN s[j] ELSE IF j = k THEN x ELSE s[j - 1]
           /\ Members(InsertBefore(s, k, x)) = Members(s) \cup {x}
           /\ NoDup(s) /\ x \notin Members(s) => NoDup(InsertBefore(s, k, x))
<1> DEFINE d == InsertBefore(s, k, x)
<1>1. Len(s) + 1 \in Nat
  OBVIOUS
<1>2. \A j \in 1..(Len(s) + 1) :
        (IF j < k THEN s[j] ELSE IF j = k THEN x ELSE s[j - 1]) \in S
  OBVIOUS
<1>3. d \in Seq(S) /\ Len(d) = Len(s) + 1
  BY <1>1, <1>2 DEF InsertBefore
<1>4. \A j \in 1..(Len(s) + 1) :
        d[j] = IF j < k THEN s[j] ELSE IF j = k THEN x ELSE s[j - 1]
  BY DEF InsertBefore
<1>5. Members(d) \subseteq Members(s) \cup {x}
  <2> SUFFICES ASSUME NEW j \in 1..Len(d)
               PROVE  d[j] \in Members(s) \cup {x}
    BY DEF Members
  <2>1. j < k => j \in 1..Len(s)
    BY <1>3
  <2>2. j > k => j - 1 \in 1..Len(s)
    BY <1>3
  <2> QED BY <1>3, <1>4, <2>1, <2>2 DEF Members
<1>6. Members(s) \cup {x} \subseteq Members(d)
  <2>1. x \in Members(d)
    BY <1>3, <1>4 DEF Members
  <2>2. ASSUME NEW j \in 1..Len(s) PROVE s[j] \in Members(d)
    <3>1. CASE j < k
      <4>1. j \in 1..Len(d) /\ d[j] = s[j]
        BY <1>3, <1>4, <3>1
      <4> QED BY <4>1 DEF Members
    <3>2. CASE j >= k
      <4>1. j + 1 \in 1..Len(d) /\ d[j + 1] = s[j]
        BY <1>3, <1>4, <3>2
      <4> QED BY <4>1 DEF Members
    <3> QED BY <3>1, <3>2
  <2> QED BY <2>1, <2>2 DEF Members
<1>7. ASSUME NoDup(s), x \notin Members(s) PROVE NoDup(d)
  <2>1. \A j \in 1..Len(s) : s[j] # x
    BY <1>7 DEF Members
  <2> SUFFICES ASSUME NEW i \in 1..Len(d), NEW j \in 1..Len(d), i < j
               PROVE  d[i] # d[j]
    <3>1. \A i, j \in 1..Len(d) : i < j => d[i] # d[j]
      OBVIOUS
    <3>2. Len(d) \in Nat
      BY <1>3
    <3> HIDE DEF d
    <3> QED BY <3>1, <3>2 DEF NoDup
  <2> DEFINE p == IF i < k THEN i ELSE i - 1
             q == IF j < k THEN j ELSE j - 1
  <2>2. i # k => p \in 1..Len(s) /\ d[i] = s[p]
    BY <1>3, <1>4
  <2>3. j # k => q \in 1..Len(s) /\ d[j] = s[q]
    BY <1>3, <1>4
  <2>4. i = k => d[i] = x
    BY <1>3, <1>4
  <2>5. j = k => d[j] = x
    BY <1>3, <1>4
  <2>6. i # k /\ j # k => p < q
    BY <1>3
  <2> HIDE DEF d, p, q
  <2>7. i # k /\ j # k => s[p] # s[q]
    BY <1>7, <2>2, <2>3, <2>6 DEF NoDup
  <2> QED BY <2>1, <2>2, <2>3, <2>4, <2>5, <2>7
<1> HIDE DEF d
<1> QED BY <1>3, <1>4, <1>5, <1>6, <1>7 DEF d

\* Taking the first node of a list without repetitions.
LEMMA DropFirst ==
    ASSUME NEW S, NEW s \in Seq(S), s # <<>>
    PROVE  /\ Drop(s, 1) \in Seq(S)
           /\ Head(s) \in Members(s)
           /\ Members(Drop(s, 1)) \subseteq Members(s)
           /\ Members(s) \subseteq Members(Drop(s, 1)) \cup {Head(s)}
           /\ NoDup(s) => NoDup(Drop(s, 1)) /\ Head(s) \notin Members(Drop(s, 1))
           /\ Len(s) > 1 => Drop(s, 1) # <<>> /\ Head(Drop(s, 1)) = s[2]
           /\ ~(Len(s) > 1) => Drop(s, 1) = <<>>
<1>1. 1 \in 1..Len(s) /\ s[1] = Head(s)
  OBVIOUS
<1>2. /\ Drop(s, 1) \in Seq(S)
      /\ Len(Drop(s, 1)) = Len(s) - 1
      /\ Members(Drop(s, 1)) \subseteq Members(s)
      /\ Members(s) \subseteq Members(Drop(s, 1)) \cup {Head(s)}
      /\ NoDup(s) => NoDup(Drop(s, 1)) /\ Head(s) \notin Members(Drop(s, 1))
  BY <1>1, DropLemma
<1>3. Head(s) \in Members(s)
  BY <1>1 DEF Members
<1>4. Len(s) > 1 => Drop(s, 1)[1] = s[2]
  BY DEF Drop
<1>5. Len(s) > 1 => Drop(s, 1) # <<>> /\ Head(Drop(s, 1)) = s[2]
  BY <1>2, <1>4
<1>6. ~(Len(s) > 1) => Drop(s, 1) = <<>>
  BY <1>2
<1> QED BY <1>2, <1>3, <1>5, <1>6

\* Unlinking the first node takes it off; another one leaves the first in place.
LEMMA UnlinkHead ==
    ASSUME NEW S, NEW s \in Seq(S), NEW x, NoDup(s), s # <<>>
    PROVE  /\ Head(s) = x => Unlink(s, x) = Drop(s, 1)
           /\ Head(s) # x => Unlink(s, x) # <<>> /\ Head(Unlink(s, x)) = Head(s)
<1>1. CASE x \notin Members(s)
  <2>1. Head(s) # x
    BY <1>1, DropFirst
  <2> QED BY <1>1, <2>1 DEF Unlink
<1>2. CASE x \in Members(s)
  <2> DEFINE i == Position(s, x)
  <2>1. i \in 1..Len(s) /\ s[i] = x
    BY <1>2 DEF Members, Position
  <2>2. Unlink(s, x) = Drop(s, i)
    BY <1>2 DEF Unlink
  <2> HIDE DEF i
  <2>3. Drop(s, i) \in Seq(S) /\ Len(Drop(s, i)) = Len(s) - 1
    BY <2>1, DropLemma
  <2>4. \A j \in 1..(Len(s) - 1) : Drop(s, i)[j] = IF j < i THEN s[j] ELSE s[j + 1]
    BY DEF Drop
  <2>5. CASE Head(s) = x
    <3>1. i = 1
      BY <2>1, <2>5 DEF NoDup
    <3> QED BY <2>2, <2>5, <3>1
  <2>6. CASE Head(s) # x
    <3>1. i > 1
      BY <2>1, <2>6
    <3>2. 1 \in 1..(Len(s) - 1) /\ Drop(s, i)[1] = s[1]
      BY <2>1, <2>4, <3>1
    <3> QED BY <2>2, <2>3, <2>6, <3>2
  <2> QED BY <2>5, <2>6
<1> QED BY <1>1, <1>2

=============================================================================
