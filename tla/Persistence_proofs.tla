------------------------- MODULE Persistence_proofs -------------------------
(***************************************************************************)
(* Proofs about Persistence, for any identities, objects and sizes of the  *)
(* banks.                                                                  *)
(***************************************************************************)
EXTENDS Persistence, Lists_proofs, FiniteSetTheorems, TLAPS

-----------------------------------------------------------------------------
(* Banks *)

LEMMA ConstantFacts ==
    /\ NONE \notin Id /\ NONE \notin Value
    /\ Slots \in Nat /\ Slots >= 1 /\ Blocks \in 1..Slots
    /\ Erased \in Nat /\ Erased >= 2
    /\ MaxWrites \in Nat /\ MaxResets \in Nat /\ MaxFaults \in Nat
BY PersistenceAssumption

FlashType == [Bank -> [seq : 0..Erased, slot : [1..Slots -> Record]]]

\* A write of a record leaves banks and records what they are.
LEMMA PutType ==
    ASSUME flash \in FlashType, NEW b \in Bank, NEW s, NEW r \in Record
    PROVE  Put(b, s, r) \in FlashType
BY DEF FlashType, Put

\* m_current is a place in the bank or its end; if it has room, an erased place.
LEMMA CurrentLemma ==
    ASSUME flash \in FlashType, NEW b \in Bank
    PROVE  /\ Current(b) \in 1..(Slots + 1)
           /\ HasRoom(b) => /\ Current(b) \in 1..Slots
                            /\ flash[b].slot[Current(b)] = Free
<1> DEFINE U == InUse(b)
           Above == {s \in 1..(Slots + 1) : \A t \in U : t < s}
<1>1. U \subseteq 1..Slots
  BY DEF InUse
<1>2. Slots + 1 \in Above
  BY <1>1, ConstantFacts
<1>3. PICK m \in Above : \A s \in Above : m <= s
  <2>1. Above \in SUBSET Nat
    BY ConstantFacts
  <2> HIDE DEF Above
  <2> QED BY <1>2, <2>1, LeastPlace
<1>4. m = 1 \/ m - 1 \in U
  <2>1. SUFFICES ASSUME m # 1 PROVE m - 1 \in U
    OBVIOUS
  <2>2. m - 1 \in 1..(Slots + 1) /\ m - 1 \notin Above
    BY <1>3, <2>1, ConstantFacts
  <2>3. PICK t \in U : ~(t < m - 1)
    BY <2>2
  <2>4. t = m - 1
    BY <1>1, <1>3, <2>2, <2>3, ConstantFacts
  <2> QED BY <2>3, <2>4
<1>5. /\ Current(b) \in 1..(Slots + 1)
      /\ \A t \in U : t < Current(b)
  <2>1. \E s \in 1..(Slots + 1) : (\A t \in InUse(b) : t < s) /\ (s = 1 \/ s - 1 \in InUse(b))
    BY <1>3, <1>4
  <2> QED BY <2>1 DEF Current
<1>6. ASSUME HasRoom(b) PROVE Current(b) \in 1..Slots /\ flash[b].slot[Current(b)] = Free
  <2>1. Current(b) \in 1..Slots
    BY <1>5, <1>6, ConstantFacts DEF HasRoom
  <2>2. Current(b) \notin U
    BY <1>5, <2>1
  <2> QED BY <2>1, <2>2 DEF InUse
<1> QED BY <1>5, <1>6

\* A live record has an identity and an object.
LEMMA LiveRecord ==
    ASSUME flash \in FlashType, NEW b \in Bank, NEW s \in Live(b)
    PROVE  /\ s \in 1..Slots
           /\ flash[b].slot[s].id \in Id /\ flash[b].slot[s].val \in Value
           /\ flash[b].slot[s] = Good(flash[b].slot[s].id, flash[b].slot[s].val)
<1>1. s \in 1..Slots /\ flash[b].slot[s].st = "good"
  BY DEF Live
<1>2. flash[b].slot[s] \in Record
  BY <1>1 DEF FlashType
<1>3. PICK i \in Id, v \in Value : flash[b].slot[s] = Good(i, v)
  BY <1>1, <1>2 DEF Record, Free, Dead, Open
<1> QED BY <1>1, <1>3 DEF Good

LEMMA RecordFacts ==
    /\ Free \in Record /\ Dead \in Record /\ Open \in Record
    /\ Free.st # "good" /\ Dead.st # "good" /\ Open.st # "good"
    /\ Free.st = "free"
<1>1. Free \in {Free, Dead, Open} /\ Dead \in {Free, Dead, Open} /\ Open \in {Free, Dead, Open}
  OBVIOUS
<1>2. Free \in Record /\ Dead \in Record /\ Open \in Record
  BY <1>1 DEF Record
<1>3. /\ Free.st # "good" /\ Dead.st # "good" /\ Open.st # "good"
      /\ Free.st = "free"
  BY DEF Free, Dead, Open
<1> QED BY <1>2, <1>3

LEMMA GoodFacts ==
    ASSUME NEW i \in Id, NEW v \in Value
    PROVE  /\ Good(i, v) \in Record /\ Good(i, v).st = "good"
           /\ Good(i, v).id = i /\ Good(i, v).val = v
<1>1. Good(i, v) \in {Good(k, w) : k \in Id, w \in Value}
  OBVIOUS
<1>2. Good(i, v) \in Record
  BY <1>1 DEF Record
<1>3. Good(i, v).st = "good" /\ Good(i, v).id = i /\ Good(i, v).val = v
  BY DEF Good
<1> QED BY <1>2, <1>3

\* What a write of a record changes.
LEMMA PutLemma ==
    ASSUME flash \in FlashType, NEW b \in Bank, NEW s \in 1..Slots, NEW r
    PROVE  /\ \A c \in Bank : Put(b, s, r)[c].seq = flash[c].seq
           /\ \A c \in Bank : \A t \in 1..Slots :
                 Put(b, s, r)[c].slot[t] = IF c = b /\ t = s THEN r ELSE flash[c].slot[t]
<1> DEFINE old == flash[b]
           new == [old EXCEPT !.slot = [old.slot EXCEPT ![s] = r]]
<1>1. /\ old \in [seq : 0..Erased, slot : [1..Slots -> Record]]
      /\ Put(b, s, r) = [flash EXCEPT ![b] = new]
      /\ \A c \in Bank : Put(b, s, r)[c] = IF c = b THEN new ELSE flash[c]
  BY DEF FlashType, Put
<1>2. new.seq = old.seq /\ new.slot = [old.slot EXCEPT ![s] = r]
  BY <1>1
<1>3. \A t \in 1..Slots : new.slot[t] = IF t = s THEN r ELSE old.slot[t]
  BY <1>1, <1>2
<1> QED BY <1>1, <1>2, <1>3

\* Where Initialize finds an identity in a bank.
LEMMA SlotOfLemma ==
    ASSUME flash \in FlashType, NEW b \in Bank, NEW i \in Id
    PROVE  /\ SlotOf(b, i) \in 0..Slots
           /\ SlotOf(b, i) # 0 => SlotOf(b, i) \in Live(b) /\ flash[b].slot[SlotOf(b, i)].id = i
           /\ SlotOf(b, i) = 0 => \A s \in Live(b) : flash[b].slot[s].id # i
<1> DEFINE hits == {s \in Live(b) : flash[b].slot[s].id = i}
<1>1. hits \subseteq 1..Slots
  BY DEF Live
<1>2. CASE hits = {}
  BY <1>2, ConstantFacts DEF SlotOf
<1>3. CASE hits # {}
  <2> DEFINE below == {n \in 0..Slots : \E s \in hits : n = Slots - s}
  <2>1. below \in SUBSET Nat /\ below # {}
    BY <1>1, <1>3, ConstantFacts
  <2>2. PICK n \in below : \A m \in below : n <= m
    <3> HIDE DEF below
    <3> QED BY <2>1, LeastPlace
  <2>3. PICK s \in hits : n = Slots - s
    BY <2>2
  <2>4. \A t \in hits : t <= s
    <3>1. TAKE t \in hits
    <3>2. Slots - t \in below
      BY <1>1, <3>1, ConstantFacts
    <3>3. Slots - s <= Slots - t
      BY <2>2, <2>3, <3>2
    <3> QED BY <1>1, <2>3, <3>1, <3>3, ConstantFacts
  <2>5. SlotOf(b, i) = CHOOSE r \in hits : \A t \in hits : t <= r
    BY <1>3 DEF SlotOf
  <2>6. SlotOf(b, i) \in hits
    BY <2>3, <2>4, <2>5
  <2> QED BY <1>1, <2>6, ConstantFacts
<1> QED BY <1>2, <1>3

-----------------------------------------------------------------------------
(* The list of weak references *)

\* First finds the first reference of S in the list, if there is one.
LEMMA FirstLemma ==
    ASSUME weak \in Seq(Id), NEW S
    PROVE  /\ First(S) # 0 => /\ First(S) \in 1..Len(weak)
                              /\ weak[First(S)] \in S \cap Members(weak)
           /\ First(S) = 0 => \A i \in Members(weak) : i \notin S
<1> DEFINE hits == {n \in 1..Len(weak) : weak[n] \in S}
<1>1. CASE hits = {}
  BY <1>1 DEF First, Members
<1>2. CASE hits # {}
  <2>1. hits \in SUBSET Nat
    OBVIOUS
  <2>2. PICK n \in hits : \A m \in hits : n <= m
    <3> HIDE DEF hits
    <3> QED BY <1>2, <2>1, LeastPlace
  <2>3. First(S) = CHOOSE k \in hits : \A m \in hits : k <= m
    BY <1>2 DEF First
  <2>4. First(S) \in hits
    BY <2>2, <2>3
  <2> QED BY <2>4 DEF Members
<1> QED BY <1>1, <1>2

\* InsertInPriorityOrder adds a reference, or gives it another place.
LEMMA InsertPriority ==
    ASSUME NEW list \in Seq(Id), NoDup(list), NEW i \in Id
    PROVE  /\ InsertInPriorityOrder(list, i) \in Seq(Id)
           /\ NoDup(InsertInPriorityOrder(list, i))
           /\ Members(InsertInPriorityOrder(list, i)) = Members(list) \cup {i}
<1> DEFINE rest == Unlink(list, i)
           stop == {n \in 1..(Len(rest) + 1) : n <= Len(rest) => Priority[rest[n]] <= Priority[i]}
           place(n) == /\ \A m \in 1..(n - 1) : Priority[rest[m]] > Priority[i]
                       /\ n <= Len(rest) => Priority[rest[n]] <= Priority[i]
           k == CHOOSE n \in 1..(Len(rest) + 1) : place(n)
<1>1. rest \in Seq(Id) /\ NoDup(rest) /\ Members(rest) = Members(list) \ {i}
  BY UnlinkLemma
<1>2. Len(rest) \in Nat
  BY <1>1
<1>3. PICK n \in stop : \A m \in stop : n <= m
  <2>1. stop \in SUBSET Nat /\ Len(rest) + 1 \in stop
    BY <1>2
  <2> HIDE DEF stop
  <2> QED BY <2>1, LeastPlace
<1>4. place(n)
  <2>1. ASSUME NEW m \in 1..(n - 1) PROVE Priority[rest[m]] > Priority[i]
    <3>1. m \in 1..Len(rest) /\ m \notin stop
      BY <1>2, <1>3
    <3>2. ~(Priority[rest[m]] <= Priority[i])
      BY <1>2, <3>1
    <3>3. Priority[rest[m]] \in Int /\ Priority[i] \in Int
      BY <1>1, <3>1, PersistenceAssumption
    <3> QED BY <3>2, <3>3
  <2> QED BY <1>3, <2>1
<1>5. k \in 1..(Len(rest) + 1)
  BY <1>3, <1>4
<1>6. InsertInPriorityOrder(list, i) = InsertBefore(rest, k, i)
  BY DEF InsertInPriorityOrder
<1> HIDE DEF rest, k
<1> QED BY <1>1, <1>5, <1>6, InsertBeforeLemma

\* The list that is left in RAM by a reset has no repetitions.
LEMMA RetainedLemma ==
    ASSUME weak \in Seq(Id), NEW S, S \subseteq Members(weak),
           NEW q \in [1..Cardinality(S) -> S], S = Members(q)
    PROVE  q \in Seq(Id) /\ NoDup(q) /\ Len(q) = Cardinality(S)
<1> DEFINE n == Cardinality(S)
<1>1. weak \in [1..Len(weak) -> Id] /\ Len(weak) \in Nat
  OBVIOUS
<1>2. weak \in Surjection(1..Len(weak), Members(weak))
  BY <1>1 DEF Surjection, Members
<1>3. IsFiniteSet(Members(weak))
  BY <1>1, <1>2, FS_Interval, FS_Surjection
<1>4. IsFiniteSet(S) /\ n \in Nat
  BY <1>3, FS_Subset, FS_CardinalityType
<1>5. S \subseteq Id
  BY MembersLemma
<1>6. q \in Seq(Id) /\ Len(q) = n
  BY <1>4, <1>5
<1>7. q \in Surjection(1..n, S)
  BY <1>6 DEF Surjection, Members
<1>8. IsFiniteSet(1..n) /\ Cardinality(1..n) = n
  BY <1>4, FS_Interval
<1>9. q \in Injection(1..n, S)
  BY <1>7, <1>8, FS_SurjSameCardinalityImpliesInj
<1> QED BY <1>6, <1>9 DEF NoDup, Injection, IsInjective

\* The list Initialize makes has the references that were in RAM and those of
\* the bank's live records, once each.
LEMMA RestoredLemma ==
    ASSUME flash \in FlashType, weak \in Seq(Id), NoDup(weak), NEW b \in Bank
    PROVE  /\ Restored(b) \in Seq(Id) /\ NoDup(Restored(b))
           /\ \A s \in Live(b) : flash[b].slot[s].id \in Members(Restored(b))
           /\ Members(weak) \subseteq Members(Restored(b))
<1> DEFINE g(s, l) == IF s \in Live(b) THEN InsertInPriorityOrder(l, flash[b].slot[s].id) ELSE l
           list[s \in 0..Slots] == IF s = 0 THEN weak ELSE g(s, list[s - 1])
           Def(f, n) == f = [s \in 0..n |-> IF s = 0 THEN weak ELSE g(s, f[s - 1])]
<1>1. Restored(b) = list[Slots]
  BY DEF Restored
<1>2. \E f : Def(f, Slots)
  <2> DEFINE bad == {n \in 0..Slots : ~\E f : Def(f, n)}
  <2>1. SUFFICES bad = {}
    <3>1. Slots \in 0..Slots
      BY ConstantFacts
    <3> HIDE DEF Def
    <3> QED BY <3>1
  <2>2. SUFFICES ASSUME bad # {} PROVE FALSE
    OBVIOUS
  <2>3. PICK n \in bad : \A m \in bad : n <= m
    <3>1. bad \in SUBSET Nat
      BY ConstantFacts
    <3> HIDE DEF bad
    <3> QED BY <2>2, <3>1, LeastPlace
  <2>4. n # 0
    <3> DEFINE f == [s \in 0..0 |-> weak]
    <3>1. Def(f, 0)
      OBVIOUS
    <3> QED BY <2>3, <3>1
  <2>5. n - 1 \in 0..Slots /\ n - 1 \notin bad
    <3>1. n \in 0..Slots
      OBVIOUS
    <3> HIDE DEF bad
    <3>2. n - 1 \in 0..Slots /\ ~(n <= n - 1)
      BY <2>4, <3>1, ConstantFacts
    <3> QED BY <2>3, <3>2
  <2>6. PICK f : Def(f, n - 1)
    BY <2>5
  <2> DEFINE h == [s \in 0..n |-> IF s < n THEN f[s] ELSE g(n, f[n - 1])]
  <2>7. \A s \in 0..n : h[s] = IF s = 0 THEN weak ELSE g(s, h[s - 1])
    <3>1. TAKE s \in 0..n
    <3>2. n \in Nat \ {0}
      BY <2>3, <2>4, ConstantFacts
    <3> HIDE DEF g
    <3>3. CASE s = 0
      BY <3>2, <3>3, <2>6
    <3>4. CASE s # 0 /\ s < n
      <4>1. h[s] = f[s] /\ h[s - 1] = f[s - 1] /\ s \in 0..(n - 1)
        BY <3>1, <3>2, <3>4
      <4>2. f[s] = g(s, f[s - 1])
        BY <2>6, <3>2, <3>4, <4>1
      <4> QED BY <3>4, <4>1, <4>2
    <3>5. CASE s = n
      BY <3>2, <3>5
    <3> QED BY <3>1, <3>2, <3>3, <3>4, <3>5
  <2>8. Def(h, n)
    <3> HIDE DEF g
    <3> QED BY <2>7
  <2> QED BY <2>3, <2>8
<1>3. Def(list, Slots)
  <2> HIDE DEF g
  <2> QED BY <1>2
<1>4. list[0] = weak /\ \A s \in 1..Slots : list[s] = g(s, list[s - 1])
  <2> HIDE DEF g, list
  <2> QED BY <1>3, ConstantFacts
<1> HIDE DEF list
<1> DEFINE Fine(n) == /\ list[n] \in Seq(Id) /\ NoDup(list[n]) /\ Members(weak) \subseteq Members(list[n])
                      /\ \A s \in Live(b) : s <= n => flash[b].slot[s].id \in Members(list[n])
<1>5. \A n \in 0..Slots : Fine(n)
  <2> DEFINE bad == {n \in 0..Slots : ~Fine(n)}
  <2>1. SUFFICES ASSUME bad # {} PROVE FALSE
    OBVIOUS
  <2>2. PICK n \in bad : \A m \in bad : n <= m
    <3>1. bad \in SUBSET Nat
      BY ConstantFacts
    <3> HIDE DEF bad
    <3> QED BY <2>1, <3>1, LeastPlace
  <2>3. n # 0
    <3>1. Fine(0)
      BY <1>4 DEF Live
    <3> QED BY <2>2, <3>1
  <2>4. n \in 1..Slots /\ Fine(n - 1)
    <3>1. n \in 1..Slots /\ n - 1 \in 0..Slots /\ n - 1 \notin bad
      BY <2>2, <2>3, ConstantFacts
    <3> QED BY <3>1
  <2>5. list[n] = g(n, list[n - 1])
    BY <1>4, <2>4
  <2>6. CASE n \in Live(b)
    <3>1. flash[b].slot[n].id \in Id
      BY <2>6, LiveRecord
    <3>2. list[n] = InsertInPriorityOrder(list[n - 1], flash[b].slot[n].id)
      BY <2>5, <2>6
    <3>3. /\ list[n] \in Seq(Id) /\ NoDup(list[n])
          /\ Members(list[n]) = Members(list[n - 1]) \cup {flash[b].slot[n].id}
      <4> DEFINE l == list[n - 1]
                 i == flash[b].slot[n].id
      <4>1. l \in Seq(Id) /\ NoDup(l) /\ i \in Id /\ list[n] = InsertInPriorityOrder(l, i)
        BY <2>4, <3>1, <3>2
      <4> HIDE DEF l, i, g, Fine
      <4>2. list[n] \in Seq(Id) /\ NoDup(list[n]) /\ Members(list[n]) = Members(l) \cup {i}
        BY <4>1, InsertPriority
      <4> QED BY <4>2 DEF l, i
    <3>4. ASSUME NEW s \in Live(b), s <= n PROVE flash[b].slot[s].id \in Members(list[n])
      <4>1. s \in Nat
        BY ConstantFacts DEF Live
      <4>2. s = n \/ s <= n - 1
        BY <2>4, <3>4, <4>1, ConstantFacts
      <4> QED BY <2>4, <3>3, <4>2
    <3>5. Fine(n)
      BY <2>4, <3>3, <3>4
    <3> QED BY <2>2, <3>5
  <2>7. CASE n \notin Live(b)
    <3>1. list[n] = list[n - 1]
      BY <2>5, <2>7
    <3>2. ASSUME NEW s \in Live(b), s <= n PROVE s <= n - 1
      <4>1. s \in Nat /\ s # n
        BY <2>7, <3>2, ConstantFacts DEF Live
      <4> QED BY <2>4, <3>2, <4>1, ConstantFacts
    <3>3. Fine(n)
      BY <2>4, <3>1, <3>2
    <3> QED BY <2>2, <3>3
  <2> QED BY <2>6, <2>7
<1>6. Fine(Slots) /\ \A s \in Live(b) : s <= Slots
  BY <1>5, ConstantFacts DEF Live
<1> QED BY <1>1, <1>6

-----------------------------------------------------------------------------
(* Types *)

StateName == {"Boot", "Format", "Flush", "Idle", "Erase", "EraseSector", "Copy", "CopyBack", "Switch"}
PhaseName == {"run", "flush", "reflush", "down"}

MediaOK == flash \in FlashType /\ bankA \in Bank

ManagerOK ==
    /\ state \in StateName
    /\ pending \in Id \cup {NONE} /\ header \in (Bank \X (1..Slots)) \cup {NoHeader}
    /\ eraseIndex \in 0..Blocks /\ alloc \in BOOLEAN

ReferencesOK ==
    /\ weak \in Seq(Id) /\ NoDup(weak)
    /\ val \in [Id -> Value \cup {NONE}]
    /\ at \in [Id -> 0..Slots] /\ copied \in [Id -> 0..Slots]
    /\ restored \subseteq Id /\ held \subseteq Id

CountsOK ==
    /\ phase \in PhaseName
    /\ writes \in 0..MaxWrites /\ resets \in 0..MaxResets /\ faults \in 0..MaxFaults

\* When the manager has an object in work: it is a linked one, in a state that
\* writes records or takes objects back, and it is there to be written.
PendingOK ==
    /\ pending # NONE => /\ state \in {"Flush", "Copy", "Erase", "CopyBack"}
                         /\ pending \in Members(weak)
    /\ alloc => state \in {"CopyBack", "Erase"}
    /\ state = "CopyBack" /\ pending # NONE => alloc
    /\ state \in {"Flush", "Copy"} /\ pending # NONE => val[pending] # NONE

TypeInv == MediaOK /\ ManagerOK /\ ReferencesOK /\ CountsOK /\ PendingOK

LEMMA TypeParts == TypeInv => TypeOK
BY DEF TypeInv, MediaOK, ManagerOK, ReferencesOK, CountsOK, TypeOK, FlashType, StateName, PhaseName

LEMMA InitTypes == Init => TypeInv
<1> SUFFICES ASSUME Init PROVE TypeInv
  OBVIOUS
<1>1. MediaOK
  BY RecordFacts, ConstantFacts DEF Init, MediaOK, FlashType, Bank
<1>2. ManagerOK
  <2>1. header \in {NoHeader} /\ pending \in {NONE} /\ alloc \in BOOLEAN
    BY DEF Init
  <2>2. state \in StateName /\ eraseIndex \in 0..Blocks
    BY ConstantFacts DEF Init, StateName
  <2> QED BY <2>1, <2>2 DEF ManagerOK
<1>5. CountsOK
  BY ConstantFacts DEF Init, CountsOK, PhaseName
<1>3. ReferencesOK
  BY ConstantFacts DEF Init, ReferencesOK, NoDup
<1>4. PendingOK
  BY DEF Init, PendingOK
<1> QED BY <1>1, <1>2, <1>3, <1>4, <1>5 DEF TypeInv

LEMMA ReturnType ==
    ASSUME phase \in PhaseName, NEW s \in StateName, Return(s)
    PROVE  state' \in StateName /\ phase' \in PhaseName /\ state' \in {s, "Flush"}
BY DEF Return, StateName, PhaseName

\* The types of what InvalidateEntry leaves behind, and the state it leads to.
LEMMA InvalidateType ==
    ASSUME MediaOK, ManagerOK, ReferencesOK, NEW S \in SUBSET Id, Invalidate(S)
    PROVE  /\ MediaOK' /\ ManagerOK'
           /\ at' \in [Id -> 0..Slots]
           /\ pending' = (IF pending \in S THEN NONE ELSE pending)
           /\ state' = AfterInvalidate
           /\ state' \in {state, "Flush", "Erase"}
           /\ state' = "Flush" <=> state \in {"Flush", "Idle"}
           /\ state' = "Erase" <=> state \in {"Erase", "Copy", "CopyBack", "Switch"}
           /\ state' \notin {"Copy", "CopyBack", "Switch", "Idle"}
<1>1. /\ state' = AfterInvalidate
      /\ state' \in {state, "Flush", "Erase"} /\ state' \in StateName
      /\ state' = "Flush" <=> state \in {"Flush", "Idle"}
      /\ state' = "Erase" <=> state \in {"Erase", "Copy", "CopyBack", "Switch"}
      /\ state' \notin {"Copy", "CopyBack", "Switch", "Idle"}
  BY DEF Invalidate, AfterInvalidate, ManagerOK, StateName
<1>2. /\ pending' = (IF pending \in S THEN NONE ELSE pending)
      /\ at' \in [Id -> 0..Slots]
  BY ConstantFacts DEF Invalidate, Aborts, ReferencesOK
<1>3. MediaOK'
  BY RecordFacts DEF Invalidate, MediaOK, FlashType
<1>4. ManagerOK'
  BY <1>1, <1>2 DEF Invalidate, ManagerOK
<1> QED BY <1>1, <1>2, <1>3, <1>4

\* Steps of the manager keep the types.
LEMMA ManagerTypes ==
    ASSUME TypeInv, ManagerStep
    PROVE  TypeInv'
<1> USE DEF TypeInv
<1>1. ASSUME FlushHeader PROVE TypeInv'
  <2>1. NextUnsaved \in 1..Len(weak) /\ weak[NextUnsaved] \in Id \cap Members(weak)
        /\ val[weak[NextUnsaved]] # NONE
    BY <1>1, FirstLemma, MembersLemma DEF FlushHeader, NextUnsaved, Unsaved, ReferencesOK
  <2>2. Current(bankA) \in 1..Slots
    BY <1>1, CurrentLemma DEF FlushHeader, MediaOK
  <2>3. MediaOK'
    BY <1>1, PutType, RecordFacts DEF FlushHeader, MediaOK
  <2>4. ManagerOK' /\ PendingOK'
    BY <1>1, <2>1, <2>2 DEF FlushHeader, MediaOK, ManagerOK, PendingOK, Manager, weakVars
  <2>5. ReferencesOK' /\ CountsOK'
    BY <1>1 DEF FlushHeader, weakVars, counters, ReferencesOK, CountsOK
  <2> QED BY <2>3, <2>4, <2>5
<1>2. ASSUME FlushData PROVE TypeInv'
  <2>1. pending \in Id /\ val[pending] \in Value
    BY <1>2 DEF FlushData, ManagerOK, ReferencesOK, PendingOK
  <2>2. MediaOK'
    BY <1>2, <2>1, PutType, GoodFacts DEF FlushData, MediaOK
  <2>3. header[2] \in 0..Slots
    BY ConstantFacts DEF ManagerOK, NoHeader
  <2>4. ManagerOK' /\ PendingOK'
    BY <1>2 DEF FlushData, ManagerOK, PendingOK, Manager
  <2>5. ReferencesOK' /\ CountsOK'
    BY <1>2, <2>3 DEF FlushData, counters, ReferencesOK, CountsOK
  <2> QED BY <2>2, <2>4, <2>5
<1>3. ASSUME FlushFull \/ FlushDone \/ Idle PROVE TypeInv'
  <2>1. /\ pending = NONE /\ pending' = NONE /\ ~alloc /\ alloc' = alloc
        /\ UNCHANGED <<bankVars, header, eraseIndex, weakVars, counters>>
        /\ Return("Erase") \/ Return("Idle")
    BY <1>3 DEF FlushFull, FlushDone, Idle, Manager, PendingOK
  <2>2. state' \in StateName /\ phase' \in PhaseName
    BY <2>1, ReturnType DEF CountsOK, StateName
  <2> QED BY <2>1, <2>2 DEF bankVars, weakVars, counters, MediaOK, ManagerOK, ReferencesOK,
                            CountsOK, PendingOK
<1>4. ASSUME StartErase PROVE TypeInv'
  BY <1>4, ConstantFacts DEF StartErase, bankVars, counters, MediaOK, ManagerOK, ReferencesOK,
                             CountsOK, PendingOK, Manager, StateName
<1>5. ASSUME EraseSector PROVE TypeInv'
  <2>1. MediaOK'
    <3>1. bankB \in Bank /\ Erased \in 0..Erased
      BY ConstantFacts DEF bankB, Bank, MediaOK
    <3>2. Erase(flash[bankB].slot, eraseIndex) \in [1..Slots -> Record]
      BY <3>1, RecordFacts DEF Erase, MediaOK, FlashType
    <3> QED BY <1>5, <3>1, <3>2 DEF EraseSector, MediaOK, FlashType
  <2> QED BY <1>5, <2>1, ConstantFacts DEF EraseSector, weakVars, counters, ManagerOK,
                         ReferencesOK, CountsOK, PendingOK, Manager, StateName
<1>6. ASSUME CopyHeader PROVE TypeInv'
  <2>1. NextUncopied \in 1..Len(weak) /\ weak[NextUncopied] \in Id \cap Members(weak)
        /\ val[weak[NextUncopied]] # NONE
    BY <1>6, FirstLemma, MembersLemma DEF CopyHeader, NextUncopied, Uncopied, ReferencesOK
  <2>2. bankB \in Bank
    BY DEF bankB, Bank, MediaOK
  <2>3. Current(bankB) \in 1..Slots
    BY <1>6, <2>2, CurrentLemma DEF CopyHeader, MediaOK
  <2>4. MediaOK'
    BY <1>6, <2>2, PutType, RecordFacts DEF CopyHeader, MediaOK
  <2>5. ManagerOK' /\ PendingOK'
    BY <1>6, <2>1, <2>2, <2>3 DEF CopyHeader, ManagerOK, PendingOK, Manager, weakVars
  <2>6. ReferencesOK' /\ CountsOK'
    BY <1>6 DEF CopyHeader, weakVars, counters, ReferencesOK, CountsOK
  <2> QED BY <2>4, <2>5, <2>6
<1>7. ASSUME CopyData PROVE TypeInv'
  <2>1. pending \in Id /\ val[pending] \in Value /\ bankB \in Bank
    BY <1>7 DEF CopyData, MediaOK, ManagerOK, ReferencesOK, PendingOK, bankB, Bank
  <2>2. MediaOK'
    BY <1>7, <2>1, PutType, GoodFacts DEF CopyData, MediaOK
  <2>3. header[2] \in 0..Slots
    BY ConstantFacts DEF ManagerOK, NoHeader
  <2>4. ManagerOK' /\ PendingOK'
    BY <1>7 DEF CopyData, ManagerOK, PendingOK, Manager
  <2>5. ReferencesOK' /\ CountsOK'
    BY <1>7, <2>3 DEF CopyData, counters, ReferencesOK, CountsOK
  <2> QED BY <2>2, <2>4, <2>5
<1>8. ASSUME CopyDone \/ RevertDone PROVE TypeInv'
  BY <1>8 DEF CopyDone, RevertDone, bankVars, weakVars, counters, MediaOK, ManagerOK,
              ReferencesOK, CountsOK, PendingOK, Manager, StateName
<1>9. ASSUME RevertStart PROVE TypeInv'
  <2>1. NextUncopied \in 1..Len(weak) /\ weak[NextUncopied] \in Id \cap Members(weak)
        /\ at[weak[NextUncopied]] # 0
    BY <1>9, FirstLemma, MembersLemma DEF RevertStart, NextUncopied, Uncopied, ReferencesOK
  <2>2. at[weak[NextUncopied]] \in 1..Slots
    BY <2>1, ConstantFacts DEF ReferencesOK
  <2>3. ManagerOK' /\ PendingOK'
    BY <1>9, <2>1, <2>2 DEF RevertStart, MediaOK, ManagerOK, PendingOK, Manager, weakVars
  <2> QED BY <1>9, <2>3 DEF RevertStart, bankVars, weakVars, counters, MediaOK, ReferencesOK, CountsOK
<1>10. ASSUME Revert PROVE TypeInv'
  <2>1. pending \in Id /\ (header[1] \in Bank \/ header = NoHeader)
    BY <1>10 DEF Revert, ManagerOK
  <2>2. MediaOK'
    <3>1. CASE header[1] \in Bank
      BY <1>10, <3>1, PutType, RecordFacts DEF Revert, MediaOK
    <3>2. CASE header = NoHeader
      <4>1. header[1] \notin Bank
        BY <3>2 DEF NoHeader, Bank
      <4>2. flash' = flash
        BY <1>10, <4>1 DEF Revert, Put, MediaOK, FlashType
      <4> QED BY <1>10, <4>2 DEF Revert, MediaOK
    <3> QED BY <2>1, <3>1, <3>2
  <2>3. ManagerOK' /\ PendingOK'
    BY <1>10 DEF Revert, ManagerOK, PendingOK
  <2>4. ReferencesOK'
    BY <1>10, <2>1, ConstantFacts DEF Revert, ReferencesOK
  <2>5. CountsOK'
    BY <1>10 DEF Revert, counters, CountsOK
  <2> QED BY <2>2, <2>3, <2>4, <2>5
<1>11. ASSUME SwitchBank PROVE TypeInv'
  <2>1. bankB \in Bank /\ (flash[bankA].seq + 1) % (Erased + 1) \in 0..Erased
    BY ConstantFacts DEF bankB, Bank, MediaOK, FlashType
  <2>2. MediaOK'
    BY <1>11, <2>1 DEF SwitchBank, MediaOK, FlashType
  <2>3. ManagerOK' /\ PendingOK'
    BY <1>11 DEF SwitchBank, ManagerOK, PendingOK, Manager, StateName
  <2>4. ReferencesOK' /\ CountsOK'
    BY <1>11, ConstantFacts DEF SwitchBank, counters, ReferencesOK, CountsOK
  <2> QED BY <2>2, <2>3, <2>4
<1> QED BY <1>1, <1>2, <1>3, <1>4, <1>5, <1>6, <1>7, <1>8, <1>9, <1>10, <1>11 DEF ManagerStep

\* So do faults.
LEMMA FaultTypes ==
    ASSUME TypeInv, FaultStep
    PROVE  TypeInv'
<1> USE DEF TypeInv
<1>1. bankB \in Bank
  BY DEF bankB, Bank, MediaOK
<1>2. ASSUME Fault, UNCHANGED phase PROVE CountsOK'
  BY <1>2, ConstantFacts DEF Fault, CountsOK
<1>3. ASSUME HeaderFault PROVE TypeInv'
  <2>1. PICK b \in Bank : flash' = Put(b, Current(b), Dead)
    BY <1>3 DEF HeaderFault
  <2>2. MediaOK'
    BY <1>3, <2>1, PutType, RecordFacts DEF HeaderFault, MediaOK
  <2> QED BY <1>2, <1>3, <2>2 DEF HeaderFault, managerVars, weakVars, ManagerOK, ReferencesOK, PendingOK
<1>4. ASSUME DataFault PROVE TypeInv'
  <2>1. MediaOK'
    <3>1. CASE header[1] \in Bank
      BY <1>4, <3>1, PutType, RecordFacts DEF DataFault, MediaOK
    <3>2. CASE header = NoHeader
      <4>1. header[1] \notin Bank
        BY <3>2 DEF NoHeader, Bank
      <4>2. flash' = flash
        BY <1>4, <4>1 DEF DataFault, Put, MediaOK, FlashType
      <4> QED BY <1>4, <4>2 DEF DataFault, MediaOK
    <3> QED BY <3>1, <3>2 DEF ManagerOK
  <2> QED BY <1>2, <1>4, <2>1 DEF DataFault, weakVars, ManagerOK, ReferencesOK, PendingOK
<1>5. ASSUME EraseFault PROVE TypeInv'
  <2>1. MediaOK'
    <3>1. /\ flash' = [flash EXCEPT ![bankB] = [flash[bankB] EXCEPT !.seq = 0]] /\ bankA' = bankA
          /\ 0 \in 0..Erased
      BY <1>5, ConstantFacts DEF EraseFault
    <3>2. [flash[bankB] EXCEPT !.seq = 0] \in [seq : 0..Erased, slot : [1..Slots -> Record]]
      BY <1>1, <3>1 DEF MediaOK, FlashType
    <3> QED BY <1>1, <3>1, <3>2 DEF MediaOK, FlashType
  <2> QED BY <1>2, <1>5, <2>1, ConstantFacts DEF EraseFault, weakVars, ManagerOK, ReferencesOK, PendingOK
<1>6. ASSUME RevertFault PROVE TypeInv'
  <2>1. state' \in StateName /\ phase' \in PhaseName /\ state' \in {"Erase", "Flush"}
    BY <1>6, ReturnType DEF RevertFault, CountsOK, StateName
  <2>2. state' = "Flush" => pending' = NONE
    BY <1>6 DEF RevertFault, Return
  <2>3. CountsOK'
    BY <1>6, <2>1, ConstantFacts DEF RevertFault, Fault, CountsOK
  <2>4. ManagerOK' /\ PendingOK'
    BY <1>6, <2>1, <2>2 DEF RevertFault, ManagerOK, PendingOK, weakVars
  <2> QED BY <1>6, <2>3, <2>4 DEF RevertFault, bankVars, weakVars, MediaOK, ReferencesOK
<1> QED BY <1>3, <1>4, <1>5, <1>6 DEF FaultStep

\* After InvalidateEntry nothing is in work that is not linked and there.
LEMMA InvalidatePending ==
    ASSUME TypeInv, NEW S \in SUBSET Id, Invalidate(S), Running,
           weak' \in Seq(Id), Members(weak) \ S \subseteq Members(weak'),
           \A i \in Id \ S : val'[i] = val[i]
    PROVE  PendingOK'
<1>1. /\ pending' = (IF pending \in S THEN NONE ELSE pending)
      /\ state' \in {state, "Flush", "Erase"}
      /\ state' = "Flush" <=> state \in {"Flush", "Idle"}
      /\ state' = "Erase" <=> state \in {"Erase", "Copy", "CopyBack", "Switch"}
      /\ state' \notin {"Copy", "CopyBack", "Switch", "Idle"}
      /\ alloc' = alloc
  BY InvalidateType DEF TypeInv, Invalidate
<1>2. ASSUME pending' # NONE PROVE pending' = pending /\ pending \in Id \ S
  BY <1>1, <1>2 DEF TypeInv, ManagerOK
<1> QED BY <1>1, <1>2 DEF TypeInv, PendingOK

\* The program and the collector keep the types.
LEMMA ProgramTypes ==
    ASSUME TypeInv, ProgramStep
    PROVE  TypeInv'
<1> USE DEF TypeInv
<1>1. PICK i \in Id : \/ Recover(i) \/ Create(i) \/ PushBackIntoRecoverList(i) \/ Release(i)
                     \/ \E v \in Value \cup {NONE} : SetTarget(i, v)
  BY DEF ProgramStep
<1>2. ASSUME Recover(i) \/ PushBackIntoRecoverList(i) \/ Release(i) PROVE TypeInv'
  BY <1>2 DEF Recover, PushBackIntoRecoverList, Release, bankVars, managerVars, counters,
              MediaOK, ManagerOK, ReferencesOK, CountsOK, PendingOK
<1>3. /\ InsertInPriorityOrder(weak, i) \in Seq(Id) /\ NoDup(InsertInPriorityOrder(weak, i))
      /\ Members(InsertInPriorityOrder(weak, i)) = Members(weak) \cup {i}
  BY InsertPriority DEF ReferencesOK
<1>4. ASSUME Create(i) PROVE TypeInv'
  <2>1. weak' = InsertInPriorityOrder(weak, i)
    BY <1>4 DEF Create
  <2>2. ReferencesOK'
    BY <1>3, <1>4, <2>1 DEF Create, ReferencesOK
  <2>3. PendingOK'
    BY <1>3, <1>4, <2>1 DEF Create, PendingOK, managerVars
  <2> QED BY <1>4, <2>2, <2>3 DEF Create, bankVars, managerVars, counters, MediaOK, ManagerOK, CountsOK
<1>5. ASSUME NEW v \in Value \cup {NONE}, SetTarget(i, v) PROVE TypeInv'
  <2>1. weak' = InsertInPriorityOrder(weak, i) /\ Running
    BY <1>5 DEF SetTarget, Program
  <2>2. CountsOK'
    BY <1>5, ConstantFacts DEF SetTarget, CountsOK
  <2>3. CASE v = val[i]
    <3>1. ReferencesOK'
      BY <1>3, <1>5, <2>1, <2>3 DEF SetTarget, ReferencesOK
    <3>2. PendingOK'
      BY <1>3, <1>5, <2>1, <2>3 DEF SetTarget, PendingOK, managerVars
    <3> QED BY <1>5, <2>2, <2>3, <3>1, <3>2 DEF SetTarget, bankVars, managerVars, MediaOK, ManagerOK
  <2>4. CASE v # val[i]
    <3>1. Invalidate({i}) /\ val' = [val EXCEPT ![i] = v] /\ restored' = restored \ {i}
      BY <1>5, <2>4 DEF SetTarget
    <3>2. MediaOK' /\ ManagerOK' /\ at' \in [Id -> 0..Slots]
      BY <3>1, InvalidateType
    <3>3. ReferencesOK'
      BY <1>3, <1>5, <2>1, <3>1, <3>2 DEF SetTarget, Invalidate, ReferencesOK
    <3>4. PendingOK'
      <4>1. \A j \in Id \ {i} : val'[j] = val[j]
        BY <3>1 DEF ReferencesOK
      <4>2. weak' \in Seq(Id) /\ Members(weak) \ {i} \subseteq Members(weak')
        BY <1>3, <2>1
      <4> QED BY <2>1, <3>1, <4>1, <4>2, InvalidatePending
    <3> QED BY <2>2, <3>2, <3>3, <3>4
  <2> QED BY <2>3, <2>4
<1> QED BY <1>1, <1>2, <1>4, <1>5

LEMMA CollectorTypes ==
    ASSUME TypeInv, CollectorStep
    PROVE  TypeInv'
<1> USE DEF TypeInv
<1>1. ASSUME NEW i \in Id, MarkWeak(i) PROVE TypeInv'
  <2>1. /\ Invalidate({i}) /\ weak' = Unlink(weak, i) /\ val' = [val EXCEPT ![i] = NONE]
        /\ restored' = restored \ {i} /\ Running /\ UNCHANGED <<held, phase, counters>>
    BY <1>1 DEF MarkWeak, Collector
  <2>2. MediaOK' /\ ManagerOK' /\ at' \in [Id -> 0..Slots]
    BY <2>1, InvalidateType
  <2>3. weak' \in Seq(Id) /\ NoDup(weak') /\ Members(weak') = Members(weak) \ {i}
    BY <2>1, UnlinkLemma DEF ReferencesOK
  <2>4. ReferencesOK'
    BY <2>1, <2>2, <2>3 DEF Invalidate, ReferencesOK
  <2>5. PendingOK'
    <3>1. \A j \in Id \ {i} : val'[j] = val[j]
      BY <2>1 DEF ReferencesOK
    <3> QED BY <2>1, <2>3, <3>1, InvalidatePending
  <2> QED BY <2>1, <2>2, <2>4, <2>5 DEF counters, CountsOK
<1>2. ASSUME NEW S \in SUBSET Id, Pressure(S) PROVE TypeInv'
  <2>1. /\ Invalidate(S) /\ val' = [i \in Id |-> IF i \in S THEN NONE ELSE val[i]]
        /\ restored' = restored \ S /\ Running /\ UNCHANGED <<weak, held, phase, counters>>
    BY <1>2 DEF Pressure, Collector
  <2>2. MediaOK' /\ ManagerOK' /\ at' \in [Id -> 0..Slots]
    BY <2>1, InvalidateType
  <2>3. ReferencesOK'
    BY <2>1, <2>2 DEF Invalidate, ReferencesOK
  <2>4. PendingOK'
    <3>1. \A j \in Id \ S : val'[j] = val[j]
      BY <2>1 DEF ReferencesOK
    <3>2. weak' \in Seq(Id) /\ Members(weak) \ S \subseteq Members(weak')
      BY <2>1 DEF ReferencesOK
    <3> QED BY <2>1, <3>1, <3>2, InvalidatePending
  <2> QED BY <2>1, <2>2, <2>3, <2>4 DEF counters, CountsOK
<1> QED BY <1>1, <1>2 DEF CollectorStep

LEMMA TornType ==
    ASSUME MediaOK, NEW f \in Torn
    PROVE  f \in FlashType
<1>1. CASE f = flash
  BY <1>1 DEF MediaOK
<1>2. CASE f = Put(bankA, Current(bankA), Dead)
  BY <1>2, PutType, RecordFacts DEF MediaOK
<1>3. CASE f = [flash EXCEPT ![bankB] = [seq |-> 0, slot |-> Erase(flash[bankB].slot, eraseIndex)]]
  <2>1. bankB \in Bank /\ 0 \in 0..Erased
    BY ConstantFacts DEF bankB, Bank, MediaOK
  <2>2. Erase(flash[bankB].slot, eraseIndex) \in [1..Slots -> Record]
    BY <2>1, RecordFacts DEF Erase, MediaOK, FlashType
  <2> QED BY <1>3, <2>1, <2>2 DEF MediaOK, FlashType
<1> QED BY <1>1, <1>2, <1>3 DEF Torn

\* Reset, Reboot and the phases of Initialize keep the types.
LEMMA ResetTypes ==
    ASSUME TypeInv, Reset \/ Reboot \/ BootStep
    PROVE  TypeInv'
<1> USE DEF TypeInv
<1>1. ASSUME Reset PROVE TypeInv'
  <2>1. MediaOK'
    BY <1>1, TornType DEF Reset, MediaOK, Bank
  <2>2. PICK S \in SUBSET {i \in Members(weak) : Unsaved(i)} :
           /\ \E q \in [1..Cardinality(S) -> S] : S = Members(q) /\ weak' = q
           /\ val' = [i \in Id |-> IF i \in S THEN val[i] ELSE NONE]
           /\ restored' = S
    BY <1>1 DEF Reset
  <2>3. weak' \in Seq(Id) /\ NoDup(weak') /\ S \subseteq Id
    BY <2>2, RetainedLemma, MembersLemma DEF ReferencesOK
  <2>4. ReferencesOK'
    BY <1>1, <2>2, <2>3, ConstantFacts DEF Reset, ReferencesOK
  <2>5. ManagerOK'
    <3>1. header' \in {NoHeader} /\ pending' \in {NONE} /\ alloc' \in BOOLEAN
      BY <1>1 DEF Reset
    <3>2. state' \in StateName /\ eraseIndex' \in 0..Blocks
      BY <1>1, ConstantFacts DEF Reset, StateName
    <3> QED BY <3>1, <3>2 DEF ManagerOK
  <2>6. PendingOK' /\ CountsOK'
    BY <1>1, ConstantFacts DEF Reset, PendingOK, CountsOK, PhaseName
  <2> QED BY <2>1, <2>4, <2>5, <2>6
<1>2. ASSUME Reboot PROVE TypeInv'
  BY <1>2 DEF Reboot, bankVars, managerVars, weakVars, counters, MediaOK, ManagerOK,
              ReferencesOK, CountsOK, PendingOK, PhaseName
<1>3. ASSUME Initialize PROVE TypeInv'
  <2>1. Chosen \in Bank
    BY DEF Chosen, Bank
  <2>2. \A i \in Id : /\ SlotOf(Chosen, i) \in 0..Slots
                      /\ SlotOf(Chosen, i) # 0 => Stored(Chosen)[i] \in Value
    <3>1. TAKE i \in Id
    <3>2. /\ SlotOf(Chosen, i) \in 0..Slots
          /\ SlotOf(Chosen, i) # 0 => SlotOf(Chosen, i) \in Live(Chosen)
      BY <2>1, SlotOfLemma DEF MediaOK
    <3> QED BY <2>1, <3>2, LiveRecord DEF Stored, MediaOK
  <2>3. weak' \in Seq(Id) /\ NoDup(weak')
    BY <1>3, <2>1, RestoredLemma DEF Initialize, MediaOK, ReferencesOK
  <2>4. ReferencesOK'
    BY <1>3, <2>2, <2>3 DEF Initialize, ReferencesOK
  <2>5. MediaOK' /\ ManagerOK' /\ CountsOK'
    BY <1>3, <2>1 DEF Initialize, counters, MediaOK, ManagerOK, CountsOK, StateName
  <2>6. PendingOK'
    BY <1>3 DEF Initialize, PendingOK
  <2> QED BY <2>4, <2>5, <2>6
<1>4. ASSUME Format PROVE TypeInv'
  <2>1. MediaOK'
    BY <1>4, RecordFacts, ConstantFacts DEF Format, MediaOK, FlashType, Bank
  <2> QED BY <1>4, <2>1 DEF Format, weakVars, counters, ManagerOK, ReferencesOK, CountsOK,
                            PendingOK, StateName
<1>5. ASSUME SetFirstSequence PROVE TypeInv'
  <2>1. MediaOK'
    <3>1. 1 \in Bank /\ 1 \in 0..Erased
      BY ConstantFacts DEF Bank
    <3>2. flash' = [flash EXCEPT ![1] = [flash[1] EXCEPT !.seq = 1]] /\ bankA' = bankA
      BY <1>5 DEF SetFirstSequence
    <3>3. [flash[1] EXCEPT !.seq = 1] \in [seq : 0..Erased, slot : [1..Slots -> Record]]
      BY <3>1 DEF MediaOK, FlashType
    <3> QED BY <3>1, <3>2, <3>3 DEF MediaOK, FlashType
  <2> QED BY <1>5, <2>1 DEF SetFirstSequence, weakVars, counters, ManagerOK, ReferencesOK,
                            CountsOK, PendingOK, StateName
<1> QED BY <1>1, <1>2, <1>3, <1>4, <1>5 DEF BootStep

LEMMA TypeStep == TypeInv /\ [Next]_vars => TypeInv'
<1>1. ASSUME TypeInv, UNCHANGED vars PROVE TypeInv'
  BY <1>1 DEF TypeInv, vars, bankVars, managerVars, weakVars, counters, MediaOK, ManagerOK,
              ReferencesOK, CountsOK, PendingOK
<1> QED BY <1>1, ManagerTypes, FaultTypes, ProgramTypes, CollectorTypes, ResetTypes DEF Next

\* Banks, manager and references have their types: in particular every pointer of
\* the manager leads to a place of a bank.
THEOREM TypeCorrect == Spec => []TypeOK
<1> QED BY InitTypes, TypeStep, TypeParts, PTL DEF Spec

-----------------------------------------------------------------------------
(* What is left unsaved *)

\* An object belongs to a reference in the list.
Linked == \A i \in Id : val[i] # NONE => i \in Members(weak)

\* The second call of Reboot starts in STATE_FlushNextObject and ends with the
\* first return; a device that boots is not going down.
PhaseOK ==
    /\ phase = "reflush" => state = "Flush"
    /\ phase = "down" => state \in {"Idle", "Erase"} /\ ~alloc
    /\ ~Running => phase = "run"

DoneInv == Linked /\ PhaseOK /\ SavedWhenDone

LEMMA LinkedStep == TypeInv /\ Linked /\ [Next]_vars => Linked'
<1> SUFFICES ASSUME TypeInv, Linked, [Next]_vars PROVE Linked'
  OBVIOUS
<1> USE DEF TypeInv
<1>1. ASSUME UNCHANGED <<weak, val>> PROVE Linked'
  BY <1>1 DEF Linked
<1>2. CASE ManagerStep
  BY <1>1, <1>2 DEF ManagerStep, FlushHeader, FlushData, FlushFull, FlushDone, Idle, StartErase,
                    EraseSector, CopyHeader, CopyData, CopyDone, RevertStart, Revert, RevertDone,
                    SwitchBank, weakVars
<1>3. CASE FaultStep \/ Reboot \/ Format \/ SetFirstSequence \/ UNCHANGED vars
  BY <1>1, <1>3 DEF FaultStep, HeaderFault, DataFault, EraseFault, RevertFault, Reboot, Format,
                    SetFirstSequence, weakVars, vars
<1>4. CASE ProgramStep
  <2>1. PICK i \in Id : \/ Recover(i) \/ Create(i) \/ PushBackIntoRecoverList(i) \/ Release(i)
                       \/ \E v \in Value \cup {NONE} : SetTarget(i, v)
    BY <1>4 DEF ProgramStep
  <2>2. Members(InsertInPriorityOrder(weak, i)) = Members(weak) \cup {i}
    BY InsertPriority DEF ReferencesOK
  <2>3. CASE Recover(i) \/ PushBackIntoRecoverList(i) \/ Release(i)
    BY <1>1, <2>3 DEF Recover, PushBackIntoRecoverList, Release
  <2>4. CASE Create(i)
    BY <2>2, <2>4 DEF Create, Linked
  <2>5. ASSUME NEW v \in Value \cup {NONE}, SetTarget(i, v) PROVE Linked'
    <3>1. Members(weak') = Members(weak) \cup {i}
      BY <2>2, <2>5 DEF SetTarget
    <3>2. \A j \in Id : j # i => val'[j] = val[j]
      BY <2>5 DEF SetTarget, ReferencesOK
    <3> QED BY <3>1, <3>2 DEF Linked
  <2> QED BY <2>1, <2>3, <2>4, <2>5
<1>5. CASE CollectorStep
  <2>1. ASSUME NEW i \in Id, MarkWeak(i) PROVE Linked'
    <3>1. Members(weak') = Members(weak) \ {i} /\ val' = [val EXCEPT ![i] = NONE]
      BY <2>1, UnlinkLemma DEF MarkWeak, ReferencesOK
    <3> QED BY <3>1 DEF Linked, ReferencesOK
  <2>2. ASSUME NEW S \in SUBSET Id, Pressure(S) PROVE Linked'
    BY <2>2 DEF Pressure, Linked
  <2> QED BY <1>5, <2>1, <2>2 DEF CollectorStep
<1>6. CASE Reset
  BY <1>6 DEF Reset, Linked
<1>7. CASE Initialize
  <2>1. Chosen \in Bank /\ flash \in FlashType
    BY DEF Chosen, Bank, MediaOK
  <2>2. /\ Members(weak) \subseteq Members(weak')
        /\ \A s \in Live(Chosen) : flash[Chosen].slot[s].id \in Members(weak')
    BY <1>7, <2>1, RestoredLemma DEF Initialize, ReferencesOK
  <2>3. ASSUME NEW i \in Id, val'[i] # NONE PROVE i \in Members(weak')
    <3>1. CASE SlotOf(Chosen, i) # 0
      BY <2>1, <2>2, <3>1, SlotOfLemma
    <3>2. CASE SlotOf(Chosen, i) = 0
      BY <1>7, <2>2, <2>3, <3>2 DEF Initialize, Linked
    <3> QED BY <3>1, <3>2
  <2> QED BY <2>3 DEF Linked
<1> QED BY <1>2, <1>3, <1>4, <1>5, <1>6, <1>7 DEF Next, BootStep

LEMMA DoneStep == TypeInv /\ DoneInv /\ [Next]_vars => DoneInv'
<1> SUFFICES ASSUME TypeInv, DoneInv, [Next]_vars PROVE DoneInv'
  OBVIOUS
<1> USE DEF TypeInv
<1>1. Linked'
  BY LinkedStep DEF DoneInv
<1>2. ASSUME UNCHANGED <<flash, bankA, state, alloc, val, at>>,
             phase' = phase \/ (phase = "run" /\ phase' = "flush" /\ Running),
             \A i \in Id : i \in Members(weak') => i \in Members(weak) \/ val[i] = NONE,
             Members(weak') \subseteq Id
      PROVE  PhaseOK' /\ SavedWhenDone'
  <2>1. HasRoom(bankA)' = HasRoom(bankA) /\ Running' = Running
    BY <1>2 DEF HasRoom, Current, InUse, Running
  <2>2. \A i \in Id : Unsaved(i)' = Unsaved(i)
    BY <1>2 DEF Unsaved
  <2>3. PhaseOK'
    BY <1>2, <2>1 DEF DoneInv, PhaseOK
  <2>4. \A i \in Id : val[i] = NONE => ~Unsaved(i)
    BY DEF Unsaved
  <2> QED BY <1>2, <2>1, <2>2, <2>3, <2>4 DEF DoneInv, SavedWhenDone
<1>3. ASSUME state' # "Idle", phase' # "down", phase' = "reflush" => state' = "Flush",
             Running' \/ phase' = "run"
      PROVE  PhaseOK' /\ SavedWhenDone'
  BY <1>3 DEF PhaseOK, SavedWhenDone
<1>4. alloc => phase \in {"run", "flush"} /\ state \in {"CopyBack", "Erase"}
  BY DEF DoneInv, PhaseOK, PendingOK, CountsOK, PhaseName
<1>5. Members(weak) \subseteq Id
  BY MembersLemma DEF ReferencesOK
<1>6. ASSUME FlushFull \/ FlushDone \/ Idle PROVE PhaseOK' /\ SavedWhenDone'
  <2>1. /\ UNCHANGED <<flash, bankA, weak, val, at>> /\ ~alloc /\ ~alloc' /\ phase # "down"
        /\ state \in {"Flush", "Idle"} /\ (state = "Idle" => phase # "run" /\ Return("Idle"))
        /\ Return("Erase") \/ Return("Idle")
    BY <1>6 DEF FlushFull, FlushDone, Idle, Manager, bankVars, weakVars
  <2>2. state' \in {"Flush", "Idle", "Erase"} /\ Running'
    BY <2>1 DEF Return, Running
  <2>3. PhaseOK'
    BY <2>1, <2>2 DEF Return, PhaseOK
  <2>4. ASSUME state' = "Idle" \/ phase' = "down", HasRoom(bankA)', NEW i \in Members(weak)'
        PROVE  ~Unsaved(i)'
    <3>1. state = "Flush"
      <4>1. ASSUME state = "Idle" PROVE FALSE
        <5>1. phase \in {"flush", "reflush"} /\ phase # "reflush"
          BY <2>1, <4>1 DEF DoneInv, PhaseOK, CountsOK, PhaseName
        <5> QED BY <2>1, <2>4, <4>1, <5>1 DEF Return
      <4> QED BY <2>1, <4>1
    <3>2. HasRoom(bankA)
      BY <2>1, <2>4 DEF HasRoom, Current, InUse
    <3>3. NextUnsaved = 0
      BY <1>6, <3>1, <3>2 DEF FlushFull, FlushDone, Idle
    <3>4. ~Unsaved(i) /\ i \in Id
      BY <1>5, <2>1, <3>3, FirstLemma DEF NextUnsaved, ReferencesOK
    <3> QED BY <2>1, <3>4 DEF Unsaved
  <2> QED BY <2>3, <2>4 DEF SavedWhenDone
<1>7. CASE ManagerStep
  <2>1. CASE FlushFull \/ FlushDone \/ Idle
    BY <1>1, <1>6, <2>1 DEF DoneInv
  <2>2. CASE FlushHeader \/ FlushData
    BY <1>1, <1>3, <2>2 DEF FlushHeader, FlushData, Manager, Running, DoneInv
  <2>3. CASE \/ StartErase \/ EraseSector \/ CopyHeader \/ CopyData \/ CopyDone \/ RevertStart
             \/ RevertDone \/ SwitchBank
    <3>1. phase' = phase /\ phase # "down" /\ state # "Flush" /\ state' # "Idle" /\ Running'
      BY <2>3 DEF StartErase, EraseSector, CopyHeader, CopyData, CopyDone, RevertStart, RevertDone,
                  SwitchBank, Manager, Running
    <3> QED BY <1>1, <1>3, <3>1 DEF DoneInv, PhaseOK
  <2>4. CASE Revert
    <3>1. phase' = phase /\ phase \in {"run", "flush"} /\ state' # "Idle" /\ Running'
      BY <1>4, <2>4 DEF Revert, Running
    <3> QED BY <1>1, <1>3, <3>1 DEF DoneInv
  <2> QED BY <1>7, <2>1, <2>2, <2>3, <2>4 DEF ManagerStep
<1>8. CASE FaultStep
  <2>1. CASE HeaderFault \/ DataFault \/ EraseFault
    <3>1. /\ phase' = phase /\ phase # "down" /\ state' = state
          /\ state \in {"Flush", "Copy", "EraseSector"} /\ Running'
      BY <2>1 DEF HeaderFault, DataFault, EraseFault, managerVars, Manager, Running
    <3> QED BY <1>1, <1>3, <3>1 DEF DoneInv, PhaseOK
  <2>2. CASE RevertFault
    <3>1. phase' # "down" /\ state' # "Idle" /\ Running' /\ (phase' = "reflush" => state' = "Flush")
      BY <1>4, <2>2 DEF RevertFault, Return, Running
    <3> QED BY <1>1, <1>3, <3>1 DEF DoneInv
  <2> QED BY <1>8, <2>1, <2>2 DEF FaultStep
<1>9. ASSUME NEW S \in SUBSET Id, Invalidate(S), Running, phase' = phase, phase \in {"run", "flush"}
      PROVE  DoneInv'
  <2>1. state' # "Idle" /\ Running'
    BY <1>9 DEF Invalidate, AfterInvalidate, Running
  <2> QED BY <1>1, <1>3, <1>9, <2>1 DEF DoneInv
<1>10. CASE ProgramStep
  <2>1. PICK i \in Id : \/ Recover(i) \/ Create(i) \/ PushBackIntoRecoverList(i) \/ Release(i)
                       \/ \E v \in Value \cup {NONE} : SetTarget(i, v)
    BY <1>10 DEF ProgramStep
  <2>2. Members(InsertInPriorityOrder(weak, i)) = Members(weak) \cup {i}
    BY InsertPriority DEF ReferencesOK
  <2>3. CASE Recover(i) \/ PushBackIntoRecoverList(i) \/ Release(i)
    <3>1. UNCHANGED <<flash, bankA, state, alloc, val, at, phase, weak>>
      BY <2>3 DEF Recover, PushBackIntoRecoverList, Release, bankVars, managerVars
    <3> QED BY <1>1, <1>2, <1>5, <3>1 DEF DoneInv
  <2>4. CASE Create(i)
    <3>1. UNCHANGED <<flash, bankA, state, alloc, val, at, phase>> /\ i \notin Members(weak)
          /\ Members(weak') = Members(weak) \cup {i}
      BY <2>2, <2>4 DEF Create, bankVars, managerVars
    <3>2. val[i] = NONE
      BY <3>1 DEF DoneInv, Linked
    <3> QED BY <1>1, <1>2, <1>5, <3>1, <3>2 DEF DoneInv
  <2>5. ASSUME NEW v \in Value \cup {NONE}, SetTarget(i, v) PROVE DoneInv'
    <3>1. phase' = phase /\ phase = "run" /\ Running
      BY <2>5 DEF SetTarget, Program
    <3>2. CASE v # val[i]
      <4>1. Invalidate({i})
        BY <2>5, <3>2 DEF SetTarget
      <4> QED BY <1>9, <3>1, <4>1
    <3>3. CASE v = val[i]
      <4>1. UNCHANGED <<flash, bankA, state, alloc, val, at>> /\ Members(weak') = Members(weak) \cup {i}
        BY <2>2, <2>5, <3>3 DEF SetTarget, bankVars, managerVars
      <4>2. i \in Members(weak) \/ val[i] = NONE
        BY DEF DoneInv, Linked
      <4> QED BY <1>1, <1>2, <1>5, <3>1, <4>1, <4>2 DEF DoneInv
    <3> QED BY <3>2, <3>3
  <2> QED BY <2>1, <2>3, <2>4, <2>5
<1>11. CASE CollectorStep
  <2>1. ASSUME NEW i \in Id, MarkWeak(i) PROVE DoneInv'
    BY <1>4, <1>9, <2>1 DEF MarkWeak, Collector
  <2>2. ASSUME NEW S \in SUBSET Id, Pressure(S) PROVE DoneInv'
    BY <1>4, <1>9, <2>2 DEF Pressure, Collector
  <2> QED BY <1>11, <2>1, <2>2 DEF CollectorStep
<1>12. CASE Reboot
  <2>1. UNCHANGED <<flash, bankA, state, alloc, val, at, weak>> /\ phase = "run" /\ phase' = "flush" /\ Running
    BY <1>12 DEF Reboot, Program, bankVars, managerVars, weakVars
  <2> QED BY <1>1, <1>2, <1>5, <2>1 DEF DoneInv
<1>13. CASE Reset
  BY <1>1, <1>3, <1>13 DEF Reset, DoneInv
<1>14. CASE BootStep
  <2>1. phase' = phase /\ ~Running /\ state' \in {"Flush", "Format"}
    BY <1>14 DEF BootStep, Initialize, Format, SetFirstSequence, Running
  <2>2. phase = "run"
    BY <2>1 DEF DoneInv, PhaseOK
  <2> QED BY <1>1, <1>3, <2>1, <2>2 DEF DoneInv
<1>15. CASE UNCHANGED vars
  <2>1. UNCHANGED <<flash, bankA, state, alloc, val, at, weak, phase>>
    BY <1>15 DEF vars, bankVars, managerVars, weakVars
  <2> QED BY <1>1, <1>2, <1>5, <2>1 DEF DoneInv
<1> QED BY <1>7, <1>8, <1>10, <1>11, <1>12, <1>13, <1>14, <1>15 DEF Next

\* The manager sleeps, and Reboot goes down, with an unsaved object only if bank A
\* has no room for one: whatever wakes the manager, and for banks of any size.
THEOREM NothingLeftUnsaved == Spec => []SavedWhenDone
<1>1. Init => TypeInv /\ DoneInv
  <2> SUFFICES ASSUME Init PROVE DoneInv
    BY InitTypes
  <2> QED BY DEF Init, DoneInv, Linked, PhaseOK, SavedWhenDone
<1>2. TypeInv /\ DoneInv /\ [Next]_vars => (TypeInv /\ DoneInv)'
  BY TypeStep, DoneStep
<1>3. DoneInv => SavedWhenDone
  BY DEF DoneInv
<1> QED BY <1>1, <1>2, <1>3, PTL DEF Spec

-----------------------------------------------------------------------------
(* Records and the places of objects *)

Slot == [1..Slots -> Record]

\* The good records of a bank f are those of the objects v at the places p, and
\* of these no other.
Holds(f, v, p) ==
    /\ \A i \in Id : p[i] # 0 => v[i] \in Value /\ f[p[i]] = Good(i, v[i])
    /\ \A s \in 1..Slots : f[s].st = "good" => p[f[s].id] = s

Objects == [Id -> Value \cup {NONE}]
Places == [Id -> 0..Slots]

LEMMA GoodRecord ==
    ASSUME NEW f \in Slot, NEW s \in 1..Slots, f[s].st = "good"
    PROVE  f[s].id \in Id /\ f[s].val \in Value /\ f[s] = Good(f[s].id, f[s].val)
<1>1. f[s] \in Record
  BY DEF Slot
<1>2. PICK i \in Id, v \in Value : f[s] = Good(i, v)
  BY <1>1 DEF Record, Free, Dead, Open
<1> QED BY <1>2 DEF Good

\* A record that was not good may become another that is not.
LEMMA HoldsNeutral ==
    ASSUME NEW f \in Slot, NEW v \in Objects, NEW p \in Places, Holds(f, v, p),
           NEW s \in 1..Slots, f[s].st # "good", NEW g,
           \A t \in 1..Slots : t # s => g[t] = f[t], g[s].st # "good"
    PROVE  Holds(g, v, p)
<1>1. ASSUME NEW i \in Id, p[i] # 0 PROVE v[i] \in Value /\ g[p[i]] = Good(i, v[i])
  <2>1. p[i] \in 1..Slots /\ f[p[i]] = Good(i, v[i]) /\ v[i] \in Value
    BY <1>1, ConstantFacts DEF Holds, Places
  <2>2. p[i] # s
    BY <2>1, GoodFacts
  <2> QED BY <2>1, <2>2
<1>2. ASSUME NEW t \in 1..Slots, g[t].st = "good" PROVE p[g[t].id] = t
  BY <1>2 DEF Holds
<1> QED BY <1>1, <1>2 DEF Holds

\* A bank whose records stay holds what it held.
LEMMA HoldsSame ==
    ASSUME NEW f, NEW v, NEW p \in Places, Holds(f, v, p), NEW g,
           \A t \in 1..Slots : g[t] = f[t]
    PROVE  Holds(g, v, p)
<1>1. ASSUME NEW i \in Id, p[i] # 0 PROVE p[i] \in 1..Slots
  BY <1>1, ConstantFacts DEF Places
<1> QED BY <1>1 DEF Holds

\* An object that has no place gets one.
LEMMA HoldsAdd ==
    ASSUME NEW f \in Slot, NEW v \in Objects, NEW p \in Places, Holds(f, v, p),
           NEW s \in 1..Slots, f[s].st # "good", NEW i \in Id, p[i] = 0, v[i] \in Value, NEW g,
           \A t \in 1..Slots : t # s => g[t] = f[t], g[s] = Good(i, v[i])
    PROVE  Holds(g, v, [p EXCEPT ![i] = s])
<1> DEFINE q == [p EXCEPT ![i] = s]
<1>1. q[i] = s /\ \A j \in Id : j # i => q[j] = p[j]
  BY DEF Places
<1>2. ASSUME NEW j \in Id, q[j] # 0 PROVE v[j] \in Value /\ g[q[j]] = Good(j, v[j])
  <2>1. CASE j = i
    BY <1>1, <2>1
  <2>2. CASE j # i
    <3>1. p[j] \in 1..Slots /\ f[p[j]] = Good(j, v[j]) /\ v[j] \in Value /\ q[j] = p[j]
      BY <1>1, <1>2, <2>2, ConstantFacts DEF Holds, Places
    <3>2. p[j] # s
      BY <3>1, GoodFacts
    <3> QED BY <3>1, <3>2
  <2> QED BY <2>1, <2>2
<1>3. ASSUME NEW t \in 1..Slots, g[t].st = "good" PROVE q[g[t].id] = t
  <2>1. CASE t = s
    BY <1>1, <2>1, GoodFacts
  <2>2. CASE t # s
    <3>1. f[t].st = "good" /\ g[t] = f[t] /\ p[f[t].id] = t
      BY <1>3, <2>2 DEF Holds
    <3>2. f[t].id \in Id /\ f[t].id # i
      BY <3>1, GoodRecord
    <3> QED BY <1>1, <3>1, <3>2
  <2> QED BY <2>1, <2>2
<1> HIDE DEF q
<1>4. Holds(g, v, q)
  BY <1>2, <1>3 DEF Holds
<1> QED BY <1>4 DEF q

\* Of the objects v at the places p those of S lose their places and may change,
\* and the records of D die: bank f becomes g.
Removal(f, v, p, S, D, g, w, q) ==
    /\ S \in SUBSET Id
    /\ \A i \in S : p[i] # 0 => p[i] \in D
    /\ \A s \in 1..Slots : s \in D /\ f[s].st = "good" => f[s].id \in S
    /\ \A s \in 1..Slots : g[s] = IF s \in D THEN Dead ELSE f[s]
    /\ \A i \in Id \ S : w[i] = v[i]
    /\ \A i \in Id : q[i] = IF i \in S THEN 0 ELSE p[i]

LEMMA HoldsRemove ==
    ASSUME NEW f \in Slot, NEW v \in Objects, NEW p \in Places, Holds(f, v, p),
           NEW S, NEW D, NEW g, NEW w, NEW q, Removal(f, v, p, S, D, g, w, q)
    PROVE  Holds(g, w, q)
<1> USE DEF Removal
<1>1. ASSUME NEW i \in Id, q[i] # 0 PROVE w[i] \in Value /\ g[q[i]] = Good(i, w[i])
  <2>1. i \notin S /\ q[i] = p[i] /\ p[i] # 0 /\ w[i] = v[i]
    BY <1>1
  <2>2. p[i] \in 1..Slots /\ f[p[i]] = Good(i, v[i]) /\ v[i] \in Value
    BY <2>1, ConstantFacts DEF Holds, Places
  <2>3. p[i] \notin D
    BY <2>1, <2>2, GoodFacts
  <2> QED BY <2>1, <2>2, <2>3
<1>2. ASSUME NEW s \in 1..Slots, g[s].st = "good" PROVE q[g[s].id] = s
  <2>1. s \notin D /\ g[s] = f[s]
    BY <1>2, RecordFacts
  <2>2. f[s].id \in Id /\ p[f[s].id] = s
    BY <1>2, <2>1, GoodRecord DEF Holds
  <2>3. f[s].id \notin S
    BY <2>1, <2>2, ConstantFacts
  <2> QED BY <2>1, <2>2, <2>3
<1> QED BY <1>1, <1>2 DEF Holds

\* What Initialize would find in the bank.
LEMMA HoldsStored ==
    ASSUME flash \in FlashType, NEW b \in Bank, NEW v \in Objects, NEW p \in Places,
           Holds(flash[b].slot, v, p)
    PROVE  /\ Stored(b) = [i \in Id |-> IF p[i] # 0 THEN v[i] ELSE NONE]
           /\ \A s, t \in Live(b) : flash[b].slot[s].id = flash[b].slot[t].id => s = t
<1>1. \A s \in Live(b) : p[flash[b].slot[s].id] = s
  BY DEF Holds, Live
<1>2. ASSUME NEW i \in Id
      PROVE  Stored(b)[i] = IF p[i] # 0 THEN v[i] ELSE NONE
  <2>1. /\ SlotOf(b, i) # 0 => SlotOf(b, i) \in Live(b) /\ flash[b].slot[SlotOf(b, i)].id = i
        /\ SlotOf(b, i) = 0 => \A s \in Live(b) : flash[b].slot[s].id # i
    BY SlotOfLemma
  <2>2. CASE p[i] # 0
    <3>1. p[i] \in 1..Slots /\ flash[b].slot[p[i]] = Good(i, v[i]) /\ v[i] \in Value
      BY <2>2, ConstantFacts DEF Holds, Places
    <3>2. p[i] \in Live(b) /\ flash[b].slot[p[i]].id = i /\ flash[b].slot[p[i]].val = v[i]
      BY <3>1, GoodFacts DEF Live
    <3>3. SlotOf(b, i) = p[i]
      BY <1>1, <2>1, <3>2
    <3> QED BY <2>2, <3>2, <3>3 DEF Stored
  <2>3. CASE p[i] = 0
    <3>1. SlotOf(b, i) = 0
      BY <1>1, <2>1, <2>3
    <3> QED BY <2>3, <3>1 DEF Stored
  <2> QED BY <2>2, <2>3
<1>3. Stored(b) = [i \in Id |-> Stored(b)[i]]
  BY DEF Stored
<1> QED BY <1>1, <1>2, <1>3

-----------------------------------------------------------------------------
(* The inductive invariant of the store *)

\* What the theorems about the store assume of the device: banks of one erase
\* block, no power failure while bank B has no number yet, and no collection of
\* the reference that is being reverted.
OneBlock == Blocks = 1 /\ ResetWhileCopying = FALSE /\ CollectReverted = FALSE

\* Bank A holds the objects that are marked persisted.
BankAOK == Running => /\ Holds(flash[bankA].slot, val, at)
                      /\ \A i \in Id : at[i] # 0 => i \in Members(weak)

\* Bank B holds what was copied, and before the switch all that is persisted.
BankBOK ==
    /\ state = "EraseSector" => \A i \in Id : copied[i] = 0
    /\ state \in {"Copy", "CopyBack", "Switch"} =>
          /\ Holds(flash[bankB].slot, val, copied)
          /\ \A i \in Id : copied[i] # 0 => at[i] # 0
    /\ state = "Switch" => \A i \in Id : at[i] # 0 => copied[i] # 0

\* The record in work is the one that is being written, or the one that is
\* being taken back; after an aborted copy it may be one of either bank.
HeaderOK ==
    /\ pending # NONE /\ state = "Flush" =>
          /\ header[1] = bankA /\ header[2] \in 1..Slots
          /\ flash[bankA].slot[header[2]] = Open
          /\ at[pending] = 0
    /\ pending # NONE /\ state = "Copy" =>
          /\ header[1] = bankB /\ header[2] \in 1..Slots
          /\ flash[bankB].slot[header[2]] = Open
          /\ at[pending] # 0 /\ copied[pending] = 0
    /\ alloc => /\ pending # NONE /\ header = <<bankA, at[pending]>> /\ at[pending] # 0
                /\ state = "CopyBack" => copied[pending] = 0
    /\ pending # NONE /\ state = "Erase" =>
          \/ header[1] = bankB
          \/ header = <<bankA, at[pending]>> /\ at[pending] # 0

\* Bank A is the newer one of the two.
SequencesOK ==
    Running => /\ flash[bankA].seq \in 1..(Erased - 1)
               /\ \/ flash[bankB].seq \in {0, Erased}
                  \/ flash[bankB].seq < flash[bankA].seq

Distinct(f) == \A s, t \in 1..Slots : f[s].st = "good" /\ f[t].st = "good" /\ f[s].id = f[t].id => s = t

\* A reset leaves one bank to be chosen, in which no object is found twice.
BootOK ==
    /\ ~Running => \A i \in Id : at[i] = 0 /\ copied[i] = 0
    /\ state = "Boot" =>
          /\ flash[1].seq # Erased /\ flash[2].seq # Erased
          /\ flash[1].seq = flash[2].seq => flash[1].seq = 0
          /\ Distinct(flash[Chosen].slot)
          /\ ~BankIsGood(Chosen) => \A s \in 1..Slots : flash[1].slot[s].st # "good"
    /\ state = "Format" =>
          /\ bankA = 1 /\ flash[1].seq = Erased /\ flash[2].seq = 0
          /\ \A s \in 1..Slots : flash[1].slot[s].st # "good"

StoreInv == BankAOK /\ BankBOK /\ HeaderOK /\ SequencesOK /\ BootOK

LEMMA BankFacts ==
    ASSUME MediaOK
    PROVE  /\ bankA \in Bank /\ bankB \in Bank /\ bankA # bankB
           /\ \A b \in Bank : b = bankA \/ b = bankB
           /\ flash[bankA].slot \in Slot /\ flash[bankB].slot \in Slot
           /\ flash[bankA].seq \in 0..Erased /\ flash[bankB].seq \in 0..Erased
BY DEF MediaOK, bankB, Bank, FlashType, Slot

\* With one bank newer than the other, Initialize takes that one.
LEMMA ChosenBank ==
    ASSUME MediaOK, Running, SequencesOK, ~Numberless
    PROVE  Chosen = bankA /\ BankIsGood(Chosen)
<1>1. flash[bankB].seq # Erased /\ flash[bankA].seq \in 1..(Erased - 1)
  BY BankFacts DEF Numberless, SequencesOK
<1>2. flash[bankB].seq = 0 \/ flash[bankB].seq < flash[bankA].seq
  BY <1>1 DEF SequencesOK
<1>3. bankA \in {1, 2}
  BY DEF MediaOK, Bank
<1>4. CASE bankA = 1
  <2>1. bankB = 2
    BY <1>4 DEF bankB
  <2>2. ~(BankIsGood(2) /\ (~BankIsGood(1) \/ flash[1].seq < flash[2].seq))
    BY <1>1, <1>2, <1>4, <2>1, BankFacts, ConstantFacts DEF BankIsGood
  <2> QED BY <1>1, <1>4, <2>2, ConstantFacts DEF Chosen, BankIsGood
<1>5. CASE bankA = 2
  <2>1. bankB = 1
    BY <1>5 DEF bankB
  <2>2. BankIsGood(2) /\ (~BankIsGood(1) \/ flash[1].seq < flash[2].seq)
    BY <1>1, <1>2, <1>5, <2>1, ConstantFacts DEF BankIsGood
  <2> QED BY <1>5, <2>2 DEF Chosen
<1> QED BY <1>3, <1>4, <1>5

LEMMA InitStore == Init => StoreInv
<1> SUFFICES ASSUME Init PROVE StoreInv
  OBVIOUS
<1>1. ~Running /\ state = "Boot"
  BY DEF Init, Running
<1>2. /\ \A i \in Id : at[i] = 0 /\ copied[i] = 0
      /\ \A b \in Bank : flash[b].seq = 0 /\ \A s \in 1..Slots : flash[b].slot[s] = Free
      /\ pending = NONE /\ alloc = FALSE
  BY DEF Init
<1>3. 1 \in Bank /\ 2 \in Bank /\ Chosen \in Bank
  BY DEF Bank, Chosen
<1>4. BootOK
  BY <1>1, <1>2, <1>3, RecordFacts, ConstantFacts DEF BootOK, Distinct
<1> QED BY <1>1, <1>2, <1>4 DEF StoreInv, BankAOK, BankBOK, HeaderOK, SequencesOK

\* What a step must keep that leaves the sequence numbers and does not boot.
LEMMA NumbersKept ==
    ASSUME StoreInv, MediaOK, Running, Running', bankA' = bankA,
           \A c \in Bank : flash'[c].seq = flash[c].seq
    PROVE  SequencesOK' /\ BootOK' /\ bankB' = bankB
<1>1. bankB' = bankB /\ bankA \in Bank /\ bankB \in Bank
  BY BankFacts DEF bankB
<1>2. SequencesOK'
  BY <1>1 DEF StoreInv, SequencesOK
<1>3. BootOK'
  BY DEF BootOK, Running
<1> QED BY <1>1, <1>2, <1>3

LEMMA FlushSteps ==
    ASSUME TypeInv, StoreInv,
           FlushHeader \/ FlushData \/ FlushFull \/ FlushDone \/ Idle
    PROVE  StoreInv'
<1> USE DEF TypeInv
<1>1. ASSUME FlushHeader PROVE StoreInv'
  <2> DEFINE s == Current(bankA)
             i == weak[NextUnsaved]
  <2>1. /\ state = "Flush" /\ state' = "Flush" /\ Running /\ Running'
        /\ pending' = i /\ header' = <<bankA, s>> /\ ~alloc /\ alloc' = alloc
        /\ bankA' = bankA /\ flash' = Put(bankA, s, Open) /\ UNCHANGED <<weak, val, at, copied>>
    BY <1>1 DEF FlushHeader, Manager, weakVars, Running
  <2>2. at[i] = 0
    BY <1>1, FirstLemma DEF FlushHeader, NextUnsaved, Unsaved, ReferencesOK
  <2>3. s \in 1..Slots /\ flash[bankA].slot[s] = Free
    BY <1>1, CurrentLemma DEF FlushHeader, MediaOK
  <2>4. /\ \A c \in Bank : flash'[c].seq = flash[c].seq
        /\ \A t \in 1..Slots : flash'[bankA].slot[t] = IF t = s THEN Open ELSE flash[bankA].slot[t]
    BY <2>1, <2>3, PutLemma DEF MediaOK
  <2>5. Holds(flash[bankA].slot, val, at) /\ \A j \in Id : at[j] # 0 => j \in Members(weak)
    BY <2>1 DEF StoreInv, BankAOK
  <2> HIDE DEF s, i
  <2>6. Holds(flash'[bankA].slot, val, at)
    <3>1. /\ val \in Objects /\ at \in Places /\ flash[bankA].slot \in Slot
          /\ flash[bankA].slot[s].st # "good" /\ flash'[bankA].slot[s].st # "good"
          /\ \A t \in 1..Slots : t # s => flash'[bankA].slot[t] = flash[bankA].slot[t]
      BY <2>3, <2>4, BankFacts, RecordFacts DEF ReferencesOK, Objects, Places
    <3> QED BY <2>3, <2>5, <3>1, HoldsNeutral
  <2>7. BankAOK' /\ BankBOK'
    BY <2>1, <2>5, <2>6 DEF BankAOK, BankBOK
  <2>8. HeaderOK'
    BY <2>1, <2>2, <2>3, <2>4 DEF HeaderOK
  <2>9. SequencesOK' /\ BootOK'
    BY <2>1, <2>4, NumbersKept
  <2> QED BY <2>7, <2>8, <2>9 DEF StoreInv
<1>2. ASSUME FlushData PROVE StoreInv'
  <2> DEFINE s == header[2]
  <2>1. /\ state = "Flush" /\ state' = "Flush" /\ Running /\ Running' /\ pending # NONE
        /\ pending' = NONE /\ ~alloc /\ alloc' = alloc /\ at' = [at EXCEPT ![pending] = s]
        /\ bankA' = bankA /\ flash' = Put(bankA, s, Good(pending, val[pending]))
        /\ UNCHANGED <<weak, val, copied>>
    BY <1>2 DEF FlushData, Manager, Running
  <2>2. /\ pending \in Id /\ pending \in Members(weak) /\ val[pending] \in Value
        /\ s \in 1..Slots /\ flash[bankA].slot[s] = Open /\ at[pending] = 0
    BY <2>1 DEF StoreInv, HeaderOK, PendingOK, ManagerOK, ReferencesOK
  <2>3. /\ \A c \in Bank : flash'[c].seq = flash[c].seq
        /\ \A t \in 1..Slots : flash'[bankA].slot[t] =
                IF t = s THEN Good(pending, val[pending]) ELSE flash[bankA].slot[t]
    BY <2>1, <2>2, PutLemma DEF MediaOK
  <2>4. Holds(flash[bankA].slot, val, at) /\ \A j \in Id : at[j] # 0 => j \in Members(weak)
    BY <2>1 DEF StoreInv, BankAOK
  <2> HIDE DEF s
  <2>5. Holds(flash'[bankA].slot, val, at')
    <3>1. /\ val \in Objects /\ at \in Places /\ flash[bankA].slot \in Slot
          /\ flash[bankA].slot[s].st # "good" /\ flash'[bankA].slot[s] = Good(pending, val[pending])
          /\ \A t \in 1..Slots : t # s => flash'[bankA].slot[t] = flash[bankA].slot[t]
      BY <2>2, <2>3, BankFacts, RecordFacts DEF ReferencesOK, Objects, Places
    <3> QED BY <2>1, <2>2, <2>4, <3>1, HoldsAdd
  <2>6. BankAOK' /\ BankBOK' /\ HeaderOK'
    BY <2>1, <2>2, <2>4, <2>5 DEF BankAOK, BankBOK, HeaderOK, ReferencesOK
  <2>7. SequencesOK' /\ BootOK'
    BY <2>1, <2>3, NumbersKept
  <2> QED BY <2>6, <2>7 DEF StoreInv
<1>3. ASSUME FlushFull \/ FlushDone \/ Idle PROVE StoreInv'
  <2>1. /\ Running /\ pending' = NONE /\ ~alloc /\ alloc' = alloc
        /\ Return("Erase") \/ Return("Idle")
        /\ UNCHANGED <<flash, bankA, weak, val, at, copied>>
    BY <1>3 DEF FlushFull, FlushDone, Idle, Manager, PendingOK, bankVars, weakVars, Running
  <2>2. state' \in {"Erase", "Idle", "Flush"}
    BY <2>1 DEF Return
  <2>3. Running'
    BY <2>2 DEF Running
  <2>4. BankAOK' /\ BankBOK' /\ HeaderOK'
    BY <2>1, <2>2 DEF StoreInv, BankAOK, BankBOK, HeaderOK
  <2>5. SequencesOK' /\ BootOK'
    BY <2>1, <2>3, NumbersKept
  <2> QED BY <2>4, <2>5 DEF StoreInv
<1> QED BY <1>1, <1>2, <1>3

\* The erase of a bank of one block leaves nothing.
LEMMA EraseAll ==
    ASSUME OneBlock, NEW f, NEW k \in Nat, k < Blocks
    PROVE  \A s \in 1..Slots : Erase(f, k)[s] = Free
<1>1. TAKE s \in 1..Slots
<1>2. k = 0 /\ Blocks = 1
  BY DEF OneBlock
<1>3. (s - 1) \div Slots = 0
  BY <1>1, ConstantFacts
<1>4. s \in BlockSlots(k)
  BY <1>1, <1>2, <1>3, ConstantFacts DEF BlockSlots
<1> QED BY <1>1, <1>4 DEF Erase

LEMMA EraseSteps ==
    ASSUME OneBlock, TypeInv, StoreInv, StartErase \/ EraseSector
    PROVE  StoreInv'
<1> USE DEF TypeInv
<1>1. ASSUME StartErase PROVE StoreInv'
  <2>1. /\ state' = "EraseSector" /\ Running /\ Running' /\ pending' = NONE
        /\ ~alloc /\ alloc' = alloc /\ (\A i \in Id : copied'[i] = 0)
        /\ UNCHANGED <<flash, bankA, weak, val, at>>
    BY <1>1 DEF StartErase, Manager, Running, bankVars
  <2>2. BankAOK' /\ BankBOK' /\ HeaderOK'
    BY <2>1 DEF StoreInv, BankAOK, BankBOK, HeaderOK
  <2>3. SequencesOK' /\ BootOK'
    BY <2>1, NumbersKept
  <2> QED BY <2>2, <2>3 DEF StoreInv
<1>2. ASSUME EraseSector PROVE StoreInv'
  <2>1. /\ state = "EraseSector" /\ state' = "Copy" /\ Running /\ Running' /\ pending' = NONE
        /\ ~alloc /\ alloc' = alloc /\ eraseIndex \in Nat /\ eraseIndex < Blocks
        /\ UNCHANGED <<bankA, weak, val, at, copied>>
    BY <1>2, ConstantFacts DEF EraseSector, Manager, Running, weakVars, PendingOK, ManagerOK
  <2>2. /\ flash'[bankA] = flash[bankA] /\ flash'[bankB].seq = Erased
        /\ flash'[bankB].slot = Erase(flash[bankB].slot, eraseIndex)
    BY <1>2, BankFacts DEF EraseSector, MediaOK, FlashType
  <2>3. \A s \in 1..Slots : flash'[bankB].slot[s] = Free
    BY <2>1, <2>2, EraseAll
  <2>4. \A i \in Id : copied[i] = 0
    BY <2>1 DEF StoreInv, BankBOK
  <2>5. Holds(flash'[bankB].slot, val, copied)
    BY <2>3, <2>4, RecordFacts DEF Holds
  <2>6. bankB' = bankB
    BY <2>1 DEF bankB
  <2>7. BankAOK' /\ BankBOK' /\ HeaderOK'
    BY <2>1, <2>2, <2>4, <2>5, <2>6 DEF StoreInv, BankAOK, BankBOK, HeaderOK
  <2>8. SequencesOK' /\ BootOK'
    BY <2>1, <2>2, <2>6 DEF StoreInv, SequencesOK, BootOK
  <2> QED BY <2>7, <2>8 DEF StoreInv
<1> QED BY <1>1, <1>2

LEMMA CopySteps ==
    ASSUME TypeInv, StoreInv, CopyHeader \/ CopyData \/ CopyDone
    PROVE  StoreInv'
<1> USE DEF TypeInv
<1>0. state = "Copy" /\ Running /\ ~alloc
  BY DEF CopyHeader, CopyData, CopyDone, Manager, Running
<1>1. /\ Holds(flash[bankA].slot, val, at) /\ (\A j \in Id : at[j] # 0 => j \in Members(weak))
      /\ Holds(flash[bankB].slot, val, copied) /\ (\A j \in Id : copied[j] # 0 => at[j] # 0)
  BY <1>0 DEF StoreInv, BankAOK, BankBOK
<1>2. ASSUME CopyHeader PROVE StoreInv'
  <2> DEFINE s == Current(bankB)
             i == weak[NextUncopied]
  <2>1. /\ state' = "Copy" /\ Running' /\ pending' = i /\ header' = <<bankB, s>> /\ alloc' = alloc
        /\ bankA' = bankA /\ bankB' = bankB /\ flash' = Put(bankB, s, Open)
        /\ UNCHANGED <<weak, val, at, copied>>
    BY <1>2 DEF CopyHeader, weakVars, Running, bankB
  <2>2. i \in Id /\ at[i] # 0 /\ copied[i] = 0
    BY <1>2, FirstLemma DEF CopyHeader, NextUncopied, Uncopied, ReferencesOK
  <2>3. s \in 1..Slots /\ flash[bankB].slot[s] = Free
    BY <1>2, CurrentLemma, BankFacts DEF CopyHeader, MediaOK
  <2>4. /\ \A c \in Bank : flash'[c].seq = flash[c].seq
        /\ \A c \in Bank : \A t \in 1..Slots :
              flash'[c].slot[t] = IF c = bankB /\ t = s THEN Open ELSE flash[c].slot[t]
    BY <2>1, <2>3, PutLemma, BankFacts DEF MediaOK
  <2> HIDE DEF s, i
  <2>5. Holds(flash'[bankB].slot, val, copied)
    <3>1. /\ val \in Objects /\ copied \in Places /\ flash[bankB].slot \in Slot
          /\ flash[bankB].slot[s].st # "good" /\ flash'[bankB].slot[s].st # "good"
          /\ \A t \in 1..Slots : t # s => flash'[bankB].slot[t] = flash[bankB].slot[t]
      BY <2>3, <2>4, BankFacts, RecordFacts DEF ReferencesOK, Objects, Places
    <3> QED BY <1>1, <2>3, <3>1, HoldsNeutral
  <2>6. Holds(flash'[bankA].slot, val, at)
    <3>1. at \in Places /\ \A t \in 1..Slots : flash'[bankA].slot[t] = flash[bankA].slot[t]
      BY <2>4, BankFacts DEF ReferencesOK, Places
    <3> QED BY <1>1, <3>1, HoldsSame
  <2>7. BankAOK' /\ BankBOK'
    BY <1>1, <2>1, <2>5, <2>6 DEF BankAOK, BankBOK
  <2>8. HeaderOK'
    BY <1>0, <2>1, <2>2, <2>3, <2>4, BankFacts DEF HeaderOK
  <2>9. SequencesOK' /\ BootOK'
    BY <1>0, <2>1, <2>4, NumbersKept
  <2> QED BY <2>7, <2>8, <2>9 DEF StoreInv
<1>3. ASSUME CopyData PROVE StoreInv'
  <2> DEFINE s == header[2]
  <2>1. /\ state' = "Copy" /\ Running' /\ pending # NONE /\ pending' = NONE /\ alloc' = alloc
        /\ copied' = [copied EXCEPT ![pending] = s] /\ bankA' = bankA /\ bankB' = bankB
        /\ flash' = Put(bankB, s, Good(pending, val[pending])) /\ UNCHANGED <<weak, val, at>>
    BY <1>3 DEF CopyData, Running, bankB
  <2>2. /\ pending \in Id /\ val[pending] \in Value /\ at[pending] # 0 /\ copied[pending] = 0
        /\ s \in 1..Slots /\ flash[bankB].slot[s] = Open
    BY <1>0, <2>1 DEF StoreInv, HeaderOK, PendingOK, ManagerOK, ReferencesOK
  <2>3. /\ \A c \in Bank : flash'[c].seq = flash[c].seq
        /\ \A c \in Bank : \A t \in 1..Slots : flash'[c].slot[t] =
              IF c = bankB /\ t = s THEN Good(pending, val[pending]) ELSE flash[c].slot[t]
    BY <2>1, <2>2, PutLemma, BankFacts DEF MediaOK
  <2> HIDE DEF s
  <2>4. Holds(flash'[bankB].slot, val, copied')
    BY <1>1, <2>1, <2>2, <2>3, HoldsAdd, BankFacts, RecordFacts DEF ReferencesOK, Objects, Places
  <2>5. Holds(flash'[bankA].slot, val, at)
    <3>1. at \in Places /\ \A t \in 1..Slots : flash'[bankA].slot[t] = flash[bankA].slot[t]
      BY <2>3, BankFacts DEF ReferencesOK, Places
    <3> QED BY <1>1, <3>1, HoldsSame
  <2>6. BankAOK' /\ BankBOK' /\ HeaderOK'
    BY <1>0, <1>1, <2>1, <2>2, <2>4, <2>5 DEF BankAOK, BankBOK, HeaderOK, ReferencesOK
  <2>7. SequencesOK' /\ BootOK'
    BY <1>0, <2>1, <2>3, NumbersKept
  <2> QED BY <2>6, <2>7 DEF StoreInv
<1>4. ASSUME CopyDone PROVE StoreInv'
  <2>1. /\ state' = "CopyBack" /\ Running' /\ pending' = NONE /\ alloc' = alloc
        /\ bankB' = bankB /\ UNCHANGED <<flash, bankA, weak, val, at, copied>>
    BY <1>4 DEF CopyDone, bankVars, weakVars, Running, bankB
  <2>2. BankAOK' /\ BankBOK' /\ HeaderOK'
    BY <1>0, <1>1, <2>1 DEF BankAOK, BankBOK, HeaderOK
  <2>3. SequencesOK' /\ BootOK'
    BY <1>0, <2>1, NumbersKept
  <2> QED BY <2>2, <2>3 DEF StoreInv
<1> QED BY <1>2, <1>3, <1>4

LEMMA RevertSteps ==
    ASSUME TypeInv, StoreInv, RevertStart \/ Revert \/ RevertDone
    PROVE  StoreInv'
<1> USE DEF TypeInv
<1>0. state \in {"CopyBack", "Erase"} /\ Running
  BY DEF RevertStart, Revert, RevertDone, PendingOK, Running
<1>1. Holds(flash[bankA].slot, val, at) /\ \A j \in Id : at[j] # 0 => j \in Members(weak)
  BY <1>0 DEF StoreInv, BankAOK
<1>2. ASSUME RevertStart PROVE StoreInv'
  <2> DEFINE i == weak[NextUncopied]
  <2>1. /\ state = "CopyBack" /\ state' = "CopyBack" /\ Running' /\ pending' = i
        /\ header' = <<bankA, at[i]>> /\ alloc' = TRUE /\ bankB' = bankB
        /\ UNCHANGED <<flash, bankA, weak, val, at, copied>>
    BY <1>2 DEF RevertStart, bankVars, weakVars, Running, bankB
  <2>2. i \in Id /\ at[i] # 0 /\ copied[i] = 0
    BY <1>2, FirstLemma DEF RevertStart, NextUncopied, Uncopied, ReferencesOK
  <2> HIDE DEF i
  <2>3. BankAOK' /\ BankBOK'
    BY <1>1, <2>1 DEF StoreInv, BankAOK, BankBOK
  <2>4. HeaderOK'
    BY <2>1, <2>2, ConstantFacts DEF HeaderOK
  <2>5. SequencesOK' /\ BootOK'
    BY <1>0, <2>1, NumbersKept
  <2> QED BY <2>3, <2>4, <2>5 DEF StoreInv
<1>3. ASSUME Revert PROVE StoreInv'
  <2> DEFINE s == at[pending]
  <2>1. /\ state' = state /\ Running' /\ pending # NONE /\ pending' = NONE /\ alloc /\ ~alloc'
        /\ at' = [at EXCEPT ![pending] = 0] /\ bankA' = bankA /\ bankB' = bankB
        /\ flash' = Put(header[1], header[2], Dead) /\ UNCHANGED <<weak, val, copied>>
    BY <1>0, <1>3 DEF Revert, Running, bankB
  <2>2. pending \in Id /\ header = <<bankA, s>> /\ s \in 1..Slots
        /\ (state = "CopyBack" => copied[pending] = 0)
    BY <2>1, ConstantFacts DEF StoreInv, HeaderOK, ManagerOK, ReferencesOK
  <2>3. header[1] = bankA /\ header[2] = s
    BY <2>2
  <2>4. /\ \A c \in Bank : flash'[c].seq = flash[c].seq
        /\ \A c \in Bank : \A t \in 1..Slots :
              flash'[c].slot[t] = IF c = bankA /\ t = s THEN Dead ELSE flash[c].slot[t]
    BY <2>1, <2>2, <2>3, PutLemma, BankFacts DEF MediaOK
  <2>5. val \in Objects /\ at \in Places /\ copied \in Places /\ flash[bankA].slot \in Slot
    BY BankFacts DEF ReferencesOK, Objects, Places
  <2>6. Holds(flash'[bankA].slot, val, at')
    <3> DEFINE S == {pending}
               D == {s}
    <3>1. S \in SUBSET Id /\ (\A i \in S : at[i] # 0 => at[i] \in D)
      BY <2>2
    <3>2. \A t \in 1..Slots : t \in D /\ flash[bankA].slot[t].st = "good" => flash[bankA].slot[t].id \in S
      BY <1>1, <2>2, ConstantFacts, GoodFacts DEF Holds
    <3>3. /\ \A t \in 1..Slots : flash'[bankA].slot[t] = IF t \in D THEN Dead ELSE flash[bankA].slot[t]
          /\ \A i \in Id : at'[i] = IF i \in S THEN 0 ELSE at[i]
      BY <2>1, <2>2, <2>4, <2>5, BankFacts DEF Places
    <3>4. Removal(flash[bankA].slot, val, at, S, D, flash'[bankA].slot, val, at')
      BY <3>1, <3>2, <3>3 DEF Removal
    <3> QED BY <1>1, <2>5, <3>4, HoldsRemove
  <2>7. BankAOK'
    BY <1>1, <2>1, <2>6, <2>5 DEF BankAOK, Places
  <2>8. BankBOK'
    <3>1. CASE state = "Erase"
      BY <2>1, <3>1 DEF BankBOK
    <3>2. CASE state = "CopyBack"
      <4>1. Holds(flash[bankB].slot, val, copied) /\ \A i \in Id : copied[i] # 0 => at[i] # 0
        BY <3>2 DEF StoreInv, BankBOK
      <4>2. \A t \in 1..Slots : flash'[bankB].slot[t] = flash[bankB].slot[t]
        BY <2>4, BankFacts
      <4>3. Holds(flash'[bankB].slot, val, copied)
        BY <2>5, <4>1, <4>2, HoldsSame
      <4>4. \A i \in Id : copied[i] # 0 => at'[i] # 0
        BY <2>1, <2>2, <2>5, <3>2, <4>1 DEF Places
      <4> QED BY <2>1, <3>2, <4>3, <4>4 DEF BankBOK
    <3> QED BY <1>0, <3>1, <3>2
  <2>9. HeaderOK'
    BY <2>1 DEF HeaderOK
  <2>10. SequencesOK' /\ BootOK'
    BY <1>0, <2>1, <2>4, NumbersKept
  <2> QED BY <2>7, <2>8, <2>9, <2>10 DEF StoreInv
<1>4. ASSUME RevertDone PROVE StoreInv'
  <2>1. /\ state = "CopyBack" /\ state' = "Switch" /\ Running' /\ ~alloc /\ alloc' = alloc
        /\ pending = NONE /\ pending' = NONE
        /\ bankB' = bankB /\ UNCHANGED <<flash, bankA, weak, val, at, copied>>
    BY <1>4 DEF RevertDone, bankVars, weakVars, Running, bankB, Manager, PendingOK
  <2>2. ASSUME NEW i \in Id, at[i] # 0 PROVE copied[i] # 0
    <3>1. i \in Members(weak) /\ val[i] # NONE
      BY <1>1, <2>2, ConstantFacts DEF Holds
    <3>2. ~Uncopied(i)
      BY <1>4, <3>1, FirstLemma DEF RevertDone, NextUncopied, ReferencesOK
    <3> QED BY <2>2, <3>1, <3>2 DEF Uncopied
  <2>3. BankAOK' /\ BankBOK' /\ HeaderOK'
    BY <1>1, <2>1, <2>2 DEF StoreInv, BankAOK, BankBOK, HeaderOK
  <2>4. SequencesOK' /\ BootOK'
    BY <1>0, <2>1, NumbersKept
  <2> QED BY <2>3, <2>4 DEF StoreInv
<1> QED BY <1>2, <1>3, <1>4

\* The sequence numbers do not run into the pattern of an erased word: as long as
\* there have not been four thousand million bank switches.
NoWrap == Running => flash[bankA].seq # Erased

LEMMA SwitchStep ==
    ASSUME TypeInv, StoreInv, SwitchBank, NoWrap'
    PROVE  StoreInv'
<1> USE DEF TypeInv
<1>1. /\ state = "Switch" /\ state' = "Flush" /\ Running /\ Running' /\ ~alloc /\ alloc' = alloc
      /\ pending = NONE /\ pending' = NONE /\ bankA' = bankB /\ bankB' = bankA
      /\ UNCHANGED <<weak, val>>
  BY BankFacts DEF SwitchBank, Running, Manager, PendingOK, bankB, MediaOK, Bank
<1>2. /\ Holds(flash[bankB].slot, val, copied)
      /\ \A i \in Id : copied[i] # 0 <=> at[i] # 0
      /\ \A j \in Id : at[j] # 0 => j \in Members(weak)
  BY <1>1 DEF StoreInv, BankAOK, BankBOK
<1>3. /\ flash'[bankA] = flash[bankA] /\ flash'[bankB].slot = flash[bankB].slot
      /\ flash'[bankB].seq = (flash[bankA].seq + 1) % (Erased + 1)
  BY BankFacts DEF SwitchBank, MediaOK, FlashType
<1>4. flash[bankA].seq \in 1..(Erased - 1)
  BY <1>1 DEF StoreInv, SequencesOK
<1>5. flash'[bankB].seq = flash[bankA].seq + 1
  <2>1. flash[bankA].seq + 1 \in 0..Erased
    BY <1>4, ConstantFacts
  <2> QED BY <1>3, <2>1, ConstantFacts
<1>6. \A i \in Id : at'[i] = copied[i]
  BY <1>2 DEF SwitchBank, ReferencesOK
<1>7. at' = copied
  BY <1>6 DEF SwitchBank, ReferencesOK
<1>8. BankAOK' /\ BankBOK' /\ HeaderOK'
  BY <1>1, <1>2, <1>3, <1>6, <1>7 DEF BankAOK, BankBOK, HeaderOK
<1>9. SequencesOK'
  <2>1. flash[bankA].seq + 1 # Erased
    BY <1>1, <1>5 DEF NoWrap
  <2>2. /\ flash'[bankB].seq \in 1..(Erased - 1)
        /\ flash'[bankA].seq < flash'[bankB].seq
    BY <1>3, <1>4, <1>5, <2>1, ConstantFacts
  <2> QED BY <1>1, <2>2 DEF SequencesOK
<1>10. BootOK'
  BY <1>1 DEF BootOK, Running
<1> QED BY <1>8, <1>9, <1>10 DEF StoreInv

\* A write that gives up a record which is not good changes nothing in either bank.
LEMMA GiveUp ==
    ASSUME MediaOK, ReferencesOK, NEW b \in Bank, NEW s \in 1..Slots,
           flash[b].slot[s].st # "good", flash' = Put(b, s, Dead)
    PROVE  /\ Holds(flash[bankA].slot, val, at) => Holds(flash'[bankA].slot, val, at)
           /\ Holds(flash[bankB].slot, val, copied) => Holds(flash'[bankB].slot, val, copied)
           /\ \A c \in Bank : flash'[c].seq = flash[c].seq
<1>1. /\ \A c \in Bank : flash'[c].seq = flash[c].seq
      /\ \A c \in Bank : \A t \in 1..Slots :
            flash'[c].slot[t] = IF c = b /\ t = s THEN Dead ELSE flash[c].slot[t]
  BY PutLemma DEF MediaOK
<1>2. ASSUME NEW c \in Bank, NEW p \in Places, Holds(flash[c].slot, val, p)
      PROVE  Holds(flash'[c].slot, val, p)
  <2>1. val \in Objects /\ flash[c].slot \in Slot
    BY DEF MediaOK, FlashType, Slot, ReferencesOK, Objects
  <2>2. CASE c = b
    <3>1. flash'[c].slot[s].st # "good" /\ flash[c].slot[s].st # "good"
      BY <1>1, <2>2, RecordFacts
    <3>2. \A t \in 1..Slots : t # s => flash'[c].slot[t] = flash[c].slot[t]
      BY <1>1
    <3> QED BY <1>2, <2>1, <3>1, <3>2, HoldsNeutral
  <2>3. CASE c # b
    <3>1. \A t \in 1..Slots : flash'[c].slot[t] = flash[c].slot[t]
      BY <1>1, <2>3
    <3> QED BY <1>2, <3>1, HoldsSame
  <2> QED BY <2>2, <2>3
<1>3. at \in Places /\ copied \in Places
  BY DEF ReferencesOK, Places
<1> QED BY <1>1, <1>2, <1>3, BankFacts

LEMMA FaultSteps ==
    ASSUME TypeInv, StoreInv, FaultStep
    PROVE  StoreInv'
<1> USE DEF TypeInv
<1>1. ASSUME Running, UNCHANGED <<bankA, state, weakVars>>, pending' = NONE, ~alloc, ~alloc',
             state \in {"Flush", "Copy"},
             NEW b \in Bank, NEW s \in 1..Slots, flash[b].slot[s].st # "good", flash' = Put(b, s, Dead)
      PROVE  StoreInv'
  <2>1. Running' /\ bankB' = bankB /\ UNCHANGED <<weak, val, at, copied>>
    BY <1>1 DEF Running, bankB, weakVars
  <2>2. /\ Holds(flash[bankA].slot, val, at) => Holds(flash'[bankA].slot, val, at)
        /\ Holds(flash[bankB].slot, val, copied) => Holds(flash'[bankB].slot, val, copied)
        /\ \A c \in Bank : flash'[c].seq = flash[c].seq
    BY <1>1, GiveUp
  <2>3. BankAOK' /\ BankBOK' /\ HeaderOK'
    BY <1>1, <2>1, <2>2 DEF StoreInv, BankAOK, BankBOK, HeaderOK
  <2>4. SequencesOK' /\ BootOK'
    BY <1>1, <2>1, <2>2, NumbersKept
  <2> QED BY <2>3, <2>4 DEF StoreInv
<1>2. ASSUME HeaderFault PROVE StoreInv'
  <2>1. PICK b \in Bank : HasRoom(b) /\ flash' = Put(b, Current(b), Dead)
    BY <1>2 DEF HeaderFault
  <2>2. Current(b) \in 1..Slots /\ flash[b].slot[Current(b)].st # "good"
    BY <2>1, CurrentLemma, RecordFacts DEF MediaOK
  <2>3. /\ Running /\ UNCHANGED <<bankA, state, weakVars>> /\ pending' = NONE /\ ~alloc /\ ~alloc'
        /\ state \in {"Flush", "Copy"}
    BY <1>2 DEF HeaderFault, managerVars, Manager, Running
  <2> QED BY <1>1, <2>1, <2>2, <2>3
<1>3. ASSUME DataFault PROVE StoreInv'
  <2>1. /\ Running /\ UNCHANGED <<bankA, state, weakVars>> /\ pending' = NONE /\ ~alloc /\ ~alloc'
        /\ state \in {"Flush", "Copy"} /\ flash' = Put(header[1], header[2], Dead) /\ pending # NONE
    BY <1>3 DEF DataFault, Manager, Running
  <2>2. header[1] \in Bank /\ header[2] \in 1..Slots /\ flash[header[1]].slot[header[2]].st # "good"
    BY <2>1, BankFacts, RecordFacts DEF StoreInv, HeaderOK
  <2> QED BY <1>1, <2>1, <2>2
<1>4. ASSUME EraseFault PROVE StoreInv'
  <2>1. /\ state = "EraseSector" /\ Running /\ Running' /\ UNCHANGED <<bankA, state, weak, val, at, copied>>
        /\ pending = NONE /\ pending' = NONE /\ ~alloc /\ ~alloc'
    BY <1>4 DEF EraseFault, Manager, Running, weakVars, PendingOK
  <2>2. flash'[bankA] = flash[bankA] /\ flash'[bankB].seq = 0 /\ bankB' = bankB
    BY <1>4, <2>1, BankFacts DEF EraseFault, MediaOK, FlashType, bankB
  <2>3. BankAOK' /\ BankBOK' /\ HeaderOK'
    BY <2>1, <2>2 DEF StoreInv, BankAOK, BankBOK, HeaderOK
  <2>4. SequencesOK' /\ BootOK'
    BY <2>1, <2>2 DEF StoreInv, SequencesOK, BootOK
  <2> QED BY <2>3, <2>4 DEF StoreInv
<1>5. ASSUME RevertFault PROVE StoreInv'
  <2>1. /\ alloc /\ ~alloc' /\ UNCHANGED <<flash, bankA, header, weak, val, at, copied>> /\ bankB' = bankB
        /\ pending # NONE /\ Return("Erase") /\ pending' = (IF phase = "flush" THEN NONE ELSE pending)
    BY <1>5 DEF RevertFault, bankVars, weakVars, bankB
  <2>2. state' \in {"Erase", "Flush"} /\ (state' = "Flush" => pending' = NONE)
    BY <2>1 DEF Return
  <2>3. Running /\ Running'
    BY <2>1, <2>2 DEF Running, PendingOK
  <2>4. header = <<bankA, at[pending]>> /\ at[pending] # 0
    BY <2>1 DEF StoreInv, HeaderOK
  <2>5. BankAOK' /\ BankBOK'
    BY <2>1, <2>2, <2>3 DEF StoreInv, BankAOK, BankBOK
  <2>6. HeaderOK'
    BY <2>1, <2>2, <2>4 DEF HeaderOK
  <2>7. SequencesOK' /\ BootOK'
    BY <2>1, <2>3, NumbersKept
  <2> QED BY <2>5, <2>6, <2>7 DEF StoreInv
<1> QED BY <1>2, <1>3, <1>4, <1>5 DEF FaultStep

\* InvalidateEntry: the records it deletes are those of the references in S, also
\* when it aborts a copy or finds another record in work.
LEMMA InvalidateStore ==
    ASSUME TypeInv, StoreInv, NEW S \in SUBSET Id, Invalidate(S), Running,
           alloc => pending \notin S,
           Members(weak) \ S \subseteq Members(weak'),
           \A i \in Id \ S : val'[i] = val[i]
    PROVE  StoreInv'
<1> USE DEF TypeInv
<1> DEFINE D == {s \in 1..Slots : <<bankA, s>> \in Doomed(S)}
<1>1. /\ pending' = (IF pending \in S THEN NONE ELSE pending)
      /\ header' = (IF pending \in S THEN NoHeader ELSE header)
      /\ state' \in {state, "Flush", "Erase"}
      /\ state' = "Flush" <=> state \in {"Flush", "Idle"}
      /\ state' = "Erase" <=> state \in {"Erase", "Copy", "CopyBack", "Switch"}
      /\ state' \notin {"Copy", "CopyBack", "Switch", "Idle"}
      /\ bankA' = bankA /\ bankB' = bankB /\ alloc' = alloc /\ copied' = copied
      /\ \A i \in Id : at'[i] = IF i \in S THEN 0 ELSE at[i]
  BY InvalidateType DEF Invalidate, Aborts, bankB
<1>2. Running'
  BY <1>1 DEF Running
<1>3. /\ \A c \in Bank : flash'[c].seq = flash[c].seq
      /\ \A s \in 1..Slots : flash'[bankA].slot[s] = IF s \in D THEN Dead ELSE flash[bankA].slot[s]
  BY BankFacts DEF Invalidate, MediaOK, FlashType
<1>4. Holds(flash[bankA].slot, val, at) /\ \A j \in Id : at[j] # 0 => j \in Members(weak)
  BY DEF StoreInv, BankAOK
<1>5. val \in Objects /\ at \in Places /\ flash[bankA].slot \in Slot
  BY BankFacts DEF ReferencesOK, Objects, Places
<1>6. \A i \in Id : at[i] # 0 => /\ at[i] \in 1..Slots
                                 /\ flash[bankA].slot[at[i]].st = "good"
                                 /\ flash[bankA].slot[at[i]].id = i
  BY <1>4, <1>5, ConstantFacts, GoodFacts DEF Holds, Places
<1>7. ASSUME NEW s \in D, pending \notin S PROVE \E j \in S : at[j] # 0 /\ s = at[j]
  BY <1>7 DEF Doomed, Aborts
<1>8. ASSUME NEW s \in D, flash[bankA].slot[s].st = "good" PROVE flash[bankA].slot[s].id \in S
  <2>1. CASE \E j \in S : at[j] # 0 /\ s = at[j]
    BY <1>6, <2>1
  <2>2. CASE pending \in S /\ header = <<bankA, s>>
    <3>1. pending \in Id /\ pending # NONE /\ ~alloc /\ header[1] = bankA /\ header[2] = s
      BY <2>2, ConstantFacts
    <3>2. state \in {"Flush", "Copy", "Erase"}
      BY <3>1 DEF PendingOK
    <3>3. state = "Erase"
      BY <1>8, <3>1, <3>2, BankFacts, RecordFacts DEF StoreInv, HeaderOK
    <3>4. header = <<bankA, at[pending]>> /\ at[pending] # 0
      BY <3>1, <3>3, BankFacts DEF StoreInv, HeaderOK
    <3>5. s = at[pending]
      BY <2>2, <3>4
    <3> QED BY <1>6, <2>2, <3>1, <3>4, <3>5
  <2>3. <<bankA, s>> \in Doomed(S)
    OBVIOUS
  <2> QED BY <2>1, <2>2, <2>3 DEF Doomed, Aborts
<1>9. \A i \in S : at[i] # 0 => at[i] \in D
  BY <1>6 DEF Doomed
<1>10. Removal(flash[bankA].slot, val, at, S, D, flash'[bankA].slot, val', at')
  <2> HIDE DEF D
  <2> QED BY <1>1, <1>3, <1>8, <1>9 DEF Removal
<1>11. BankAOK'
  <2>1. Holds(flash'[bankA].slot, val', at')
    BY <1>4, <1>5, <1>10, HoldsRemove
  <2>2. ASSUME NEW i \in Id, at'[i] # 0 PROVE i \in Members(weak')
    BY <1>1, <1>4, <2>2
  <2> QED BY <1>1, <2>1, <2>2 DEF BankAOK
<1>12. BankBOK'
  BY <1>1 DEF StoreInv, BankBOK
<1>13. HeaderOK'
  <2>1. ASSUME pending' # NONE
        PROVE  /\ pending \notin S /\ pending' = pending /\ header' = header /\ pending \in Id
               /\ at'[pending] = at[pending] /\ pending # NONE
    BY <1>1, <2>1 DEF ManagerOK
  <2>2. ASSUME pending' # NONE, state' = "Flush"
        PROVE  /\ header'[1] = bankA /\ header'[2] \in 1..Slots
               /\ flash'[bankA].slot[header'[2]] = Open
               /\ at'[pending'] = 0
    <3>1. state = "Flush"
      BY <1>1, <2>1, <2>2 DEF PendingOK
    <3>2. /\ header[1] = bankA /\ header[2] \in 1..Slots
          /\ flash[bankA].slot[header[2]] = Open /\ at[pending] = 0
      BY <2>1, <2>2, <3>1 DEF StoreInv, HeaderOK
    <3>3. header[2] \notin D
      BY <1>6, <1>7, <2>1, <2>2, <3>2, RecordFacts
    <3> QED BY <1>3, <2>1, <2>2, <3>2, <3>3
  <2>3. ASSUME alloc'
        PROVE  pending' # NONE /\ header' = <<bankA, at'[pending']>> /\ at'[pending'] # 0
    <3>1. alloc /\ pending # NONE /\ header = <<bankA, at[pending]>> /\ at[pending] # 0
      BY <1>1, <2>3 DEF StoreInv, HeaderOK
    <3>2. pending' # NONE
      BY <1>1, <3>1
    <3> QED BY <2>1, <3>1, <3>2
  <2>4. ASSUME pending' # NONE, state' = "Erase"
        PROVE  header'[1] = bankB \/ (header' = <<bankA, at'[pending']>> /\ at'[pending'] # 0)
    <3>1. state \in {"Erase", "Copy", "CopyBack"}
      BY <1>1, <2>1, <2>4 DEF PendingOK
    <3>2. header[1] = bankB \/ (header = <<bankA, at[pending]>> /\ at[pending] # 0)
      <4>1. HeaderOK /\ pending # NONE /\ (state = "CopyBack" => alloc)
        BY <2>1, <2>4 DEF StoreInv, PendingOK
      <4> QED BY <3>1, <4>1 DEF HeaderOK
    <3> QED BY <2>1, <2>4, <3>2
  <2> QED BY <1>1, <2>2, <2>3, <2>4 DEF HeaderOK
<1>14. SequencesOK' /\ BootOK'
  BY <1>1, <1>2, <1>3, NumbersKept
<1> QED BY <1>11, <1>12, <1>13, <1>14 DEF StoreInv

LEMMA ProgramSteps ==
    ASSUME OneBlock, TypeInv, StoreInv, ProgramStep \/ CollectorStep \/ Reboot
    PROVE  StoreInv'
<1> USE DEF TypeInv
<1>1. ASSUME Running, UNCHANGED <<flash, bankA, state, pending, header, alloc, val, at, copied>>,
             Members(weak) \subseteq Members(weak')
      PROVE  StoreInv'
  <2>1. Running' /\ bankB' = bankB
    BY <1>1 DEF Running, bankB
  <2>2. BankAOK' /\ BankBOK' /\ HeaderOK'
    BY <1>1, <2>1 DEF StoreInv, BankAOK, BankBOK, HeaderOK
  <2>3. SequencesOK' /\ BootOK'
    BY <1>1, <2>1, NumbersKept
  <2> QED BY <2>2, <2>3 DEF StoreInv
<1>2. ASSUME Reboot PROVE StoreInv'
  BY <1>1, <1>2 DEF Reboot, Program, bankVars, managerVars, weakVars
<1>3. ASSUME NEW i \in Id, Recover(i) \/ PushBackIntoRecoverList(i) \/ Release(i) PROVE StoreInv'
  BY <1>1, <1>3 DEF Recover, PushBackIntoRecoverList, Release, Program, bankVars, managerVars
<1>4. ASSUME NEW i \in Id, weak' = InsertInPriorityOrder(weak, i)
      PROVE  Members(weak) \subseteq Members(weak')
  <2>1. Members(InsertInPriorityOrder(weak, i)) = Members(weak) \cup {i}
    BY InsertPriority DEF ReferencesOK
  <2> QED BY <1>4, <2>1
<1>5. ASSUME NEW i \in Id, Create(i) PROVE StoreInv'
  <2>1. Members(weak) \subseteq Members(weak')
    BY <1>4, <1>5 DEF Create
  <2> QED BY <1>1, <1>5, <2>1 DEF Create, Program, bankVars, managerVars
<1>6. ASSUME NEW i \in Id, NEW v \in Value \cup {NONE}, SetTarget(i, v) PROVE StoreInv'
  <2>1. Members(weak) \subseteq Members(weak')
    BY <1>4, <1>6 DEF SetTarget
  <2>2. CASE v = val[i]
    BY <1>1, <1>6, <2>1, <2>2 DEF SetTarget, Program, bankVars, managerVars
  <2>3. CASE v # val[i]
    <3>1. Running /\ ~alloc /\ Invalidate({i}) /\ val' = [val EXCEPT ![i] = v]
      BY <1>6, <2>3 DEF SetTarget, Program
    <3>2. \A j \in Id \ {i} : val'[j] = val[j]
      BY <3>1 DEF ReferencesOK
    <3>3. Members(weak) \ {i} \subseteq Members(weak')
      BY <2>1
    <3> QED BY <3>1, <3>2, <3>3, InvalidateStore
  <2> QED BY <2>2, <2>3
<1>7. ASSUME NEW i \in Id, MarkWeak(i) PROVE StoreInv'
  <2>1. /\ Running /\ Invalidate({i}) /\ val' = [val EXCEPT ![i] = NONE]
        /\ weak' = Unlink(weak, i) /\ (alloc => pending \notin {i})
    BY <1>7 DEF MarkWeak, Collector, OneBlock
  <2>2. \A j \in Id \ {i} : val'[j] = val[j]
    BY <2>1 DEF ReferencesOK
  <2>3. Members(weak) \ {i} \subseteq Members(weak')
    BY <2>1, UnlinkLemma DEF ReferencesOK
  <2> QED BY <2>1, <2>2, <2>3, InvalidateStore
<1>8. ASSUME NEW S \in SUBSET Id, Pressure(S) PROVE StoreInv'
  <2>1. /\ Running /\ Invalidate(S) /\ val' = [i \in Id |-> IF i \in S THEN NONE ELSE val[i]]
        /\ weak' = weak /\ (alloc => pending \notin S)
    BY <1>8 DEF Pressure, Collector, OneBlock
  <2>2. \A j \in Id \ S : val'[j] = val[j]
    BY <2>1
  <2>3. Members(weak) \ S \subseteq Members(weak')
    BY <2>1
  <2> QED BY <2>1, <2>2, <2>3, InvalidateStore
<1> QED BY <1>2, <1>3, <1>5, <1>6, <1>7, <1>8 DEF ProgramStep, CollectorStep

\* The bank Initialize would choose if the media were f.
ChosenOf(f) == IF f[2].seq # 0 /\ (f[1].seq = 0 \/ f[1].seq < f[2].seq) THEN 2 ELSE 1

\* It is the bank that has a number and no newer one beside it.
LEMMA ChosenNewer ==
    ASSUME NEW f \in FlashType, NEW b \in Bank, NEW c \in Bank, b # c,
           f[b].seq # 0, f[c].seq = 0 \/ f[c].seq < f[b].seq
    PROVE  ChosenOf(f) = b
<1>1. f[b].seq \in Nat /\ f[c].seq \in Nat
  BY ConstantFacts DEF FlashType
<1>2. CASE b = 1 /\ c = 2
  BY <1>1, <1>2 DEF ChosenOf
<1>3. CASE b = 2 /\ c = 1
  BY <1>1, <1>3 DEF ChosenOf
<1> QED BY <1>2, <1>3 DEF Bank

\* A power failure tears what is being written, and leaves what bank A holds.
LEMMA TornMedia ==
    ASSUME TypeInv, StoreInv, Running, ~Numberless, flash' \in Torn
    PROVE  /\ Holds(flash'[bankA].slot, val, at) /\ ChosenOf(flash') = bankA
           /\ flash'[bankA].seq \in 1..(Erased - 1) /\ flash'[bankB].seq \in 0..(Erased - 1)
           /\ flash'[bankA].seq # flash'[bankB].seq
<1> USE DEF TypeInv
<1>1. /\ flash[bankA].seq \in 1..(Erased - 1) /\ flash[bankB].seq \in 0..(Erased - 1)
      /\ flash[bankB].seq = 0 \/ flash[bankB].seq < flash[bankA].seq
      /\ Holds(flash[bankA].slot, val, at)
  BY BankFacts, ConstantFacts DEF StoreInv, SequencesOK, Numberless, BankAOK
<1>2. /\ flash'[bankA].seq = flash[bankA].seq /\ flash'[bankB].seq \in {0, flash[bankB].seq}
      /\ Holds(flash'[bankA].slot, val, at)
  <2>1. CASE flash' = flash
    BY <1>1, <2>1
  <2>2. CASE HasRoom(bankA) /\ flash' = Put(bankA, Current(bankA), Dead)
    <3>1. Current(bankA) \in 1..Slots /\ flash[bankA].slot[Current(bankA)].st # "good"
      BY <2>2, CurrentLemma, RecordFacts DEF MediaOK
    <3> QED BY <1>1, <2>2, <3>1, GiveUp, BankFacts
  <2>3. CASE flash' = [flash EXCEPT ![bankB] =
                          [seq |-> 0, slot |-> Erase(flash[bankB].slot, eraseIndex)]]
    BY <1>1, <2>3, BankFacts DEF MediaOK, FlashType
  <2> QED BY <2>1, <2>2, <2>3 DEF Torn
<1>3. flash' \in FlashType
  BY TornType
<1>4. /\ flash'[bankA].seq # 0
      /\ flash'[bankB].seq = 0 \/ flash'[bankB].seq < flash'[bankA].seq
  BY <1>1, <1>2
<1>5. ChosenOf(flash') = bankA
  BY <1>3, <1>4, ChosenNewer, BankFacts
<1> QED BY <1>1, <1>2, <1>4, <1>5, ConstantFacts

LEMMA ResetStep ==
    ASSUME OneBlock, TypeInv, StoreInv, Reset
    PROVE  StoreInv'
<1> USE DEF TypeInv
<1>1. /\ state' = "Boot" /\ ~Running' /\ pending' = NONE /\ ~alloc' /\ flash' \in Torn
      /\ \A i \in Id : at'[i] = 0 /\ copied'[i] = 0
  BY DEF Reset, Running
<1>2. ~Numberless
  BY DEF Reset, PowerMayFail, OneBlock
<1>3. 1 \in Bank /\ 2 \in Bank
  BY DEF Bank
<1>4. /\ flash'[1].seq # Erased /\ flash'[2].seq # Erased
      /\ flash'[1].seq = flash'[2].seq => flash'[1].seq = 0
      /\ Distinct(flash'[ChosenOf(flash')].slot)
      /\ flash'[ChosenOf(flash')].seq = 0 => \A s \in 1..Slots : flash'[1].slot[s].st # "good"
  <2>1. CASE state = "Boot"
    <3>1. flash' = flash
      BY <1>1, <2>1 DEF Torn
    <3>2. Chosen = ChosenOf(flash)
      BY DEF Chosen, ChosenOf, BankIsGood
    <3> QED BY <2>1, <3>1, <3>2 DEF StoreInv, BootOK, BankIsGood
  <2>2. CASE state = "Format"
    BY <1>2, <1>3, <2>2 DEF StoreInv, BootOK, Numberless
  <2>3. CASE Running
    <3>1. /\ Holds(flash'[bankA].slot, val, at) /\ ChosenOf(flash') = bankA
          /\ flash'[bankA].seq \in 1..(Erased - 1) /\ flash'[bankB].seq \in 0..(Erased - 1)
          /\ flash'[bankA].seq # flash'[bankB].seq
      BY <1>1, <1>2, <2>3, TornMedia
    <3>2. Distinct(flash'[bankA].slot)
      BY <3>1 DEF Holds, Distinct
    <3>3. (bankA = 1 /\ bankB = 2) \/ (bankA = 2 /\ bankB = 1)
      BY DEF MediaOK, Bank, bankB
    <3>4. flash'[bankA].seq # 0 /\ flash'[bankA].seq # Erased /\ flash'[bankB].seq # Erased
      BY <3>1, ConstantFacts
    <3> QED BY <3>1, <3>2, <3>3, <3>4
  <2> QED BY <2>1, <2>2, <2>3 DEF Running
<1>5. Chosen' = ChosenOf(flash') /\ (BankIsGood(Chosen)' <=> flash'[ChosenOf(flash')].seq # 0)
  BY DEF Chosen, ChosenOf, BankIsGood
<1>6. BootOK'
  BY <1>1, <1>4, <1>5 DEF BootOK
<1> QED BY <1>1, <1>6 DEF StoreInv, BankAOK, BankBOK, HeaderOK, SequencesOK

LEMMA BootSteps ==
    ASSUME TypeInv, StoreInv, BootStep
    PROVE  StoreInv'
<1> USE DEF TypeInv
<1>1. ~Running /\ pending = NONE /\ pending' = NONE /\ ~alloc /\ alloc' = alloc /\ Chosen \in Bank
  BY DEF BootStep, Initialize, Format, SetFirstSequence, Running, PendingOK, Chosen, Bank
<1>2. (\A i \in Id : at[i] = 0 /\ copied[i] = 0) /\ 1 \in Bank /\ 2 \in Bank
  BY <1>1 DEF StoreInv, BootOK, Bank
<1>3. flash[1].seq \in Nat /\ flash[2].seq \in Nat /\ flash[1].seq <= Erased /\ flash[2].seq <= Erased
  BY <1>2, ConstantFacts DEF MediaOK, FlashType
<1>4. ASSUME Initialize PROVE StoreInv'
  <2> DEFINE b == Chosen
             f == flash[b].slot
  <2>1. /\ state = "Boot" /\ BankIsGood(b) /\ state' = "Flush" /\ Running' /\ bankA' = b
        /\ flash' = flash /\ weak' = Restored(b) /\ (\A i \in Id : at'[i] = SlotOf(b, i))
        /\ \A i \in Id : SlotOf(b, i) # 0 => val'[i] = f[SlotOf(b, i)].val
    BY <1>4 DEF Initialize, Running, Stored
  <2>2. Distinct(f) /\ f \in Slot
    BY <1>1, <2>1 DEF StoreInv, BootOK, MediaOK, FlashType, Slot
  <2>3. ASSUME NEW i \in Id, at'[i] # 0
        PROVE  /\ val'[i] \in Value /\ f[at'[i]] = Good(i, val'[i])
               /\ i \in Members(weak')
    <3>1. SlotOf(b, i) \in Live(b) /\ f[SlotOf(b, i)].id = i /\ at'[i] = SlotOf(b, i)
      BY <1>1, <2>1, <2>3, SlotOfLemma DEF MediaOK
    <3>2. i \in Members(Restored(b))
      BY <1>1, <3>1, RestoredLemma DEF MediaOK, ReferencesOK
    <3> QED BY <1>1, <2>1, <3>1, <3>2, LiveRecord DEF MediaOK
  <2>4. ASSUME NEW s \in 1..Slots, f[s].st = "good" PROVE at'[f[s].id] = s
    <3> DEFINE i == f[s].id
               t == SlotOf(b, i)
    <3>1. i \in Id /\ s \in Live(b)
      BY <2>2, <2>4, GoodRecord DEF Live
    <3>2. t \in Live(b) /\ f[t].id = i
      BY <1>1, <3>1, SlotOfLemma DEF MediaOK
    <3>3. t = s
      BY <2>2, <2>4, <3>2 DEF Distinct, Live
    <3> QED BY <2>1, <3>1, <3>3
  <2>5. Holds(f, val', at')
    BY <2>3, <2>4 DEF Holds
  <2>6. BankAOK' /\ BankBOK' /\ HeaderOK'
    BY <1>1, <2>1, <2>3, <2>5 DEF BankAOK, BankBOK, HeaderOK
  <2>7. SequencesOK'
    <3>1. /\ flash[1].seq # Erased /\ flash[2].seq # Erased
          /\ flash[1].seq = flash[2].seq => flash[1].seq = 0
      BY <2>1 DEF StoreInv, BootOK
    <3>4. flash[Chosen].seq # 0
      BY <2>1 DEF BankIsGood
    <3>2. CASE b = 1
      <4>1. bankB' = 2
        BY <2>1, <3>2 DEF bankB
      <4>2. flash[1].seq # 0 /\ (flash[2].seq = 0 \/ ~(flash[1].seq < flash[2].seq))
        BY <3>2, <3>4 DEF Chosen, BankIsGood
      <4>3. flash[1].seq \in 1..(Erased - 1) /\ (flash[2].seq = 0 \/ flash[2].seq < flash[1].seq)
        BY <1>3, <3>1, <4>2, ConstantFacts
      <4> QED BY <2>1, <3>2, <4>1, <4>3 DEF SequencesOK
    <3>3. CASE b = 2
      <4>1. bankB' = 1
        BY <2>1, <3>3 DEF bankB
      <4>2. flash[2].seq # 0 /\ (flash[1].seq = 0 \/ flash[1].seq < flash[2].seq)
        BY <3>3, <3>4 DEF Chosen, BankIsGood
      <4>3. flash[2].seq \in 1..(Erased - 1)
        BY <1>3, <3>1, <4>2, ConstantFacts
      <4> QED BY <2>1, <3>3, <4>1, <4>2, <4>3 DEF SequencesOK
    <3> QED BY <1>1, <3>2, <3>3 DEF Bank
  <2>8. BootOK'
    BY <2>1 DEF BootOK, Running
  <2> QED BY <2>6, <2>7, <2>8 DEF StoreInv
<1>5. ASSUME Format PROVE StoreInv'
  <2>1. /\ state = "Boot" /\ ~BankIsGood(Chosen) /\ state' = "Format" /\ ~Running' /\ bankA' = 1
        /\ UNCHANGED <<at, copied>>
    BY <1>5 DEF Format, Running, weakVars
  <2>2. flash'[1].seq = Erased /\ flash'[2] = flash[2] /\ \A s \in 1..Slots : flash'[1].slot[s] = Free
    BY <1>2, <1>5 DEF Format, MediaOK, FlashType
  <2>3. flash[2].seq = 0
    BY <2>1 DEF Chosen, BankIsGood
  <2>4. BootOK'
    BY <1>2, <2>1, <2>2, <2>3, RecordFacts DEF BootOK
  <2> QED BY <1>1, <2>1, <2>4 DEF StoreInv, BankAOK, BankBOK, HeaderOK, SequencesOK
<1>6. ASSUME SetFirstSequence PROVE StoreInv'
  <2>1. /\ state = "Format" /\ state' = "Flush" /\ Running' /\ bankA = 1 /\ bankA' = 1 /\ bankB' = 2
        /\ flash[2].seq = 0 /\ (\A s \in 1..Slots : flash[1].slot[s].st # "good")
        /\ UNCHANGED <<weak, val, at, copied>>
    BY <1>6 DEF SetFirstSequence, Running, weakVars, StoreInv, BootOK, bankB
  <2>2. flash'[1].seq = 1 /\ flash'[2] = flash[2] /\ flash'[1].slot = flash[1].slot
    BY <1>2, <1>6 DEF SetFirstSequence, MediaOK, FlashType
  <2>3. Holds(flash'[1].slot, val, at)
    BY <1>2, <2>1, <2>2 DEF Holds
  <2>4. BankAOK' /\ BankBOK' /\ HeaderOK'
    BY <1>1, <1>2, <2>1, <2>3 DEF BankAOK, BankBOK, HeaderOK
  <2>5. SequencesOK' /\ BootOK'
    BY <2>1, <2>2, ConstantFacts DEF SequencesOK, BootOK, Running
  <2> QED BY <2>4, <2>5 DEF StoreInv
<1> QED BY <1>4, <1>5, <1>6 DEF BootStep

LEMMA StoreStep == OneBlock /\ TypeInv /\ StoreInv /\ NoWrap' /\ [Next]_vars => StoreInv'
<1> SUFFICES ASSUME OneBlock, TypeInv, StoreInv, NoWrap', [Next]_vars PROVE StoreInv'
  OBVIOUS
<1>1. CASE UNCHANGED vars
  <2>1. UNCHANGED <<flash, bankA, state, pending, header, alloc, weak, val, at, copied>>
    BY <1>1 DEF vars, bankVars, managerVars, weakVars
  <2>2. UNCHANGED <<bankB, Running, Chosen>> /\ BankIsGood(Chosen)' = BankIsGood(Chosen)
    BY <2>1 DEF bankB, Running, Chosen, BankIsGood
  <2> QED BY <2>1, <2>2 DEF StoreInv, BankAOK, BankBOK, HeaderOK, SequencesOK, BootOK
<1>2. CASE ManagerStep
  BY <1>2, FlushSteps, EraseSteps, CopySteps, RevertSteps, SwitchStep DEF ManagerStep
<1>3. CASE FaultStep
  BY <1>3, FaultSteps
<1>4. CASE ProgramStep \/ CollectorStep \/ Reboot
  BY <1>4, ProgramSteps
<1>5. CASE Reset \/ BootStep
  BY <1>5, ResetStep, BootSteps
<1> QED BY <1>1, <1>2, <1>3, <1>4, <1>5 DEF Next

\* The invariant gives the property.
LEMMA StoreDurable == OneBlock /\ TypeInv /\ StoreInv => Durable /\ HeaderSurvivesAllocation
<1> SUFFICES ASSUME OneBlock, TypeInv, StoreInv PROVE Durable /\ HeaderSurvivesAllocation
  OBVIOUS
<1>1. HeaderSurvivesAllocation
  BY DEF StoreInv, HeaderOK, HeaderSurvivesAllocation
<1>2. val \in Objects /\ at \in Places /\ flash \in FlashType /\ MediaOK
  BY DEF TypeInv, MediaOK, ReferencesOK, Objects, Places
<1>3. ASSUME Running
      PROVE  /\ Stored(bankA) = [i \in Id |-> IF at[i] # 0 THEN val[i] ELSE NONE]
             /\ \A s, t \in Live(bankA) : flash[bankA].slot[s].id = flash[bankA].slot[t].id => s = t
  <2>1. Holds(flash[bankA].slot, val, at) /\ bankA \in Bank
    BY <1>2, <1>3, BankFacts DEF StoreInv, BankAOK
  <2> QED BY <1>2, <2>1, HoldsStored
<1>4. ASSUME Running, PowerMayFail PROVE Chosen = bankA
  BY <1>2, <1>4, ChosenBank DEF StoreInv, OneBlock, PowerMayFail
<1> QED BY <1>1, <1>3, <1>4 DEF Durable

\* With banks of one erase block, and if the sequence numbers do not wrap, what
\* Initialize would find is at any time exactly what is marked persisted; neither
\* faults, aborted copies, garbage collections nor resets lose or revive a record.
THEOREM NothingLostOrRevived == OneBlock => (Spec /\ []NoWrap => []Durable)
<1> SUFFICES ASSUME OneBlock PROVE Spec /\ []NoWrap => []Durable
  OBVIOUS
<1>1. Init => TypeInv /\ StoreInv
  BY InitTypes, InitStore
<1>2. TypeInv /\ StoreInv /\ NoWrap' /\ [Next]_vars => (TypeInv /\ StoreInv)'
  BY TypeStep, StoreStep
<1>3. TypeInv /\ StoreInv => Durable
  BY StoreDurable
<1> QED BY <1>1, <1>2, <1>3, PTL DEF Spec

\* Under the same assumptions CopyBackToRam deletes the record it set out with,
\* whatever the collector did in its allocation.
THEOREM HeaderSurvives == OneBlock => (Spec /\ []NoWrap => []HeaderSurvivesAllocation)
<1> SUFFICES ASSUME OneBlock PROVE Spec /\ []NoWrap => []HeaderSurvivesAllocation
  OBVIOUS
<1>1. Init => TypeInv /\ StoreInv
  BY InitTypes, InitStore
<1>2. TypeInv /\ StoreInv /\ NoWrap' /\ [Next]_vars => (TypeInv /\ StoreInv)'
  BY TypeStep, StoreStep
<1>3. TypeInv /\ StoreInv => HeaderSurvivesAllocation
  BY StoreDurable
<1> QED BY <1>1, <1>2, <1>3, PTL DEF Spec

-----------------------------------------------------------------------------
(* Refinement of DurableStore *)

Persisted == [i \in Id |-> IF at[i] # 0 THEN val[i] ELSE NONE]
Nothing == [i \in Id |-> NONE]

\* Whatever objects and places a bank holds, those are the ones that are found.
Finds ==
    \A b \in Bank : \A v \in Objects : \A p \in Places :
        Holds(flash[b].slot, v, p) => Stored(b) = [i \in Id |-> IF p[i] # 0 THEN v[i] ELSE NONE]

\* The abstract state, as the places of the objects give it.
View ==
    /\ Running => storedNow = Persisted /\ cacheNow = val
    /\ state = "Boot" => storedNow = Stored(Chosen)
    /\ state = "Format" \/ (state = "Boot" /\ ~BankIsGood(Chosen)) =>
          storedNow = Nothing /\ cacheNow = val
    /\ Finds

LEMMA ViewLemma == TypeInv /\ StoreInv => View
<1> SUFFICES ASSUME TypeInv, StoreInv PROVE View
  OBVIOUS
<1>1. val \in Objects /\ at \in Places /\ flash \in FlashType /\ MediaOK
  BY DEF TypeInv, MediaOK, ReferencesOK, Objects, Places
<1>2. Finds
  BY <1>1, HoldsStored DEF Finds
<1>3. ASSUME Running PROVE storedNow = Persisted /\ cacheNow = val
  <2>1. Holds(flash[bankA].slot, val, at) /\ bankA \in Bank
    BY <1>1, <1>3, BankFacts DEF StoreInv, BankAOK
  <2>2. Stored(bankA) = Persisted
    BY <1>1, <1>2, <2>1 DEF Finds, Persisted
  <2> QED BY <1>3, <2>2 DEF storedNow, cacheNow, Running
<1>4. ASSUME state = "Format" \/ (state = "Boot" /\ ~BankIsGood(Chosen))
      PROVE  storedNow = Nothing /\ cacheNow = val
  <2>1. Chosen = 1 /\ 1 \in Bank /\ \A s \in 1..Slots : flash[1].slot[s].st # "good"
    BY <1>4, ConstantFacts DEF StoreInv, BootOK, Chosen, BankIsGood, Bank
  <2> DEFINE p == [i \in Id |-> 0]
  <2>2. p \in Places /\ Holds(flash[1].slot, val, p)
    BY <2>1, ConstantFacts DEF Holds, Places
  <2>3. Stored(1) = [i \in Id |-> IF p[i] # 0 THEN val[i] ELSE NONE]
    BY <1>1, <1>2, <2>1, <2>2 DEF Finds
  <2>4. Stored(1) = Nothing
    BY <2>3 DEF Nothing
  <2> QED BY <1>4, <2>1, <2>4 DEF storedNow, cacheNow, Running
<1>5. state = "Boot" => storedNow = Stored(Chosen)
  BY DEF storedNow, Running
<1> QED BY <1>2, <1>3, <1>4, <1>5 DEF View

\* Steps that leave objects and places alone, but for the switch, which moves them.
LEMMA QuietSteps ==
    ASSUME TypeInv, StoreInv, View, View', Running, Running', val' = val,
           \A i \in Id : at'[i] # 0 <=> at[i] # 0
    PROVE  UNCHANGED Store!vars
<1>1. Persisted' = Persisted
  BY DEF Persisted
<1>2. /\ storedNow = Persisted /\ cacheNow = val
      /\ storedNow' = Persisted' /\ cacheNow' = val'
  BY DEF View
<1> QED BY <1>1, <1>2 DEF Store!vars

\* InvalidateEntry forgets the object.
LEMMA ForgetSteps ==
    ASSUME TypeInv, View, View', Running, Running', NEW S \in SUBSET Id, Invalidate(S),
           \A i \in Id \ S : val'[i] = val[i], \A i \in S : val'[i] = NONE,
           val' \in Objects
    PROVE  Store!Forget(S)
<1>1. \A i \in Id : at'[i] = IF i \in S THEN 0 ELSE at[i]
  BY DEF Invalidate
<1>2. /\ storedNow = Persisted /\ cacheNow = val
      /\ storedNow' = Persisted' /\ cacheNow' = val'
  BY DEF View
<1>3. Persisted' = [i \in Id |-> IF i \in S THEN NONE ELSE Persisted[i]]
  BY <1>1 DEF Persisted
<1>4. val' = [i \in Id |-> IF i \in S THEN NONE ELSE val[i]]
  BY DEF Objects
<1> QED BY <1>2, <1>3, <1>4 DEF Store!Forget

LEMMA RunningSteps ==
    ASSUME TypeInv, TypeInv', StoreInv, View, View', 
           ManagerStep \/ FaultStep \/ ProgramStep \/ CollectorStep \/ Reboot
    PROVE  [Store!Next]_Store!vars
<1> USE DEF TypeInv
<1>0. val \in Objects /\ at \in Places /\ val' \in Objects /\ at' \in Places
  BY DEF ReferencesOK, Objects, Places
<1>1. ASSUME Running, Running', UNCHANGED <<val, at>> PROVE UNCHANGED Store!vars
  BY <1>1, QuietSteps
<1>2. ASSUME \/ FlushHeader \/ FlushFull \/ FlushDone \/ Idle \/ StartErase \/ EraseSector
             \/ CopyHeader \/ CopyData \/ CopyDone \/ RevertStart \/ RevertDone
      PROVE  UNCHANGED Store!vars
  <2>1. UNCHANGED <<val, at>> /\ Running
    BY <1>2 DEF FlushHeader, FlushFull, FlushDone, Idle, StartErase, EraseSector, CopyHeader,
                CopyData, CopyDone, RevertStart, RevertDone, weakVars, Running
  <2>2. Running'
    BY <1>2 DEF FlushHeader, FlushFull, FlushDone, Idle, StartErase, EraseSector, CopyHeader,
                CopyData, CopyDone, RevertStart, RevertDone, Return, Running
  <2> QED BY <1>1, <2>1, <2>2
<1>3. ASSUME FaultStep PROVE UNCHANGED Store!vars
  <2>1. UNCHANGED <<val, at>> /\ Running
    BY <1>3 DEF FaultStep, HeaderFault, DataFault, EraseFault, RevertFault, weakVars, Running, PendingOK
  <2>2. Running'
    BY <1>3, <2>1 DEF FaultStep, HeaderFault, DataFault, EraseFault, RevertFault, managerVars, Return, Running
  <2> QED BY <1>1, <2>1, <2>2
<1>4. ASSUME FlushData PROVE \E i \in Id : Store!Save(i)
  <2>1. /\ Running /\ Running' /\ pending \in Id /\ at' = [at EXCEPT ![pending] = header[2]]
        /\ val' = val /\ header[2] # 0
    BY <1>4, ConstantFacts DEF FlushData, Running, ManagerOK, StoreInv, HeaderOK
  <2>2. Persisted' = [Persisted EXCEPT ![pending] = val[pending]]
    BY <1>0, <2>1 DEF Persisted, Places
  <2>3. /\ storedNow = Persisted /\ cacheNow = val /\ storedNow' = Persisted' /\ cacheNow' = val'
    BY <2>1 DEF View
  <2>4. Store!Save(pending)
    BY <2>1, <2>2, <2>3 DEF Store!Save
  <2> QED BY <2>1, <2>4
<1>5. ASSUME Revert PROVE \E i \in Id : Store!Withdraw(i)
  <2>1. /\ Running /\ Running' /\ pending \in Id /\ at' = [at EXCEPT ![pending] = 0] /\ val' = val
    BY <1>5 DEF Revert, Running, ManagerOK, PendingOK
  <2>2. Persisted' = [Persisted EXCEPT ![pending] = NONE]
    BY <1>0, <2>1 DEF Persisted, Places
  <2>3. /\ storedNow = Persisted /\ cacheNow = val /\ storedNow' = Persisted' /\ cacheNow' = val'
    BY <2>1 DEF View
  <2>4. Store!Withdraw(pending)
    BY <2>1, <2>2, <2>3 DEF Store!Withdraw
  <2> QED BY <2>1, <2>4
<1>6. ASSUME SwitchBank PROVE UNCHANGED Store!vars
  <2>1. Running /\ Running' /\ val' = val /\ \A i \in Id : at'[i] = IF copied[i] # 0 THEN copied[i] ELSE at[i]
    BY <1>6 DEF SwitchBank, Running
  <2>2. \A i \in Id : copied[i] # 0 => at[i] # 0
    BY <1>6 DEF SwitchBank, StoreInv, BankBOK
  <2> QED BY <2>1, <2>2, QuietSteps
<1>7. ASSUME Reboot PROVE UNCHANGED Store!vars
  BY <1>1, <1>7 DEF Reboot, Program, Running, managerVars, weakVars
<1>8. ASSUME NEW S \in SUBSET Id, Invalidate(S), Running PROVE Running'
  BY <1>8 DEF Invalidate, AfterInvalidate, Running
<1>9. ASSUME NEW i \in Id, MarkWeak(i) PROVE \E S \in SUBSET Id : Store!Forget(S)
  <2>1. Running /\ Invalidate({i}) /\ val' = [val EXCEPT ![i] = NONE]
    BY <1>9 DEF MarkWeak, Collector
  <2>2. (\A j \in Id \ {i} : val'[j] = val[j]) /\ \A j \in {i} : val'[j] = NONE
    BY <1>0, <2>1 DEF Objects
  <2>3. Store!Forget({i})
    BY <1>0, <1>8, <2>1, <2>2, ForgetSteps
  <2> QED BY <2>3
<1>10. ASSUME NEW S \in SUBSET Id, Pressure(S) PROVE Store!Forget(S)
  <2>1. Running /\ Invalidate(S) /\ val' = [i \in Id |-> IF i \in S THEN NONE ELSE val[i]]
    BY <1>10 DEF Pressure, Collector
  <2>2. (\A j \in Id \ S : val'[j] = val[j]) /\ \A j \in S : val'[j] = NONE
    BY <2>1
  <2> QED BY <1>0, <1>8, <2>1, <2>2, ForgetSteps
<1>11. ASSUME NEW i \in Id, NEW v \in Value \cup {NONE}, SetTarget(i, v)
       PROVE  UNCHANGED Store!vars \/ (v \in Value /\ Store!Put(i, v)) \/ Store!Forget({i})
  <2>1. CASE v = val[i]
    <3>1. Running /\ Running' /\ UNCHANGED <<val, at>>
      BY <1>11, <2>1 DEF SetTarget, Program, Running, managerVars
    <3> QED BY <1>1, <3>1
  <2>2. CASE v # val[i]
    <3>1. Running /\ Invalidate({i}) /\ val' = [val EXCEPT ![i] = v] /\ Running'
      BY <1>8, <1>11, <2>2 DEF SetTarget, Program
    <3>2. CASE v = NONE
      <4>1. (\A j \in Id \ {i} : val'[j] = val[j]) /\ \A j \in {i} : val'[j] = NONE
        BY <1>0, <3>1, <3>2 DEF Objects
      <4> QED BY <1>0, <3>1, <4>1, ForgetSteps
    <3>3. CASE v \in Value
      <4>1. \A j \in Id : at'[j] = IF j = i THEN 0 ELSE at[j]
        BY <3>1 DEF Invalidate
      <4>2. Persisted' = [Persisted EXCEPT ![i] = NONE]
        BY <1>0, <3>1, <4>1 DEF Persisted, Objects
      <4>3. /\ storedNow = Persisted /\ cacheNow = val /\ storedNow' = Persisted' /\ cacheNow' = val'
        BY <3>1 DEF View
      <4>4. Store!Put(i, v)
        BY <3>1, <4>2, <4>3 DEF Store!Put
      <4> QED BY <3>3, <4>4
    <3> QED BY <3>2, <3>3
  <2> QED BY <2>1, <2>2
<1>12. ASSUME ProgramStep PROVE [Store!Next]_Store!vars
  <2>1. PICK i \in Id : \/ Recover(i) \/ Create(i) \/ PushBackIntoRecoverList(i) \/ Release(i)
                       \/ \E v \in Value \cup {NONE} : SetTarget(i, v)
    BY <1>12 DEF ProgramStep
  <2>2. CASE Recover(i) \/ Create(i) \/ PushBackIntoRecoverList(i) \/ Release(i)
    <3>1. Running /\ Running' /\ UNCHANGED <<val, at>>
      BY <2>2 DEF Recover, Create, PushBackIntoRecoverList, Release, Program, Running, managerVars
    <3> QED BY <1>1, <3>1
  <2>3. CASE \E v \in Value \cup {NONE} : SetTarget(i, v)
    BY <1>11, <2>3 DEF Store!Next
  <2> QED BY <2>1, <2>2, <2>3
<1>13. ASSUME CollectorStep PROVE Store!Next
  BY <1>9, <1>10, <1>13 DEF CollectorStep, Store!Next
<1>14. ASSUME ManagerStep PROVE [Store!Next]_Store!vars
  BY <1>2, <1>4, <1>5, <1>6, <1>14 DEF ManagerStep, Store!Next
<1> QED BY <1>3, <1>7, <1>12, <1>13, <1>14

LEMMA ResetRefines ==
    ASSUME OneBlock, TypeInv, TypeInv', StoreInv, StoreInv', View, View', Reset
    PROVE  \E S \in SUBSET Id : Store!Reset(S)
<1> USE DEF TypeInv
<1>1. /\ state' = "Boot" /\ flash' \in Torn /\ ~Numberless /\ ~Running'
      /\ \E S \in SUBSET {i \in Members(weak) : Unsaved(i)} :
            val' = [i \in Id |-> IF i \in S THEN val[i] ELSE NONE]
  BY DEF Reset, PowerMayFail, OneBlock, Running
<1>2. PICK S \in SUBSET Id : val' = [i \in Id |-> IF i \in S THEN val[i] ELSE NONE]
  BY <1>1, MembersLemma DEF ReferencesOK
<1>3. /\ Chosen = ChosenOf(flash) /\ Chosen' = ChosenOf(flash') /\ storedNow' = Stored(Chosen)'
      /\ BankIsGood(Chosen)' <=> flash'[ChosenOf(flash')].seq # 0
  BY <1>1 DEF Chosen, ChosenOf, BankIsGood, View
<1>4. storedNow' = storedNow
  <2>1. CASE Running
    <3>1. Holds(flash'[bankA].slot, val, at) /\ Chosen' = bankA /\ bankA \in Bank
      BY <1>1, <1>3, <2>1, TornMedia, BankFacts
    <3>2. val \in Objects /\ at \in Places
      BY DEF ReferencesOK, Objects, Places
    <3>3. Finds'
      BY DEF View
    <3>4. Stored(Chosen)' = Persisted
      <4>1. \A b \in Bank : Holds(flash'[b].slot, val, at) => Stored(b)' = Persisted
        BY <3>2, <3>3 DEF Finds, Persisted
      <4>2. \A b \in Bank : b = Chosen' => Stored(Chosen)' = Stored(b)'
        BY DEF Stored, SlotOf, Live
      <4> QED BY <3>1, <4>1, <4>2
    <3> QED BY <1>3, <2>1, <3>4 DEF View
  <2>2. CASE state = "Boot"
    <3>1. flash' = flash
      BY <1>1, <2>2 DEF Torn
    <3>2. Stored(Chosen)' = Stored(Chosen)
      BY <3>1 DEF Stored, SlotOf, Live, Chosen, BankIsGood
    <3> QED BY <1>3, <2>2, <3>2 DEF View
  <2>3. CASE state = "Format"
    BY <1>1, <2>3 DEF StoreInv, BootOK, Numberless, Bank
  <2> QED BY <2>1, <2>2, <2>3 DEF Running
<1>5. ASSUME NEW i \in Id, storedNow[i] = NONE PROVE cacheNow[i] = val[i]
  <2>1. CASE state = "Boot" /\ BankIsGood(Chosen)
    <3>1. cacheNow[i] = IF Stored(Chosen)[i] # NONE THEN Stored(Chosen)[i] ELSE val[i]
      BY <2>1 DEF cacheNow
    <3>2. Stored(Chosen)[i] = NONE
      BY <1>5, <2>1 DEF View
    <3> QED BY <3>1, <3>2
  <2>2. CASE ~(state = "Boot" /\ BankIsGood(Chosen))
    BY <2>2 DEF cacheNow
  <2> QED BY <2>1, <2>2
<1>6. cacheNow' = [i \in Id |-> IF storedNow'[i] # NONE THEN storedNow'[i] ELSE val'[i]]
  <2>1. CASE BankIsGood(Chosen)'
    <3>1. cacheNow' = [i \in Id |-> IF Stored(Chosen)'[i] # NONE THEN Stored(Chosen)'[i] ELSE val'[i]]
      BY <1>1, <2>1 DEF cacheNow
    <3> QED BY <1>3, <3>1
  <2>2. CASE ~BankIsGood(Chosen)'
    <3>1. storedNow' = Nothing /\ cacheNow' = val'
      BY <1>1, <2>2 DEF View, Nothing
    <3> QED BY <1>2, <3>1 DEF Nothing
  <2> QED BY <2>1, <2>2
<1>7. cacheNow' = [i \in Id |-> IF storedNow[i] # NONE THEN storedNow[i]
                                ELSE IF i \in S THEN cacheNow[i] ELSE NONE]
  BY <1>2, <1>4, <1>5, <1>6
<1>8. Store!Reset(S)
  BY <1>4, <1>7 DEF Store!Reset
<1> QED BY <1>8

\* While the program sees nothing yet, Initialize only moves the objects to where
\* it will see them.
LEMMA BootRefines ==
    ASSUME TypeInv, StoreInv, View, View', BootStep
    PROVE  UNCHANGED Store!vars
<1> USE DEF TypeInv
<1>1. Chosen \in Bank /\ flash \in FlashType
  BY DEF Chosen, Bank, MediaOK
<1>2. ASSUME Initialize PROVE UNCHANGED Store!vars
  <2> DEFINE b == Chosen
  <2>1. /\ state = "Boot" /\ BankIsGood(b) /\ Running' /\ state' = "Flush" /\ bankA' = b /\ flash' = flash
        /\ val' = [i \in Id |-> IF SlotOf(b, i) # 0 THEN Stored(b)[i] ELSE val[i]]
    BY <1>2 DEF Initialize, Running
  <2>2. storedNow' = storedNow
    <3>1. storedNow' = Stored(bankA)' /\ storedNow = Stored(b)
      BY <2>1 DEF storedNow, View
    <3>2. Stored(bankA)' = Stored(b)
      <4>1. bankA' = b /\ flash' = flash
        BY <2>1
      <4>2. Live(bankA)' = Live(b)
        BY <4>1 DEF Live
      <4>3. \A i \in Id : SlotOf(bankA, i)' = SlotOf(b, i)
        BY <4>1, <4>2 DEF SlotOf
      <4> QED BY <4>1, <4>3 DEF Stored
    <3> QED BY <3>1, <3>2
  <2>3. \A i \in Id : SlotOf(b, i) # 0 <=> Stored(b)[i] # NONE
    <3>1. TAKE i \in Id
    <3>2. CASE SlotOf(b, i) = 0
      BY <3>1, <3>2 DEF Stored
    <3>3. CASE SlotOf(b, i) # 0
      <4>1. SlotOf(b, i) \in Live(b)
        BY <1>1, <3>1, <3>3, SlotOfLemma
      <4>2. flash[b].slot[SlotOf(b, i)].val \in Value
        BY <1>1, <4>1, LiveRecord
      <4> QED BY <3>1, <3>3, <4>2, ConstantFacts DEF Stored
    <3> QED BY <3>2, <3>3
  <2>4. cacheNow = [i \in Id |-> IF Stored(b)[i] # NONE THEN Stored(b)[i] ELSE val[i]]
    BY <2>1 DEF cacheNow
  <2>5. cacheNow' = val'
    BY <2>1 DEF cacheNow
  <2>6. cacheNow' = cacheNow
    <3> HIDE DEF b
    <3> QED BY <2>1, <2>3, <2>4, <2>5
  <2> QED BY <2>2, <2>6 DEF Store!vars
<1>3. ASSUME Format PROVE UNCHANGED Store!vars
  BY <1>3 DEF Format, weakVars, View, Nothing, Store!vars
<1>4. ASSUME SetFirstSequence PROVE UNCHANGED Store!vars
  <2>1. /\ state = "Format" /\ Running' /\ val' = val /\ at' = at
    BY <1>4 DEF SetFirstSequence, Running, weakVars
  <2>2. \A i \in Id : at[i] = 0
    BY <2>1 DEF StoreInv, BootOK, Running
  <2>3. Persisted' = Nothing
    BY <2>1, <2>2 DEF Persisted, Nothing
  <2> QED BY <2>1, <2>3 DEF View, Store!vars
<1> QED BY <1>2, <1>3, <1>4 DEF BootStep

LEMMA StepRefines ==
    ASSUME OneBlock
    PROVE  /\ TypeInv /\ StoreInv /\ View /\ TypeInv' /\ StoreInv' /\ View' /\ [Next]_vars
              => [Store!Next]_Store!vars
<1> SUFFICES ASSUME TypeInv, StoreInv, View, TypeInv', StoreInv', View', [Next]_vars
             PROVE  [Store!Next]_Store!vars
  OBVIOUS
<1>1. CASE UNCHANGED vars
  BY <1>1 DEF vars, bankVars, managerVars, weakVars, Store!vars, storedNow, cacheNow, Running,
              Chosen, BankIsGood, Stored, SlotOf, Live
<1>2. CASE Reset
  BY <1>2, ResetRefines DEF Store!Next
<1>3. CASE BootStep
  BY <1>3, BootRefines
<1>4. CASE ManagerStep \/ FaultStep \/ ProgramStep \/ CollectorStep \/ Reboot
  BY <1>4, RunningSteps
<1> QED BY <1>1, <1>2, <1>3, <1>4 DEF Next

\* The manager implements the durable store: every step of it is a step of the
\* store, or one that the program cannot tell from none.
THEOREM Implements == OneBlock => (Spec /\ []NoWrap => ImplementsStore)
<1> SUFFICES ASSUME OneBlock PROVE Spec /\ []NoWrap => ImplementsStore
  OBVIOUS
<1>1. Init => TypeInv /\ StoreInv
  BY InitTypes, InitStore
<1>2. TypeInv /\ StoreInv /\ NoWrap' /\ [Next]_vars => (TypeInv /\ StoreInv)'
  BY TypeStep, StoreStep
<1>3. TypeInv /\ StoreInv => View
  BY ViewLemma
<1>4. Init => Store!Init
  <2> SUFFICES ASSUME Init PROVE Store!Init
    OBVIOUS
  <2>1. state = "Boot" /\ flash[1].seq = 0 /\ flash[2].seq = 0 /\ val = Nothing
    BY DEF Init, Bank, Nothing
  <2>2. ~BankIsGood(Chosen)
    BY <2>1 DEF Chosen, BankIsGood
  <2>3. storedNow = Nothing /\ cacheNow = val
    BY <1>1, <2>1, <2>2, ViewLemma DEF View
  <2> QED BY <2>1, <2>3 DEF Store!Init, Nothing
<1>5. /\ TypeInv /\ StoreInv /\ View /\ TypeInv' /\ StoreInv' /\ View' /\ [Next]_vars
         => [Store!Next]_Store!vars
  BY StepRefines
<1> QED BY <1>1, <1>2, <1>3, <1>4, <1>5, PTL DEF Spec, ImplementsStore, Store!Spec

=============================================================================
