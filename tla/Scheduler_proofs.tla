-------------------------- MODULE Scheduler_proofs --------------------------
(***************************************************************************)
(* Proofs about Scheduler, for any threads, priorities, debits and widths  *)
(* that satisfy SchedulerAssumption.                                       *)
(***************************************************************************)
EXTENDS Scheduler, Lists_proofs, TLAPS

-----------------------------------------------------------------------------
(* The ready list *)

\* InsertThreadRoundRobin adds its thread, or gives it another place.
LEMMA InsertLemma ==
    ASSUME NEW list \in Seq(Thread), NoDup(list), NEW t \in Thread, NEW pri, NEW cnt
    PROVE  /\ InsertThreadRoundRobin(list, pri, cnt, t) \in Seq(Thread)
           /\ NoDup(InsertThreadRoundRobin(list, pri, cnt, t))
           /\ Members(InsertThreadRoundRobin(list, pri, cnt, t)) = Members(list) \cup {t}
<1> DEFINE rest == Unlink(list, t)
           key(u) == GetExecutionCounter(pri, cnt, u)
           lower == {i \in 1..Len(rest) : key(rest[i]) < key(t)}
           k == IF lower = {} THEN Len(rest) + 1
                              ELSE CHOOSE i \in lower : \A j \in lower : i <= j
<1>1. rest \in Seq(Thread) /\ NoDup(rest) /\ Members(rest) = Members(list) \ {t}
  BY UnlinkLemma
<1>2. Len(rest) \in Nat
  BY <1>1
<1>3. k \in 1..(Len(rest) + 1)
  <2>1. CASE lower = {}
    BY <2>1, <1>2
  <2>2. CASE lower # {}
    <3>1. lower \subseteq Nat
      BY <1>2
    <3>2. PICK i \in lower : \A j \in lower : i <= j
      BY <2>2, <3>1, LeastPlace
    <3>3. k \in lower
      BY <2>2, <3>2
    <3> QED BY <3>3, <1>2
  <2> QED BY <2>1, <2>2
<1>4. InsertThreadRoundRobin(list, pri, cnt, t) = InsertBefore(rest, k, t)
  BY DEF InsertThreadRoundRobin
<1> HIDE DEF rest, k
<1> QED BY <1>1, <1>3, <1>4, InsertBeforeLemma

\* The ready list holds the ready threads, once each.
ReadyOK ==
    /\ ready \in Seq(Thread) /\ NoDup(ready)
    /\ \A t \in Thread : status[t] = "ready" <=> t \in Members(ready)

\* The rest of TypeOK.
TypesOK ==
    /\ status \in [Thread -> {"absent", "unstarted", "ready", "waiting"}]
    /\ priority \in [Thread -> Priority]
    /\ counter \in [Thread -> Int]
    /\ global \in Int
    /\ current \in Thread \cup {NONE}
    /\ current # NONE => status[current] = "ready"
    /\ switches \in 0..MaxContextSwitch
    /\ cctors \in Nat /\ cctorThread \in BOOLEAN /\ skipped \in BOOLEAN
    /\ cctorThread <=> status[Cctor] # "absent"
    /\ garbage \in Nat /\ spent \in Nat /\ last \in Thread \cup {NONE}

LEMMA TypeParts == TypeOK <=> TypesOK /\ ReadyOK
<1>1. \A t : t \in Members(ready) <=> \E i \in 1..Len(ready) : ready[i] = t
  BY DEF Members
<1> QED BY <1>1 DEF TypeOK, TypesOK, ReadyOK, NoDup

\* The system threads are threads, and no thread is NONE.
LEMMA ThreadFacts ==
    /\ Main \in Thread /\ Cctor \in Thread /\ Finalizer \in Thread
    /\ Cctor # Finalizer /\ Cctor \notin Program /\ Finalizer \notin Program
    /\ Program \subseteq Thread /\ NONE \notin Thread
BY SchedulerAssumption DEF Thread

LEMMA ConstantFacts ==
    /\ MaxDebit \in Nat /\ MaxDebit >= 1 /\ Credit = MaxDebit + 1
    /\ \A p \in Priority : Debit[p] \in 1..MaxDebit
    /\ SystemHighest \in Nat /\ MaxContextSwitch \in Nat \ {0}
    /\ DefaultPriority \in [Thread -> Priority]
<1>1. 0 \in Priority /\ SystemHighest \in Priority
  BY SchedulerAssumption DEF Priority
<1>2. MaxDebit \in Nat /\ MaxDebit >= 1
  BY <1>1, SchedulerAssumption DEF MaxDebit
<1>3. DefaultPriority \in [Thread -> Priority]
  BY <1>1, SchedulerAssumption DEF DefaultPriority
<1> QED BY <1>2, <1>3, SchedulerAssumption DEF Credit

\* A linked thread is in the list, an unlinked one is not.
LEMMA LinkReady ==
    ASSUME ReadyOK, status \in [Thread -> {"absent", "unstarted", "ready", "waiting"}],
           NEW t \in Thread, NEW pri, NEW cnt,
           status' = [status EXCEPT ![t] = "ready"],
           ready' = InsertThreadRoundRobin(ready, pri, cnt, t)
    PROVE  ReadyOK'
<1>1. /\ ready' \in Seq(Thread) /\ NoDup(ready')
      /\ Members(ready') = Members(ready) \cup {t}
  BY InsertLemma DEF ReadyOK
<1> QED BY <1>1 DEF ReadyOK

LEMMA RelinkReady ==
    ASSUME ReadyOK, NEW t \in Thread, status[t] = "ready", NEW pri, NEW cnt,
           UNCHANGED status,
           ready' = InsertThreadRoundRobin(ready, pri, cnt, t)
    PROVE  ReadyOK'
<1>1. /\ ready' \in Seq(Thread) /\ NoDup(ready')
      /\ Members(ready') = Members(ready) \cup {t}
  BY InsertLemma DEF ReadyOK
<1> QED BY <1>1 DEF ReadyOK

LEMMA UnlinkReady ==
    ASSUME ReadyOK, status \in [Thread -> {"absent", "unstarted", "ready", "waiting"}],
           NEW t \in Thread, NEW s, s # "ready",
           status' = [status EXCEPT ![t] = s],
           ready' = Unlink(ready, t)
    PROVE  ReadyOK'
<1>1. /\ ready' \in Seq(Thread) /\ NoDup(ready')
      /\ Members(ready') = Members(ready) \ {t}
  BY UnlinkLemma DEF ReadyOK
<1> QED BY <1>1 DEF ReadyOK

\* The thread a quantum goes to is ready.
LEMMA CandidateReady ==
    ASSUME TypesOK, ReadyOK, Candidate # NONE
    PROVE  Candidate \in Thread /\ status[Candidate] = "ready"
<1>1. CASE cctorThread
  BY <1>1, ThreadFacts DEF Candidate
<1>2. CASE ~cctorThread
  <2>1. ready # <<>> /\ Candidate = Head(ready)
    BY <1>2 DEF Candidate
  <2>2. Head(ready) \in Members(ready)
    BY <2>1, DropFirst DEF ReadyOK
  <2>3. Members(ready) \subseteq Thread
    BY MembersLemma DEF ReadyOK
  <2> QED BY <2>1, <2>2, <2>3 DEF ReadyOK
<1> QED BY <1>1, <1>2 DEF TypesOK

-----------------------------------------------------------------------------
(* Types *)

LEMMA InitTypes == Init => TypesOK /\ ReadyOK
<1> SUFFICES ASSUME Init PROVE TypesOK /\ ReadyOK
  OBVIOUS
<1>1. TypesOK
  <2>1. /\ status \in [Thread -> {"absent", "unstarted", "ready", "waiting"}]
        /\ status[Cctor] = "ready"
    BY ThreadFacts DEF Init
  <2>2. cctorThread /\ cctorThread \in BOOLEAN /\ skipped \in BOOLEAN
    BY DEF Init
  <2>3. priority \in [Thread -> Priority] /\ counter \in [Thread -> Int]
    BY ConstantFacts DEF Init
  <2>4. /\ global \in Int /\ current = NONE /\ switches \in 0..MaxContextSwitch
        /\ cctors \in Nat /\ garbage \in Nat /\ spent \in Nat /\ last = NONE
    BY ConstantFacts DEF Init
  <2> QED BY <2>1, <2>2, <2>3, <2>4 DEF TypesOK
<1>2. ready = <<Cctor, Main>> /\ Cctor # Main
  BY SchedulerAssumption DEF Init
<1>3. Members(ready) = {Cctor, Main} /\ NoDup(ready)
  BY <1>2 DEF Members, NoDup
<1>4. ready \in Seq(Thread)
  BY <1>2, ThreadFacts
<1>5. \A t \in Thread : status[t] = "ready" <=> t \in {Cctor, Main}
  BY DEF Init
<1> QED BY <1>1, <1>3, <1>4, <1>5 DEF ReadyOK

\* The ready list through each action.
LEMMA ReadyStep ==
    ASSUME TypesOK, ReadyOK, [Next]_vars
    PROVE  ReadyOK'
<1> USE DEF TypesOK
<1>1. CASE UNCHANGED <<status, ready>>
  BY <1>1 DEF ReadyOK
<1>2. CASE SpawnFinalizer
  <2>1. ready = <<>>
    <3> SUFFICES ASSUME ready # <<>> PROVE FALSE
      OBVIOUS
    <3>1. Head(ready) \in Thread
      BY DropFirst, MembersLemma DEF ReadyOK
    <3>2. Candidate = Head(ready) /\ Candidate = NONE
      BY <1>2 DEF SpawnFinalizer, Candidate
    <3> QED BY <3>1, <3>2, ThreadFacts
  <2>2. Members(ready) = {}
    BY <2>1 DEF Members
  <2>3. ready' = <<Finalizer>> /\ status' = [status EXCEPT ![Finalizer] = "ready"]
    BY <1>2 DEF SpawnFinalizer
  <2>4. Members(ready') = {Finalizer} /\ NoDup(ready') /\ ready' \in Seq(Thread)
    BY <2>3, ThreadFacts DEF Members, NoDup
  <2> QED BY <2>2, <2>3, <2>4, ThreadFacts DEF ReadyOK
<1>3. CASE QuantumExpired
  BY <1>3, RelinkReady DEF QuantumExpired
<1>4. CASE SleepZero
  BY <1>4, RelinkReady DEF SleepZero
<1>5. CASE Wait
  BY <1>5, UnlinkReady DEF Wait
<1>6. CASE Exit
  BY <1>6, UnlinkReady, ThreadFacts DEF Exit, Destroy
<1>7. CASE FinalizerEnds
  <2>1. CASE UNCHANGED status
    BY <1>7, <2>1, RelinkReady, ThreadFacts DEF FinalizerEnds
  <2>2. CASE /\ status' = [status EXCEPT ![Finalizer] = "unstarted"]
             /\ ready' = Unlink(ready, Finalizer)
    BY <2>2, UnlinkReady, ThreadFacts
  <2> QED BY <1>7, <2>1, <2>2 DEF FinalizerEnds
<1>8. CASE CctorEnds
  <2>1. CASE cctors' > 0
    BY <1>8, <2>1, RelinkReady, ThreadFacts DEF CctorEnds
  <2>2. CASE ~(cctors' > 0)
    BY <1>8, <2>2, UnlinkReady, ThreadFacts DEF CctorEnds, Destroy
  <2> QED BY <2>1, <2>2
<1>9. CASE LoadAssembly
  <2>1. CASE cctorThread' /\ ~cctorThread
    BY <1>9, <2>1, LinkReady, ThreadFacts DEF LoadAssembly
  <2>2. CASE ~(cctorThread' /\ ~cctorThread)
    BY <1>9, <2>2, <1>1 DEF LoadAssembly
  <2> QED BY <2>1, <2>2
<1>10. ASSUME NEW u \in Thread, Wake(u) PROVE ReadyOK'
  BY <1>10, LinkReady DEF Wake
<1>11. ASSUME NEW u \in Thread, Start(u) PROVE ReadyOK'
  BY <1>11, LinkReady DEF Start
<1>12. ASSUME NEW u \in Thread, NEW p \in Priority, SetPriority(u, p) PROVE ReadyOK'
  <2>1. CASE UNCHANGED ready
    BY <2>1, <1>12, <1>1 DEF SetPriority
  <2>2. CASE ready' = InsertThreadRoundRobin(ready, priority', counter, current)
    BY <2>2, <1>12, RelinkReady DEF SetPriority
  <2> QED BY <1>12, <2>1, <2>2 DEF SetPriority
<1>13. CASE BeginSchedule \/ NoReadyThreads \/ Pick \/ Collect \/ UNCHANGED vars
  BY <1>13, <1>1 DEF BeginSchedule, NoReadyThreads, Pick, Collect, vars
<1> HIDE DEF TypesOK
<1> QED BY <1>2, <1>3, <1>4, <1>5, <1>6, <1>7, <1>8, <1>9, <1>10, <1>11, <1>12, <1>13
        DEF Next, Engine, Quantum

\* What is left of a thread when it is destroyed.
DestroyedOK(t) ==
    /\ status' = [status EXCEPT ![t] = "absent"]
    /\ status' \in [Thread -> {"absent", "unstarted", "ready", "waiting"}]
    /\ counter' \in [Thread -> Int] /\ priority' \in [Thread -> Priority]

LEMMA DestroyType ==
    ASSUME TypesOK, NEW t \in Thread, Destroy(t)
    PROVE  DestroyedOK(t)
<1>1. status' = [status EXCEPT ![t] = "absent"]
  BY DEF Destroy
<1>2. counter' = [counter EXCEPT ![t] = 0]
  BY DEF Destroy
<1>3. priority' = [priority EXCEPT ![t] = DefaultPriority[t]]
  BY DEF Destroy
<1>4. status' \in [Thread -> {"absent", "unstarted", "ready", "waiting"}]
  BY <1>1 DEF TypesOK
<1>5. counter' \in [Thread -> Int]
  BY <1>2 DEF TypesOK
<1>6. priority' \in [Thread -> Priority]
  BY <1>3, ConstantFacts DEF TypesOK
<1> QED BY <1>1, <1>4, <1>5, <1>6 DEF DestroyedOK

\* The other types through each action.
LEMMA TypesStep ==
    ASSUME TypesOK, ReadyOK, [Next]_vars
    PROVE  TypesOK'
<1>1. CASE BeginSchedule
  <2>1. counter' \in [Thread -> Int] /\ global' \in Int
    BY <1>1, SchedulerAssumption, ConstantFacts
       DEF BeginSchedule, AdjustExecutionCounter, ToDate, TypesOK
  <2> QED BY <1>1, <2>1, ConstantFacts DEF BeginSchedule, TypesOK
<1>2. CASE NoReadyThreads
  BY <1>2, ConstantFacts DEF NoReadyThreads, TypesOK
<1>3. CASE SpawnFinalizer
  BY <1>3, ThreadFacts DEF SpawnFinalizer, TypesOK
<1>4. CASE Pick
  <2> DEFINE t == Candidate
             debit == Debit[priority[t]]
             c == ToDate(counter[t], global) - debit
  <2>1. t \in Thread /\ status[t] = "ready"
    BY <1>4, CandidateReady DEF Pick
  <2>2. debit \in Nat
    BY <2>1, ConstantFacts DEF TypesOK
  <2>3. c \in Int
    BY <2>1, <2>2, ConstantFacts DEF TypesOK, ToDate
  <2>4. /\ counter' = [counter EXCEPT ![t] = c]
        /\ global' = IF c < global THEN c ELSE global
        /\ current' = t
        /\ switches' = switches - 1 /\ switches > 0
        /\ UNCHANGED <<status, priority, cctors, cctorThread, skipped, garbage>>
    BY <1>4 DEF Pick
  <2>5. spent' \in Nat /\ last' \in Thread \cup {NONE}
    <3>1. CASE cctorThread \/ Len(ready) = 1
      BY <1>4, <3>1 DEF Pick
    <3>2. CASE ~(cctorThread \/ Len(ready) = 1)
      <4>1. spent' = (IF t = last THEN spent ELSE 0) + debit /\ last' = t
        BY <1>4, <3>2 DEF Pick
      <4> QED BY <4>1, <2>1, <2>2 DEF TypesOK
    <3> QED BY <3>1, <3>2
  <2> HIDE DEF t, debit, c
  <2> QED BY <2>1, <2>2, <2>3, <2>4, <2>5, ConstantFacts DEF TypesOK
<1>5. CASE QuantumExpired
  BY <1>5 DEF QuantumExpired, TypesOK
<1>6. CASE SleepZero
  BY <1>6 DEF SleepZero, TypesOK
<1>7. CASE Wait
  BY <1>7, ThreadFacts DEF Wait, TypesOK
<1>8. CASE Exit
  <2>1. current \in Thread /\ current # Cctor
    BY <1>8, ThreadFacts DEF Exit
  <2>2. DestroyedOK(current)
    BY <1>8, <2>1, DestroyType DEF Exit
  <2> QED BY <1>8, <2>1, <2>2, ThreadFacts DEF Exit, DestroyedOK, TypesOK
<1>9. CASE FinalizerEnds
  BY <1>9, ThreadFacts DEF FinalizerEnds, TypesOK
<1>10. CASE CctorEnds
  <2>1. CASE cctors' > 0
    BY <1>10, <2>1 DEF CctorEnds, TypesOK
  <2>2. CASE ~(cctors' > 0)
    <3>0. Destroy(Cctor) /\ cctorThread' = FALSE
      BY <1>10, <2>2 DEF CctorEnds
    <3>1. DestroyedOK(Cctor)
      BY <3>0, ThreadFacts, DestroyType
    <3>2. cctors' \in Nat
      BY <1>10 DEF CctorEnds, TypesOK
    <3> QED BY <1>10, <3>0, <3>1, <3>2, ThreadFacts DEF CctorEnds, DestroyedOK, TypesOK
  <2> QED BY <2>1, <2>2
<1>11. CASE LoadAssembly
  <2>1. cctors' \in Nat /\ cctorThread' \in BOOLEAN /\ skipped' \in BOOLEAN
    <3>1. CASE cctorThread /\ cctors' = cctors + 1 /\ UNCHANGED <<cctorThread, skipped>>
      BY <3>1 DEF TypesOK
    <3>2. CASE /\ cctors' \in 0..(cctors + 1) /\ cctorThread' = (cctors' > 0)
               /\ skipped' = FALSE
      <4>1. cctors' \in Nat
        BY <3>2 DEF TypesOK
      <4>2. cctorThread' \in BOOLEAN
        <5>1. (cctors' > 0) \in BOOLEAN
          BY <4>1
        <5> QED BY <3>2, <5>1
      <4>3. skipped' \in BOOLEAN
        BY <3>2
      <4> QED BY <4>1, <4>2, <4>3
    <3>3. CASE cctors' = cctors + 1 /\ UNCHANGED cctorThread /\ skipped' = TRUE
      BY <3>3 DEF TypesOK
    <3> QED BY <1>11, <3>1, <3>2, <3>3 DEF LoadAssembly
  <2>2. CASE cctorThread' /\ ~cctorThread
    BY <1>11, <2>1, <2>2, ThreadFacts DEF LoadAssembly, TypesOK
  <2>3. CASE ~(cctorThread' /\ ~cctorThread)
    <3>1. cctorThread' <=> cctorThread
      BY <1>11, <2>3 DEF LoadAssembly, TypesOK
    <3> QED BY <1>11, <2>1, <2>3, <3>1 DEF LoadAssembly, TypesOK
  <2> QED BY <2>2, <2>3
<1>12. CASE Collect
  BY <1>12, SchedulerAssumption DEF Collect, TypesOK
<1>13. ASSUME NEW u \in Thread, Wake(u) PROVE TypesOK'
  BY <1>13, ThreadFacts DEF Wake, TypesOK
<1>14. ASSUME NEW u \in Thread, Start(u) PROVE TypesOK'
  BY <1>14, ThreadFacts DEF Start, TypesOK
<1>15. ASSUME NEW u \in Thread, NEW p \in Priority, SetPriority(u, p) PROVE TypesOK'
  BY <1>15, ThreadFacts DEF SetPriority, TypesOK
<1>16. CASE UNCHANGED vars
  BY <1>16 DEF vars, TypesOK
<1> QED BY <1>1, <1>2, <1>3, <1>4, <1>5, <1>6, <1>7, <1>8, <1>9, <1>10, <1>11,
           <1>12, <1>13, <1>14, <1>15, <1>16 DEF Next, Engine, Quantum

\* Type correctness: the ready list holds exactly the threads that are ready,
\* once each, whatever starts, wakes, blocks or ends them, and m_cctorThread is
\* set exactly as long as the constructors' thread exists.
THEOREM TypeCorrect == Spec => []TypeOK
<1>1. Spec => [](TypesOK /\ ReadyOK)
  BY InitTypes, ReadyStep, TypesStep, PTL DEF Spec
<1>2. TypesOK /\ ReadyOK => TypeOK
  BY TypeParts
<1> QED BY <1>1, <1>2, PTL

-----------------------------------------------------------------------------
(* The counters *)

\* What one quantum may lower the global counter by: the debit, and the one
\* below it where Sleep(0) puts a thread.
Step == MaxDebit + 1

\* The inductive invariant.  The global counter has gone below the threshold of
\* the adjustment by no more than the quanta of this call of ScheduleThreads
\* account for; no thread is more than one below it; and no counter is above the
\* credit, because the adjustment cuts each one down to it.
CounterInv ==
    /\ global <= 0
    /\ global >= -Maximum - (MaxContextSwitch - switches) * Step
    /\ \A t \in Thread : counter[t] <= Credit
    /\ \A t \in Thread : Exists(t) => counter[t] >= global - 1
    /\ \A t \in Thread : ~Exists(t) => counter[t] = 0

LEMMA StepFacts ==
    /\ Step \in Nat /\ Credit \in Nat /\ Credit = Step
    /\ Maximum \in Nat /\ Adjustment \in Nat /\ IntMax \in Nat
    /\ MaxContextSwitch * Step \in Nat
    /\ MaxContextSwitch * Step <= Adjustment /\ Adjustment <= Maximum
    /\ Maximum + MaxContextSwitch * Step + Credit + SystemHighest <= IntMax
<1>1. Step \in Nat /\ Credit = Step
  BY ConstantFacts DEF Step
<1>2. \A m, n \in Nat : m * n \in Nat
  OBVIOUS
<1>3. MaxContextSwitch * Step \in Nat
  BY <1>1, <1>2, ConstantFacts
<1> QED BY <1>1, <1>3, SchedulerAssumption DEF Step

\* The quanta left over: none, all, or one less than before.
LEMMA QuantaFacts ==
    ASSUME NEW s \in 0..MaxContextSwitch
    PROVE  /\ (MaxContextSwitch - s) * Step \in Nat
           /\ (MaxContextSwitch - s) * Step <= MaxContextSwitch * Step
           /\ s > 0 => (MaxContextSwitch - (s - 1)) * Step
                           = (MaxContextSwitch - s) * Step + Step
<1> DEFINE r == MaxContextSwitch - s
<1>1. /\ r \in Nat /\ s \in Nat /\ MaxContextSwitch = r + s
      /\ MaxContextSwitch - (s - 1) = r + 1
  BY ConstantFacts
<1>2. Step \in Nat
  BY StepFacts
<1>3. \A m, n \in Nat : m * n \in Nat
  OBVIOUS
<1>4. \A m, n, k \in Nat : (m + n) * k = m * k + n * k
  OBVIOUS
<1>5. r * Step \in Nat /\ s * Step \in Nat
  BY <1>1, <1>2, <1>3
<1>6. MaxContextSwitch * Step = r * Step + s * Step
  BY <1>1, <1>2, <1>4
<1>7. (r + 1) * Step = r * Step + Step
  BY <1>1, <1>2
<1> HIDE DEF r
<1> QED BY <1>1, <1>5, <1>6, <1>7 DEF r

LEMMA InitCounters == Init => CounterInv
<1> SUFFICES ASSUME Init PROVE CounterInv
  OBVIOUS
<1>1. switches \in 0..MaxContextSwitch
  BY ConstantFacts DEF Init
<1>2. (MaxContextSwitch - switches) * Step \in Nat
  BY <1>1, QuantaFacts
<1>3. global = 0 /\ \A t \in Thread : counter[t] = 0
  BY DEF Init
<1> QED BY <1>2, <1>3, StepFacts DEF CounterInv

\* BringExecCounterToDate lowers a counter, never below the credit.
LEMMA ToDateFacts ==
    ASSUME NEW c \in Int, NEW g \in Int
    PROVE  /\ ToDate(c, g) \in Int
           /\ ToDate(c, g) <= c /\ ToDate(c, g) <= g + Credit
           /\ c >= g - 1 => ToDate(c, g) >= g - 1
BY StepFacts DEF ToDate

\* Steps that touch neither the counters nor the switches.
LEMMA CountersKept ==
    ASSUME CounterInv, UNCHANGED <<counter, global, switches>>,
           \A t \in Thread : Exists(t)' <=> Exists(t)
    PROVE  CounterInv'
BY DEF CounterInv

\* A thread comes into being with the counter 0.
LEMMA CountersOfNew ==
    ASSUME TypesOK, CounterInv, UNCHANGED <<counter, global, switches>>,
           NEW u \in Thread, NEW s \in {"ready", "waiting", "unstarted"},
           status' = [status EXCEPT ![u] = s]
    PROVE  CounterInv'
<1>1. \A t \in Thread : t # u => (Exists(t)' <=> Exists(t))
  BY DEF Exists, TypesOK
<1>2. Exists(u)'
  BY DEF Exists, TypesOK
<1>3. counter[u] >= global - 1
  BY DEF CounterInv, TypesOK
<1> QED BY <1>1, <1>2, <1>3 DEF CounterInv

\* A thread's counter is forgotten with the thread.
LEMMA CountersOfDead ==
    ASSUME TypesOK, CounterInv, NEW u \in Thread, Destroy(u), UNCHANGED <<global, switches>>
    PROVE  CounterInv'
<1>1. \A t \in Thread : t # u => (Exists(t)' <=> Exists(t)) /\ counter'[t] = counter[t]
  BY DEF Exists, TypesOK, Destroy
<1>2. ~Exists(u)' /\ counter'[u] = 0
  BY DEF Exists, TypesOK, Destroy
<1> QED BY <1>1, <1>2, StepFacts DEF CounterInv

\* ScheduleThreads is called: after it the counters are high enough for all of
\* its quanta.
LEMMA CountersAtBegin ==
    ASSUME TypesOK, CounterInv, BeginSchedule
    PROVE  CounterInv'
<1>1. /\ switches = 0 /\ switches' = MaxContextSwitch /\ UNCHANGED status
      /\ \A t \in Thread : Exists(t)' <=> Exists(t)
  BY DEF BeginSchedule, Exists
<1>2. (MaxContextSwitch - switches') * Step = 0
  BY <1>1, ConstantFacts, StepFacts
<1>3. (MaxContextSwitch - switches) * Step = MaxContextSwitch * Step
  BY <1>1, ConstantFacts
<1>4. global \in Int /\ counter \in [Thread -> Int]
  BY DEF TypesOK
<1>5. CASE global < -Maximum
  <2> DEFINE g == global + Adjustment
  <2>1. global' = g
    BY <1>5 DEF BeginSchedule, AdjustExecutionCounter
  <2>2. /\ \A t \in Thread : Exists(t) => counter'[t] = ToDate(counter[t] + Adjustment, g)
        /\ \A t \in Thread : ~Exists(t) => counter'[t] = counter[t]
    BY <1>5 DEF BeginSchedule, AdjustExecutionCounter
  <2>3. g \in Int /\ g <= 0 /\ g >= -Maximum
    BY <1>3, <1>4, <1>5, StepFacts DEF CounterInv
  <2>4. ASSUME NEW t \in Thread, Exists(t)
        PROVE  counter'[t] <= Credit /\ counter'[t] >= g - 1
    <3>1. counter[t] + Adjustment \in Int /\ counter[t] + Adjustment >= g - 1
      BY <1>4, <2>4, StepFacts DEF CounterInv
    <3>2. counter'[t] = ToDate(counter[t] + Adjustment, g)
      BY <2>2, <2>4
    <3>3. /\ ToDate(counter[t] + Adjustment, g) \in Int
          /\ ToDate(counter[t] + Adjustment, g) <= g + Credit
          /\ ToDate(counter[t] + Adjustment, g) >= g - 1
      BY <2>3, <3>1, ToDateFacts
    <3> HIDE DEF g
    <3> QED BY <2>3, <3>2, <3>3, StepFacts
  <2>5. ASSUME NEW t \in Thread, ~Exists(t)
        PROVE  counter'[t] <= Credit /\ counter'[t] = 0
    BY <2>2, <2>5, StepFacts DEF CounterInv
  <2> HIDE DEF g
  <2> QED BY <1>1, <1>2, <2>1, <2>3, <2>4, <2>5, StepFacts DEF CounterInv
<1>6. CASE ~(global < -Maximum)
  <2>1. UNCHANGED <<global, counter>>
    BY <1>6 DEF BeginSchedule
  <2> QED BY <1>1, <1>2, <1>4, <1>6, <2>1, StepFacts DEF CounterInv
<1> QED BY <1>5, <1>6

\* A quantum starts.
LEMMA CountersAtPick ==
    ASSUME TypesOK, ReadyOK, CounterInv, Pick
    PROVE  CounterInv'
<1> DEFINE t == Candidate
           debit == Debit[priority[t]]
           c == ToDate(counter[t], global) - debit
<1>1. t \in Thread /\ Exists(t)
  BY CandidateReady DEF Pick, Exists
<1>2. debit \in 1..MaxDebit
  BY <1>1, ConstantFacts DEF TypesOK
<1>3. global \in Int /\ counter[t] \in Int /\ counter[t] >= global - 1 /\ counter[t] <= Credit
  BY <1>1 DEF TypesOK, CounterInv
<1>4. c \in Int /\ c <= Credit /\ c >= global - Step
  <2> DEFINE d == ToDate(counter[t], global)
  <2>1. d \in Int /\ d <= counter[t] /\ d >= global - 1
    BY <1>3, ToDateFacts
  <2>2. c = d - debit
    OBVIOUS
  <2> HIDE DEF t, debit, c, d
  <2> QED BY <1>2, <1>3, <2>1, <2>2, StepFacts, ConstantFacts DEF Step
<1>5. /\ counter' = [counter EXCEPT ![t] = c]
      /\ global' = IF c < global THEN c ELSE global
      /\ switches' = switches - 1 /\ switches > 0
      /\ \A u \in Thread : Exists(u)' <=> Exists(u)
  BY DEF Pick, Exists
<1> HIDE DEF t, debit, c
<1>6. global' \in Int /\ global' <= global /\ global' <= c /\ global' >= global - Step
  BY <1>3, <1>4, <1>5, StepFacts
<1>7. switches \in 0..MaxContextSwitch
  BY DEF TypesOK
<1>8. /\ (MaxContextSwitch - switches') * Step = (MaxContextSwitch - switches) * Step + Step
      /\ (MaxContextSwitch - switches) * Step \in Nat
  BY <1>5, <1>7, QuantaFacts
<1>9. global' >= -Maximum - (MaxContextSwitch - switches') * Step
  BY <1>3, <1>6, <1>8, StepFacts DEF CounterInv
<1>10. ASSUME NEW u \in Thread
       PROVE  /\ counter'[u] <= Credit
              /\ Exists(u)' => counter'[u] >= global' - 1
              /\ ~Exists(u)' => counter'[u] = 0
  <2>1. CASE u = t
    BY <2>1, <1>1, <1>4, <1>5, <1>6 DEF TypesOK
  <2>2. CASE u # t
    <3>1. counter'[u] = counter[u] /\ counter[u] \in Int
      BY <2>2, <1>5 DEF TypesOK
    <3> QED BY <3>1, <1>3, <1>5, <1>6 DEF CounterInv
  <2> QED BY <2>1, <2>2
<1> QED BY <1>3, <1>6, <1>9, <1>10 DEF CounterInv

LEMMA CounterStep ==
    ASSUME TypesOK, ReadyOK, CounterInv, [Next]_vars
    PROVE  CounterInv'
<1>1. CASE BeginSchedule
  BY <1>1, CountersAtBegin
<1>2. CASE Pick
  BY <1>2, CountersAtPick
<1>3. CASE NoReadyThreads
  <2>1. switches \in 0..MaxContextSwitch /\ 0 \in 0..MaxContextSwitch
    BY ConstantFacts DEF TypesOK
  <2>2. (MaxContextSwitch - switches) * Step <= MaxContextSwitch * Step
    BY <2>1, QuantaFacts
  <2>3. /\ (MaxContextSwitch - switches) * Step \in Nat
        /\ (MaxContextSwitch - 0) * Step = MaxContextSwitch * Step
    BY <2>1, QuantaFacts, ConstantFacts
  <2>4. /\ UNCHANGED <<status, counter, global>> /\ switches' = 0
        /\ \A t \in Thread : Exists(t)' <=> Exists(t)
    BY <1>3 DEF NoReadyThreads, Exists
  <2>5. global >= -Maximum - (MaxContextSwitch - switches') * Step
    BY <2>2, <2>3, <2>4, StepFacts DEF CounterInv, TypesOK
  <2> QED BY <2>4, <2>5 DEF CounterInv
<1>4. CASE SpawnFinalizer
  BY <1>4, CountersOfNew, ThreadFacts DEF SpawnFinalizer
<1>5. CASE SleepZero
  <2>1. /\ current \in Thread /\ Exists(current)
        /\ counter' = [counter EXCEPT ![current] = global - 1]
        /\ UNCHANGED <<status, global, switches>>
        /\ \A t \in Thread : Exists(t)' <=> Exists(t)
    BY <1>5 DEF SleepZero, TypesOK, Exists
  <2>2. \A t \in Thread : t # current => counter'[t] = counter[t]
    BY <2>1 DEF TypesOK
  <2>3. counter'[current] = global - 1 /\ global - 1 <= Credit
    BY <2>1, StepFacts DEF TypesOK, CounterInv
  <2> QED BY <2>1, <2>2, <2>3 DEF CounterInv, TypesOK
<1>6. CASE Exit
  BY <1>6, CountersOfDead, ThreadFacts DEF Exit
<1>7. CASE CctorEnds
  <2>1. CASE cctors' > 0
    BY <1>7, <2>1, CountersKept DEF CctorEnds, Exists
  <2>2. CASE ~(cctors' > 0)
    BY <1>7, <2>2, CountersOfDead, ThreadFacts DEF CctorEnds
  <2> QED BY <2>1, <2>2
<1>8. CASE FinalizerEnds
  <2>1. CASE UNCHANGED status
    BY <1>8, <2>1, CountersKept DEF FinalizerEnds, Exists
  <2>2. CASE status' = [status EXCEPT ![Finalizer] = "unstarted"]
    BY <1>8, <2>2, CountersOfNew, ThreadFacts DEF FinalizerEnds
  <2> QED BY <1>8, <2>1, <2>2 DEF FinalizerEnds
<1>9. CASE LoadAssembly
  <2>1. CASE UNCHANGED status
    BY <1>9, <2>1, CountersKept DEF LoadAssembly, Exists
  <2>2. CASE status' = [status EXCEPT ![Cctor] = "ready"]
    BY <1>9, <2>2, CountersOfNew, ThreadFacts DEF LoadAssembly
  <2> QED BY <1>9, <2>1, <2>2 DEF LoadAssembly
<1>10. CASE Wait
  BY <1>10, CountersOfNew DEF Wait, TypesOK
<1>11. ASSUME NEW u \in Thread, Wake(u) \/ Start(u) PROVE CounterInv'
  BY <1>11, CountersOfNew DEF Wake, Start
<1>12. ASSUME NEW u \in Thread, NEW p \in Priority, SetPriority(u, p) PROVE CounterInv'
  BY <1>12, CountersKept DEF SetPriority, Exists
<1>13. CASE QuantumExpired \/ Collect \/ UNCHANGED vars
  BY <1>13, CountersKept DEF QuantumExpired, Collect, vars, Exists
<1> QED BY <1>1, <1>2, <1>3, <1>4, <1>5, <1>6, <1>7, <1>8, <1>9, <1>10, <1>11,
           <1>12, <1>13 DEF Next, Engine, Quantum

LEMMA CountersFit ==
    ASSUME TypesOK, CounterInv
    PROVE  CountersSound
<1>1. switches \in 0..MaxContextSwitch
  BY DEF TypesOK
<1>2. /\ (MaxContextSwitch - switches) * Step \in Nat
      /\ (MaxContextSwitch - switches) * Step <= MaxContextSwitch * Step
  BY <1>1, QuantaFacts
<1>3. /\ global \in Int /\ global <= 0
      /\ global >= -Maximum - MaxContextSwitch * Step
  BY <1>2, StepFacts DEF CounterInv, TypesOK
<1>4. GlobalIsLowest
  BY DEF CounterInv, GlobalIsLowest
<1>5. global >= -IntMax
  BY <1>3, StepFacts, ConstantFacts
<1>6. ASSUME NEW t \in Thread
      PROVE  /\ counter[t] \in -IntMax..IntMax
             /\ GetExecutionCounter(priority, counter, t) <= IntMax
             /\ Exists(t) => counter[t] - global <= IntMax
  <2>1. counter[t] \in Int /\ counter[t] <= Credit
    BY DEF TypesOK, CounterInv
  <2>2. counter[t] >= global - 1
    BY <2>1, <1>3 DEF CounterInv
  <2>3. priority[t] \in Int /\ priority[t] <= SystemHighest
    BY ConstantFacts DEF TypesOK, Priority
  <2>4. Credit >= 1
    BY ConstantFacts
  <2> QED BY <1>3, <2>1, <2>2, <2>3, <2>4, StepFacts, ConstantFacts DEF GetExecutionCounter
<1> QED BY <1>4, <1>5, <1>6 DEF CountersSound, NoOverflow

\* No counter, and nothing computed from one, leaves the integers, and the
\* global counter stays the lowest one: for any number of threads and quanta per
\* call, under the conditions on the two constants that SchedulerAssumption
\* states and 0x70000000, 0x60000000 and 32 bits satisfy.
THEOREM CountersStaySound == Spec => []CountersSound
<1>1. Spec => [](TypesOK /\ ReadyOK /\ CounterInv)
  BY InitTypes, InitCounters, ReadyStep, TypesStep, CounterStep, PTL DEF Spec
<1>2. TypesOK /\ CounterInv => CountersSound
  BY CountersFit
<1> QED BY <1>1, <1>2, PTL

-----------------------------------------------------------------------------
(* Static constructors *)

\* Constructors that did not run have their thread, or there was no memory.
CctorInv == cctors > 0 => cctorThread \/ skipped

LEMMA CctorStep ==
    ASSUME TypesOK, CctorInv, [Next]_vars
    PROVE  CctorInv'
<1>1. CASE UNCHANGED <<cctors, cctorThread, skipped>>
  BY <1>1 DEF CctorInv
<1>2. CASE CctorEnds
  <2>1. CASE cctors' > 0
    <3>1. cctorThread
      BY <1>2, ThreadFacts DEF CctorEnds, TypesOK
    <3>2. UNCHANGED cctorThread
      BY <1>2, <2>1 DEF CctorEnds
    <3> QED BY <3>1, <3>2 DEF CctorInv
  <2> QED BY <2>1 DEF CctorInv
<1>3. CASE LoadAssembly
  <2>1. CASE cctorThread /\ UNCHANGED <<cctorThread, skipped>>
    BY <2>1 DEF CctorInv
  <2>2. CASE cctorThread' = (cctors' > 0)
    BY <2>2 DEF CctorInv
  <2>3. CASE skipped' = TRUE
    BY <2>3 DEF CctorInv
  <2> QED BY <1>3, <2>1, <2>2, <2>3 DEF LoadAssembly
<1>4. ASSUME NEW u \in Thread, NEW p \in Priority, SetPriority(u, p) PROVE CctorInv'
  BY <1>4, <1>1 DEF SetPriority
<1>5. ASSUME NEW u \in Thread, Wake(u) \/ Start(u) PROVE CctorInv'
  BY <1>5, <1>1 DEF Wake, Start
<1>6. CASE Engine
  BY <1>6, <1>1 DEF Engine, BeginSchedule, NoReadyThreads, SpawnFinalizer, Pick
<1>7. CASE QuantumExpired \/ SleepZero \/ Wait \/ Exit \/ FinalizerEnds
  BY <1>7, <1>1 DEF QuantumExpired, SleepZero, Wait, Exit, FinalizerEnds
<1>8. CASE Collect \/ UNCHANGED vars
  BY <1>8, <1>1 DEF Collect, vars
<1> QED BY <1>2, <1>3, <1>4, <1>5, <1>6, <1>7, <1>8 DEF Next, Quantum

\* No quantum goes to another thread before the static constructors of the
\* loaded assemblies have run, unless memory was short.
THEOREM ConstructorsGoFirst == Spec => ConstructorsFirst
<1> DEFINE First == current = NONE /\ current' \in Thread \ {Cctor} => cctors = 0 \/ skipped
<1>1. Init => CctorInv
  BY DEF Init, CctorInv
<1>2. TypesOK /\ ReadyOK /\ CctorInv /\ [Next]_vars => [First]_vars
  <2> SUFFICES ASSUME TypesOK, CctorInv, Next, current = NONE, current' \in Thread \ {Cctor}
               PROVE  cctors = 0 \/ skipped
    OBVIOUS
  <2>1. current' # NONE /\ current' # Cctor
    BY ThreadFacts
  <2>2. Pick
    <3>1. ~Quantum
      BY <2>1, ThreadFacts
         DEF Quantum, QuantumExpired, SleepZero, Wait, Exit, FinalizerEnds, CctorEnds
    <3>2. ~LoadAssembly /\ ~Collect
      BY DEF LoadAssembly, Collect
    <3>3. \A u \in Thread : ~Wake(u) /\ ~Start(u)
      BY <2>1 DEF Wake, Start
    <3>4. \A u \in Thread, p \in Priority : ~SetPriority(u, p)
      BY DEF SetPriority
    <3>5. ~BeginSchedule /\ ~NoReadyThreads /\ ~SpawnFinalizer
      BY <2>1 DEF BeginSchedule, NoReadyThreads, SpawnFinalizer
    <3> QED BY <3>1, <3>2, <3>3, <3>4, <3>5 DEF Next, Engine
  <2>3. current' = Candidate /\ Candidate # NONE
    BY <2>2 DEF Pick
  <2>4. ~cctorThread
    BY <2>1, <2>3 DEF Candidate
  <2> QED BY <2>4 DEF CctorInv, TypesOK
<1>3. Spec => [](TypesOK /\ ReadyOK /\ CctorInv)
  BY <1>1, InitTypes, ReadyStep, TypesStep, CctorStep, PTL DEF Spec
<1>4. Spec => [][First]_vars
  BY <1>2, <1>3, PTL DEF Spec
<1> QED BY <1>4 DEF ConstructorsFirst

-----------------------------------------------------------------------------
(* Quanta in a row *)

\* The place a thread gets in the ready list: a thread that gets the first one has
\* no lower counter than the next, but for the priorities, and a thread that
\* stays the first has no lower one than the thread that comes to stand behind it.
LEMMA InsertFirst ==
    ASSUME NEW list \in Seq(Thread), NoDup(list), NEW t \in Thread,
           NEW pri \in [Thread -> Priority], NEW cnt \in [Thread -> Int],
           NEW new, new = InsertThreadRoundRobin(list, pri, cnt, t), Len(new) > 1
    PROVE  /\ new[1] = t =>
                \E u \in Members(new) \ {t} : cnt[u] <= cnt[t] + SystemHighest
           /\ \A x \in Thread \ {t} : new[1] = x /\ t \notin Members(list) =>
                /\ list # <<>> /\ list[1] = x
                /\ Len(list) > 1 \/ cnt[t] <= cnt[x] + SystemHighest
                /\ Members(new) = Members(list) \cup {t}
<1> DEFINE rest == Unlink(list, t)
           key(u) == GetExecutionCounter(pri, cnt, u)
           lower == {i \in 1..Len(rest) : key(rest[i]) < key(t)}
           k == IF lower = {} THEN Len(rest) + 1
                              ELSE CHOOSE i \in lower : \A j \in lower : i <= j
<1>1. rest \in Seq(Thread) /\ NoDup(rest) /\ Members(rest) = Members(list) \ {t}
  BY UnlinkLemma
<1>2. Len(rest) \in Nat /\ \A i \in 1..Len(rest) : rest[i] \in Thread /\ rest[i] \in Members(rest)
  BY <1>1 DEF Members
<1>3. k \in 1..(Len(rest) + 1) /\ (k <= Len(rest) => key(rest[k]) < key(t))
      /\ (k = Len(rest) + 1 => lower = {})
  <2>1. CASE lower = {}
    BY <2>1, <1>2
  <2>2. CASE lower # {}
    <3>1. lower \subseteq Nat
      BY <1>2
    <3>2. PICK i \in lower : \A j \in lower : i <= j
      BY <2>2, <3>1, LeastPlace
    <3>3. k \in lower
      BY <2>2, <3>2
    <3>4. k \in 1..Len(rest) /\ key(rest[k]) < key(t)
      <4> HIDE DEF k
      <4> QED BY <3>3
    <3> HIDE DEF k
    <3> QED BY <3>4, <1>2
  <2> QED BY <2>1, <2>2
<1>4. new = InsertBefore(rest, k, t)
  BY DEF InsertThreadRoundRobin
<1>5. \A u, v \in Thread : ~(key(v) < key(u)) => cnt[u] <= cnt[v] + SystemHighest
  BY SchedulerAssumption DEF GetExecutionCounter, Priority
<1>6. \A u, v \in Thread : key(v) < key(u) => cnt[v] <= cnt[u] + SystemHighest
  BY SchedulerAssumption DEF GetExecutionCounter, Priority
<1>7. \A i \in 1..Len(rest) : lower = {} => ~(key(rest[i]) < key(t))
  OBVIOUS
<1> HIDE DEF rest, key, lower, k
<1>8. /\ Len(new) = Len(rest) + 1
      /\ \A j \in 1..(Len(rest) + 1) :
           new[j] = IF j < k THEN rest[j] ELSE IF j = k THEN t ELSE rest[j - 1]
      /\ Members(new) = Members(rest) \cup {t}
  <2>1. /\ Len(InsertBefore(rest, k, t)) = Len(rest) + 1
        /\ \A j \in 1..(Len(rest) + 1) :
             InsertBefore(rest, k, t)[j] =
                 IF j < k THEN rest[j] ELSE IF j = k THEN t ELSE rest[j - 1]
        /\ Members(InsertBefore(rest, k, t)) = Members(rest) \cup {t}
    <3>1. k \in 1..(Len(rest) + 1)
      BY <1>3
    <3> QED BY <1>1, <3>1, InsertBeforeLemma
  <2> QED BY <1>4, <2>1
<1>9. Len(rest) >= 1
  BY <1>2, <1>8
<1>10. ASSUME new[1] = t
       PROVE  \E u \in Members(new) \ {t} : cnt[u] <= cnt[t] + SystemHighest
  <2>1. k = 1
    <3>1. CASE 1 < k
      <4>1. new[1] = rest[1]
        BY <1>2, <1>8, <1>9, <3>1
      <4>2. rest[1] # t
        BY <1>1, <1>2, <1>9
      <4> QED BY <1>10, <4>1, <4>2
    <3> QED BY <1>2, <1>3, <3>1
  <2>2. key(rest[1]) < key(t)
    BY <1>2, <1>3, <1>9, <2>1
  <2>3. rest[1] \in Thread /\ rest[1] \in Members(new) /\ rest[1] # t
    BY <1>1, <1>2, <1>8, <1>9
  <2> QED BY <1>6, <2>2, <2>3
<1>11. ASSUME NEW x \in Thread \ {t}, new[1] = x, t \notin Members(list)
       PROVE  /\ list # <<>> /\ list[1] = x
              /\ Len(list) > 1 \/ cnt[t] <= cnt[x] + SystemHighest
              /\ Members(new) = Members(list) \cup {t}
  <2>1. rest = list
    BY <1>11 DEF rest, Unlink
  <2>2. k > 1
    BY <1>2, <1>3, <1>8, <1>11
  <2>3. list[1] = x
    BY <1>2, <1>3, <1>8, <1>11, <2>1, <2>2
  <2>4. Members(new) = Members(list) \cup {t} /\ Len(list) \in Nat /\ list # <<>>
    BY <1>2, <1>8, <1>9, <2>1
  <2>5. CASE Len(list) = 1
    <3>1. lower = {}
      BY <1>2, <1>3, <2>1, <2>2, <2>5
    <3>2. ~(key(list[1]) < key(t))
      BY <1>7, <1>9, <2>1, <2>5, <3>1
    <3>3. cnt[t] <= cnt[x] + SystemHighest
      BY <1>5, <2>3, <3>2
    <3> QED BY <2>3, <2>4, <3>3
  <2>6. Len(list) = 1 \/ Len(list) > 1
    <3>1. Len(list) \in Nat /\ Len(list) >= 1
      BY <1>2, <1>9, <2>1
    <3>2. \A n \in Nat : n >= 1 => n = 1 \/ n > 1
      OBVIOUS
    <3> QED BY <3>1, <3>2, Zenon
  <2>7. CASE Len(list) > 1
    BY <2>3, <2>4, <2>7
  <2> QED BY <2>5, <2>6, <2>7
<1> QED BY <1>10, <1>11

\* What the thread that has run last has been debited since the others' turn
\* is limited by its credit: with respect to the global counter, unless it
\* has lowered that itself, to another thread, unless that cannot be
\* next to it in the list, and to a thread that comes into being with the counter 0.
Paid == counter[last] <= global \/ counter[last] + spent <= global + Credit
Follows(u) == \/ counter[last] + spent <= counter[u] + 1 + Credit
              \/ counter[last] + SystemHighest < counter[u]
FollowsNew == \/ counter[last] + spent <= 1 + Credit
              \/ counter[last] + SystemHighest < 0

CountsOK ==
    last # NONE /\ Exists(last) =>
        Paid /\ FollowsNew /\ \A u \in Thread \ {last} : Exists(u) => Follows(u)

\* Only the thread that ran last may be running.
LastOK ==
    /\ last # NONE /\ current # NONE => current = last
    /\ last = Finalizer => Exists(Finalizer)

\* When it is to go on, it is so because of its counter.
LeadOK ==
    last # NONE /\ current = NONE /\ Len(ready) > 1 /\ ready[1] = last =>
        \E u \in Members(ready) \ {last} : counter[u] <= counter[last] + SystemHighest

StreakInv == CountsOK /\ LastOK /\ LeadOK /\ BoundedStreak

\* What all steps start from.
Sound == TypesOK /\ ReadyOK /\ CounterInv

\* The conditions on the constants: a thread with the highest priority has a
\* shorter lead than its credit, and the adjustment leaves the counters below 0.
RoomForLead == SystemHighest <= MaxDebit /\ Adjustment + SystemHighest <= Maximum

LEMMA CreditFacts ==
    /\ Credit \in Nat /\ MaxDebit \in Nat /\ SystemHighest \in Nat /\ Credit = MaxDebit + 1
    /\ Maximum \in Nat /\ Adjustment \in Nat /\ NONE \notin Thread /\ Finalizer \in Thread
BY StepFacts, ConstantFacts, ThreadFacts

\* Steps that leave the counters alone, though threads may come into being.
LEMMA CountsKept ==
    ASSUME Sound, CountsOK, UNCHANGED <<counter, global, spent, last>>,
           \A u \in Thread : Exists(u)' => Exists(u) \/ (u # last /\ counter[u] = 0)
    PROVE  CountsOK'
<1> SUFFICES ASSUME last # NONE, Exists(last)'
             PROVE  Paid /\ FollowsNew /\ \A u \in Thread \ {last} : Exists(u)' => Follows(u)
  BY DEF CountsOK, Paid, FollowsNew, Follows
<1>1. last \in Thread /\ Exists(last)
  BY DEF Sound, TypesOK
<1>2. Paid /\ FollowsNew /\ \A u \in Thread \ {last} : Exists(u) => Follows(u)
  BY <1>1 DEF CountsOK
<1>3. \A u \in Thread : counter[u] = 0 => Follows(u)
  BY <1>1, <1>2, CreditFacts DEF FollowsNew, Follows, Sound, TypesOK
<1> QED BY <1>2, <1>3

\* The thread that dies is the one that ran last.
LEMMA CountsDestroy ==
    ASSUME Sound, CountsOK, LastOK, current \in Thread, Destroy(current),
           UNCHANGED <<global, spent, last>>
    PROVE  CountsOK'
<1>1. last # NONE => last = current
  BY CreditFacts DEF LastOK
<1>2. status'[current] = "absent"
  BY DEF Destroy, Sound, TypesOK
<1> SUFFICES ASSUME last' # NONE, Exists(last)' PROVE FALSE
  BY DEF CountsOK
<1> QED BY <1>1, <1>2 DEF Exists

LEMMA CountsSleepZero ==
    ASSUME Sound, CountsOK, LastOK, SleepZero
    PROVE  CountsOK'
<1> SUFFICES ASSUME last # NONE, Exists(last)'
             PROVE  (Paid /\ FollowsNew /\ \A u \in Thread \ {last} : Exists(u) => Follows(u))'
  BY DEF CountsOK, SleepZero
<1>1. last = current /\ last \in Thread /\ Exists(last)
  BY CreditFacts DEF LastOK, SleepZero, Sound, TypesOK, Exists
<1>2. /\ counter' = [counter EXCEPT ![last] = global - 1]
      /\ UNCHANGED <<global, spent, last, status>>
  BY <1>1 DEF SleepZero
<1>3. counter'[last] = global - 1 /\ \A u \in Thread \ {last} : counter'[u] = counter[u]
  BY <1>1, <1>2 DEF Sound, TypesOK
<1>4. counter[last] >= global - 1
  BY <1>1 DEF Sound, CounterInv
<1>5. Paid /\ FollowsNew /\ \A u \in Thread \ {last} : Exists(u) => Follows(u)
  BY <1>1 DEF CountsOK
<1>6. Paid'
  BY <1>1, <1>2, <1>3 DEF Paid, Sound, TypesOK
<1>7. FollowsNew'
  BY <1>1, <1>2, <1>3, <1>4, <1>5, CreditFacts DEF FollowsNew, Sound, TypesOK
<1>8. ASSUME NEW u \in Thread \ {last}, Exists(u) PROVE Follows(u)'
  <2>1. Follows(u)
    BY <1>5, <1>8
  <2> QED BY <1>1, <1>2, <1>3, <1>4, <2>1, CreditFacts DEF Follows, Sound, TypesOK
<1>9. \A u \in Thread : Exists(u)' <=> Exists(u)
  BY <1>2 DEF Exists
<1> QED BY <1>2, <1>6, <1>7, <1>8, <1>9

\* The start of a call moves all counters that count by the same amount.
LEMMA CountsBegin ==
    ASSUME RoomForLead, Sound, CountsOK, BoundedStreak, BeginSchedule
    PROVE  CountsOK'
<1>1. UNCHANGED <<status, spent, last>> /\ \A u \in Thread : Exists(u)' <=> Exists(u)
  BY DEF BeginSchedule, Exists
<1>2. CASE ~(global < -Maximum)
  BY <1>1, <1>2, CountsKept DEF BeginSchedule
<1>3. CASE global < -Maximum
  <2> SUFFICES ASSUME last # NONE, Exists(last)
               PROVE  Paid' /\ FollowsNew' /\ \A u \in Thread \ {last} : Exists(u) => Follows(u)'
    BY <1>1 DEF CountsOK, Sound, TypesOK
  <2>1. global' = global + Adjustment
    BY <1>3 DEF BeginSchedule, AdjustExecutionCounter
  <2>2. \A u \in Thread : Exists(u) => counter'[u] = ToDate(counter[u] + Adjustment, global + Adjustment)
    BY <1>3 DEF BeginSchedule, AdjustExecutionCounter
  <2>3. last \in Thread /\ counter[last] \in Int /\ global \in Int /\ spent \in Nat
    BY DEF Sound, TypesOK
  <2>4. Paid /\ FollowsNew /\ \A u \in Thread \ {last} : Exists(u) => Follows(u)
    BY DEF CountsOK
  <2>5. counter[last] <= global + Credit
    BY <2>3, <2>4, CreditFacts DEF Paid
  <2>6. counter'[last] = counter[last] + Adjustment
    BY <2>2, <2>3, <2>5, CreditFacts DEF ToDate
  <2>7. Paid'
    BY <1>1, <2>1, <2>3, <2>4, <2>6, CreditFacts DEF Paid
  <2>8. FollowsNew'
    BY <1>1, <1>3, <2>1, <2>3, <2>4, <2>6, CreditFacts DEF Paid, FollowsNew, RoomForLead
  <2>9. ASSUME NEW u \in Thread \ {last}, Exists(u) PROVE Follows(u)'
    <3>1. counter[u] \in Int /\ Follows(u)
      BY <2>4, <2>9 DEF Sound, TypesOK
    <3>2. CASE counter[u] <= global + Credit
      <4>1. counter'[u] = counter[u] + Adjustment
        BY <2>2, <2>3, <2>9, <3>1, <3>2, CreditFacts DEF ToDate
      <4> QED BY <1>1, <2>3, <2>6, <3>1, <4>1, CreditFacts DEF Follows
    <3>3. CASE counter[u] > global + Credit
      <4>1. counter'[u] = global + Adjustment + Credit
        BY <2>2, <2>3, <2>9, <3>1, <3>3, CreditFacts DEF ToDate
      <4> QED BY <1>1, <2>3, <2>4, <2>6, <4>1, CreditFacts DEF Paid, Follows, RoomForLead
    <3> QED BY <2>3, <3>1, <3>2, <3>3, CreditFacts
  <2> QED BY <2>7, <2>8, <2>9
<1> QED BY <1>2, <1>3

\* A quantum starts.
LEMMA CountsPick ==
    ASSUME Sound, StreakInv, Pick
    PROVE  CountsOK' /\ LastOK' /\ BoundedStreak'
<1> DEFINE t == Candidate
           d == Debit[priority[t]]
           c == ToDate(counter[t], global) - d
<1>1. t \in Thread /\ Exists(t) /\ t # NONE
  BY CandidateReady, CreditFacts DEF Pick, Exists, Sound
<1>2. d \in 1..MaxDebit
  BY <1>1, ConstantFacts DEF Sound, TypesOK
<1>3. global \in Int /\ global <= 0 /\ counter[t] \in Int /\ counter[t] >= global - 1 /\ spent \in Nat
  BY <1>1 DEF Sound, TypesOK, CounterInv
<1>4. /\ counter' = [counter EXCEPT ![t] = c]
      /\ global' = IF c < global THEN c ELSE global
      /\ current' = t
      /\ UNCHANGED status
  BY DEF Pick
<1>5. \/ spent' = 0 /\ last' = NONE
      \/ /\ spent' = (IF t = last THEN spent ELSE 0) + d /\ last' = t
         /\ ~cctorThread /\ Len(ready) # 1
  BY DEF Pick
<1>6. ~cctorThread => ready # <<>> /\ t = Head(ready)
  BY DEF Pick, Candidate
<1>7. ToDate(counter[t], global) \in Int /\ ToDate(counter[t], global) <= counter[t]
      /\ ToDate(counter[t], global) <= global + Credit
  BY <1>3, ToDateFacts
<1>8. c = ToDate(counter[t], global) - d
  OBVIOUS
<1>9. counter[t] <= global + Credit => ToDate(counter[t], global) = counter[t]
  BY <1>3, CreditFacts DEF ToDate
<1>10. current = NONE
  BY DEF Pick
<1> HIDE DEF t, c, d
<1>11. /\ counter'[t] = c /\ c \in Int
       /\ \A u \in Thread \ {t} : counter'[u] = counter[u] /\ counter[u] \in Int
       /\ \A u \in Thread : Exists(u)' <=> Exists(u)
  BY <1>1, <1>2, <1>4, <1>7, <1>8 DEF Sound, TypesOK, Exists
<1>12. CASE spent' = 0 /\ last' = NONE
  <2>1. CountsOK' /\ LastOK'
    BY <1>12, CreditFacts DEF CountsOK, LastOK
  <2> QED BY <1>12, <2>1, CreditFacts DEF BoundedStreak
<1>13. CASE last' = t /\ spent' = spent + d /\ t = last /\ ~cctorThread /\ Len(ready) # 1
  <2>1. Paid /\ FollowsNew /\ \A u \in Thread \ {t} : Exists(u) => Follows(u)
    BY <1>1, <1>13 DEF StreakInv, CountsOK
  <2>2. counter[t] <= global + Credit
    BY <1>3, <1>13, <2>1, CreditFacts DEF Paid
  <2>3. c = counter[t] - d /\ c + spent' = counter[t] + spent
    BY <1>2, <1>3, <1>8, <1>9, <1>13, <2>2
  <2>4. Paid'
    BY <1>2, <1>3, <1>4, <1>11, <1>13, <2>1, <2>3, CreditFacts DEF Paid
  <2>5. FollowsNew'
    BY <1>2, <1>3, <1>11, <1>13, <2>1, <2>3, CreditFacts DEF FollowsNew
  <2>6. ASSUME NEW u \in Thread \ {t}, Exists(u) PROVE Follows(u)'
    <3>1. Follows(u) /\ counter'[u] = counter[u] /\ counter[u] \in Int
      BY <1>11, <2>1, <2>6
    <3> QED BY <1>2, <1>3, <1>11, <1>13, <2>3, <3>1, CreditFacts DEF Follows
  <2>7. CountsOK'
    BY <1>11, <1>13, <2>4, <2>5, <2>6 DEF CountsOK
  <2>8. LastOK'
    BY <1>1, <1>4, <1>11, <1>13, CreditFacts DEF LastOK
  <2>9. Len(ready) > 1 /\ ready[1] = t
    BY <1>6, <1>13 DEF Sound, ReadyOK
  <2>10. PICK u \in Members(ready) \ {t} : counter[u] <= counter[t] + SystemHighest
    BY <1>1, <1>10, <1>13, <2>9 DEF StreakInv, LeadOK
  <2>11. u \in Thread /\ Exists(u) /\ counter[u] \in Int
    BY <2>10, MembersLemma DEF Sound, ReadyOK, TypesOK, Exists
  <2>12. counter[t] + spent <= counter[u] + 1 + Credit
    <3>1. Follows(u)
      BY <2>1, <2>10, <2>11
    <3> QED BY <1>3, <1>13, <2>10, <2>11, <3>1, CreditFacts DEF Follows
  <2>13. BoundedStreak'
    BY <1>2, <1>3, <1>13, <2>10, <2>11, <2>12, CreditFacts DEF BoundedStreak
  <2> QED BY <2>7, <2>8, <2>13
<1>14. CASE last' = t /\ spent' = d /\ t # last
  <2>1. c + spent' <= global + Credit
    BY <1>2, <1>3, <1>7, <1>8, <1>14, CreditFacts
  <2>2. Paid'
    BY <1>2, <1>3, <1>4, <1>11, <1>14, <2>1, CreditFacts DEF Paid
  <2>3. FollowsNew'
    BY <1>2, <1>3, <1>11, <1>14, <2>1, CreditFacts DEF FollowsNew
  <2>4. ASSUME NEW u \in Thread \ {t}, Exists(u) PROVE Follows(u)'
    <3>1. counter[u] >= global - 1 /\ counter'[u] = counter[u] /\ counter[u] \in Int
      BY <1>11, <2>4 DEF Sound, CounterInv
    <3> QED BY <1>2, <1>3, <1>11, <1>14, <2>1, <3>1, CreditFacts DEF Follows
  <2>5. CountsOK'
    BY <1>11, <1>14, <2>2, <2>3, <2>4 DEF CountsOK
  <2>6. LastOK'
    BY <1>1, <1>4, <1>11, <1>14, CreditFacts DEF LastOK
  <2>7. BoundedStreak'
    BY <1>2, <1>14, CreditFacts DEF BoundedStreak
  <2> QED BY <2>5, <2>6, <2>7
<1> QED BY <1>2, <1>5, <1>12, <1>13, <1>14

\* The running thread goes back into the list: its counter, no lower than the next
\* one's, is the reason if it stays the first.
LEMMA LeadInsert ==
    ASSUME Sound, LastOK, current \in Thread, NEW pri \in [Thread -> Priority],
           counter' \in [Thread -> Int], UNCHANGED last,
           ready' = InsertThreadRoundRobin(ready, pri, counter', current)
    PROVE  LeadOK'
<1> SUFFICES ASSUME last # NONE, Len(ready') > 1, ready'[1] = last
             PROVE  \E u \in Members(ready') \ {last} : counter'[u] <= counter'[last] + SystemHighest
  BY DEF LeadOK
<1>1. last = current
  BY CreditFacts DEF LastOK
<1>2. ready \in Seq(Thread) /\ NoDup(ready)
  BY DEF Sound, ReadyOK
<1> QED BY <1>1, <1>2, InsertFirst

\* It leaves the list.
LEMMA LeadUnlink ==
    ASSUME Sound, LastOK, current \in Thread, UNCHANGED last,
           ready' = Unlink(ready, current)
    PROVE  LeadOK'
<1> SUFFICES ASSUME last # NONE, Len(ready') > 1, ready'[1] = last
             PROVE  FALSE
  BY DEF LeadOK
<1>1. last = current
  BY CreditFacts DEF LastOK
<1>2. ready' \in Seq(Thread) /\ Members(ready') = Members(ready) \ {current}
  BY UnlinkLemma DEF Sound, ReadyOK
<1>3. ready'[1] \in Members(ready')
  BY <1>2 DEF Members
<1> QED BY <1>1, <1>2, <1>3

\* A thread that wakes up comes before the first one or leaves it where it is.
LEMMA LeadWake ==
    ASSUME Sound, StreakInv, NEW t \in Thread, Wake(t)
    PROVE  LeadOK'
<1> SUFFICES ASSUME last # NONE, current = NONE, Len(ready') > 1, ready'[1] = last
             PROVE  \E u \in Members(ready') \ {last} : counter[u] <= counter[last] + SystemHighest
  BY DEF LeadOK, Wake
<1>1. /\ ready \in Seq(Thread) /\ NoDup(ready) /\ t \notin Members(ready)
      /\ priority \in [Thread -> Priority] /\ counter \in [Thread -> Int] /\ last \in Thread
  BY DEF Sound, ReadyOK, TypesOK, Wake
<1>2. ready' = InsertThreadRoundRobin(ready, priority, counter, t)
  BY DEF Wake
<1>3. CASE last = t
  BY <1>1, <1>2, <1>3, InsertFirst
<1>4. CASE last # t
  <2>1. /\ ready # <<>> /\ ready[1] = last
        /\ Len(ready) > 1 \/ counter[t] <= counter[last] + SystemHighest
        /\ Members(ready') = Members(ready) \cup {t}
    <3>1. \A x \in Thread \ {t} : ready'[1] = x /\ t \notin Members(ready) =>
            /\ ready # <<>> /\ ready[1] = x
            /\ Len(ready) > 1 \/ counter[t] <= counter[x] + SystemHighest
            /\ Members(ready') = Members(ready) \cup {t}
      BY <1>1, <1>2, InsertFirst
    <3> QED BY <1>1, <1>4, <3>1
  <2>2. CASE Len(ready) > 1
    <3>1. \E u \in Members(ready) \ {last} : counter[u] <= counter[last] + SystemHighest
      BY <2>1, <2>2 DEF StreakInv, LeadOK
    <3> QED BY <2>1, <3>1
  <2>3. CASE counter[t] <= counter[last] + SystemHighest
    BY <1>4, <2>1, <2>3
  <2> QED BY <2>1, <2>2, <2>3
<1> QED BY <1>3, <1>4

\* The adjustment keeps the distances it matters for.
LEMMA LeadBegin ==
    ASSUME Sound, StreakInv, BeginSchedule
    PROVE  LeadOK'
<1>1. UNCHANGED <<status, ready, current, last>>
  BY DEF BeginSchedule
<1> SUFFICES ASSUME last # NONE, current = NONE, Len(ready) > 1, ready[1] = last
             PROVE  \E u \in Members(ready) \ {last} : counter'[u] <= counter'[last] + SystemHighest
  BY <1>1 DEF LeadOK
<1>2. PICK u \in Members(ready) \ {last} : counter[u] <= counter[last] + SystemHighest
  BY DEF StreakInv, LeadOK
<1>3. u \in Thread /\ Exists(u) /\ last \in Thread /\ Exists(last)
  <2>1. ready[1] \in Members(ready)
    BY DEF Members, Sound, ReadyOK
  <2> QED BY <1>2, <2>1, MembersLemma DEF Sound, ReadyOK, TypesOK, Exists
<1>4. /\ counter[u] \in Int /\ counter[last] \in Int /\ global \in Int /\ spent \in Nat
      /\ Paid
  BY <1>3 DEF Sound, TypesOK, StreakInv, CountsOK
<1>5. CASE ~(global < -Maximum)
  BY <1>2, <1>5 DEF BeginSchedule
<1>6. CASE global < -Maximum
  <2>1. /\ counter'[u] = ToDate(counter[u] + Adjustment, global + Adjustment)
        /\ counter'[last] = ToDate(counter[last] + Adjustment, global + Adjustment)
    BY <1>3, <1>6 DEF BeginSchedule, AdjustExecutionCounter
  <2>2. counter'[last] = counter[last] + Adjustment
    BY <1>4, <2>1, CreditFacts DEF Paid, ToDate
  <2>3. counter'[u] <= counter[u] + Adjustment
    BY <1>4, <2>1, CreditFacts DEF ToDate
  <2>4. counter'[u] \in Int
    BY <1>4, <2>1, CreditFacts DEF ToDate
  <2> QED BY <1>2, <1>4, <2>2, <2>3, <2>4, CreditFacts
<1> QED BY <1>5, <1>6

\* Nothing is debited, and nobody moves to or from the first place.
LEMMA StreakKept ==
    ASSUME Sound, StreakInv, UNCHANGED <<counter, global, spent, last>>,
           \A u \in Thread : Exists(u)' => Exists(u) \/ (u # last /\ counter[u] = 0),
           current' \in {current, NONE}, Exists(Finalizer) => Exists(Finalizer)', LeadOK'
    PROVE  StreakInv'
<1>1. CountsOK'
  BY CountsKept DEF StreakInv
<1>2. LastOK'
  BY DEF StreakInv, LastOK
<1> QED BY <1>1, <1>2 DEF StreakInv, BoundedStreak

\* Every step keeps the streak within the credit.
LEMMA StreakStep ==
    ASSUME RoomForLead, Sound, StreakInv, [Next]_vars
    PROVE  StreakInv'
<1>1. /\ ready \in Seq(Thread) /\ NoDup(ready)
      /\ status \in [Thread -> {"absent", "unstarted", "ready", "waiting"}]
      /\ priority \in [Thread -> Priority] /\ counter \in [Thread -> Int]
      /\ current \in Thread \cup {NONE} /\ last \in Thread \cup {NONE}
      /\ current # NONE => status[current] = "ready"
      /\ \A u \in Thread : ~Exists(u) => counter[u] = 0
  BY DEF Sound, ReadyOK, TypesOK, CounterInv
<1>2. LastOK /\ CountsOK /\ BoundedStreak
  BY DEF StreakInv
<1>3. ASSUME UNCHANGED status
      PROVE  \A u \in Thread : Exists(u)' <=> Exists(u)
  BY <1>3 DEF Exists
<1>4. ASSUME current \in Thread, NEW u \in Thread, ~Exists(u)
      PROVE  u # last
  BY <1>1, <1>2, <1>4, CreditFacts DEF LastOK, Exists
<1>5. CASE BeginSchedule
  <2>1. CountsOK' /\ LeadOK'
    BY <1>2, <1>5, CountsBegin, LeadBegin
  <2>2. LastOK' /\ BoundedStreak'
    BY <1>2, <1>5 DEF BeginSchedule, LastOK, BoundedStreak, Exists
  <2> QED BY <2>1, <2>2 DEF StreakInv
<1>6. CASE Pick
  <2>1. CountsOK' /\ LastOK' /\ BoundedStreak'
    BY <1>6, CountsPick
  <2>2. current' # NONE
    BY <1>6 DEF Pick
  <2>3. LeadOK'
    BY <2>2 DEF LeadOK
  <2> QED BY <2>1, <2>3 DEF StreakInv
<1>7. CASE NoReadyThreads \/ Collect \/ UNCHANGED vars
  <2>1. UNCHANGED <<status, priority, counter, ready, global, current, spent, last>>
    BY <1>7 DEF NoReadyThreads, Collect, vars
  <2>2. LeadOK'
    BY <2>1 DEF StreakInv, LeadOK
  <2> QED BY <1>3, <2>1, <2>2, StreakKept, CreditFacts
<1>8. CASE SpawnFinalizer
  <2>1. LeadOK'
    BY <1>8 DEF SpawnFinalizer, LeadOK
  <2>2. \A u \in Thread : Exists(u)' => Exists(u) \/ (u # last /\ counter[u] = 0)
    BY <1>1, <1>2, <1>8 DEF SpawnFinalizer, LastOK, Exists
  <2>3. Exists(Finalizer)'
    BY <1>1, <1>8, CreditFacts DEF SpawnFinalizer, Exists
  <2> QED BY <1>8, <2>1, <2>2, <2>3, StreakKept DEF SpawnFinalizer
<1>9. CASE QuantumExpired
  <2>1. LeadOK'
    BY <1>1, <1>2, <1>9, LeadInsert DEF QuantumExpired
  <2> QED BY <1>3, <1>9, <2>1, StreakKept, CreditFacts DEF QuantumExpired
<1>10. CASE SleepZero
  <2>1. counter' \in [Thread -> Int]
    BY <1>1, <1>10 DEF SleepZero, Sound, TypesOK
  <2>2. LeadOK'
    BY <1>1, <1>2, <1>10, <2>1, LeadInsert DEF SleepZero
  <2>3. CountsOK'
    BY <1>2, <1>10, CountsSleepZero
  <2>4. LastOK' /\ BoundedStreak'
    BY <1>2, <1>10 DEF SleepZero, LastOK, BoundedStreak, Exists
  <2> QED BY <2>2, <2>3, <2>4 DEF StreakInv
<1>11. CASE Wait
  <2>1. LeadOK'
    BY <1>1, <1>2, <1>11, LeadUnlink DEF Wait
  <2>2. \A u \in Thread : Exists(u)' <=> Exists(u)
    BY <1>1, <1>11 DEF Wait, Exists
  <2> QED BY <1>11, <2>1, <2>2, StreakKept, CreditFacts DEF Wait
<1>12. ASSUME current \in Thread \ {Finalizer}, Destroy(current), current' = NONE,
              UNCHANGED <<global, spent, last>>
       PROVE  StreakInv'
  <2>1. LeadOK'
    BY <1>2, <1>12, LeadUnlink DEF Destroy
  <2>2. CountsOK'
    BY <1>2, <1>12, CountsDestroy
  <2>3. LastOK' /\ BoundedStreak'
    BY <1>1, <1>2, <1>12, CreditFacts DEF Destroy, LastOK, BoundedStreak, Exists
  <2> QED BY <2>1, <2>2, <2>3 DEF StreakInv
<1>13. CASE Exit
  BY <1>12, <1>13, ThreadFacts DEF Exit
<1>14. CASE FinalizerEnds
  <2>1. LeadOK'
    BY <1>1, <1>2, <1>14, LeadInsert, LeadUnlink, CreditFacts DEF FinalizerEnds
  <2>2. \A u \in Thread : Exists(u)' <=> Exists(u)
    BY <1>1, <1>14, CreditFacts DEF FinalizerEnds, Exists
  <2> QED BY <1>14, <2>1, <2>2, StreakKept, CreditFacts DEF FinalizerEnds
<1>15. CASE CctorEnds
  <2>1. CASE cctors' > 0
    <3>1. LeadOK'
      BY <1>1, <1>2, <1>15, <2>1, LeadInsert, ThreadFacts DEF CctorEnds
    <3> QED BY <1>3, <1>15, <2>1, <3>1, StreakKept, CreditFacts DEF CctorEnds
  <2>2. CASE ~(cctors' > 0)
    BY <1>12, <1>15, <2>2, ThreadFacts DEF CctorEnds
  <2> QED BY <2>1, <2>2
<1>16. ASSUME current \in Thread, NEW u \in Thread, ~Exists(u),
              status' = [status EXCEPT ![u] = "ready"], current' = current,
              UNCHANGED <<counter, global, spent, last>>
       PROVE  StreakInv'
  <2>1. LeadOK'
    BY <1>16, CreditFacts DEF LeadOK
  <2>2. \A v \in Thread : Exists(v)' => Exists(v) \/ (v # last /\ counter[v] = 0)
    BY <1>1, <1>4, <1>16 DEF Exists
  <2>3. Exists(Finalizer) => Exists(Finalizer)'
    BY <1>1, <1>16, CreditFacts DEF Exists
  <2> QED BY <1>16, <2>1, <2>2, <2>3, StreakKept
<1>17. CASE LoadAssembly
  <2>1. current \in Thread /\ UNCHANGED <<counter, global, spent, last, current>>
    BY <1>1, <1>17 DEF LoadAssembly
  <2>2. CASE UNCHANGED status
    <3>1. LeadOK'
      BY <2>1, CreditFacts DEF LeadOK
    <3> QED BY <1>3, <2>1, <2>2, <3>1, StreakKept, CreditFacts
  <2>3. CASE status' = [status EXCEPT ![Cctor] = "ready"] /\ ~cctorThread
    <3>1. ~Exists(Cctor)
      BY <2>3 DEF Sound, TypesOK, Exists
    <3> QED BY <1>16, <2>1, <2>3, <3>1, ThreadFacts
  <2> QED BY <1>17, <2>2, <2>3 DEF LoadAssembly
<1>18. ASSUME NEW u \in Thread, Start(u) PROVE StreakInv'
  BY <1>1, <1>16, <1>18 DEF Start
<1>19. ASSUME NEW u \in Thread, Wake(u) PROVE StreakInv'
  <2>1. LeadOK'
    BY <1>19, LeadWake
  <2>2. \A v \in Thread : Exists(v)' <=> Exists(v)
    BY <1>1, <1>19 DEF Wake, Exists
  <2> QED BY <1>19, <2>1, <2>2, StreakKept, CreditFacts DEF Wake
<1>20. ASSUME NEW u \in Thread, NEW p \in Priority, SetPriority(u, p) PROVE StreakInv'
  <2>1. current \in Thread /\ UNCHANGED <<status, counter, global, spent, last>>
    BY <1>1, <1>20 DEF SetPriority
  <2>2. CASE current' = current
    <3>1. LeadOK'
      BY <2>1, <2>2, CreditFacts DEF LeadOK
    <3> QED BY <1>3, <2>1, <2>2, <3>1, StreakKept, CreditFacts
  <2>3. CASE current' = NONE /\ ready' = InsertThreadRoundRobin(ready, priority', counter, current)
    <3>1. priority' \in [Thread -> Priority]
      BY <1>1, <1>20 DEF SetPriority
    <3>2. LeadOK'
      BY <1>1, <1>2, <2>1, <2>3, <3>1, LeadInsert
    <3> QED BY <1>3, <2>1, <2>3, <3>2, StreakKept, CreditFacts
  <2> QED BY <1>20, <2>2, <2>3 DEF SetPriority
<1> QED BY <1>5, <1>6, <1>7, <1>8, <1>9, <1>10, <1>11, <1>13, <1>14, <1>15, <1>17,
           <1>18, <1>19, <1>20 DEF Next, Engine, Quantum

\* While others are ready, no thread gets more quanta in a row than its credit, the
\* lead of its priority and one quantum pay for: however the counters were
\* adjusted in between, and whoever was created, woken or given another
\* priority.
THEOREM StreaksStayBounded ==
    ASSUME RoomForLead
    PROVE  Spec => []BoundedStreak
<1>1. Init => Sound
  BY InitTypes, InitCounters DEF Sound
<1>2. Sound /\ [Next]_vars => Sound'
  BY ReadyStep, TypesStep, CounterStep DEF Sound
<1>3. Init => StreakInv
  <2> SUFFICES ASSUME Init PROVE StreakInv
    OBVIOUS
  <2>1. last = NONE /\ spent = 0
    BY DEF Init
  <2> QED BY <2>1, CreditFacts
          DEF StreakInv, CountsOK, LastOK, LeadOK, BoundedStreak
<1>4. Sound /\ StreakInv /\ [Next]_vars => StreakInv'
  BY StreakStep
<1>5. StreakInv => BoundedStreak
  BY DEF StreakInv
<1> QED BY <1>1, <1>2, <1>3, <1>4, <1>5, PTL DEF Spec

=============================================================================
