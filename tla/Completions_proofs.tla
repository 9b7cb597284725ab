------------------------- MODULE Completions_proofs -------------------------
(***************************************************************************)
(* Proofs about Completions, for any calls, flags and times.               *)
(***************************************************************************)
EXTENDS Completions, Lists_proofs, TLAPS

\* The interrupt is latched if the time in the register is over.
Armed == pending \/ now < compare

\* What WaitForInterrupts leaves behind for the sleep.
SleepInv ==
    pc = "sleep" =>
        /\ Armed
        /\ state = "nil" => completions = <<>> /\ compare = expire
        /\ state = "reset" => /\ completions # <<>> /\ compare = expire
                              /\ expire < due[Head(completions)]
        /\ state = "keep" => /\ completions # <<>> /\ compare = due[Head(completions)]
                             /\ compare <= expire

\* The inductive invariant.
TimerInv == TypeOK /\ InOneList /\ FirstIsArmed /\ SleepInv

-----------------------------------------------------------------------------
(* The lists and the types *)

ListsOK ==
    /\ completions \in Seq(Call) /\ conts \in Seq(Call)
    /\ NoDup(completions) /\ NoDup(conts)
    /\ Members(completions) \cap Members(conts) = {}

LEMMA SetCompareType ==
    ASSUME TypeOK, NEW ticks \in Times, NEW latched \in BOOLEAN, SetCompare(ticks, latched)
    PROVE  compare' \in Times /\ pending' \in BOOLEAN
BY DEF SetCompare

\* The times of the calls, and the idle value, are times.
LEMMA TimesType ==
    ASSUME TypeOK
    PROVE  /\ IdleValue \in Times
           /\ expire \in Times
           /\ \A c \in Call : due[c] \in Times
           /\ \A i \in 1..Len(completions) : due[completions[i]] \in Times
           /\ completions # <<>> => due[Head(completions)] \in Times
           /\ Len(completions) > 1 => due[completions[2]] \in Times
<1>1. \A t \in 0..MaxTime : t \in Times
  BY CompletionsAssumption DEF Times, IdleValue
<1>2. IdleValue \in Times
  BY CompletionsAssumption DEF Times, IdleValue
<1>3. \A i \in 1..Len(completions) : completions[i] \in Call
  BY DEF TypeOK
<1>4. completions # <<>> => Head(completions) \in Call
  BY DEF TypeOK
<1>5. Len(completions) > 1 => completions[2] \in Call
  BY DEF TypeOK
<1> QED BY <1>1, <1>2, <1>3, <1>4, <1>5 DEF TypeOK

LEMMA DequeueAndExecLists ==
    ASSUME ListsOK, DequeueAndExec
    PROVE  ListsOK'
<1>1. CASE completions = <<>>
  BY <1>1 DEF DequeueAndExec, ListsOK
<1>2. CASE completions # <<>>
  <2> DEFINE c == Head(completions)
  <2>1. /\ completions' \in Seq(Call) /\ NoDup(completions')
        /\ Members(completions') \subseteq Members(completions)
        /\ c \in Members(completions) /\ c \notin Members(completions')
    BY <1>2, DropFirst DEF DequeueAndExec, ListsOK
  <2>2. c \in Call
    BY <2>1, MembersLemma DEF ListsOK
  <2> HIDE DEF c
  <2>3. CASE conts' = conts
    BY <2>1, <2>3 DEF ListsOK
  <2>4. CASE conts' = LinkAtBack(conts, c)
    <3>1. /\ conts' \in Seq(Call) /\ NoDup(conts')
          /\ Members(conts') = Members(conts) \cup {c}
      BY <2>2, <2>4, LinkAtBackLemma DEF ListsOK
    <3> QED BY <2>1, <3>1 DEF ListsOK
  <2>5. conts' = conts \/ conts' = LinkAtBack(conts, c)
    BY <1>2 DEF DequeueAndExec, ExecuteCall, c
  <2> QED BY <2>3, <2>4, <2>5
<1> QED BY <1>1, <1>2

LEMMA DequeueAndExecType ==
    ASSUME TypeOK, DequeueAndExec
    PROVE  compare' \in Times /\ pending' \in BOOLEAN /\ events' \subseteq Flag
<1>1. CASE completions = <<>>
  BY <1>1 DEF DequeueAndExec, TypeOK
<1>2. CASE completions # <<>>
  <2> DEFINE ticks == IF Len(completions) > 1 THEN due[completions[2]] ELSE IdleValue
  <2>1. ticks \in Times
    BY TimesType
  <2>2. SetCompare(ticks, FALSE) /\ events' = events \cup {TimerFlag}
    BY <1>2 DEF DequeueAndExec
  <2> HIDE DEF ticks
  <2>3. compare' \in Times /\ pending' \in BOOLEAN
    BY <2>1, <2>2, SetCompareType
  <2> QED BY <2>2, <2>3, CompletionsAssumption DEF TypeOK
<1> QED BY <1>1, <1>2

LEMMA InitInv == Init => TimerInv
<1> SUFFICES ASSUME Init PROVE TimerInv
  OBVIOUS
<1>1. TypeOK
  <2>1. 0 \in 0..MaxTime /\ IdleValue \in Times
    BY CompletionsAssumption DEF Times, IdleValue
  <2>2. <<>> \in Seq(Call)
    OBVIOUS
  <2> QED BY <2>1, <2>2 DEF Init, TypeOK, PCs
<1>2. InOneList
  BY DEF Init, InOneList, Members
<1>3. FirstIsArmed /\ SleepInv
  BY DEF Init, FirstIsArmed, SleepInv
<1> QED BY <1>1, <1>2, <1>3 DEF TimerInv

\* Every step keeps the types, and every call in one list.
LEMMA ListStep == TypeOK /\ InOneList /\ [Next]_vars => TypeOK' /\ InOneList'
<1> SUFFICES ASSUME TypeOK, InOneList, [Next]_vars
             PROVE  TypeOK' /\ InOneList'
  OBVIOUS
<1>1. ListsOK
  BY DEF TypeOK, InOneList, ListsOK, NoDup
<1>2. ListsOK' => InOneList' /\ completions' \in Seq(Call) /\ conts' \in Seq(Call)
  BY DEF InOneList, ListsOK, NoDup
<1>3. UNCHANGED <<completions, conts>> => ListsOK'
  BY <1>1 DEF ListsOK
<1>4. CASE Tick
  <2>1. now' \in 0..MaxTime /\ pending' \in BOOLEAN
    BY <1>4, CompletionsAssumption DEF Tick, TypeOK
  <2> QED BY <1>2, <1>3, <1>4, <2>1 DEF Tick, TypeOK, listVars, waitVars
<1>5. CASE TimerISR
  <2>1. CASE DequeueAndExec
    <3>1. ListsOK'
      BY <1>1, <2>1, DequeueAndExecLists
    <3>2. compare' \in Times /\ pending' \in BOOLEAN /\ events' \subseteq Flag
      BY <2>1, DequeueAndExecType
    <3> QED BY <1>2, <1>5, <3>1, <3>2 DEF TimerISR, TypeOK, waitVars
  <2>2. CASE SetCompare(compare, FALSE) /\ UNCHANGED <<completions, conts, events>>
    <3>1. compare' \in Times /\ pending' \in BOOLEAN
      BY <2>2, SetCompareType DEF TypeOK
    <3> QED BY <1>2, <1>3, <1>5, <2>2, <3>1 DEF TimerISR, TypeOK, waitVars
  <2> QED BY <1>5, <2>1, <2>2 DEF TimerISR
<1>6. ASSUME NEW c \in Call, EnqueueDelta(c) PROVE TypeOK' /\ InOneList'
  <2>1. PICK e \in 1..MaxTime : EnqueueTicks(c, e)
    BY <1>6 DEF EnqueueDelta
  <2>2. PICK k \in 1..(Len(completions) + 1) :
            /\ completions' = InsertBefore(completions, k, c)
            /\ IF k = 1 THEN SetCompare(e, pending) ELSE UNCHANGED timerVars
    BY <2>1 DEF EnqueueTicks
  <2>3. c \notin Members(completions) /\ c \notin Members(conts) /\ conts' = conts
    BY <1>6 DEF EnqueueDelta
  <2>4. /\ completions' \in Seq(Call)
        /\ Members(completions') = Members(completions) \cup {c}
        /\ NoDup(completions')
    BY <1>1, <2>2, <2>3, InsertBeforeLemma DEF ListsOK
  <2>5. ListsOK'
    BY <1>1, <2>3, <2>4 DEF ListsOK
  <2>6. due' \in [Call -> 0..MaxTime]
    BY <2>1, CompletionsAssumption DEF EnqueueTicks, TypeOK
  <2>7. e \in Times
    BY CompletionsAssumption DEF Times, IdleValue
  <2>8. compare' \in Times /\ pending' \in BOOLEAN
    <3>1. CASE k = 1
      BY <2>2, <2>7, <3>1, SetCompareType DEF TypeOK
    <3>2. CASE k # 1
      BY <2>2, <3>2 DEF timerVars, TypeOK
    <3> QED BY <3>1, <3>2
  <2> QED BY <1>2, <1>6, <2>5, <2>6, <2>8 DEF EnqueueDelta, TypeOK, waitVars
<1>7. ASSUME NEW c \in Call, Abort(c) PROVE TypeOK' /\ InOneList'
  <2>1. /\ completions' \in Seq(Call) /\ NoDup(completions')
        /\ Members(completions') = Members(completions) \ {c}
    BY <1>1, <1>7, UnlinkLemma DEF Abort, ListsOK
  <2>2. /\ conts' \in Seq(Call) /\ NoDup(conts')
        /\ Members(conts') = Members(conts) \ {c}
    BY <1>1, <1>7, UnlinkLemma DEF Abort, ListsOK
  <2>3. ListsOK'
    BY <1>1, <2>1, <2>2 DEF ListsOK
  <2>4. compare' \in Times /\ pending' \in BOOLEAN
    <3> DEFINE ticks == IF Len(completions) > 1 THEN due[completions[2]] ELSE IdleValue
    <3>1. ticks \in Times
      BY TimesType
    <3>2. SetCompare(ticks, pending) \/ UNCHANGED timerVars
      BY <1>7 DEF Abort
    <3> HIDE DEF ticks
    <3>3. CASE SetCompare(ticks, pending)
      BY <3>1, <3>3, SetCompareType DEF TypeOK
    <3>4. CASE UNCHANGED timerVars
      BY <3>4 DEF timerVars, TypeOK
    <3> QED BY <3>2, <3>3, <3>4
  <2> QED BY <1>2, <1>7, <2>3, <2>4 DEF Abort, TypeOK, waitVars
<1>8. ASSUME NEW c \in Call, Enqueue(c) PROVE TypeOK' /\ InOneList'
  <2>1. /\ conts' \in Seq(Call) /\ NoDup(conts')
        /\ Members(conts') = Members(conts) \cup {c}
    BY <1>1, <1>8, LinkAtBackLemma DEF Enqueue, ListsOK
  <2>2. ListsOK'
    BY <1>1, <1>8, <2>1 DEF Enqueue, ListsOK
  <2> QED BY <1>2, <1>8, <2>2 DEF Enqueue, TypeOK, waitVars, timerVars
<1>9. ASSUME NEW f \in Flag, EventsSet(f) PROVE TypeOK' /\ InOneList'
  BY <1>2, <1>3, <1>9 DEF EventsSet, TypeOK, listVars, timerVars, waitVars
<1>10. CASE Uninitialize
  <2>1. ListsOK'
    BY <1>10 DEF Uninitialize, ListsOK, NoDup, Members
  <2> QED BY <1>2, <1>10, <2>1 DEF Uninitialize, TypeOK, waitVars, timerVars
<1>11. ASSUME NEW mask \in SUBSET Flag, EventsGet(mask) PROVE TypeOK' /\ InOneList'
  BY <1>2, <1>3, <1>11 DEF EventsGet, TypeOK, listVars, timerVars, waitVars
<1>12. ASSUME NEW mask \in SUBSET Flag, NEW noConts \in BOOLEAN, WaitForEvents(mask, noConts)
       PROVE  TypeOK' /\ InOneList'
  <2>1. expire' \in 0..MaxTime
    BY <1>12, CompletionsAssumption DEF WaitForEvents, TypeOK
  <2> QED BY <1>2, <1>3, <1>12, <2>1 DEF WaitForEvents, TypeOK, listVars, timerVars, PCs
<1>13. CASE DequeueContinuation
  <2>1. ListsOK'
    <3>1. CASE conts = <<>>
      BY <1>1, <1>13, <3>1 DEF DequeueContinuation, ListsOK
    <3>2. CASE conts # <<>>
      <4>1. /\ conts' \in Seq(Call) /\ NoDup(conts')
            /\ Members(conts') \subseteq Members(conts)
        BY <1>1, <1>13, <3>2, DropFirst DEF DequeueContinuation, ListsOK
      <4> QED BY <1>1, <1>13, <4>1 DEF DequeueContinuation, ListsOK
    <3> QED BY <3>1, <3>2
  <2>2. pc' \in PCs
    BY <1>13 DEF DequeueContinuation, PCs
  <2> QED BY <1>2, <1>13, <2>1, <2>2 DEF DequeueContinuation, TypeOK, waitVars, timerVars
<1>14. CASE Return \/ ReleaseIrq \/ AcquireIrq \/ ReturnToApp \/ ProbeDone
  <2>1. UNCHANGED <<now, listVars, timerVars, events, state>>
    BY <1>14 DEF Return, ReleaseIrq, AcquireIrq, ReturnToApp, ProbeDone
  <2>2. /\ pc' \in PCs /\ wakeup' \subseteq Flag /\ runConts' \in BOOLEAN
        /\ internal' \in BOOLEAN /\ expire' \in 0..MaxTime
    <3>1. CASE Return
        <4>1. 0 \in 0..MaxTime
        BY CompletionsAssumption
      <4> QED BY <3>1, <4>1 DEF Return, PCs
    <3>2. CASE AcquireIrq
      <4>1. runConts' = TRUE \/ runConts' = FALSE
        BY <3>2 DEF AcquireIrq
      <4>2. pc' = "loop" /\ UNCHANGED <<wakeup, expire, internal>>
        BY <3>2 DEF AcquireIrq
      <4> QED BY <4>1, <4>2 DEF PCs, TypeOK
    <3>3. CASE ReleaseIrq \/ ReturnToApp \/ ProbeDone
      BY <3>3 DEF ReleaseIrq, ReturnToApp, ProbeDone, PCs, TypeOK, waitVars
    <3> QED BY <1>14, <3>1, <3>2, <3>3
  <2> QED BY <1>2, <1>3, <2>1, <2>2 DEF TypeOK, listVars, timerVars
<1>15. CASE Sleep
  <2>1. compare' \in Times /\ pending' \in BOOLEAN
    <3>1. SetCompare(expire, pending) \/ UNCHANGED timerVars
      BY <1>15 DEF Sleep
    <3>2. CASE SetCompare(expire, pending)
      BY <3>2, SetCompareType, TimesType DEF TypeOK
    <3>3. CASE UNCHANGED timerVars
      BY <3>3 DEF timerVars, TypeOK
    <3> QED BY <3>1, <3>2, <3>3
  <2>2. state' \in {"keep", "nil", "reset"}
    BY <1>15 DEF Sleep
  <2> QED BY <1>2, <1>3, <1>15, <2>1, <2>2 DEF Sleep, TypeOK, listVars, PCs
<1>16. CASE WakeUp
  <2>1. compare' \in Times /\ pending' \in BOOLEAN
    <3>1. UNCHANGED timerVars \/ \E ticks \in Times : SetCompare(ticks, pending)
      BY <1>16, TimesType DEF WakeUp, Restore
    <3>2. CASE UNCHANGED timerVars
      BY <3>2 DEF timerVars, TypeOK
    <3>3. CASE \E ticks \in Times : SetCompare(ticks, pending)
      BY <3>3, SetCompareType DEF TypeOK
    <3> QED BY <3>1, <3>2, <3>3
  <2> QED BY <1>2, <1>3, <1>16, <2>1 DEF WakeUp, TypeOK, listVars, waitVars, PCs
<1>17. CASE UNCHANGED vars
  BY <1>2, <1>3, <1>17 DEF vars, TypeOK, listVars, timerVars, waitVars
<1>18. CASE Interrupt
  BY <1>5, <1>6, <1>7, <1>8, <1>9, <1>18 DEF Interrupt
<1>19. CASE Main
  BY <1>10, <1>11, <1>12, <1>13, <1>14, <1>15, <1>16, <1>19 DEF Main
<1> QED BY <1>4, <1>17, <1>18, <1>19 DEF Next

\* Type correctness, on every processor.
THEOREM TypeCorrect == Spec => []TypeOK
<1>1. Init => TypeOK /\ InOneList
  BY InitInv DEF TimerInv
<1>2. TypeOK /\ InOneList /\ [Next]_vars => (TypeOK /\ InOneList)'
  BY ListStep
<1> QED BY <1>1, <1>2, PTL DEF Spec

\* The two lists never share a call, and none is linked twice.
THEOREM CallInOneList == Spec => []InOneList
<1>1. Init => TypeOK /\ InOneList
  BY InitInv DEF TimerInv
<1>2. TypeOK /\ InOneList /\ [Next]_vars => (TypeOK /\ InOneList)'
  BY ListStep
<1> QED BY <1>1, <1>2, PTL DEF Spec

-----------------------------------------------------------------------------
(* The register, where the processor sleeps with its interrupts masked *)

\* Setting the register arms it, whatever it is set to.
LEMMA SetCompareArms ==
    ASSUME TypeOK, NEW ticks \in Times, NEW latched \in BOOLEAN,
           SetCompare(ticks, latched), now' = now
    PROVE  compare' = ticks /\ Armed'
<1>1. compare' = ticks /\ pending' = (latched \/ ticks <= now)
  BY DEF SetCompare
<1>2. CASE ticks <= now
  BY <1>1, <1>2 DEF Armed
<1>3. CASE ~(ticks <= now)
  <2>1. now < ticks
    BY <1>3 DEF TypeOK, Times
  <2> QED BY <1>1, <2>1 DEF Armed
<1> QED BY <1>2, <1>3

\* Every step keeps the register armed for the first completion, or for the
\* time-out of the sleep.
LEMMA TimerStep ==
    ASSUME SleepServesInterrupts = FALSE
    PROVE  TimerInv /\ [Next]_vars => FirstIsArmed' /\ SleepInv'
<1> SUFFICES ASSUME TimerInv, [Next]_vars
             PROVE  FirstIsArmed' /\ SleepInv'
  OBVIOUS
<1> USE DEF TimerInv
<1>1. ListsOK
  BY DEF TypeOK, InOneList, ListsOK, NoDup
<1>2. pc # "sleep" => (completions # <<>> => compare = due[Head(completions)] /\ Armed)
  BY DEF FirstIsArmed, Armed
<1>3. ASSUME pc' # "sleep",
             completions' # <<>> => compare' = due'[Head(completions')] /\ Armed'
      PROVE  FirstIsArmed' /\ SleepInv'
  BY <1>3 DEF FirstIsArmed, SleepInv, Armed
<1>4. InterruptsOn => pc # "sleep"
  BY DEF InterruptsOn
\* A step of the native thread that touches neither the lists nor the timer.
<1>5. ASSUME pc # "sleep", pc' # "sleep",
             UNCHANGED <<now, due, completions, compare, pending>>
      PROVE  FirstIsArmed' /\ SleepInv'
  BY <1>2, <1>3, <1>5 DEF Armed
<1>6. CASE Tick
  <2>1. Armed => Armed'
    <3>1. now \in Int /\ compare \in Int /\ now' = now + 1 /\ compare' = compare
      BY <1>6 DEF Tick, TypeOK, Times
    <3>2. pending' = (pending \/ now' = compare)
      BY <1>6 DEF Tick
    <3>3. now < compare => now' = compare \/ now' < compare'
      BY <3>1
    <3> QED BY <3>2, <3>3 DEF Armed
  <2>2. UNCHANGED <<due, completions, compare, pc, state, expire>>
    BY <1>6 DEF Tick, listVars, waitVars
  <2> QED BY <1>2, <2>1, <2>2 DEF FirstIsArmed, SleepInv, Armed
<1>7. CASE TimerISR
  <2>1. pc # "sleep" /\ pc' # "sleep" /\ due' = due /\ now' = now
    BY <1>4, <1>7 DEF TimerISR
  <2>2. CASE DequeueAndExec
    <3>1. CASE completions = <<>>
      <4>1. completions' = <<>>
        BY <2>2, <3>1 DEF DequeueAndExec
      <4> QED BY <1>3, <2>1, <4>1
    <3>2. CASE completions # <<>>
      <4> DEFINE ticks == IF Len(completions) > 1 THEN due[completions[2]] ELSE IdleValue
      <4>1. ticks \in Times
        BY TimesType
      <4>2. SetCompare(ticks, FALSE) /\ completions' = Drop(completions, 1)
        BY <2>2, <3>2 DEF DequeueAndExec
      <4>3. compare' = ticks /\ Armed'
        BY <2>1, <4>1, <4>2, SetCompareArms
      <4>4. CASE Len(completions) > 1
        <5>1. Head(completions') = completions[2]
          BY <1>1, <3>2, <4>2, <4>4, DropFirst DEF ListsOK
        <5>2. compare' = due[completions[2]]
          BY <4>3, <4>4
        <5> QED BY <1>3, <2>1, <4>3, <5>1, <5>2
      <4>5. CASE ~(Len(completions) > 1)
        <5>1. completions' = <<>>
          BY <1>1, <3>2, <4>2, <4>5, DropFirst DEF ListsOK
        <5> QED BY <1>3, <2>1, <5>1
      <4> QED BY <4>4, <4>5
    <3> QED BY <3>1, <3>2
  <2>3. CASE SetCompare(compare, FALSE) /\ UNCHANGED <<completions, conts, events>>
    <3>1. compare' = compare /\ Armed'
      BY <2>1, <2>3, SetCompareArms DEF TypeOK
    <3> QED BY <1>2, <1>3, <2>1, <2>3, <3>1
  <2> QED BY <1>7, <2>2, <2>3 DEF TimerISR
<1>8. ASSUME NEW c \in Call, EnqueueDelta(c) PROVE FirstIsArmed' /\ SleepInv'
  <2>1. pc # "sleep" /\ pc' # "sleep" /\ now' = now /\ c \notin Members(completions)
    BY <1>4, <1>8 DEF EnqueueDelta
  <2>2. PICK e \in 1..MaxTime : EnqueueTicks(c, e)
    BY <1>8 DEF EnqueueDelta
  <2>3. PICK k \in 1..(Len(completions) + 1) :
            /\ completions' = InsertBefore(completions, k, c)
            /\ IF k = 1 THEN SetCompare(e, pending) ELSE UNCHANGED timerVars
    BY <2>2 DEF EnqueueTicks
  <2>4. due' = [due EXCEPT ![c] = e] /\ due \in [Call -> 0..MaxTime]
    BY <2>2 DEF EnqueueTicks, TypeOK
  <2>5. /\ Len(completions') = Len(completions) + 1
        /\ completions' \in Seq(Call)
        /\ \A j \in 1..(Len(completions) + 1) :
            completions'[j] = IF j < k THEN completions[j]
                              ELSE IF j = k THEN c ELSE completions[j - 1]
    <3>1. completions' \in Seq(Call) /\ Len(completions') = Len(completions) + 1
      BY <1>1, <2>3, InsertBeforeLemma DEF ListsOK
    <3>2. \A j \in 1..(Len(completions) + 1) :
            InsertBefore(completions, k, c)[j] =
                IF j < k THEN completions[j] ELSE IF j = k THEN c ELSE completions[j - 1]
      BY DEF InsertBefore
    <3> QED BY <2>3, <3>1, <3>2
  <2>6. completions \in Seq(Call)
    BY DEF TypeOK
  <2>7. CASE k = 1
    <3>1. Head(completions') = c
      BY <2>5, <2>6, <2>7
    <3>2. e \in Times /\ pending \in BOOLEAN
      BY CompletionsAssumption DEF Times, IdleValue, TypeOK
    <3>3. compare' = e /\ Armed'
      BY <2>1, <2>3, <2>7, <3>2, SetCompareArms
    <3>4. due'[c] = e
      BY <2>4
    <3> QED BY <1>3, <2>1, <3>1, <3>3, <3>4
  <2>8. CASE k # 1
    <3>1. completions # <<>>
      BY <2>6, <2>8
    <3>2. Head(completions') = Head(completions)
      BY <2>5, <2>6, <2>8, <3>1
    <3>3. Head(completions) \in Members(completions)
      BY <2>6, <3>1, DropFirst
    <3>4. due'[Head(completions)] = due[Head(completions)]
      BY <2>1, <2>4, <2>6, <3>1, <3>3
    <3>5. UNCHANGED <<compare, pending>>
      BY <2>3, <2>8 DEF timerVars
    <3>6. Armed'
      BY <1>2, <2>1, <3>1, <3>5 DEF Armed
    <3>7. compare' = due'[Head(completions')]
      BY <1>2, <2>1, <3>1, <3>2, <3>4, <3>5
    <3> QED BY <1>3, <2>1, <3>6, <3>7
  <2> QED BY <2>7, <2>8
<1>9. ASSUME NEW c \in Call, Abort(c) PROVE FirstIsArmed' /\ SleepInv'
  <2>1. /\ pc # "sleep" /\ pc' # "sleep" /\ now' = now /\ due' = due
        /\ completions' = Unlink(completions, c)
    BY <1>4, <1>9 DEF Abort
  <2>2. completions \in Seq(Call) /\ NoDup(completions)
    BY <1>1 DEF ListsOK
  <2>3. CASE completions = <<>>
    <3>1. completions' = <<>>
      BY <2>1, <2>3 DEF Unlink, Members
    <3> QED BY <1>3, <2>1, <3>1
  <2>4. CASE completions # <<>> /\ Head(completions) # c
    <3>1. completions' # <<>> /\ Head(completions') = Head(completions)
      BY <2>1, <2>2, <2>4, UnlinkHead
    <3>2. UNCHANGED <<compare, pending>>
      BY <1>9, <2>4 DEF Abort, timerVars
    <3> QED BY <1>2, <1>3, <2>1, <2>4, <3>1, <3>2 DEF Armed
  <2>5. CASE completions # <<>> /\ Head(completions) = c
    <3> DEFINE ticks == IF Len(completions) > 1 THEN due[completions[2]] ELSE IdleValue
    <3>1. ticks \in Times /\ pending \in BOOLEAN
      BY TimesType DEF TypeOK
    <3>2. SetCompare(ticks, pending)
      BY <1>9, <2>5 DEF Abort
    <3>3. compare' = ticks /\ Armed'
      BY <2>1, <3>1, <3>2, SetCompareArms
    <3>4. completions' = Drop(completions, 1)
      BY <2>1, <2>2, <2>5, UnlinkHead
    <3>5. CASE Len(completions) > 1
      <4>1. Head(completions') = completions[2]
        BY <2>2, <2>5, <3>4, <3>5, DropFirst
      <4>2. compare' = due[completions[2]]
        BY <3>3, <3>5
      <4> QED BY <1>3, <2>1, <3>3, <4>1, <4>2
    <3>6. CASE ~(Len(completions) > 1)
      <4>1. completions' = <<>>
        BY <2>2, <2>5, <3>4, <3>6, DropFirst
      <4> QED BY <1>3, <2>1, <4>1
    <3> QED BY <3>5, <3>6
  <2> QED BY <2>3, <2>4, <2>5
<1>10. ASSUME NEW c \in Call, Enqueue(c) PROVE FirstIsArmed' /\ SleepInv'
  BY <1>4, <1>5, <1>10 DEF Enqueue, timerVars
<1>11. ASSUME NEW f \in Flag, EventsSet(f) PROVE FirstIsArmed' /\ SleepInv'
  BY <1>4, <1>5, <1>11 DEF EventsSet, listVars, timerVars
<1>12. CASE Uninitialize
  BY <1>3, <1>12 DEF Uninitialize
<1>13. ASSUME NEW mask \in SUBSET Flag, EventsGet(mask) PROVE FirstIsArmed' /\ SleepInv'
  BY <1>5, <1>13 DEF EventsGet, MainAt, listVars, timerVars
<1>14. ASSUME NEW mask \in SUBSET Flag, NEW noConts \in BOOLEAN, WaitForEvents(mask, noConts)
       PROVE  FirstIsArmed' /\ SleepInv'
  BY <1>5, <1>14 DEF WaitForEvents, MainAt, listVars, timerVars
<1>15. CASE DequeueContinuation
  BY <1>5, <1>15 DEF DequeueContinuation, MainAt, timerVars
<1>16. CASE Return \/ ReleaseIrq \/ AcquireIrq \/ ReturnToApp \/ ProbeDone
  <2>1. pc # "sleep" /\ pc' # "sleep" /\ UNCHANGED <<now, listVars, timerVars>>
    BY <1>16 DEF Return, ReleaseIrq, AcquireIrq, ReturnToApp, ProbeDone, MainAt, MayGoOn
  <2> QED BY <1>5, <2>1 DEF listVars, timerVars
<1>17. CASE Sleep
  <2>1. /\ pc # "sleep" /\ pc' = "sleep" /\ now < expire
        /\ UNCHANGED <<now, due, completions, expire>>
    BY <1>17 DEF Sleep, MayGoOn, listVars
  <2>2. expire \in Times /\ pending \in BOOLEAN
    BY TimesType DEF TypeOK
  <2>3. FirstIsArmed'
    BY <2>1 DEF FirstIsArmed
  <2>4. CASE completions = <<>> /\ SetCompare(expire, pending) /\ state' = "nil"
    <3>1. compare' = expire /\ Armed'
      BY <2>1, <2>2, <2>4, SetCompareArms
    <3> QED BY <2>1, <2>3, <2>4, <3>1 DEF SleepInv
  <2>5. CASE /\ completions # <<>> /\ due[Head(completions)] > expire
             /\ SetCompare(expire, pending) /\ state' = "reset"
    <3>1. compare' = expire /\ Armed'
      BY <2>1, <2>2, <2>5, SetCompareArms
    <3>2. expire < due[Head(completions)]
      BY <2>5, TimesType DEF TypeOK, Times
    <3> QED BY <2>1, <2>3, <2>5, <3>1, <3>2 DEF SleepInv
  <2>6. CASE /\ completions # <<>> /\ due[Head(completions)] <= expire
             /\ UNCHANGED timerVars /\ state' = "keep"
    <3>1. UNCHANGED <<compare, pending>>
      BY <2>6 DEF timerVars
    <3>2. compare = due[Head(completions)] /\ Armed
      BY <1>2, <2>1, <2>6
    <3>3. Armed'
      BY <2>1, <3>1, <3>2 DEF Armed
    <3> QED BY <2>1, <2>3, <2>6, <3>1, <3>2, <3>3 DEF SleepInv
  <2> QED BY <1>17, <2>4, <2>5, <2>6 DEF Sleep
<1>18. CASE WakeUp
  <2>1. /\ pc = "sleep" /\ pc' # "sleep" /\ UNCHANGED <<now, due, completions>>
        /\ Restore
    BY <1>18 DEF WakeUp, listVars
  <2>2. CASE state = "keep" /\ UNCHANGED timerVars
    <3>1. UNCHANGED <<compare, pending>>
      BY <2>2 DEF timerVars
    <3>2. compare = due[Head(completions)] /\ Armed
      BY <2>1, <2>2 DEF SleepInv
    <3> QED BY <1>3, <2>1, <3>1, <3>2 DEF Armed
  <2>3. CASE state = "nil"
    <3>1. completions = <<>>
      BY <2>1, <2>3 DEF SleepInv
    <3> QED BY <1>3, <2>1, <3>1
  <2>4. CASE state = "reset"
    <3>1. completions # <<>>
      BY <2>1, <2>4 DEF SleepInv
    <3>2. SetCompare(due[Head(completions)], pending)
      BY <2>1, <2>4, <3>1 DEF Restore
    <3>3. due[Head(completions)] \in Times /\ pending \in BOOLEAN
      BY <3>1, TimesType DEF TypeOK
    <3>4. compare' = due[Head(completions)] /\ Armed'
      BY <2>1, <3>2, <3>3, SetCompareArms
    <3> QED BY <1>3, <2>1, <3>4
  <2> QED BY <2>1, <2>2, <2>3, <2>4 DEF Restore
<1>19. CASE UNCHANGED vars
  BY <1>19 DEF vars, listVars, timerVars, waitVars, FirstIsArmed, SleepInv, Armed
<1>20. CASE Interrupt
  BY <1>7, <1>8, <1>9, <1>10, <1>11, <1>20 DEF Interrupt
<1>21. CASE Main
  BY <1>12, <1>13, <1>14, <1>15, <1>16, <1>17, <1>18, <1>21 DEF Main
<1> QED BY <1>6, <1>19, <1>20, <1>21 DEF Next

\* The whole invariant is inductive.
LEMMA TimerInvariant ==
    ASSUME SleepServesInterrupts = FALSE
    PROVE  Spec => []TimerInv
<1>1. TimerInv /\ [Next]_vars => TimerInv'
  BY ListStep, TimerStep DEF TimerInv
<1> QED BY <1>1, InitInv, PTL DEF Spec

\* No completion is forgotten: outside of the sleep the register is armed for
\* the first one.
THEOREM CompletionArmed ==
    ASSUME SleepServesInterrupts = FALSE
    PROVE  Spec => []FirstIsArmed
<1>1. TimerInv => FirstIsArmed
  BY DEF TimerInv
<1> QED BY <1>1, TimerInvariant, PTL

\* The processor sleeps neither past the time-out of the wait nor past the
\* first completion.
THEOREM SleepBounded ==
    ASSUME SleepServesInterrupts = FALSE
    PROVE  Spec => []NoOversleep
<1>1. TimerInv => NoOversleep
  <2> SUFFICES ASSUME TimerInv, pc = "sleep", ~pending
               PROVE  /\ now < compare /\ compare <= expire
                      /\ completions # <<>> => compare <= due[Head(completions)]
    BY DEF NoOversleep
  <2>1. now < compare
    BY DEF TimerInv, SleepInv, Armed
  <2>2. /\ expire \in Int /\ compare \in Int
        /\ completions # <<>> => due[Head(completions)] \in Int
    BY TimesType DEF TimerInv, TypeOK, Times
  <2>3. state \in {"keep", "nil", "reset"}
    BY DEF TimerInv, TypeOK
  <2> QED BY <2>1, <2>2, <2>3 DEF TimerInv, SleepInv
<1> QED BY <1>1, TimerInvariant, PTL

\* No callback runs before its time.
THEOREM CompletionsOnTime ==
    ASSUME SleepServesInterrupts = FALSE
    PROVE  Spec => NeverEarly
<1> DEFINE OnTime == TimerISR => \A c \in Members(completions) \ Members(completions') :
                                    due[c] <= now
<1>1. TimerInv /\ [Next]_vars => [OnTime]_vars
  <2> SUFFICES ASSUME TimerInv, TimerISR,
                      NEW c \in Members(completions) \ Members(completions')
               PROVE  due[c] <= now
    OBVIOUS
  <2>1. pc # "sleep"
    BY DEF TimerISR, InterruptsOn
  <2>2. completions # <<>>
    BY DEF Members
  <2>3. completions \in Seq(Call)
    BY DEF TimerInv, TypeOK
  <2>4. now >= compare /\ DequeueAndExec
    <3>1. completions' # completions
      OBVIOUS
    <3> QED BY <3>1 DEF TimerISR
  <2>5. completions' = Drop(completions, 1)
    BY <2>2, <2>4 DEF DequeueAndExec
  <2>6. c = Head(completions)
    BY <2>2, <2>3, <2>5, DropFirst
  <2>7. compare = due[Head(completions)]
    BY <2>1, <2>2 DEF TimerInv, FirstIsArmed
  <2>8. due[c] <= now <=> now >= compare
    BY <2>6, <2>7
  <2> QED BY <2>4, <2>8
<1> QED BY <1>1, TimerInvariant, PTL DEF Spec, NeverEarly

\* The processor does not go to sleep on an event it is to wake up for.
THEOREM SleepWithoutEvent ==
    ASSUME SleepServesInterrupts = FALSE
    PROVE  Spec => []NoSleepOnEvent
<1>1. Init => NoSleepOnEvent
  BY DEF Init, NoSleepOnEvent
<1>2. NoSleepOnEvent /\ [Next]_vars => NoSleepOnEvent'
  <2> SUFFICES ASSUME NoSleepOnEvent, [Next]_vars PROVE NoSleepOnEvent'
    OBVIOUS
  <2>1. CASE Sleep
    BY <2>1 DEF Sleep, MayGoOn, NoSleepOnEvent
  <2>2. pc' # "sleep" => NoSleepOnEvent'
    BY DEF NoSleepOnEvent
  <2>3. UNCHANGED <<events, wakeup, pc>> => NoSleepOnEvent'
    BY DEF NoSleepOnEvent
  <2>4. CASE Interrupt
    <3>1. pc # "sleep" /\ pc' = pc
      BY <2>4 DEF Interrupt, TimerISR, EnqueueDelta, Abort, Enqueue, EventsSet, InterruptsOn
    <3> QED BY <2>2, <3>1
  <2>5. CASE Tick \/ UNCHANGED vars
    BY <2>3, <2>5 DEF Tick, vars, waitVars
  <2>6. CASE Main /\ ~Sleep
    <3>1. pc' # "sleep"
      BY <2>6 DEF Main, Uninitialize, EventsGet, WaitForEvents, Return, ReleaseIrq,
                  DequeueContinuation, AcquireIrq, ReturnToApp, WakeUp, ProbeDone, MainAt
    <3> QED BY <2>2, <3>1
  <2> QED BY <2>1, <2>4, <2>5, <2>6 DEF Next
<1> QED BY <1>1, <1>2, PTL DEF Spec

-----------------------------------------------------------------------------
(* The order of the completions *)

Sorted(s, d) == \A i \in 1..Len(s) : \A j \in 1..i : d[s[j]] <= d[s[i]]

LEMMA DropSorted ==
    ASSUME NEW S, NEW s \in Seq(S), NEW d, NEW n \in 1..Len(s), Sorted(s, d)
    PROVE  Sorted(Drop(s, n), d)
<1> SUFFICES ASSUME NEW i \in 1..Len(Drop(s, n)), NEW j \in 1..i
             PROVE  d[Drop(s, n)[j]] <= d[Drop(s, n)[i]]
  BY DEF Sorted
<1>1. Len(Drop(s, n)) = Len(s) - 1
  BY DropLemma
<1> DEFINE p == IF i < n THEN i ELSE i + 1
           q == IF j < n THEN j ELSE j + 1
<1>2. p \in 1..Len(s) /\ q \in 1..p
  BY <1>1
<1>3. Drop(s, n)[i] = s[p]
  BY <1>1 DEF Drop
<1>4. Drop(s, n)[j] = s[q]
  BY <1>1 DEF Drop
<1> HIDE DEF p, q
<1> QED BY <1>2, <1>3, <1>4 DEF Sorted

LEMMA UnlinkSorted ==
    ASSUME NEW S, NEW s \in Seq(S), NEW d, NEW x, Sorted(s, d)
    PROVE  Sorted(Unlink(s, x), d)
<1>1. CASE x \in Members(s)
  <2>1. Position(s, x) \in 1..Len(s)
    BY <1>1 DEF Members, Position
  <2> QED BY <1>1, <2>1, DropSorted DEF Unlink
<1>2. CASE x \notin Members(s)
  BY <1>2 DEF Unlink
<1> QED BY <1>1, <1>2

\* EnqueueTicks puts a completion behind those that are due by its time and
\* before those that are due later.
LEMMA EnqueueSorted ==
    ASSUME TypeOK, Sorted(completions, due), NEW c \in Call, c \notin Members(completions),
           NEW e \in 1..MaxTime, EnqueueTicks(c, e)
    PROVE  Sorted(completions', due')
<1>1. PICK k \in 1..(Len(completions) + 1) :
        IsPlaceFor(e, k) /\ completions' = InsertBefore(completions, k, c)
  BY DEF EnqueueTicks
<1>2. completions \in Seq(Call) /\ due \in [Call -> 0..MaxTime]
  BY DEF TypeOK
<1>3. Len(completions') = Len(completions) + 1
  BY <1>1, <1>2, InsertBeforeLemma
<1>4. \A i \in 1..(Len(completions) + 1) :
        completions'[i] = IF i < k THEN completions[i]
                          ELSE IF i = k THEN c ELSE completions[i - 1]
  BY <1>1 DEF InsertBefore
<1>5. \A i \in 1..Len(completions) :
        completions[i] \in Call /\ completions[i] # c
  BY <1>2 DEF Members
<1>6. due'[c] = e /\ \A i \in 1..Len(completions) : due'[completions[i]] = due[completions[i]]
  BY <1>2, <1>5 DEF EnqueueTicks
<1>7. \A i \in 1..Len(completions) : due[completions[i]] \in Int
  BY <1>2, <1>5
<1> DEFINE t(i) == due'[completions'[i]]
<1>8. \A i \in 1..(Len(completions) + 1) :
        i < k => i \in 1..Len(completions) /\ t(i) = due[completions[i]]
  BY <1>2, <1>4, <1>6
<1>9. \A i \in 1..(Len(completions) + 1) :
        i > k => i - 1 \in 1..Len(completions) /\ t(i) = due[completions[i - 1]]
  <2> SUFFICES ASSUME NEW i \in 1..(Len(completions) + 1), i > k
               PROVE  i - 1 \in 1..Len(completions) /\ t(i) = due[completions[i - 1]]
    OBVIOUS
  <2>1. i - 1 \in 1..Len(completions)
    BY <1>2
  <2>2. completions'[i] = completions[i - 1]
    BY <1>4
  <2> QED BY <1>6, <2>1, <2>2
<1>10. t(k) = e
  BY <1>4, <1>6
<1>11. \A i \in 1..(k - 1) : due[completions[i]] <= e
  BY <1>1 DEF IsPlaceFor
<1>12. \A i \in 1..Len(completions) : i >= k => e <= due[completions[i]]
  <2> SUFFICES ASSUME NEW i \in 1..Len(completions), i >= k
               PROVE  e <= due[completions[i]]
    OBVIOUS
  <2>1. k \in 1..Len(completions) /\ e < due[completions[k]]
    BY <1>1, <1>2 DEF IsPlaceFor
  <2>2. due[completions[k]] <= due[completions[i]]
    BY <2>1 DEF Sorted
  <2>3. due[completions[k]] \in Int /\ due[completions[i]] \in Int
    BY <1>7, <2>1
  <2> QED BY <2>1, <2>2, <2>3
<1>13. \A i \in 1..Len(completions) : \A j \in 1..i :
        due[completions[j]] <= due[completions[i]]
  BY DEF Sorted
<1> SUFFICES ASSUME NEW i \in 1..(Len(completions) + 1), NEW j \in 1..i
             PROVE  t(j) <= t(i)
  BY <1>3 DEF Sorted
<1> HIDE DEF t
<1>14. Len(completions) \in Nat /\ j \in 1..(Len(completions) + 1)
  BY <1>2
<1>15. CASE i < k
  <2>1. t(i) = due[completions[i]] /\ t(j) = due[completions[j]] /\ i \in 1..Len(completions)
    BY <1>8, <1>14, <1>15
  <2> QED BY <1>13, <2>1
<1>16. CASE i = k
  <2>1. CASE j = k
    BY <1>10, <1>16, <2>1
  <2>2. CASE j < k
    <3>1. t(j) = due[completions[j]] /\ j \in 1..(k - 1)
      BY <1>8, <1>14, <2>2
    <3> QED BY <1>10, <1>11, <1>16, <3>1
  <2> QED BY <1>16, <2>1, <2>2
<1>17. CASE i > k
  <2>1. t(i) = due[completions[i - 1]] /\ i - 1 \in 1..Len(completions) /\ i - 1 >= k
    BY <1>9, <1>17
  <2>2. e <= due[completions[i - 1]] /\ due[completions[i - 1]] \in Int
    BY <1>7, <1>12, <2>1
  <2>3. CASE j > k
    <3>1. t(j) = due[completions[j - 1]] /\ j - 1 \in 1..(i - 1)
      BY <1>9, <1>14, <2>3
    <3> QED BY <1>13, <2>1, <3>1
  <2>4. CASE j = k
    BY <1>10, <2>1, <2>2, <2>4
  <2>5. CASE j < k
    <3>1. t(j) = due[completions[j]] /\ j \in 1..(k - 1) /\ j \in 1..Len(completions)
      BY <1>8, <1>14, <2>5
    <3>2. t(j) <= e /\ t(j) \in Int
      BY <1>7, <1>11, <3>1
    <3> QED BY <2>1, <2>2, <3>2
  <2> QED BY <2>3, <2>4, <2>5
<1> QED BY <1>15, <1>16, <1>17

\* The list of completions is always in the order of their times, on every
\* processor.
THEOREM CompletionsInOrder == Spec => []InOrder
<1> DEFINE Inv == TypeOK /\ InOneList /\ InOrder
<1>1. Init => Inv
  <2>1. Init => TypeOK /\ InOneList
    BY InitInv DEF TimerInv
  <2>2. Init => InOrder
    BY DEF Init, InOrder
  <2> QED BY <2>1, <2>2
<1>2. Inv /\ [Next]_vars => Inv'
  <2> SUFFICES ASSUME Inv, [Next]_vars PROVE InOrder'
    BY ListStep
  <2>1. completions \in Seq(Call) /\ Sorted(completions, due)
    BY DEF TypeOK, InOrder, Sorted
  <2>2. Sorted(completions', due') => InOrder'
    BY DEF InOrder, Sorted
  <2>3. UNCHANGED <<completions, due>> => InOrder'
    BY <2>1, <2>2
  <2>4. completions' = <<>> => InOrder'
    BY DEF InOrder
  <2>5. CASE TimerISR
    <3>1. CASE completions # <<>> /\ completions' = Drop(completions, 1)
      <4>1. 1 \in 1..Len(completions)
        BY <2>1, <3>1
      <4>2. Sorted(Drop(completions, 1), due)
        BY <2>1, <4>1, DropSorted
      <4> QED BY <2>2, <2>5, <3>1, <4>2 DEF TimerISR
    <3>2. CASE completions' = completions
      BY <2>3, <2>5, <3>2 DEF TimerISR
    <3> QED BY <2>5, <3>1, <3>2 DEF TimerISR, DequeueAndExec
  <2>6. ASSUME NEW c \in Call, EnqueueDelta(c) PROVE InOrder'
    <3>1. PICK e \in 1..MaxTime : EnqueueTicks(c, e)
      BY <2>6 DEF EnqueueDelta
    <3>2. c \notin Members(completions)
      BY <2>6 DEF EnqueueDelta
    <3> QED BY <2>1, <2>2, <3>1, <3>2, EnqueueSorted
  <2>7. ASSUME NEW c \in Call, Abort(c) PROVE InOrder'
    <3>1. Sorted(Unlink(completions, c), due)
      BY <2>1, UnlinkSorted
    <3> QED BY <2>2, <2>7, <3>1 DEF Abort
  <2>8. ASSUME NEW c \in Call, Enqueue(c) PROVE InOrder'
    BY <2>3, <2>8 DEF Enqueue
  <2>9. ASSUME NEW f \in Flag, EventsSet(f) PROVE InOrder'
    BY <2>3, <2>9 DEF EventsSet, listVars
  <2>10. CASE Main
    <3>1. UNCHANGED <<completions, due>> \/ completions' = <<>>
      BY <2>10 DEF Main, Uninitialize, EventsGet, WaitForEvents, Return, ReleaseIrq,
                   DequeueContinuation, AcquireIrq, ReturnToApp, Sleep, WakeUp,
                   ProbeDone, listVars
    <3> QED BY <2>3, <2>4, <3>1
  <2>11. CASE Tick \/ UNCHANGED vars
    BY <2>3, <2>11 DEF Tick, vars, listVars
  <2>12. CASE Interrupt
    BY <2>5, <2>6, <2>7, <2>8, <2>9, <2>12 DEF Interrupt
  <2> QED BY <2>10, <2>11, <2>12 DEF Next
<1> QED BY <1>1, <1>2, PTL DEF Spec

\* The two lists of calls together: one place for each call, in the order in
\* which they are due.
THEOREM CallsStayLinked == Spec => []CallsLinked
<1>1. InOneList /\ InOrder => CallsLinked
  BY DEF CallsLinked
<1> QED BY <1>1, CallInOneList, CompletionsInOrder, PTL

\* The compare register serves the completions and the wait's time-out, where
\* the processor sleeps with its interrupts masked.
THEOREM RegisterServesBoth ==
    ASSUME SleepServesInterrupts = FALSE
    PROVE  Spec => []RegisterSound
<1>1. FirstIsArmed /\ NoOversleep => RegisterSound
  BY DEF RegisterSound
<1> QED BY <1>1, CompletionArmed, SleepBounded, PTL

=============================================================================
