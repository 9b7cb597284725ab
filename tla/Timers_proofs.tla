--------------------------- MODULE Timers_proofs ---------------------------
(***************************************************************************)
(* Proofs about Timers, for any timers, arguments and times.               *)
(***************************************************************************)
EXTENDS Timers, Lists_proofs, WellFoundedInduction, TLAPS

Statuses == {"none", "idle", "busy", "lost"}

\* What SpawnTimer works on is as it should be.
SpawnOK(trig, exec, exp, thread) ==
    /\ timers \in Seq(Timer) /\ NoDup(timers)
    /\ trig \subseteq Members(timers)
    /\ exec \subseteq Members(timers)
    /\ exp \in [Timer -> Int]
    /\ last \in [Timer -> Int]
    /\ thread \in Statuses
    /\ param \in Timer \cup {NoTimer}
    /\ fresh \subseteq Timer

\* A timer that does not recur and ran since it was set is neither triggered
\* nor set for any time.
RanOnce ==
    \A t \in Members(timers) : t \notin recurring /\ t \notin fresh =>
        t \notin triggered /\ expire[t] = Infinite

-----------------------------------------------------------------------------
(* Arithmetic *)

\* Wrap-around and the remainder of C give integers.
LEMMA WrapType ==
    ASSUME NEW x \in Int
    PROVE  Wrap(x) \in Int
<1>1. 2 * Infinite + 2 \in Nat /\ 2 * Infinite + 2 > 0
  BY TimersAssumption
<1>2. x + Infinite + 1 \in Int
  BY TimersAssumption
<1>3. (x + Infinite + 1) % (2 * Infinite + 2) \in Int
  BY <1>1, <1>2
<1> QED BY <1>3, TimersAssumption DEF Wrap

\* A nonempty set of natural numbers has a least element.
LEMMA Least ==
    ASSUME NEW S \in SUBSET Nat, S # {}
    PROVE  \E e \in S : \A f \in S : e <= f
<1>1. PICK e \in S : \A f \in S : ~(<<f, e>> \in OpToRel(<, Nat))
  BY NatLessThanWellFounded, WFMin
<1>2. \A f \in S : ~(f < e)
  BY <1>1 DEF OpToRel
<1> QED BY <1>2

\* The time-out is ahead, and no later than any expiration that is ahead.
LEMMA NextTimeoutLemma ==
    ASSUME TypeOK
    PROVE  /\ NextTimeout \in Int
           /\ NextTimeout > clock
           /\ \A t \in enabled : expire[t] > clock => NextTimeout <= expire[t]
<1> DEFINE ends == {clock + MaxSleep} \cup {cache} \cup {expire[t] : t \in enabled}
           ahead == {e \in ends : e > clock}
<1>1. clock \in Nat /\ MaxSleep \in Nat \ {0}
  BY TimersAssumption DEF TypeOK
<1>2. \A t \in enabled : expire[t] \in Int
  BY MembersLemma DEF TypeOK
<1>3. ends \subseteq Int
  BY <1>1, <1>2 DEF TypeOK
<1>4. ahead \subseteq Nat
  BY <1>1, <1>3
<1>5. clock + MaxSleep \in ahead
  BY <1>1
<1>6. \E e \in ahead : \A f \in ahead : e <= f
  <2> HIDE DEF ahead
  <2> QED BY <1>4, <1>5, Least
<1>7. NextTimeout \in ahead /\ \A f \in ahead : NextTimeout <= f
  BY <1>6 DEF NextTimeout
<1> QED BY <1>1, <1>3, <1>7

-----------------------------------------------------------------------------
(* The types *)

\* SpawnTimer keeps the list and the types.
LEMMA SpawnTimerType ==
    ASSUME NEW trig, NEW exec, NEW exp, NEW thread,
           SpawnOK(trig, exec, exp, thread), SpawnTimer(trig, exec, exp, thread)
    PROVE  /\ timers' \in Seq(Timer) /\ NoDup(timers')
           /\ Members(timers') = Members(timers)
           /\ triggered' \subseteq Members(timers)
           /\ executing' \subseteq Members(timers)
           /\ expire' \in [Timer -> Int]
           /\ last' \in [Timer -> Int]
           /\ status' \in Statuses
           /\ param' \in Timer \cup {NoTimer}
           /\ fresh' \subseteq Timer
<1>1. CASE NoSpawn(trig, exec, exp, thread)
  BY <1>1 DEF NoSpawn, SpawnOK
<1>2. ASSUME NEW t \in Timer, IsFirst(t, trig), SpawnOne(t, trig, exec, exp)
      PROVE  /\ timers' \in Seq(Timer) /\ NoDup(timers')
             /\ Members(timers') = Members(timers)
             /\ triggered' \subseteq Members(timers)
             /\ executing' \subseteq Members(timers)
             /\ expire' \in [Timer -> Int]
             /\ last' \in [Timer -> Int]
             /\ status' \in Statuses
             /\ param' \in Timer \cup {NoTimer}
             /\ fresh' \subseteq Timer
  <2>1. t \in Members(timers)
    BY <1>2 DEF IsFirst, SpawnOK
  <2>2. /\ timers' \in Seq(Timer) /\ NoDup(timers')
        /\ Members(timers') = Members(timers)
    <3>1. timers' = LinkAtBack(timers, t)
      BY <1>2 DEF SpawnOne
    <3>2. timers \in Seq(Timer) /\ NoDup(timers)
      BY DEF SpawnOK
    <3>3. /\ LinkAtBack(timers, t) \in Seq(Timer)
          /\ NoDup(LinkAtBack(timers, t))
          /\ Members(LinkAtBack(timers, t)) = Members(timers) \cup {t}
      BY <3>2, LinkAtBackLemma
    <3> QED BY <2>1, <3>1, <3>3
  <2>3. Infinite \in Int
    BY TimersAssumption
  <2>4. expire' \in [Timer -> Int] /\ last' \in [Timer -> Int]
    BY <1>2, <2>3 DEF SpawnOne, SpawnOK
  <2> QED BY <1>2, <2>1, <2>2, <2>4 DEF SpawnOne, SpawnOK, Statuses
<1> QED BY <1>1, <1>2 DEF SpawnTimer

\* The list and the types.
ListOK == TypeOK /\ NoDup(timers) /\ DivisorNotZero

LEMMA InitList == Init => ListOK
<1> SUFFICES ASSUME Init PROVE ListOK
  OBVIOUS
<1>1. Infinite \in Int
  BY TimersAssumption
<1>2. timers = <<>> /\ timers \in Seq(Timer) /\ Len(timers) = 0 /\ Members(timers) = {}
  BY DEF Init, Members
<1>3. NoDup(timers)
  BY <1>2 DEF NoDup
<1>4. clock \in 0..MaxTime /\ now \in 0..clock
  BY TimersAssumption DEF Init
<1>5. /\ expire \in [Timer -> Int]
      /\ freq \in [Timer -> Int]
      /\ last \in [Timer -> Int]
      /\ cache \in Int
  BY <1>1 DEF Init
<1>6. /\ enabled \subseteq Members(timers) /\ recurring \subseteq Members(timers)
      /\ triggered \subseteq Members(timers) /\ executing \subseteq Members(timers)
      /\ fresh \subseteq Timer
      /\ DivisorNotZero
  BY <1>2 DEF Init, DivisorNotZero
<1>7. /\ status \in {"none", "idle", "busy", "lost"}
      /\ param \in Timer \cup {NoTimer}
      /\ sleeping \in BOOLEAN
  BY DEF Init
<1> QED BY <1>2, <1>3, <1>4, <1>5, <1>6, <1>7 DEF ListOK, TypeOK

LEMMA SpawnOKNow ==
    ASSUME ListOK
    PROVE  /\ SpawnOK(Trigger, executing, expire, status)
           /\ SpawnOK(triggered, executing \ {param},
                      IF Reschedules(param)
                      THEN [expire EXCEPT ![param] = NextExpire(param)]
                      ELSE expire, "idle")
<1>1. Trigger \subseteq Members(timers)
  BY DEF Trigger, Expired, ListOK, TypeOK
<1>2. SpawnOK(Trigger, executing, expire, status)
  BY <1>1 DEF SpawnOK, ListOK, TypeOK, Statuses
<1>3. ASSUME Reschedules(param)
      PROVE  param \in Timer /\ NextExpire(param) \in Int
  <2>1. param \in Timer
    BY <1>3, MembersLemma DEF Reschedules, ListOK, TypeOK
  <2>2. now \in Int /\ last[param] \in Int /\ freq[param] \in Int
    BY <2>1 DEF ListOK, TypeOK
  <2>3. Wrap(last[param] + freq[param]) \in Int
    BY <2>2, WrapType
  <2>4. CASE Wrap(last[param] + freq[param]) >= now
    BY <2>1, <2>2, <2>3, <2>4 DEF NextExpire
  <2>5. CASE Wrap(last[param] + freq[param]) < now
    <3> DEFINE d == Wrap(now - Wrap(last[param] + freq[param]))
    <3>1. d \in Int
      BY <2>2, <2>3, WrapType
    <3>2. Rem(d, freq[param]) \in Int
      <4> HIDE DEF d
      <4>1. freq[param] # 0
        BY <1>3 DEF Reschedules, ListOK, DivisorNotZero
      <4>2. Abs(freq[param]) \in Nat \ {0} /\ Abs(d) \in Nat
        BY <2>2, <3>1, <4>1 DEF Abs
      <4>3. Abs(d) % Abs(freq[param]) \in Int /\ d % Abs(freq[param]) \in Int
        BY <3>1, <4>2
      <4> QED BY <4>3 DEF Rem
    <3>3. now - Rem(d, freq[param]) + freq[param] \in Int
      BY <2>2, <3>2
    <3>4. Wrap(now - Rem(d, freq[param]) + freq[param]) \in Int
      BY <3>3, WrapType
    <3> QED BY <2>1, <2>5, <3>4 DEF NextExpire
  <2> QED BY <2>2, <2>3, <2>4, <2>5
<1>4. (IF Reschedules(param)
       THEN [expire EXCEPT ![param] = NextExpire(param)]
       ELSE expire) \in [Timer -> Int]
  BY <1>3 DEF ListOK, TypeOK
<1>5. executing \ {param} \subseteq Members(timers)
  BY DEF ListOK, TypeOK
<1> QED BY <1>2, <1>4, <1>5 DEF SpawnOK, ListOK, TypeOK, Statuses

\* A change leaves integers, and no period of 0 in a timer that recurs.
LEMMA ConfigureType ==
    ASSUME ListOK, NEW t \in Timer, NEW due \in Dues, NEW period \in Periods,
           Configure(t, due, period, enabled, recurring)
    PROVE  /\ expire' \in [Timer -> Int]
           /\ freq' \in [Timer -> Int]
           /\ enabled' \subseteq Members(timers) \cup {t}
           /\ recurring' \subseteq Members(timers) \cup {t}
           /\ cache' \in Int
           /\ fresh' = fresh \cup {t}
           /\ DivisorNotZero'
<1> DEFINE e == IF due = -1 THEN Infinite ELSE due * Millisecond
           f == IF period = -1 THEN Infinite ELSE period
           dueFails == e < 0
           fails == dueFails \/ f < 0
           ex == IF e = Infinite \/ dueFails THEN e ELSE clock + e
           fr == IF dueFails \/ f = Infinite THEN f ELSE f * Millisecond
<1>1. due \in Int /\ period \in Int /\ Infinite \in Nat \ {0} /\ Millisecond \in Nat \ {0}
  BY TimersAssumption DEF ListOK, TypeOK
<1>2. e \in Int /\ f \in Int /\ ex \in Int /\ fr \in Int
  BY <1>1 DEF ListOK, TypeOK
<1>3. dueFails => period # 0
  <2>1. 0 \in Periods => Dues \subseteq Nat \cup {-1}
    BY TimersAssumption
  <2>2. dueFails => due \notin Nat \cup {-1}
    BY <1>1
  <2> QED BY <2>1, <2>2
<1>4. fr = 0 => ~fails /\ f = 0
  BY <1>1, <1>2, <1>3
<1>5. /\ expire' = [expire EXCEPT ![t] = ex]
      /\ freq' = [freq EXCEPT ![t] = fr]
      /\ enabled' = IF e = Infinite THEN enabled \ {t}
                    ELSE IF dueFails THEN enabled ELSE enabled \cup {t}
      /\ recurring' = IF fails THEN recurring
                      ELSE IF f \in {0, Infinite} THEN recurring \ {t} ELSE recurring \cup {t}
      /\ cache' = IF fails THEN cache ELSE 0
      /\ fresh' = fresh \cup {t}
  BY DEF Configure
<1> HIDE DEF e, f, dueFails, fails, ex, fr
<1>6. expire' \in [Timer -> Int] /\ freq' \in [Timer -> Int] /\ cache' \in Int
  BY <1>2, <1>5 DEF ListOK, TypeOK
<1>7. enabled' \subseteq Members(timers) \cup {t} /\ recurring' \subseteq Members(timers) \cup {t}
  BY <1>5 DEF ListOK, TypeOK
<1>8. DivisorNotZero'
  <2> SUFFICES ASSUME NEW u \in recurring' PROVE freq'[u] # 0
    BY DEF DivisorNotZero
  <2>1. u \in Timer
    BY <1>7, MembersLemma DEF ListOK, TypeOK
  <2>2. CASE u # t
    BY <1>5, <2>1, <2>2 DEF ListOK, TypeOK, DivisorNotZero
  <2>3. CASE u = t
    BY <1>4, <1>5, <2>1, <2>3 DEF ListOK, TypeOK
  <2> QED BY <2>2, <2>3
<1> QED BY <1>5, <1>6, <1>7, <1>8

\* ProcessTimer keeps the list and the types.
LEMMA ProcessTimerList ==
    ASSUME ListOK, ProcessTimer, UNCHANGED <<clock, setting>>,
           sleeping' \in BOOLEAN
    PROVE  ListOK'
<1>1. cache' \in Int
  BY NextTimeoutLemma DEF ProcessTimer, ListOK
<1>2. now' \in 0..clock /\ clock' = clock
  BY DEF ProcessTimer, ListOK, TypeOK
<1>3. /\ timers' \in Seq(Timer) /\ NoDup(timers')
      /\ Members(timers') = Members(timers)
      /\ triggered' \subseteq Members(timers)
      /\ executing' \subseteq Members(timers)
      /\ expire' \in [Timer -> Int]
      /\ last' \in [Timer -> Int]
      /\ status' \in Statuses
      /\ param' \in Timer \cup {NoTimer}
      /\ fresh' \subseteq Timer
  <2>1. CASE Expired # {}
    BY <2>1, SpawnOKNow, SpawnTimerType DEF ProcessTimer
  <2>2. CASE Expired = {}
    BY <2>2 DEF ProcessTimer, running, ListOK, TypeOK, Statuses
  <2> QED BY <2>1, <2>2
<1>4. /\ enabled' = enabled /\ recurring' = recurring /\ freq' = freq
  BY DEF setting
<1>5. enabled' \subseteq Members(timers') /\ recurring' \subseteq Members(timers')
  BY <1>3, <1>4 DEF ListOK, TypeOK
<1>6. freq' \in [Timer -> Int] /\ DivisorNotZero'
  BY <1>4 DEF ListOK, TypeOK, DivisorNotZero
<1>7. clock' \in 0..MaxTime /\ now' \in 0..clock'
  BY <1>2 DEF ListOK, TypeOK
<1> QED BY <1>1, <1>3, <1>5, <1>6, <1>7 DEF ListOK, TypeOK, Statuses

\* Every step keeps the list and the types.
LEMMA ListStep ==
    ASSUME ListOK, [Next]_vars
    PROVE  ListOK'
<1>1. CASE Tick
  <2>1. clock' \in 0..MaxTime /\ now \in 0..clock'
    BY <1>1, TimersAssumption DEF Tick, ListOK, TypeOK
  <2> QED BY <1>1, <2>1 DEF Tick, setting, running, ListOK, TypeOK, DivisorNotZero
<1>2. CASE Poll
  BY <1>2, ProcessTimerList DEF Poll, ListOK, TypeOK
<1>3. CASE Idle
  BY <1>3, ProcessTimerList DEF Idle
<1>4. CASE Wake
  BY <1>4 DEF Wake, setting, running, ListOK, TypeOK, DivisorNotZero
<1>5. CASE CallbackEnd
  <2>1. /\ timers' \in Seq(Timer) /\ NoDup(timers')
        /\ Members(timers') = Members(timers)
        /\ triggered' \subseteq Members(timers)
        /\ executing' \subseteq Members(timers)
        /\ expire' \in [Timer -> Int]
        /\ last' \in [Timer -> Int]
        /\ status' \in Statuses
        /\ param' \in Timer \cup {NoTimer}
        /\ fresh' \subseteq Timer
    BY <1>5, SpawnOKNow, SpawnTimerType DEF CallbackEnd
  <2>2. /\ enabled' = enabled /\ recurring' = recurring /\ freq' = freq
        /\ clock' = clock /\ now' = now /\ sleeping' = sleeping
    BY <1>5 DEF CallbackEnd, setting
  <2>3. cache' \in Int
    BY <1>5 DEF CallbackEnd, ListOK, TypeOK
  <2>4. enabled' \subseteq Members(timers') /\ recurring' \subseteq Members(timers')
    BY <2>1, <2>2 DEF ListOK, TypeOK
  <2>5. DivisorNotZero'
    BY <2>2 DEF ListOK, DivisorNotZero
  <2> QED BY <2>1, <2>2, <2>3, <2>4, <2>5 DEF ListOK, TypeOK, Statuses
<1>6. ASSUME NEW t \in Timer, NEW due \in Dues, NEW period \in Periods, Create(t, due, period)
      PROVE  ListOK'
  <2>1. timers' = LinkAtBack(timers, t)
    BY <1>6 DEF Create, LinkAtBack, Unlink
  <2>2. /\ timers' \in Seq(Timer) /\ NoDup(timers')
        /\ Members(timers') = Members(timers) \cup {t}
    <3>1. timers \in Seq(Timer) /\ NoDup(timers)
      BY DEF ListOK, TypeOK
    <3>2. /\ LinkAtBack(timers, t) \in Seq(Timer)
          /\ NoDup(LinkAtBack(timers, t))
          /\ Members(LinkAtBack(timers, t)) = Members(timers) \cup {t}
      BY <3>1, LinkAtBackLemma
    <3> QED BY <2>1, <3>2
  <2>3. Configure(t, due, period, enabled, recurring)
    BY <1>6 DEF Create
  <2> QED BY <1>6, <2>2, <2>3, ConfigureType DEF Create, ListOK, TypeOK
<1>7. ASSUME NEW t \in Timer, NEW due \in Dues, NEW period \in Periods, Change(t, due, period)
      PROVE  ListOK'
  <2>1. Configure(t, due, period, enabled, recurring)
    BY <1>7 DEF Change
  <2>2. t \in Members(timers) /\ timers' = timers
    BY <1>7 DEF Change
  <2> QED BY <1>7, <2>1, <2>2, ConfigureType DEF Change, ListOK, TypeOK
<1>8. ASSUME NEW t \in Timer, Dispose(t)
      PROVE  ListOK'
  BY <1>8 DEF Dispose, running, ListOK, TypeOK, DivisorNotZero
<1>9. ASSUME NEW t \in Timer, Collect(t)
      PROVE  ListOK'
  <2>1. /\ timers' \in Seq(Timer) /\ NoDup(timers')
        /\ Members(timers') = Members(timers) \ {t}
    BY <1>9, UnlinkLemma DEF Collect, ListOK, TypeOK
  <2>2. /\ enabled' \subseteq Members(timers') /\ recurring' \subseteq Members(timers')
        /\ triggered' \subseteq Members(timers') /\ executing' \subseteq Members(timers')
        /\ fresh' \subseteq Timer
    BY <1>9, <2>1 DEF Collect, ListOK, TypeOK
  <2>3. Infinite \in Int
    BY TimersAssumption
  <2>4. expire' \in [Timer -> Int] /\ freq' \in [Timer -> Int] /\ last' \in [Timer -> Int]
    BY <1>9, <2>3 DEF Collect, ListOK, TypeOK
  <2>5. DivisorNotZero'
    <3> SUFFICES ASSUME NEW u \in recurring' PROVE freq'[u] # 0
      BY DEF DivisorNotZero
    <3>1. u \in recurring /\ u # t /\ u \in Timer
      BY <1>9, MembersLemma DEF Collect, ListOK, TypeOK
    <3> QED BY <1>9, <3>1 DEF Collect, ListOK, TypeOK, DivisorNotZero
  <2>6. /\ clock' = clock /\ now' = now /\ cache' = cache /\ sleeping' = sleeping
        /\ status' = status /\ param' = param
    BY <1>9 DEF Collect, timeVars
  <2> QED BY <2>1, <2>2, <2>4, <2>5, <2>6 DEF ListOK, TypeOK
<1>10. CASE UNCHANGED vars
  BY <1>10 DEF vars, timeVars, setting, running, ListOK, TypeOK, DivisorNotZero
<1> QED BY <1>1, <1>2, <1>3, <1>4, <1>5, <1>6, <1>7, <1>8, <1>9, <1>10 DEF Next

\* Every variable keeps its type.
THEOREM TypeCorrect == Spec => []TypeOK
<1>1. ListOK /\ [Next]_vars => ListOK'
  BY ListStep
<1>2. ListOK => TypeOK
  BY DEF ListOK
<1> QED BY InitList, <1>1, <1>2, PTL DEF Spec

\* Reschedule never divides by zero.
THEOREM NoDivisionByZero == Spec => []DivisorNotZero
<1>1. ListOK /\ [Next]_vars => ListOK'
  BY ListStep
<1>2. ListOK => DivisorNotZero
  BY DEF ListOK
<1> QED BY InitList, <1>1, <1>2, PTL DEF Spec

-----------------------------------------------------------------------------
(* The timer thread *)

\* What SpawnTimer may do.
LEMMA SpawnTimerCases ==
    ASSUME NEW trig, NEW exec, NEW exp, NEW thread,
           SpawnOK(trig, exec, exp, thread), SpawnTimer(trig, exec, exp, thread)
    PROVE  \/ /\ trig = {} \/ thread # "idle"
              /\ triggered' = trig /\ executing' = exec /\ expire' = exp
              /\ status' = thread /\ fresh' = fresh /\ last' = last
              /\ param' = IF thread = "busy" THEN param ELSE NoTimer
           \/ \E t \in trig :
                /\ thread \in {"none", "idle"}
                /\ expire' = [exp EXCEPT ![t] = Infinite]
                /\ last' = [last EXCEPT ![t] = exp[t]]
                /\ \/ /\ triggered' = trig \ {t} /\ executing' = exec \cup {t}
                      /\ status' = "busy" /\ param' = t /\ fresh' = fresh \ {t}
                   \/ /\ triggered' = trig /\ executing' = exec
                      /\ status' = "lost" /\ param' = NoTimer /\ fresh' = fresh
<1>1. CASE NoSpawn(trig, exec, exp, thread)
  BY <1>1 DEF NoSpawn
<1>2. CASE /\ thread \in {"none", "idle"}
           /\ \E t \in Timer : IsFirst(t, trig) /\ SpawnOne(t, trig, exec, exp)
  BY <1>2 DEF IsFirst, SpawnOne
<1> QED BY <1>1, <1>2 DEF SpawnTimer

\* A triggered timer does not wait while the thread is reusable.
LEMMA NoIdleTriggerStep ==
    ASSUME ListOK, NoIdleTrigger, [Next]_vars
    PROVE  NoIdleTrigger'
<1>1. ASSUME NEW trig, NEW exec, NEW exp, NEW thread,
             SpawnOK(trig, exec, exp, thread), SpawnTimer(trig, exec, exp, thread)
      PROVE  NoIdleTrigger'
  BY <1>1, SpawnTimerCases DEF NoIdleTrigger
<1>2. ASSUME ProcessTimer PROVE NoIdleTrigger'
  BY <1>1, <1>2, SpawnOKNow DEF ProcessTimer, running, NoIdleTrigger
<1>3. CASE CallbackEnd
  BY <1>1, <1>3, SpawnOKNow DEF CallbackEnd
<1>4. CASE Poll \/ Idle
  BY <1>2, <1>4 DEF Poll, Idle
<1>5. CASE Tick \/ Wake \/ UNCHANGED vars
  BY <1>5 DEF Tick, Wake, vars, running, NoIdleTrigger
<1>6. ASSUME NEW t \in Timer, NEW due \in Dues, NEW period \in Periods,
             Create(t, due, period) \/ Change(t, due, period)
      PROVE  NoIdleTrigger'
  BY <1>6 DEF Create, Change, NoIdleTrigger
<1>7. ASSUME NEW t \in Timer, Dispose(t) \/ Collect(t)
      PROVE  NoIdleTrigger'
  BY <1>7 DEF Dispose, Collect, running, NoIdleTrigger
<1> QED BY <1>3, <1>4, <1>5, <1>6, <1>7 DEF Next

\* No sequence of steps leaves a triggered timer behind a reusable thread.
THEOREM NobodyForgotten == Spec => []NoIdleTrigger
<1>1. Init => ListOK /\ NoIdleTrigger
  BY InitList DEF Init, NoIdleTrigger
<1>2. ListOK /\ NoIdleTrigger /\ [Next]_vars => (ListOK /\ NoIdleTrigger)'
  BY ListStep, NoIdleTriggerStep
<1> QED BY <1>1, <1>2, PTL DEF Spec

\* The timer thread and the timer it runs belong together, as long as the
\* object of an executing timer stays alive.
LEMMA ServesStep ==
    ASSUME CollectExecuting = FALSE, ListOK, ServesItsTimer, [Next]_vars
    PROVE  ServesItsTimer'
<1>1. CASE CallbackEnd
  <2>1. executing \ {param} = {}
    BY <1>1 DEF CallbackEnd, ServesItsTimer
  <2> QED BY <1>1, <2>1, SpawnOKNow, SpawnTimerCases DEF CallbackEnd, ServesItsTimer
<1>2. ASSUME ProcessTimer PROVE ServesItsTimer'
  <2>1. CASE Expired = {}
    BY <1>2, <2>1 DEF ProcessTimer, running, ServesItsTimer
  <2>2. CASE Expired # {}
    BY <1>2, <2>2, SpawnOKNow, SpawnTimerCases DEF ProcessTimer, ServesItsTimer
  <2> QED BY <2>1, <2>2
<1>3. CASE Poll \/ Idle
  BY <1>2, <1>3 DEF Poll, Idle
<1>4. CASE Tick \/ Wake \/ UNCHANGED vars
  BY <1>4 DEF Tick, Wake, vars, running, ServesItsTimer
<1>5. ASSUME NEW t \in Timer, NEW due \in Dues, NEW period \in Periods,
             Create(t, due, period) \/ Change(t, due, period)
      PROVE  ServesItsTimer'
  BY <1>5 DEF Create, Change, ServesItsTimer
<1>6. ASSUME NEW t \in Timer, Dispose(t)
      PROVE  ServesItsTimer'
  BY <1>6 DEF Dispose, running, ServesItsTimer
<1>7. ASSUME NEW t \in Timer, Collect(t)
      PROVE  ServesItsTimer'
  <2>1. t \notin executing /\ executing' = executing \ {t} /\ UNCHANGED <<status, param>>
    BY <1>7 DEF Collect
  <2> QED BY <2>1 DEF ServesItsTimer
<1> QED BY <1>1, <1>3, <1>4, <1>5, <1>6, <1>7 DEF Next

\* At the end of a callback the thread advances the timer it was started for.
THEOREM ThreadServesItsTimer ==
    ASSUME CollectExecuting = FALSE
    PROVE  Spec => []ServesItsTimer
<1>1. Init => ListOK /\ ServesItsTimer
  BY InitList DEF Init, ServesItsTimer
<1>2. ListOK /\ ServesItsTimer /\ [Next]_vars => (ListOK /\ ServesItsTimer)'
  BY ListStep, ServesStep
<1> QED BY <1>1, <1>2, PTL DEF Spec

-----------------------------------------------------------------------------
(* The engine's sleep *)

\* Every enabled timer is looked at by ProcessTimer: it is triggered or
\* executing, or the time-out ends no later than its expiration.
LEMMA ProcessTimerCovers ==
    ASSUME ListOK, ProcessTimer, NEW t \in enabled
    PROVE  cache' <= expire'[t] \/ t \in triggered' \/ t \in executing'
<1>1. t \in Timer /\ expire[t] \in Int /\ clock \in Int
  BY MembersLemma DEF ListOK, TypeOK
<1>2. cache' = NextTimeout /\ cache' \in Int
  BY NextTimeoutLemma DEF ProcessTimer, ListOK
<1>3. CASE Expired = {}
  <2>1. expire[t] > clock /\ expire' = expire
    BY <1>1, <1>3 DEF ProcessTimer, running, Expired
  <2> QED BY <1>2, <2>1, NextTimeoutLemma DEF ListOK
<1>4. CASE Expired # {}
  <2>1. SpawnTimer(Trigger, executing, expire, status)
    BY <1>4 DEF ProcessTimer
  <2>2. SpawnOK(Trigger, executing, expire, status)
    BY SpawnOKNow
  <2>3. Trigger \cup executing \subseteq triggered' \cup executing'
    BY <2>1, <2>2, SpawnTimerCases
  <2>4. CASE expire[t] <= clock
    BY <2>3, <2>4 DEF Trigger, Expired
  <2>5. CASE expire[t] > clock /\ t \notin triggered' \cup executing'
    <3>1. t \notin Trigger
      BY <2>3, <2>5
    <3>2. expire'[t] = expire[t]
      BY <1>1, <2>1, <2>2, <3>1, SpawnTimerCases DEF ListOK, TypeOK
    <3> QED BY <1>2, <2>5, <3>2, NextTimeoutLemma DEF ListOK
  <2> QED BY <1>1, <2>4, <2>5
<1> QED BY <1>3, <1>4

LEMMA NoOversleepStep ==
    ASSUME ListOK, NoOversleep, [Next]_vars
    PROVE  NoOversleep'
<1>1. CASE Idle
  <2>1. ProcessTimer /\ enabled' = enabled
    BY <1>1 DEF Idle, setting
  <2> QED BY <2>1, ProcessTimerCovers DEF NoOversleep
<1>2. CASE Tick \/ UNCHANGED vars
  BY <1>2 DEF Tick, vars, timeVars, setting, running, NoOversleep
<1>3. CASE Poll \/ Wake \/ CallbackEnd
  BY <1>3 DEF Poll, Wake, CallbackEnd, NoOversleep
<1>4. ASSUME NEW t \in Timer, NEW due \in Dues, NEW period \in Periods,
             Create(t, due, period) \/ Change(t, due, period)
      PROVE  NoOversleep'
  BY <1>4 DEF Create, Change, NoOversleep
<1>5. ASSUME NEW t \in Timer, Dispose(t) \/ Collect(t)
      PROVE  NoOversleep'
  BY <1>5 DEF Dispose, Collect, timeVars, NoOversleep
<1> QED BY <1>1, <1>2, <1>3, <1>4, <1>5 DEF Next

\* The engine never sleeps past the expiration of a timer.
THEOREM SleepEndsInTime == Spec => []NoOversleep
<1>1. Init => ListOK /\ NoOversleep
  BY InitList DEF Init, NoOversleep
<1>2. ListOK /\ NoOversleep /\ [Next]_vars => (ListOK /\ NoOversleep)'
  BY ListStep, NoOversleepStep
<1> QED BY <1>1, <1>2, PTL DEF Spec

-----------------------------------------------------------------------------
(* A timer that does not recur *)

LEMMA RanOnceSpawn ==
    ASSUME ListOK, RanOnce, NEW trig, NEW exec, NEW exp, NEW thread,
           SpawnOK(trig, exec, exp, thread), SpawnTimer(trig, exec, exp, thread),
           recurring' = recurring,
           \A t \in Members(timers) : t \notin recurring /\ t \notin fresh =>
               t \notin trig /\ exp[t] = Infinite
    PROVE  RanOnce'
<1>1. Members(timers') = Members(timers)
  BY SpawnTimerType
<1> SUFFICES ASSUME NEW u \in Members(timers), u \notin recurring, u \notin fresh'
             PROVE  u \notin triggered' /\ expire'[u] = Infinite
  BY <1>1 DEF RanOnce
<1>2. u \in Timer
  BY MembersLemma DEF SpawnOK
<1>3. CASE u \notin fresh
  <2>1. u \notin trig /\ exp[u] = Infinite
    BY <1>3
  <2>2. expire' = exp \/ \E t \in trig : expire' = [exp EXCEPT ![t] = Infinite]
    BY SpawnTimerCases
  <2>3. triggered' \subseteq trig
    BY SpawnTimerCases
  <2> QED BY <1>2, <2>1, <2>2, <2>3 DEF SpawnOK
<1>4. CASE u \in fresh
  <2>1. u \notin triggered' /\ expire' = [exp EXCEPT ![u] = Infinite]
    BY <1>4, SpawnTimerCases
  <2> QED BY <1>2, <2>1 DEF SpawnOK
<1> QED BY <1>3, <1>4

\* The timers CheckTimers triggers are not among those that ran once.
LEMMA RanOnceTrigger ==
    ASSUME ListOK, RanOnce, NEW t \in Members(timers), t \notin recurring, t \notin fresh
    PROVE  t \notin Trigger
<1>1. expire[t] = Infinite /\ t \notin triggered
  BY DEF RanOnce
<1>2. clock < Infinite
  BY TimersAssumption DEF ListOK, TypeOK
<1>3. t \notin Expired
  BY <1>1, <1>2, TimersAssumption DEF Expired, ListOK, TypeOK
<1> QED BY <1>1, <1>3 DEF Trigger

LEMMA RanOnceStep ==
    ASSUME ListOK, RanOnce, [Next]_vars
    PROVE  RanOnce'
<1>1. ASSUME ProcessTimer, recurring' = recurring
      PROVE  RanOnce'
  <2>1. CASE Expired = {}
    BY <1>1, <2>1 DEF ProcessTimer, running, RanOnce
  <2>2. CASE Expired # {}
    <3>1. SpawnTimer(Trigger, executing, expire, status)
      BY <1>1, <2>2 DEF ProcessTimer
    <3>2. \A t \in Members(timers) : t \notin recurring /\ t \notin fresh =>
               t \notin Trigger /\ expire[t] = Infinite
      BY RanOnceTrigger DEF RanOnce
    <3> QED BY <1>1, <3>1, <3>2, SpawnOKNow, RanOnceSpawn
  <2> QED BY <2>1, <2>2
<1>2. CASE Poll \/ Idle
  BY <1>1, <1>2 DEF Poll, Idle, setting
<1>3. CASE CallbackEnd
  <2> DEFINE exp == IF Reschedules(param)
                    THEN [expire EXCEPT ![param] = NextExpire(param)]
                    ELSE expire
  <2>1. SpawnTimer(triggered, executing \ {param}, exp, "idle") /\ recurring' = recurring
    BY <1>3 DEF CallbackEnd, setting
  <2>2. SpawnOK(triggered, executing \ {param}, exp, "idle")
    BY SpawnOKNow
  <2>3. \A t \in Members(timers) : t \notin recurring => exp[t] = expire[t]
    BY MembersLemma DEF Reschedules, ListOK, TypeOK
  <2>4. \A t \in Members(timers) : t \notin recurring /\ t \notin fresh =>
               t \notin triggered /\ exp[t] = Infinite
    BY <2>3 DEF RanOnce
  <2> HIDE DEF exp
  <2> QED BY <2>1, <2>2, <2>4, RanOnceSpawn
<1>4. CASE Tick \/ Wake \/ UNCHANGED vars
  BY <1>4 DEF Tick, Wake, vars, setting, running, RanOnce
<1>5. ASSUME NEW t \in Timer, NEW due \in Dues, NEW period \in Periods,
             Create(t, due, period) \/ Change(t, due, period)
      PROVE  RanOnce'
  <2>1. Configure(t, due, period, enabled, recurring) /\ triggered' = triggered
    BY <1>5 DEF Create, Change
  <2>2. /\ fresh' = fresh \cup {t}
        /\ \A u \in Timer : u # t => (u \in recurring' <=> u \in recurring)
        /\ \A u \in Timer : u # t => expire'[u] = expire[u]
    BY <2>1 DEF Configure, ListOK, TypeOK
  <2>3. Members(timers') \subseteq Members(timers) \cup {t}
    <3>1. CASE Change(t, due, period)
      BY <3>1 DEF Change
    <3>2. CASE Create(t, due, period)
      <4>1. timers' = LinkAtBack(timers, t)
        BY <3>2 DEF Create, LinkAtBack, Unlink
      <4>2. timers \in Seq(Timer) /\ NoDup(timers)
        BY DEF ListOK, TypeOK
      <4>3. Members(LinkAtBack(timers, t)) = Members(timers) \cup {t}
        BY <4>2, LinkAtBackLemma
      <4> QED BY <4>1, <4>3
    <3> QED BY <1>5, <3>1, <3>2
  <2>4. \A u \in Members(timers) : u \in Timer
    BY MembersLemma DEF ListOK, TypeOK
  <2> QED BY <2>1, <2>2, <2>3, <2>4 DEF RanOnce
<1>6. ASSUME NEW t \in Timer, Dispose(t)
      PROVE  RanOnce'
  BY <1>6 DEF Dispose, running, RanOnce
<1>7. ASSUME NEW t \in Timer, Collect(t)
      PROVE  RanOnce'
  <2>1. Members(timers') = Members(timers) \ {t}
    BY <1>7, UnlinkLemma DEF Collect, ListOK, TypeOK
  <2>2. \A u \in Members(timers) : u \in Timer
    BY MembersLemma DEF ListOK, TypeOK
  <2> QED BY <1>7, <2>1, <2>2 DEF Collect, ListOK, TypeOK, RanOnce
<1> QED BY <1>2, <1>3, <1>4, <1>5, <1>6, <1>7 DEF Next

\* A timer that does not recur runs once for each time it is set.
THEOREM RunsOnce == Spec => OneShotOnce
<1>1. Init => ListOK /\ RanOnce
  <2>1. ASSUME Init PROVE RanOnce
    BY <2>1 DEF Init, Members, RanOnce
  <2> QED BY <2>1, InitList
<1>2. ListOK /\ RanOnce /\ [Next]_vars => (ListOK /\ RanOnce)'
  BY ListStep, RanOnceStep
<1>3. ListOK /\ RanOnce /\ [Next]_vars =>
        [\A t \in Timer : Spawned(t) /\ t \notin recurring => t \in fresh]_vars
  <2> SUFFICES ASSUME ListOK, RanOnce, Next, NEW t \in Timer,
                      Spawned(t), t \notin recurring
               PROVE  t \in fresh
    OBVIOUS
  <2>1. t \notin executing /\ t \in executing'
    BY DEF Spawned
  <2>2. ASSUME NEW trig, NEW exec, NEW exp, NEW thread, exec \subseteq executing,
               trig \subseteq Members(timers),
               SpawnOK(trig, exec, exp, thread), SpawnTimer(trig, exec, exp, thread)
        PROVE  t \in trig
    BY <2>1, <2>2, SpawnTimerCases
  <2>3. ASSUME ProcessTimer PROVE t \in fresh
    <3>1. Expired # {}
      BY <2>1, <2>3 DEF ProcessTimer, running
    <3>2. t \in Trigger /\ Trigger \subseteq Members(timers)
      BY <2>2, <2>3, <3>1, SpawnOKNow DEF ProcessTimer, SpawnOK
    <3> QED BY <3>2, RanOnceTrigger
  <2>4. CASE Poll \/ Idle
    BY <2>3, <2>4 DEF Poll, Idle
  <2>5. CASE CallbackEnd
    <3>1. t \in triggered /\ triggered \subseteq Members(timers)
      BY <2>2, <2>5, SpawnOKNow DEF CallbackEnd, SpawnOK
    <3> QED BY <3>1 DEF RanOnce
  <2>6. CASE Tick \/ Wake
    BY <2>1, <2>6 DEF Tick, Wake, running
  <2>7. ASSUME NEW u \in Timer, NEW due \in Dues, NEW period \in Periods,
               Create(u, due, period) \/ Change(u, due, period)
        PROVE  FALSE
    BY <2>1, <2>7 DEF Create, Change
  <2>8. ASSUME NEW u \in Timer, Dispose(u) \/ Collect(u)
        PROVE  FALSE
    BY <2>1, <2>8 DEF Dispose, Collect, running
  <2> QED BY <2>4, <2>5, <2>6, <2>7, <2>8 DEF Next
<1> QED BY <1>1, <1>2, <1>3, PTL DEF Spec, OneShotOnce

\* The timer thread and the timers' flags agree, as long as the object of an
\* executing timer stays alive.
THEOREM ThreadStaysOnTrack ==
    ASSUME CollectExecuting = FALSE
    PROVE  Spec => []ThreadKeepsTrack
<1>1. ServesItsTimer /\ NoIdleTrigger => ThreadKeepsTrack
  BY DEF ThreadKeepsTrack
<1> QED BY <1>1, ThreadServesItsTimer, NobodyForgotten, PTL

-----------------------------------------------------------------------------
(* Timers that recur *)

\* The arguments the class documents: times, and Timeout.Infinite.
ValidArguments == Dues \cup Periods \subseteq Nat \cup {-1}

\* A period, and a time a timer may be set for: the sum of both does not overflow.
Span(x) == x \in Nat /\ 2 * x < Infinite - MaxTime
Moment(x) == x \in Nat /\ 2 * (x - MaxTime) < Infinite - MaxTime

\* What Reschedule will find when the callback of t is over.
Paced(t) ==
    /\ expire[t] \in Nat
    /\ t \in recurring => freq[t] # 0 /\ Span(freq[t])
    /\ last[t] = Infinite \/ Moment(last[t])
    /\ t \in triggered => t \notin executing /\ (expire[t] = Infinite \/ Moment(expire[t]))
    /\ status = "busy" /\ param = t /\ t \notin executing => last[t] = 0

PaceInv == ListOK /\ \A t \in Timer : Paced(t)

\* Sums and differences that fit do not wrap around.
LEMMA WrapFits ==
    ASSUME NEW x \in Int, -Infinite - 1 <= x, x <= Infinite
    PROVE  Wrap(x) = x
<1> DEFINE a == x + Infinite + 1
           b == 2 * Infinite + 2
<1>1. Infinite \in Nat
  BY TimersAssumption
<1>2. a \in Nat /\ b \in Nat \ {0} /\ a < b
  BY <1>1
<1>3. a % b = a
  <2> HIDE DEF a, b
  <2> QED BY <1>2
<1> QED BY <1>1, <1>3 DEF Wrap

\* The others wrap once.
LEMMA WrapOver ==
    ASSUME NEW x \in Int, Infinite < x, x < 3 * Infinite
    PROVE  Wrap(x) = x - 2 * Infinite - 2
<1> DEFINE a == x + Infinite + 1
           b == 2 * Infinite + 2
<1>1. Infinite \in Nat
  BY TimersAssumption
<1>2. a \in Nat /\ b \in Nat \ {0} /\ b <= a /\ a < 2 * b
  BY <1>1
<1>3. a % b = a - b
  <2> HIDE DEF a, b
  <2> QED BY <1>2
<1> QED BY <1>1, <1>3 DEF Wrap

\* The remainder is smaller than the divisor.
LEMMA RemBound ==
    ASSUME NEW d \in Int, NEW f \in Nat \ {0}
    PROVE  /\ Rem(d, f) \in Int /\ -f < Rem(d, f) /\ Rem(d, f) < f
           /\ d >= 0 => Rem(d, f) >= 0
<1>1. Abs(f) = f /\ Abs(d) \in Nat
  BY DEF Abs
<1>2. Abs(d) % f \in 0..(f - 1)
  <2>1. \A a \in Nat : a % f \in 0..(f - 1)
    OBVIOUS
  <2> QED BY <1>1, <2>1
<1>3. d >= 0 => d % f \in 0..(f - 1)
  OBVIOUS
<1> QED BY <1>1, <1>2, <1>3 DEF Rem

\* A timer is rescheduled for a time that is not over and not infinite.
LEMMA NextExpireLemma ==
    ASSUME ListOK, NEW t \in Timer, Paced(t), t \in recurring
    PROVE  /\ NextExpire(t) \in Nat
           /\ now <= NextExpire(t)
           /\ NextExpire(t) # Infinite
           /\ last[t] = 0 => Moment(NextExpire(t))
<1> DEFINE f == freq[t]
           e == Wrap(last[t] + f)
           d == Wrap(now - e)
           r == now - Rem(d, f) + f
<1>1. /\ Infinite \in Nat /\ MaxTime \in Nat /\ MaxTime < Infinite /\ 2 <= Infinite
      /\ now \in Nat /\ now <= MaxTime
  BY TimersAssumption DEF ListOK, TypeOK
<1>2. f \in Nat \ {0} /\ 2 * f < Infinite - MaxTime
  BY DEF Paced, Span
<1>3. NextExpire(t) = IF e < now THEN Wrap(r) ELSE e
  BY DEF NextExpire
<1>4. last[t] = Infinite \/ Moment(last[t])
  BY DEF Paced
<1> HIDE DEF f
<1>5. CASE Moment(last[t])
  <2>1. last[t] + f \in Nat /\ last[t] + f < Infinite
    BY <1>1, <1>2, <1>5 DEF Moment
  <2>2. e = last[t] + f /\ e \in Nat /\ e < Infinite
    BY <1>1, <2>1, WrapFits
  <2>3. CASE e >= now
    BY <1>1, <1>2, <1>3, <2>2, <2>3 DEF Moment
  <2>4. CASE e < now
    <3> HIDE DEF e
    <3>1. d = now - e
      BY <1>1, <2>2, <2>4, WrapFits
    <3>2. Rem(d, f) \in Int /\ 0 <= Rem(d, f) /\ Rem(d, f) < f
      <4>1. d \in Int /\ d >= 0
        BY <1>1, <2>2, <2>4, <3>1
      <4> HIDE DEF d
      <4> QED BY <1>2, <4>1, RemBound
    <3> HIDE DEF d
    <3>3. r \in Nat /\ now <= r /\ r <= now + f /\ r < Infinite
      BY <1>1, <1>2, <3>2
    <3> HIDE DEF r
    <3>4. Wrap(r) = r
      BY <1>1, <3>3, WrapFits
    <3> QED BY <1>1, <1>2, <1>3, <2>4, <3>3, <3>4 DEF Moment
  <2> QED BY <1>1, <2>2, <2>3, <2>4
<1>6. CASE last[t] = Infinite
  <2>1. e = f - Infinite - 2
    <3>1. last[t] + f \in Int /\ Infinite < last[t] + f /\ last[t] + f < 3 * Infinite
      BY <1>1, <1>2, <1>6
    <3>2. e = last[t] + f - 2 * Infinite - 2
      <4> DEFINE s == last[t] + f
      <4> HIDE DEF s
      <4>1. Wrap(s) = s - 2 * Infinite - 2
        BY <3>1, WrapOver DEF s
      <4> QED BY <1>1, <1>2, <1>6, <4>1 DEF s
    <3> QED BY <1>1, <1>2, <1>6, <3>2
  <2> HIDE DEF e
  <2>2. e \in Int /\ e < 0 /\ e < now
    BY <1>1, <1>2, <2>1
  <2>3. now - e \in Int /\ 0 <= now - e /\ now - e < 3 * Infinite
    BY <1>1, <1>2, <2>1
  <2>4. d \in Int
    BY <2>3, WrapType
  <2> HIDE DEF d
  <2>5. Rem(d, f) \in Int /\ -f < Rem(d, f) /\ Rem(d, f) < f
    BY <1>2, <2>4, RemBound
  <2>6. r \in Nat /\ now <= r /\ r < now + 2 * f /\ r < Infinite
    BY <1>1, <1>2, <2>5
  <2> HIDE DEF r
  <2>7. Wrap(r) = r
    BY <1>1, <2>6, WrapFits
  <2> QED BY <1>1, <1>3, <1>6, <2>2, <2>6, <2>7
<1> QED BY <1>4, <1>5, <1>6

\* A valid change sets a time and a period.
LEMMA ConfigureSets ==
    ASSUME ValidArguments, ListOK, NEW t \in Timer, NEW due \in Dues, NEW period \in Periods,
           Configure(t, due, period, enabled, recurring)
    PROVE  /\ \E e \in Nat : expire' = [expire EXCEPT ![t] = e] /\ (e = Infinite \/ Moment(e))
           /\ t \in enabled' => expire'[t] # Infinite
           /\ \E f \in Nat : freq' = [freq EXCEPT ![t] = f]
           /\ t \in recurring' => freq'[t] # 0 /\ Span(freq'[t])
           /\ \A u \in Timer : u # t =>
                (u \in recurring' <=> u \in recurring) /\ (u \in enabled' <=> u \in enabled)
<1> DEFINE x == due * Millisecond
           y == period * Millisecond
           e == IF due = -1 THEN Infinite ELSE clock + x
           f == IF period = -1 THEN Infinite ELSE y
<1>1. /\ due \in Nat \cup {-1} /\ period \in Nat \cup {-1}
      /\ Infinite \in Nat \ {0} /\ Millisecond \in Nat \ {0} /\ MaxTime \in Nat /\ MaxSleep \in Nat
      /\ MaxTime + MaxSleep < Infinite
      /\ clock \in Nat /\ clock <= MaxTime
  BY TimersAssumption DEF ValidArguments, ListOK, TypeOK
<1>2. due # -1 => x \in Nat /\ 2 * x < Infinite - MaxTime
  <2>1. MaxTime + MaxSleep + 2 * due * Millisecond < Infinite
    BY TimersAssumption
  <2>2. 2 * due * Millisecond = 2 * x /\ x \in Int
    BY <1>1
  <2>3. due # -1 => x \in Nat
    BY <1>1
  <2> HIDE DEF x
  <2> QED BY <1>1, <2>1, <2>2, <2>3
<1>3. period # -1 => y \in Nat /\ 2 * y < Infinite - MaxTime /\ (y = 0 <=> period = 0)
  <2>1. MaxTime + MaxSleep + 2 * period * Millisecond < Infinite
    BY TimersAssumption
  <2>2. 2 * period * Millisecond = 2 * y /\ y \in Int
    BY <1>1
  <2>3. period # -1 => y \in Nat /\ (y = 0 <=> period = 0) /\ period <= y
    BY <1>1
  <2> HIDE DEF y
  <2> QED BY <1>1, <2>1, <2>2, <2>3
<1>4. period # -1 => period < Infinite
  <2>1. period # -1 => period <= y
    BY <1>1
  <2> HIDE DEF y
  <2> QED BY <1>1, <1>3, <2>1
<1>5. due # -1 => x # Infinite /\ ~(x < 0)
  BY <1>1, <1>2
<1>6. /\ expire' = [expire EXCEPT ![t] = e]
      /\ freq' = [freq EXCEPT ![t] = f]
      /\ enabled' = IF due = -1 THEN enabled \ {t} ELSE enabled \cup {t}
      /\ recurring' = IF period \in {0, -1} THEN recurring \ {t} ELSE recurring \cup {t}
  <2> HIDE DEF x, y
  <2>1. /\ expire' = [expire EXCEPT ![t] = e]
        /\ enabled' = IF due = -1 THEN enabled \ {t} ELSE enabled \cup {t}
    BY <1>1, <1>5 DEF Configure, x
  <2>2. freq' = [freq EXCEPT ![t] = f]
    <3> DEFINE g == IF period = -1 THEN Infinite ELSE period
    <3>1. freq' = [freq EXCEPT ![t] = IF g = Infinite THEN g ELSE g * Millisecond]
      <4> DEFINE a == IF due = -1 THEN Infinite ELSE due * Millisecond
      <4>1. freq' = [freq EXCEPT ![t] =
                        IF a < 0 \/ g = Infinite THEN g ELSE g * Millisecond]
        BY DEF Configure
      <4>2. ~(a < 0)
        BY <1>1, <1>2 DEF x
      <4> HIDE DEF a, g
      <4> QED BY <4>1, <4>2
    <3>2. (IF g = Infinite THEN g ELSE g * Millisecond) = f
      BY <1>1, <1>4 DEF y
    <3> QED BY <3>1, <3>2
  <2>3. recurring' = IF period \in {0, -1} THEN recurring \ {t} ELSE recurring \cup {t}
    BY <1>1, <1>4, <1>5 DEF Configure, x
  <2> QED BY <2>1, <2>2, <2>3
<1> HIDE DEF x, y
<1>7. e \in Nat /\ (e = Infinite \/ Moment(e)) /\ (due # -1 => e < Infinite)
  BY <1>1, <1>2 DEF Moment
<1>8. f \in Nat /\ (period \notin {0, -1} => f # 0 /\ Span(f))
  BY <1>1, <1>3 DEF Span
<1> HIDE DEF e, f
<1>9. expire'[t] = e /\ freq'[t] = f
  BY <1>6 DEF ListOK, TypeOK
<1>10. t \in enabled' => expire'[t] # Infinite
  BY <1>1, <1>6, <1>7, <1>9
<1>11. t \in recurring' => freq'[t] # 0 /\ Span(freq'[t])
  BY <1>6, <1>8, <1>9
<1> QED BY <1>6, <1>7, <1>8, <1>10, <1>11

\* No timer, no pace to keep.
LEMMA InitPace == Init => PaceInv /\ RecurringGoesOn
<1> SUFFICES ASSUME Init PROVE PaceInv /\ RecurringGoesOn
  OBVIOUS
<1>1. Infinite \in Nat /\ Moment(0)
  BY TimersAssumption DEF Moment
<1> QED BY <1>1, InitList DEF Init, PaceInv, Paced, RecurringGoesOn

\* SpawnTimer keeps the pace of all timers and forgets none that recurs.
LEMMA PaceSpawn ==
    ASSUME ListOK, NEW trig, NEW exec, NEW exp, NEW thread,
           SpawnOK(trig, exec, exp, thread), SpawnTimer(trig, exec, exp, thread),
           UNCHANGED setting,
           \A t \in Timer :
               /\ exp[t] \in Nat
               /\ t \in recurring => freq[t] # 0 /\ Span(freq[t])
               /\ last[t] = Infinite \/ Moment(last[t])
               /\ t \in trig => t \notin exec /\ (exp[t] = Infinite \/ Moment(exp[t]))
               /\ thread = "busy" /\ param = t /\ t \notin exec => last[t] = 0
               /\ t \in enabled \cap recurring =>
                    exp[t] # Infinite \/ t \in trig \/ t \in exec
    PROVE  (\A t \in Timer : Paced(t)') /\ RecurringGoesOn'
<1>1. enabled' = enabled /\ recurring' = recurring /\ freq' = freq
  BY DEF setting
<1>2. Infinite \in Nat
  BY TimersAssumption
<1>3. enabled \subseteq Timer
  BY MembersLemma DEF ListOK, TypeOK
<1>4. CASE /\ triggered' = trig /\ executing' = exec /\ expire' = exp
           /\ status' = thread /\ last' = last
           /\ param' = IF thread = "busy" THEN param ELSE NoTimer
  BY <1>1, <1>3, <1>4 DEF Paced, RecurringGoesOn
<1>5. ASSUME NEW t \in trig,
             /\ thread \in {"none", "idle"}
             /\ expire' = [exp EXCEPT ![t] = Infinite]
             /\ last' = [last EXCEPT ![t] = exp[t]]
             /\ \/ /\ triggered' = trig \ {t} /\ executing' = exec \cup {t}
                   /\ status' = "busy" /\ param' = t
                \/ /\ triggered' = trig /\ executing' = exec
                   /\ status' = "lost" /\ param' = NoTimer
      PROVE  (\A u \in Timer : Paced(u)') /\ RecurringGoesOn'
  <2>1. t \in Timer
    BY MembersLemma DEF SpawnOK
  <2>2. /\ expire'[t] = Infinite /\ last'[t] = exp[t]
        /\ \A u \in Timer \ {t} : expire'[u] = exp[u] /\ last'[u] = last[u]
    BY <1>5, <2>1 DEF SpawnOK
  <2>3. ASSUME NEW u \in Timer PROVE Paced(u)'
    <3>1. CASE u = t
      BY <1>1, <1>2, <1>5, <2>1, <2>2, <3>1 DEF Paced
    <3>2. CASE u # t
      BY <1>1, <1>5, <2>1, <2>2, <3>2 DEF Paced
    <3> QED BY <3>1, <3>2
  <2>4. RecurringGoesOn'
    BY <1>1, <1>3, <1>5, <2>2 DEF RecurringGoesOn
  <2> QED BY <2>3, <2>4
<1> QED BY <1>4, <1>5, SpawnTimerCases

\* A change keeps the pace.
LEMMA PaceConfigure ==
    ASSUME ValidArguments, PaceInv, RecurringGoesOn,
           NEW t \in Timer, NEW due \in Dues, NEW period \in Periods,
           Configure(t, due, period, enabled, recurring),
           UNCHANGED <<triggered, executing, last, status, param>>,
           enabled' \subseteq Timer
    PROVE  (\A u \in Timer : Paced(u)') /\ RecurringGoesOn'
<1>1. PICK e \in Nat : expire' = [expire EXCEPT ![t] = e] /\ (e = Infinite \/ Moment(e))
  BY ConfigureSets DEF PaceInv
<1>2. PICK f \in Nat : freq' = [freq EXCEPT ![t] = f]
  BY ConfigureSets DEF PaceInv
<1>3. /\ t \in enabled' => expire'[t] # Infinite
      /\ t \in recurring' => freq'[t] # 0 /\ Span(freq'[t])
      /\ \A u \in Timer : u # t =>
           (u \in recurring' <=> u \in recurring) /\ (u \in enabled' <=> u \in enabled)
  BY ConfigureSets DEF PaceInv
<1>4. /\ expire'[t] = e /\ freq'[t] = f
      /\ \A u \in Timer \ {t} : expire'[u] = expire[u] /\ freq'[u] = freq[u]
  BY <1>1, <1>2 DEF PaceInv, ListOK, TypeOK
<1>5. ASSUME NEW u \in Timer PROVE Paced(u)'
  <2>1. Paced(u)
    BY DEF PaceInv
  <2>2. CASE u = t
    BY <1>1, <1>3, <1>4, <2>1, <2>2 DEF Paced
  <2>3. CASE u # t
    BY <1>3, <1>4, <2>1, <2>3 DEF Paced
  <2> QED BY <2>2, <2>3
<1>6. RecurringGoesOn'
  BY <1>3, <1>4 DEF RecurringGoesOn
<1> QED BY <1>5, <1>6

\* Every step keeps the pace.
LEMMA PaceStep ==
    ASSUME ValidArguments, PaceInv, RecurringGoesOn, [Next]_vars
    PROVE  (\A t \in Timer : Paced(t)') /\ RecurringGoesOn'
<1>1. ListOK /\ (\A t \in Timer : Paced(t)) /\ enabled \subseteq Timer /\ recurring \subseteq Timer
  BY MembersLemma DEF PaceInv, ListOK, TypeOK
<1>2. ASSUME running' = running, UNCHANGED setting
      PROVE  (\A t \in Timer : Paced(t)') /\ RecurringGoesOn'
  BY <1>1, <1>2 DEF running, setting, Paced, RecurringGoesOn
<1>3. ASSUME ProcessTimer, UNCHANGED setting
      PROVE  (\A t \in Timer : Paced(t)') /\ RecurringGoesOn'
  <2>1. CASE Expired = {}
    BY <1>2, <1>3, <2>1 DEF ProcessTimer
  <2>2. CASE Expired # {}
    <3>1. SpawnTimer(Trigger, executing, expire, status)
      BY <1>3, <2>2 DEF ProcessTimer
    <3>2. SpawnOK(Trigger, executing, expire, status)
      BY <1>1, SpawnOKNow
    <3>3. \A t \in Timer : t \in Expired => Moment(expire[t])
      <4>1. clock \in Nat /\ clock <= MaxTime /\ Infinite \in Nat /\ MaxTime \in Nat /\ MaxTime < Infinite
        BY <1>1, TimersAssumption DEF ListOK, TypeOK
      <4> QED BY <1>1, <4>1 DEF Expired, Moment, Paced
    <3>4. \A t \in Timer : t \in Trigger =>
              t \notin executing /\ (expire[t] = Infinite \/ Moment(expire[t]))
      BY <1>1, <3>3 DEF Trigger, Paced
    <3>5. triggered \subseteq Trigger
      BY DEF Trigger
    <3>6. \A t \in Timer :
               /\ expire[t] \in Nat
               /\ t \in recurring => freq[t] # 0 /\ Span(freq[t])
               /\ last[t] = Infinite \/ Moment(last[t])
               /\ status = "busy" /\ param = t /\ t \notin executing => last[t] = 0
               /\ t \in enabled \cap recurring =>
                    expire[t] # Infinite \/ t \in Trigger \/ t \in executing
      BY <1>1, <3>5 DEF Paced, RecurringGoesOn
    <3> QED BY <1>1, <1>3, <3>1, <3>2, <3>4, <3>6, PaceSpawn
  <2> QED BY <2>1, <2>2
<1>4. CASE CallbackEnd
  <2> DEFINE exp == IF Reschedules(param)
                    THEN [expire EXCEPT ![param] = NextExpire(param)]
                    ELSE expire
             exec == executing \ {param}
  <2>1. SpawnTimer(triggered, exec, exp, "idle") /\ UNCHANGED setting /\ status = "busy"
    BY <1>4 DEF CallbackEnd
  <2>2. SpawnOK(triggered, exec, exp, "idle")
    BY <1>1, SpawnOKNow
  <2>3. \A t \in Timer : t # param => exp[t] = expire[t]
    BY <1>1 DEF ListOK, TypeOK
  <2>4. ASSUME ~Reschedules(param)
        PROVE  exp = expire /\ param \notin enabled \cap recurring
    BY <2>4 DEF Reschedules
  <2>5. ASSUME Reschedules(param)
        PROVE  /\ param \in Timer /\ exp[param] = NextExpire(param)
               /\ exp[param] \in Nat /\ exp[param] # Infinite
               /\ last[param] = 0 => Moment(exp[param])
    <3>1. param \in Timer /\ param \in recurring /\ Paced(param)
      BY <1>1, <2>5 DEF Reschedules
    <3>2. exp[param] = NextExpire(param)
      BY <1>1, <2>5, <3>1 DEF ListOK, TypeOK
    <3> QED BY <1>1, <3>1, <3>2, NextExpireLemma
  <2> HIDE DEF exp
  <2>6. ASSUME NEW t \in Timer
        PROVE  /\ exp[t] \in Nat
               /\ t \in triggered => t \notin exec /\ (exp[t] = Infinite \/ Moment(exp[t]))
               /\ t \in enabled \cap recurring =>
                    exp[t] # Infinite \/ t \in triggered \/ t \in exec
    <3>0. Paced(t)
      BY <1>1
    <3>1. CASE t # param \/ ~Reschedules(param)
      BY <2>3, <2>4, <3>0, <3>1 DEF Paced, RecurringGoesOn
    <3>2. CASE t = param /\ Reschedules(param)
      BY <2>1, <2>5, <3>0, <3>2 DEF Paced
    <3> QED BY <3>1, <3>2
  <2> HIDE DEF exec
  <2>7. \A t \in Timer :
               /\ t \in recurring => freq[t] # 0 /\ Span(freq[t])
               /\ last[t] = Infinite \/ Moment(last[t])
    BY <1>1 DEF Paced
  <2> QED BY <1>1, <2>1, <2>2, <2>6, <2>7, PaceSpawn
<1>5. CASE Poll \/ Idle
  BY <1>3, <1>5 DEF Poll, Idle
<1>6. CASE Tick \/ Wake \/ UNCHANGED vars
  BY <1>2, <1>6 DEF Tick, Wake, vars
<1>7. ASSUME NEW t \in Timer, NEW due \in Dues, NEW period \in Periods,
             Create(t, due, period) \/ Change(t, due, period)
      PROVE  (\A u \in Timer : Paced(u)') /\ RecurringGoesOn'
  <2>1. /\ Configure(t, due, period, enabled, recurring)
        /\ UNCHANGED <<triggered, executing, last, status, param>>
    BY <1>7 DEF Create, Change
  <2>2. enabled' \subseteq Timer
    BY <1>1, <2>1 DEF Configure
  <2> QED BY <2>1, <2>2, PaceConfigure
<1>8. ASSUME NEW t \in Timer, Dispose(t)
      PROVE  (\A u \in Timer : Paced(u)') /\ RecurringGoesOn'
  BY <1>1, <1>8 DEF Dispose, running, Paced, RecurringGoesOn
<1>9. ASSUME NEW t \in Timer, Collect(t)
      PROVE  (\A u \in Timer : Paced(u)') /\ RecurringGoesOn'
  <2>1. Infinite \in Nat /\ Moment(0)
    BY TimersAssumption DEF Moment
  <2>2. /\ expire'[t] = Infinite /\ last'[t] = 0
        /\ \A u \in Timer \ {t} : expire'[u] = expire[u] /\ last'[u] = last[u] /\ freq'[u] = freq[u]
    BY <1>1, <1>9 DEF Collect, ListOK, TypeOK
  <2>3. ASSUME NEW u \in Timer PROVE Paced(u)'
    <3>1. CASE u = t
      BY <1>9, <2>1, <2>2, <3>1 DEF Collect, Paced
    <3>2. CASE u # t
      BY <1>1, <1>9, <2>2, <3>2 DEF Collect, Paced
    <3> QED BY <3>1, <3>2
  <2>4. RecurringGoesOn'
    BY <1>1, <1>9, <2>2 DEF Collect, RecurringGoesOn
  <2> QED BY <2>3, <2>4
<1> QED BY <1>4, <1>5, <1>6, <1>7, <1>8, <1>9 DEF Next

\* A recurring timer is always on its way to its next callback, and no change,
\* collection or lost thread leaves it enabled and dead, for the arguments the
\* class documents.
THEOREM RecurringStaysSound ==
    ASSUME ValidArguments
    PROVE  Spec => []RecurringSound
<1>1. Init => PaceInv /\ RecurringGoesOn
  BY InitPace
<1>2. PaceInv /\ RecurringGoesOn /\ [Next]_vars => PaceInv' /\ RecurringGoesOn'
  BY PaceStep, ListStep DEF PaceInv
<1>3. PaceInv /\ RecurringGoesOn => RecurringSound
  BY DEF PaceInv, ListOK, RecurringSound
<1> QED BY <1>1, <1>2, <1>3, PTL DEF Spec

\* However late a callback ends, its timer is not set for a time that is over,
\* and a timer that is disposed runs only if it was triggered before.
THEOREM CallbacksStayBounded ==
    ASSUME ValidArguments
    PROVE  Spec => CallbacksBounded
<1>1. Init => PaceInv /\ RecurringGoesOn
  BY InitPace
<1>2. PaceInv /\ RecurringGoesOn /\ [Next]_vars => PaceInv' /\ RecurringGoesOn'
  BY PaceStep, ListStep DEF PaceInv
<1>3. PaceInv /\ [Next]_vars =>
        [CallbackEnd /\ Reschedules(param) => now <= NextExpire(param)]_vars
  <2> SUFFICES ASSUME PaceInv, Reschedules(param) PROVE now <= NextExpire(param)
    OBVIOUS
  <2>1. param \in Timer /\ param \in recurring /\ ListOK /\ Paced(param)
    BY MembersLemma DEF Reschedules, PaceInv, ListOK, TypeOK
  <2> QED BY <2>1, NextExpireLemma
<1>4. PaceInv /\ [Next]_vars => [\A t \in Timer : Spawned(t) => t \in enabled \cup triggered]_vars
  <2> SUFFICES ASSUME ListOK, Next, NEW t \in Timer, Spawned(t)
               PROVE  t \in enabled \cup triggered
    BY DEF PaceInv
  <2>1. t \notin executing /\ t \in executing'
    BY DEF Spawned
  <2>2. ASSUME NEW trig, NEW exec, NEW exp, NEW thread, exec \subseteq executing,
               SpawnOK(trig, exec, exp, thread), SpawnTimer(trig, exec, exp, thread)
        PROVE  t \in trig
    BY <2>1, <2>2, SpawnTimerCases
  <2>3. ASSUME ProcessTimer PROVE t \in enabled \cup triggered
    <3>1. Expired # {}
      BY <2>1, <2>3 DEF ProcessTimer, running
    <3>2. t \in Trigger
      BY <2>2, <2>3, <3>1, SpawnOKNow DEF ProcessTimer
    <3> QED BY <3>2 DEF Trigger, Expired
  <2>4. CASE Poll \/ Idle
    BY <2>3, <2>4 DEF Poll, Idle
  <2>5. CASE CallbackEnd
    BY <2>2, <2>5, SpawnOKNow DEF CallbackEnd
  <2>6. CASE Tick \/ Wake
    BY <2>1, <2>6 DEF Tick, Wake, running
  <2>7. ASSUME NEW u \in Timer, NEW due \in Dues, NEW period \in Periods,
               Create(u, due, period) \/ Change(u, due, period)
        PROVE  FALSE
    BY <2>1, <2>7 DEF Create, Change
  <2>8. ASSUME NEW u \in Timer, Dispose(u) \/ Collect(u)
        PROVE  FALSE
    BY <2>1, <2>8 DEF Dispose, Collect, running
  <2> QED BY <2>4, <2>5, <2>6, <2>7, <2>8 DEF Next
<1> QED BY <1>1, <1>2, <1>3, <1>4, PTL DEF Spec, CallbacksBounded, NoAvalanche, QuietAfterDispose

=============================================================================
