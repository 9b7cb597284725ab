------------------------------- MODULE Timers -------------------------------
(***************************************************************************)
(* The managed timers (System.Threading.Timer) of the execution engine.    *)
(* CheckTimers triggers the timers whose time has come; SpawnTimer gives   *)
(* the first triggered one to the one timer thread, and when the callback  *)
(* is over the thread's termination callback reschedules the timer and     *)
(* spawns the next.  Meanwhile the program's threads create, change and    *)
(* dispose timers, and the garbage collector releases those whose managed  *)
(* object is dead.                                                         *)
(*                                                                         *)
(* The program and the engine share one native thread: what runs between   *)
(* two context switches is one step.  m_currentMachineTime (now) is a copy *)
(* of the clock that only UpdateTime refreshes.  Times are signed integers *)
(* of a fixed width, Infinite the largest.  The timers of ExtendedTimer,   *)
(* which follow the local time, are not modelled.                          *)
(***************************************************************************)
EXTENDS Integers, Sequences, FiniteSets, Lists

CONSTANTS
    Timer,             \* the blocks a CLR_RT_HeapBlock_Timer may occupy
    Dues,              \* dueTime arguments, in milliseconds; -1 is Timeout.Infinite
    Periods,           \* period arguments
    Millisecond,       \* TIME_CONVERSION__TO_MILLISECONDS
    MaxTime,           \* bound on the clock
    MaxSleep,          \* m_maximumTimeToActive
    Infinite,          \* TIMEOUT_INFINITE
    NoTimer,           \* no m_terminationCallback
    OutOfMemory,       \* an allocation may fail
    CollectExecuting   \* a timer's object may die while its callback runs

ASSUME TimersAssumption ==
    /\ Dues \subseteq Int /\ Periods \subseteq Int
    /\ Millisecond \in Nat \ {0}
    /\ MaxTime \in Nat
    /\ MaxSleep \in Nat \ {0}
    /\ Infinite \in Nat
    /\ NoTimer \notin Timer
    /\ 0 \in Periods => Dues \subseteq Nat \cup {-1}   \* or Reschedule may divide by 0
    /\ MaxTime + MaxSleep < Infinite
    /\ \A d \in Dues \cup Periods : MaxTime + MaxSleep + 2 * d * Millisecond < Infinite
    /\ OutOfMemory \in BOOLEAN
    /\ CollectExecuting \in BOOLEAN

VARIABLES
    clock,      \* Time_GetMachineTime
    now,        \* m_currentMachineTime
    timers,     \* m_timers
    enabled,    \* the timers with c_EnabledTimer
    recurring,  \* c_Recurring
    triggered,  \* c_Triggered
    executing,  \* c_Executing
    expire,     \* m_timeExpire
    freq,       \* m_timeFrequency
    last,       \* m_timeLastExpiration
    status,     \* m_timerThread: none yet, reusable, running a callback, or lost
    param,      \* its m_terminationParameter while m_terminationCallback is set
    cache,      \* m_timerCacheNextTimeout, 0 if m_timerCache is not set
    sleeping,   \* the engine is in WaitSystemEvents
    fresh       \* history: the timers that did not run since they were set

timeVars == <<clock, now, cache, sleeping>>
setting == <<enabled, recurring, freq>>
running == <<timers, triggered, executing, expire, last, status, param, fresh>>
vars == <<timeVars, setting, running>>

-----------------------------------------------------------------------------
(* Arithmetic *)

\* 64-bit arithmetic wraps around.
Wrap(x) == ((x + Infinite + 1) % (2 * Infinite + 2)) - Infinite - 1

Abs(x) == IF x < 0 THEN -x ELSE x

\* The remainder of C, which has the sign of the dividend.
Rem(a, b) == IF a < 0 THEN -(Abs(a) % Abs(b)) ELSE a % Abs(b)

-----------------------------------------------------------------------------
Init ==
    /\ clock = 0
    /\ now = 0
    /\ timers = <<>>
    /\ enabled = {}
    /\ recurring = {}
    /\ triggered = {}
    /\ executing = {}
    /\ expire = [t \in Timer |-> Infinite]
    /\ freq = [t \in Timer |-> Infinite]
    /\ last = [t \in Timer |-> 0]
    /\ status = "none"
    /\ param = NoTimer
    /\ cache = 0
    /\ sleeping = FALSE
    /\ fresh = {}

-----------------------------------------------------------------------------
(* The engine *)

\* The first of the timers trig in the list.
IsFirst(t, trig) ==
    /\ t \in trig
    /\ \A i \in 1..Len(timers) : timers[i] = t =>
        \A j \in 1..(i - 1) : timers[j] \notin trig

\* No timer is triggered, or the timer thread cannot be had.
NoSpawn(trig, exec, exp, thread) ==
    /\ \/ trig = {}
       \/ thread \in {"busy", "lost"}
       \/ thread = "none" /\ OutOfMemory
    /\ triggered' = trig
    /\ executing' = exec
    /\ expire' = exp
    /\ status' = thread
    /\ param' = IF thread = "busy" THEN param ELSE NoTimer
    /\ UNCHANGED <<timers, last, fresh>>

\* Mutant: the timer keeps its place in the list.
SpawnOne_InPlace(t, trig, exec, exp) ==
    /\ last' = [last EXCEPT ![t] = exp[t]]
    /\ expire' = [exp EXCEPT ![t] = Infinite]
    /\ triggered' = trig \ {t}
    /\ executing' = exec \cup {t}
    /\ status' = "busy"
    /\ param' = t
    /\ fresh' = fresh \ {t}
    /\ UNCHANGED timers

\* Mutant: the expiration stays.
SpawnOne_ExpireKept(t, trig, exec, exp) ==
    /\ timers' = LinkAtBack(timers, t)
    /\ last' = [last EXCEPT ![t] = exp[t]]
    /\ expire' = exp
    /\ triggered' = trig \ {t}
    /\ executing' = exec \cup {t}
    /\ status' = "busy"
    /\ param' = t
    /\ fresh' = fresh \ {t}

\* CLR_RT_HeapBlock_Timer::SpawnTimer.  PushThreadProcDelegate makes the
\* thread ready before it allocates the stack frame: if that fails the thread
\* is in no list and never reusable again.
SpawnOne(t, trig, exec, exp) ==
    /\ timers' = LinkAtBack(timers, t)
    /\ last' = [last EXCEPT ![t] = exp[t]]
    /\ expire' = [exp EXCEPT ![t] = Infinite]
    /\ \/ /\ triggered' = trig \ {t}
          /\ executing' = exec \cup {t}
          /\ status' = "busy"
          /\ param' = t
          /\ fresh' = fresh \ {t}
       \/ /\ OutOfMemory
          /\ triggered' = trig
          /\ executing' = exec
          /\ status' = "lost"
          /\ param' = NoTimer
          /\ UNCHANGED fresh

\* Mutant: it is not looked whether the timer thread is free.
SpawnTimer_Always(trig, exec, exp, thread) ==
    IF trig = {}
    THEN NoSpawn(trig, exec, exp, thread)
    ELSE \E t \in Timer : IsFirst(t, trig) /\ SpawnOne(t, trig, exec, exp)

\* CLR_RT_ExecutionEngine::SpawnTimer, one timer at a time.
SpawnTimer(trig, exec, exp, thread) ==
    \/ NoSpawn(trig, exec, exp, thread)
    \/ /\ thread \in {"none", "idle"}
       /\ \E t \in Timer : IsFirst(t, trig) /\ SpawnOne(t, trig, exec, exp)

\* Mutant: disabled timers are looked at too.
Expired_All == {t \in Members(timers) : expire[t] <= clock}

\* What CheckTimers finds expired at the time of the clock.
Expired == {t \in enabled : expire[t] <= clock}

\* CLR_RT_HeapBlock_Timer::Trigger of the expired timers.
Trigger == triggered \cup (Expired \ executing)

\* Mutant: the timers whose callback is due next are not looked at.
NextTimeout_Max == clock + MaxSleep

\* The end of the time ProcessTimer returns: no later than the next
\* expiration, and than what the cache holds if it is still ahead.
NextTimeout ==
    LET ends == {clock + MaxSleep} \cup {cache} \cup {expire[t] : t \in enabled}
        ahead == {e \in ends : e > clock}
    IN CHOOSE e \in ahead : \A f \in ahead : e <= f

\* Mutant: only triggered, not spawned.
ProcessTimer_NoSpawn ==
    /\ now' = clock
    /\ cache' = NextTimeout
    /\ triggered' = Trigger
    /\ UNCHANGED <<timers, executing, expire, last, status, param, fresh>>

\* UpdateTime, then ProcessTimer with CheckTimers.
ProcessTimer ==
    /\ now' = clock
    /\ cache' = NextTimeout
    /\ IF Expired # {}
       THEN SpawnTimer(Trigger, executing, expire, status)
       ELSE UNCHANGED running

\* ScheduleThreads after each quantum.
Poll ==
    /\ ~sleeping
    /\ ProcessTimer
    /\ UNCHANGED <<clock, sleeping, setting>>

\* WaitForActivity when no thread is ready (the timer thread may be blocked in
\* its callback).
Idle ==
    /\ ~sleeping
    /\ ProcessTimer
    /\ status' = "busy" => status = "busy"
    /\ sleeping' = TRUE
    /\ UNCHANGED <<clock, setting>>

\* WaitSystemEvents returns: an event, or the time-out.
Wake ==
    /\ sleeping
    /\ sleeping' = FALSE
    /\ UNCHANGED <<clock, now, cache, setting, running>>

\* The clock; a sleep ends at its time-out.
Tick ==
    /\ clock < MaxTime
    /\ sleeping => clock < cache
    /\ clock' = clock + 1
    /\ UNCHANGED <<now, cache, sleeping, setting, running>>

-----------------------------------------------------------------------------
(* The end of a callback *)

\* Mutant: the last expiration that is over.
NextExpire_Past(t) ==
    LET e == Wrap(last[t] + freq[t])
    IN IF e < now THEN Wrap(now - Rem(Wrap(now - e), freq[t])) ELSE e

\* The next expiration in the future.
NextExpire(t) ==
    LET e == Wrap(last[t] + freq[t])
    IN IF e < now THEN Wrap(now - Rem(Wrap(now - e), freq[t]) + freq[t]) ELSE e

\* Mutant: a timer that is late is not rescheduled.
Reschedules_InTime(t) == t \in recurring \cap enabled /\ now <= last[t] + freq[t]

\* CLR_RT_HeapBlock_Timer::Reschedule.
Reschedules(t) == t \in recurring \cap enabled

\* Mutant: the next timer is not spawned.
CallbackEnd_NoSpawn ==
    /\ ~sleeping
    /\ status = "busy"
    /\ executing' = executing \ {param}
    /\ expire' = IF Reschedules(param)
                 THEN [expire EXCEPT ![param] = NextExpire(param)]
                 ELSE expire
    /\ status' = "idle"
    /\ param' = NoTimer
    /\ UNCHANGED <<timeVars, setting, timers, triggered, last, fresh>>

\* The timer thread ends (Passivate), however the callback ended.  The
\* termination callback works on the block the thread was started for.
CallbackEnd ==
    /\ ~sleeping
    /\ status = "busy"
    /\ SpawnTimer(triggered,
                  executing \ {param},
                  IF Reschedules(param)
                  THEN [expire EXCEPT ![param] = NextExpire(param)]
                  ELSE expire,
                  "idle")
    /\ cache' = IF Reschedules(param) THEN 0 ELSE cache
    /\ UNCHANGED <<clock, now, sleeping, setting>>

-----------------------------------------------------------------------------
(* The program *)

\* Mutant: only Timeout.Infinite makes a timer run once.
Configure_ZeroRecurs(t, due, period, en, rec) ==
    LET e == IF due = -1 THEN Infinite ELSE due * Millisecond
        f == IF period = -1 THEN Infinite ELSE period * Millisecond
    IN /\ expire' = [expire EXCEPT ![t] = IF e = Infinite THEN e ELSE clock + e]
       /\ enabled' = IF e = Infinite THEN en \ {t} ELSE en \cup {t}
       /\ freq' = [freq EXCEPT ![t] = f]
       /\ recurring' = IF f = Infinite THEN rec \ {t} ELSE rec \cup {t}
       /\ cache' = 0
       /\ fresh' = fresh \cup {t}

\* ConfigureObject with c_ACTION_Change, for a timer that is in en and rec
\* before.  An argument out of range ends it where it is found, with an
\* exception and with what is assigned so far.
Configure(t, due, period, en, rec) ==
    LET e == IF due = -1 THEN Infinite ELSE due * Millisecond
        f == IF period = -1 THEN Infinite ELSE period
        dueFails == e < 0
        fails == dueFails \/ f < 0
    IN /\ expire' = [expire EXCEPT ![t] =
                        IF e = Infinite \/ dueFails THEN e ELSE clock + e]
       /\ enabled' = IF e = Infinite THEN en \ {t}
                     ELSE IF dueFails THEN en ELSE en \cup {t}
       /\ freq' = [freq EXCEPT ![t] =
                        IF dueFails \/ f = Infinite THEN f ELSE f * Millisecond]
       /\ recurring' = IF fails THEN rec
                       ELSE IF f \in {0, Infinite} THEN rec \ {t} ELSE rec \cup {t}
       /\ cache' = IF fails THEN cache ELSE 0
       /\ fresh' = fresh \cup {t}

\* The constructor: CreateInstance, then the change.
Create(t, due, period) ==
    /\ ~sleeping
    /\ t \notin Members(timers)
    /\ timers' = Append(timers, t)
    /\ Configure(t, due, period, enabled, recurring)
    /\ UNCHANGED <<clock, now, sleeping, triggered, executing, last, status, param>>

\* Change.  CheckDisposed looks for c_ACTION_Destroy in m_flags, where nothing
\* sets it.
Change(t, due, period) ==
    /\ ~sleeping
    /\ t \in Members(timers)
    /\ Configure(t, due, period, enabled, recurring)
    /\ UNCHANGED <<clock, now, sleeping, timers, triggered, executing, last, status, param>>

\* Dispose: ConfigureObject with c_ACTION_Destroy.
Dispose(t) ==
    /\ ~sleeping
    /\ t \in Members(timers)
    /\ enabled' = enabled \ {t}
    /\ cache' = 0
    /\ UNCHANGED <<clock, now, sleeping, recurring, freq, running>>

\* Mutant: the block is released and stays triggered.
Collect_Triggered(t) ==
    /\ ~sleeping
    /\ t \in Members(timers)
    /\ t \in executing => CollectExecuting
    /\ timers' = Unlink(timers, t)
    /\ enabled' = enabled \ {t}
    /\ recurring' = recurring \ {t}
    /\ UNCHANGED <<timeVars, freq, triggered, executing, expire, last, status, param, fresh>>

\* RecoverFromGC of a timer whose managed object is dead: the block goes back
\* to the event cache and will be initialised by the next Create.
Collect(t) ==
    /\ ~sleeping
    /\ t \in Members(timers)
    /\ t \in executing => CollectExecuting
    /\ timers' = Unlink(timers, t)
    /\ enabled' = enabled \ {t}
    /\ recurring' = recurring \ {t}
    /\ triggered' = triggered \ {t}
    /\ executing' = executing \ {t}
    /\ fresh' = fresh \ {t}
    /\ expire' = [expire EXCEPT ![t] = Infinite]
    /\ freq' = [freq EXCEPT ![t] = Infinite]
    /\ last' = [last EXCEPT ![t] = 0]
    /\ UNCHANGED <<timeVars, status, param>>

-----------------------------------------------------------------------------
Next ==
    \/ Tick \/ Poll \/ Idle \/ Wake \/ CallbackEnd
    \/ \E t \in Timer, due \in Dues, period \in Periods :
        Create(t, due, period) \/ Change(t, due, period)
    \/ \E t \in Timer : Dispose(t) \/ Collect(t)

Spec == Init /\ [][Next]_vars

\* The clock runs, a sleep ends, the scheduler goes round, and a callback
\* returns (it is not the engine's fault if it blocks for ever).
FairSpec ==
    /\ Spec
    /\ WF_vars(Tick) /\ WF_vars(Wake)
    /\ SF_vars(Poll) /\ SF_vars(CallbackEnd)

-----------------------------------------------------------------------------
(* Properties *)

\* Every variable has its type.
TypeOK ==
    /\ clock \in 0..MaxTime
    /\ now \in 0..clock
    /\ timers \in Seq(Timer)
    /\ enabled \subseteq Members(timers)
    /\ recurring \subseteq Members(timers)
    /\ triggered \subseteq Members(timers)
    /\ executing \subseteq Members(timers)
    /\ expire \in [Timer -> Int]
    /\ freq \in [Timer -> Int]
    /\ last \in [Timer -> Int]
    /\ status \in {"none", "idle", "busy", "lost"}
    /\ param \in Timer \cup {NoTimer}
    /\ cache \in Int
    /\ sleeping \in BOOLEAN
    /\ fresh \subseteq Timer

\* The timer thread serves the timer it was started for, and no other timer
\* claims to be executing: at the end it advances the state of its own timer
\* (Thread.cpp:453, CLR_RT_HeapBlock_Timer.cpp:127-137).
ServesItsTimer == executing = IF status = "busy" THEN {param} ELSE {}

\* A triggered timer never waits while the timer thread is reusable: nobody
\* would look at it before some timer expires (Execution.cpp:786-806).
NoIdleTrigger == triggered # {} => status # "idle"

\* The timer thread works on the timer it was given, and is never free while one
\* waits for it.
ThreadKeepsTrack == ServesItsTimer /\ NoIdleTrigger

\* A timer that recurs goes on: unless it is triggered or executing it has an
\* expiration, so no sequence of changes, callbacks and expirations leaves it
\* enabled and dead (CLR_RT_HeapBlock_Timer.cpp:102, 142-158).
RecurringGoesOn ==
    \A t \in enabled \cap recurring :
        expire[t] # Infinite \/ t \in triggered \/ t \in executing

\* Reschedule divides by the frequency of a timer that recurs: a period of 0
\* never stays in such a timer (CLR_RT_HeapBlock_Timer.cpp:155, 330).
DivisorNotZero == \A t \in recurring : freq[t] # 0

\* No change, and no change refused halfway, leaves a recurring timer in a state
\* from which it cannot be rescheduled.
RecurringSound == RecurringGoesOn /\ DivisorNotZero

\* The engine does not sleep past an expiration, whatever the cached time-out
\* says (Execution.cpp:2399-2411).
NoOversleep ==
    sleeping => \A t \in enabled : cache <= expire[t] \/ t \in triggered \/ t \in executing

\* The timer thread starts the callback of t.
Spawned(t) == t \notin executing /\ t \in executing'

\* A timer that does not recur runs once for each time it is set (the test's
\* "the callback method is invoked once", TimerTests.cs:246).
OneShotOnce ==
    [][\A t \in Timer : Spawned(t) /\ t \notin recurring => t \in fresh]_vars

\* At the end of a callback its timer is not rescheduled for a time that is
\* already over: no avalanche of callbacks after one that took too long
\* (CLR_RT_HeapBlock_Timer.cpp:148-156).
NoAvalanche ==
    [][CallbackEnd /\ Reschedules(param) => now <= NextExpire(param)]_vars

\* A timer that is disposed, or changed to Timeout.Infinite, runs at most once
\* more: only if it was triggered and waiting for the timer thread then, which
\* Dispose does not undo (Execution.cpp:791).
QuietAfterDispose == [][\A t \in Timer : Spawned(t) => t \in enabled \cup triggered]_vars

\* Neither a callback that takes long nor a timer that is no longer wanted makes
\* callbacks run that nobody asked for.
CallbacksBounded == NoAvalanche /\ QuietAfterDispose

\* Each triggered timer gets the timer thread, though there are always others
\* (m_timers.LinkAtBack, Execution.cpp:800), or it is collected.
TriggeredRuns == \A t \in Timer : t \in triggered ~> t \notin triggered

\* A timer that is set for a time the clock reaches runs, unless it is set
\* again, disposed or collected.
DueRuns ==
    \A t \in Timer :
        (t \in enabled /\ expire[t] <= MaxTime)
            ~> (t \in executing \/ t \notin enabled \/ expire[t] > MaxTime)

\* Every timer that is due gets its turn.
TimersServed == TriggeredRuns /\ DueRuns

=============================================================================
