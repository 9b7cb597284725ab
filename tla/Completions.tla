---------------------------- MODULE Completions ----------------------------
(***************************************************************************)
(* The asynchronous calls of the HAL and its idle loop: HAL_COMPLETION (a  *)
(* callback to run at a time), HAL_CONTINUATION (a callback to run outside *)
(* of interrupts), the system event flags and Events_WaitForEvents, where  *)
(* the one native thread sleeps.  The compare register of the system timer *)
(* is shared: EnqueueTicks, Abort and the timer's interrupt keep it at the *)
(* time of the first completion, and WaitForInterrupts borrows it for its  *)
(* own time-out.                                                           *)
(*                                                                         *)
(* The actors are the native thread (pc), the timer's interrupt, the other *)
(* interrupts (which set events, and start or abort calls) and the clock.  *)
(* What runs under GLOBAL_LOCK is one step.  A pending interrupt of the    *)
(* timer is taken before the native thread's next step with interrupts on. *)
(* A callback is what its steps with interrupts on do: any interrupt or    *)
(* callback may start or abort a call.                                     *)
(***************************************************************************)
EXTENDS Integers, Sequences, Lists

CONSTANTS
    Call,                   \* the HAL_COMPLETIONs and HAL_CONTINUATIONs
    InISR,                  \* the calls with ExecuteInISR
    Flag,                   \* the bits of SystemEvents
    TimerFlag,              \* SYSTEM_EVENT_FLAG_SYSTEM_TIMER
    MaxTime,                \* bound on the clock, in ticks
    MaxDelay,               \* bound on how far ahead a call is enqueued
    MaxLag,                 \* ticks between reading the clock and enqueuing
    SleepServesInterrupts   \* CPU_Sleep lets the timer's interrupt in

ASSUME CompletionsAssumption ==
    /\ InISR \subseteq Call
    /\ TimerFlag \in Flag
    /\ MaxTime \in Nat
    /\ MaxDelay \in Nat
    /\ MaxLag \in Nat
    /\ SleepServesInterrupts \in BOOLEAN

VARIABLES
    now,          \* HAL_Time_CurrentTicks
    due,          \* EventTimeTicks
    completions,  \* g_HAL_Completion_List
    conts,        \* g_HAL_Continuation_List
    compare,      \* m_nextCompare of the time driver
    pending,      \* the timer's interrupt is latched
    events,       \* SystemEvents
    pc,           \* where the native thread is
    wakeup,       \* WakeupSystemEvents
    expire,       \* Expire
    runConts,     \* RunContinuations
    internal,     \* SYSTEM_STATE_NO_CONTINUATIONS is set
    state         \* what WaitForInterrupts does after the sleep

listVars == <<due, completions, conts>>
timerVars == <<compare, pending>>
waitVars == <<wakeup, expire, runConts, internal>>
vars == <<now, listVars, timerVars, events, pc, waitVars, state>>

\* HAL_Completion_IdleValue: a time that never comes.
IdleValue == MaxTime + MaxDelay + 1

Times == 0..IdleValue

-----------------------------------------------------------------------------
\* The loop of EnqueueTicks stops at the first node that is due after e, or at
\* the tail.
IsPlaceFor(e, k) ==
    /\ \A i \in 1..(k - 1) : due[completions[i]] <= e
    /\ k <= Len(completions) => e < due[completions[k]]

-----------------------------------------------------------------------------
Init ==
    /\ now = 0
    /\ due = [c \in Call |-> 0]
    /\ completions = <<>>
    /\ conts = <<>>
    /\ compare = IdleValue
    /\ pending = FALSE
    /\ events = {}
    /\ pc = "app"
    /\ wakeup = {}
    /\ expire = 0
    /\ runConts = TRUE
    /\ internal = FALSE
    /\ state = "keep"

\* The native thread runs with interrupts on, or sleeps on a processor that
\* lowers its interrupt mask for the sleep.
InterruptsOn ==
    \/ pc \in {"app", "dequeue", "stall", "callback", "appCallback", "probe"}
    \/ pc = "sleep" /\ SleepServesInterrupts

-----------------------------------------------------------------------------
(* The system timer *)

\* Mutant: a time that is already over does not force an interrupt.
SetCompare_NoForce(ticks, latched) ==
    compare' = ticks /\ pending' = latched

\* Mutant: the distance is taken for the time.
SetCompare_Relative(ticks, latched) ==
    compare' = now + ticks /\ pending' = (latched \/ ticks <= now)

\* SetCompareValue: a time that is already over forces an interrupt.
SetCompare(ticks, latched) ==
    /\ compare' = ticks
    /\ pending' = (latched \/ ticks <= now)

\* The clock advances; the compare register latches the interrupt.
Tick ==
    /\ now < MaxTime
    /\ now' = now + 1
    /\ pending' = (pending \/ now' = compare)
    /\ UNCHANGED <<listVars, compare, events, pc, waitVars, state>>

\* HAL_COMPLETION::Execute and HAL_CONTINUATION::Enqueue of a completion.
ExecuteCall(c) == conts' = IF c \in InISR THEN conts ELSE LinkAtBack(conts, c)

\* Mutant: the first completion stays in the list.
DequeueAndExec_NotUnlinked ==
    IF completions = <<>>
    THEN pending' = FALSE /\ UNCHANGED <<completions, conts, compare, events>>
    ELSE /\ events' = events \cup {TimerFlag}
         /\ SetCompare(due[Head(completions)], FALSE)
         /\ ExecuteCall(Head(completions))
         /\ UNCHANGED completions

\* HAL_COMPLETION::DequeueAndExec.  An empty list is the end of a
\* WaitForInterrupts and nothing is done.
DequeueAndExec ==
    IF completions = <<>>
    THEN pending' = FALSE /\ UNCHANGED <<completions, conts, compare, events>>
    ELSE /\ events' = events \cup {TimerFlag}
         /\ completions' = Drop(completions, 1)
         /\ SetCompare(IF Len(completions) > 1 THEN due[completions[2]] ELSE IdleValue,
                       FALSE)
         /\ ExecuteCall(Head(completions))

\* The interrupt handler of the time driver.
TimerISR ==
    /\ InterruptsOn
    /\ pending
    /\ IF now >= compare
       THEN DequeueAndExec
       ELSE SetCompare(compare, FALSE) /\ UNCHANGED <<completions, conts, events>>
    /\ UNCHANGED <<now, due, pc, waitVars, state>>

-----------------------------------------------------------------------------
(* Calls made by interrupts, callbacks and the program *)

\* Mutant: inserted after the nodes that are due later.
EnqueueTicks_AtBack(c, e) ==
    /\ due' = [due EXCEPT ![c] = e]
    /\ completions' = Append(completions, c)
    /\ IF completions = <<>> THEN SetCompare(e, pending) ELSE UNCHANGED timerVars

\* HAL_COMPLETION::EnqueueTicks.
EnqueueTicks(c, e) ==
    /\ due' = [due EXCEPT ![c] = e]
    /\ \E k \in 1..(Len(completions) + 1) :
        /\ IsPlaceFor(e, k)
        /\ completions' = InsertBefore(completions, k, c)
        /\ IF k = 1 THEN SetCompare(e, pending) ELSE UNCHANGED timerVars

\* EnqueueDelta64: the clock is read before the lock is taken.  All callers
\* abort the completion first or test IsLinked.
EnqueueDelta(c) ==
    /\ InterruptsOn
    /\ c \notin Members(completions) \cup Members(conts)
    /\ \E e \in (now - MaxLag)..(now + MaxDelay) :
        /\ e \in 1..MaxTime
        /\ EnqueueTicks(c, e)
    /\ UNCHANGED <<now, conts, events, pc, waitVars, state>>

\* Mutant: the compare register is left at the time of the aborted call.
Abort_NotArmed(c) ==
    /\ InterruptsOn
    /\ completions' = Unlink(completions, c)
    /\ conts' = Unlink(conts, c)
    /\ UNCHANGED <<now, due, timerVars, events, pc, waitVars, state>>

\* HAL_COMPLETION::Abort, and HAL_CONTINUATION::Abort for a call that is in
\* the list of continuations.
Abort(c) ==
    /\ InterruptsOn
    /\ completions' = Unlink(completions, c)
    /\ conts' = Unlink(conts, c)
    /\ IF completions # <<>> /\ Head(completions) = c
       THEN SetCompare(IF Len(completions) > 1 THEN due[completions[2]] ELSE IdleValue,
                       pending)
       ELSE UNCHANGED timerVars
    /\ UNCHANGED <<now, due, events, pc, waitVars, state>>

\* HAL_CONTINUATION::Enqueue; a call already in the list moves to its end.
Enqueue(c) ==
    /\ InterruptsOn
    /\ c \notin Members(completions)
    /\ conts' = LinkAtBack(conts, c)
    /\ UNCHANGED <<now, due, completions, timerVars, events, pc, waitVars, state>>

\* Events_Set from an interrupt.
EventsSet(f) ==
    /\ InterruptsOn
    /\ events' = events \cup {f}
    /\ UNCHANGED <<now, listVars, timerVars, pc, waitVars, state>>

\* HAL_Uninitialize: both lists are emptied, the compare register stays.
Uninitialize ==
    /\ pc = "app"
    /\ completions' = <<>>
    /\ conts' = <<>>
    /\ UNCHANGED <<now, due, timerVars, events, pc, waitVars, state>>

-----------------------------------------------------------------------------
(* The native thread *)

\* A pending interrupt comes first.
MainAt(where) == pc = where /\ ~pending

\* Events_Get (and Events_Clear, which does not look).
EventsGet(mask) ==
    /\ MainAt("app")
    /\ events' = events \ mask
    /\ UNCHANGED <<now, listVars, timerVars, pc, waitVars, state>>

\* Events_WaitForEvents, or Events_WaitForEventsInternal: the way in.
WaitForEvents(mask, noConts) ==
    /\ MainAt("app")
    /\ wakeup' = mask
    /\ internal' = noConts
    /\ \E timeout \in 0..(MaxTime - now) : expire' = now + timeout
    /\ runConts' = TRUE
    /\ pc' = "loop"
    /\ UNCHANGED <<now, listVars, timerVars, events, state>>

\* The loop's two returns; the call's arguments and local variables are gone.
Return ==
    /\ pc = "loop"
    /\ events \cap wakeup # {} \/ expire <= now
    /\ pc' = "app"
    /\ wakeup' = {}
    /\ expire' = 0
    /\ runConts' = TRUE
    /\ internal' = FALSE
    /\ UNCHANGED <<now, listVars, timerVars, events, state>>

\* Mutant: the flags are not read again before the sleep.
MayGoOn_NotRead == pc = "loop" /\ now < expire

\* Neither an event nor the time-out ends the wait.
MayGoOn == pc = "loop" /\ events \cap wakeup = {} /\ now < expire

\* irq.Release() on the way to the continuations.
ReleaseIrq ==
    /\ MayGoOn
    /\ runConts /\ ~internal
    /\ pc' = "dequeue"
    /\ UNCHANGED <<now, listVars, timerVars, events, waitVars, state>>

\* Mutant: the last continuation is taken for the end of the list.
DequeueContinuation_LastKept ==
    /\ \/ MainAt("dequeue") /\ pc' = IF Len(conts) < 2 THEN "stall" ELSE "callback"
       \/ MainAt("app") /\ Len(conts) > 1 /\ pc' = "appCallback"
    /\ conts' = IF Len(conts) < 2 THEN conts ELSE Drop(conts, 1)
    /\ UNCHANGED <<now, due, completions, timerVars, events, waitVars, state>>

\* HAL_CONTINUATION::Dequeue_And_Execute under its lock, called by
\* Events_WaitForEvents or by CLR_HW_Hardware::ProcessActivity.
DequeueContinuation ==
    /\ \/ MainAt("dequeue") /\ pc' = IF conts = <<>> THEN "stall" ELSE "callback"
       \/ MainAt("app") /\ conts # <<>> /\ pc' = "appCallback"
    /\ conts' = IF conts = <<>> THEN <<>> ELSE Drop(conts, 1)
    /\ UNCHANGED <<now, due, completions, timerVars, events, waitVars, state>>

\* Dequeue_And_Execute returns and irq.Acquire() follows.
AcquireIrq ==
    /\ \/ MainAt("callback") /\ runConts' = TRUE
       \/ MainAt("stall") /\ runConts' = FALSE
    /\ pc' = "loop"
    /\ UNCHANGED <<now, listVars, timerVars, events, wakeup, expire, internal, state>>

ReturnToApp ==
    /\ MainAt("appCallback")
    /\ pc' = "app"
    /\ UNCHANGED <<now, listVars, timerVars, events, waitVars, state>>

\* Mutant: the time-out is not armed when no completion is in the list.
Sleep_NotArmed ==
    /\ MayGoOn
    /\ ~runConts \/ internal
    /\ IF completions # <<>> /\ due[Head(completions)] > expire
       THEN SetCompare(expire, pending) /\ state' = "reset"
       ELSE UNCHANGED timerVars /\ state' = "keep"
    /\ runConts' = TRUE
    /\ pc' = "sleep"
    /\ UNCHANGED <<now, listVars, events, wakeup, expire, internal>>

\* WaitForInterrupts up to CPU_Sleep: the register is borrowed unless the
\* first completion is due by the time-out.
Sleep ==
    /\ MayGoOn
    /\ ~runConts \/ internal
    /\ \/ /\ completions = <<>>
          /\ SetCompare(expire, pending)
          /\ state' = "nil"
       \/ /\ completions # <<>>
          /\ due[Head(completions)] > expire
          /\ SetCompare(expire, pending)
          /\ state' = "reset"
       \/ /\ completions # <<>>
          /\ due[Head(completions)] <= expire
          /\ UNCHANGED timerVars
          /\ state' = "keep"
    /\ runConts' = TRUE
    /\ pc' = "sleep"
    /\ UNCHANGED <<now, listVars, events, wakeup, expire, internal>>

\* What WaitForInterrupts does after CPU_Sleep.  The time of a list's tail is
\* whatever the memory behind the list holds.
Restore ==
    \/ state = "keep" /\ UNCHANGED timerVars
    \/ state = "nil" /\ SetCompare(IdleValue, pending)
    \/ /\ state = "reset"
       /\ \E ticks \in IF completions # <<>> THEN {due[Head(completions)]} ELSE Times :
            SetCompare(ticks, pending)

\* CPU_Sleep returns: some interrupt is pending, or was served.
WakeUp ==
    /\ pc = "sleep"
    /\ Restore
    /\ state' = "keep"
    /\ pc' = "probe"
    /\ UNCHANGED <<now, listVars, events, waitVars>>

\* irq.Probe(): interrupts are on for a moment.
ProbeDone ==
    /\ MainAt("probe")
    /\ pc' = "loop"
    /\ UNCHANGED <<now, listVars, timerVars, events, waitVars, state>>

-----------------------------------------------------------------------------
Interrupt ==
    \/ TimerISR
    \/ \E c \in Call : EnqueueDelta(c) \/ Abort(c) \/ Enqueue(c)
    \/ \E f \in Flag \ {TimerFlag} : EventsSet(f)

Main ==
    \/ Uninitialize
    \/ \E mask \in SUBSET Flag : EventsGet(mask)
    \/ \E mask \in SUBSET Flag, noConts \in BOOLEAN : WaitForEvents(mask, noConts)
    \/ Return \/ ReleaseIrq \/ DequeueContinuation \/ AcquireIrq \/ ReturnToApp
    \/ Sleep \/ WakeUp \/ ProbeDone

Next == Tick \/ Interrupt \/ Main

Spec == Init /\ [][Next]_vars

\* The clock runs, a pending interrupt is served, a sleeping processor wakes
\* up for it, and the native thread goes on: the wait loop, the callbacks (which
\* return) and, whenever it is back in the program, the next ProcessActivity.
\* Strong fairness where interrupts are on: they leave the native thread time
\* for its next instruction.  And completions are not for ever enqueued with a
\* time that is already over, each forcing the next interrupt.
FairSpec ==
    /\ Spec
    /\ WF_vars(Tick)
    /\ WF_vars(TimerISR)
    /\ WF_vars(WakeUp /\ pending)
    /\ WF_vars(Return) /\ WF_vars(ReleaseIrq) /\ WF_vars(Sleep)
    /\ SF_vars(AcquireIrq) /\ SF_vars(ReturnToApp) /\ SF_vars(ProbeDone)
    /\ SF_vars(DequeueContinuation)
    /\ <>[][\A c \in Call : EnqueueDelta(c) => due'[c] > now]_vars

-----------------------------------------------------------------------------
(* Properties *)

PCs == {"app", "loop", "dequeue", "stall", "callback", "appCallback", "sleep", "probe"}

\* Every variable has its type.
TypeOK ==
    /\ now \in 0..MaxTime
    /\ due \in [Call -> 0..MaxTime]
    /\ completions \in Seq(Call)
    /\ conts \in Seq(Call)
    /\ compare \in Times
    /\ pending \in BOOLEAN
    /\ events \subseteq Flag
    /\ pc \in PCs
    /\ wakeup \subseteq Flag
    /\ expire \in 0..MaxTime
    /\ runConts \in BOOLEAN
    /\ internal \in BOOLEAN
    /\ state \in {"keep", "nil", "reset"}

\* The list is in the order of the times (EnqueueTicks' loop), so that no
\* completion waits behind one that is due later.
InOrder ==
    \A i \in 1..Len(completions) : \A j \in 1..i :
        due[completions[j]] <= due[completions[i]]

\* A node is in one list and once: a completion whose callback is queued as a
\* continuation is not also waiting for its time (the two lists share the
\* node's links, Continuations.cpp:30, Completions.cpp:88).
InOneList ==
    /\ \A i, j \in 1..Len(completions) : completions[i] = completions[j] => i = j
    /\ \A i, j \in 1..Len(conts) : conts[i] = conts[j] => i = j
    /\ Members(completions) \cap Members(conts) = {}

\* Interrupts and the application share two lists whose nodes are in one of them,
\* once, and in the order in which they have to run.
CallsLinked == InOneList /\ InOrder

\* Outside of the sleep, where the register is borrowed, it holds the time of
\* the first completion, and the interrupt is latched if that time is over:
\* no call is forgotten (Completions.cpp:75, 112, 165, 205).
FirstIsArmed ==
    pc # "sleep" /\ completions # <<>> =>
        /\ compare = due[Head(completions)]
        /\ pending \/ now < compare

\* The processor never sleeps past the time-out of the wait, nor past the
\* first completion: an interrupt is latched or will be by then
\* (WaitForInterrupts, Completions.cpp:183-196).
NoOversleep ==
    pc = "sleep" =>
        \/ pending
        \/ /\ now < compare /\ compare <= expire
           /\ completions # <<>> => compare <= due[Head(completions)]

\* The one compare register serves both of its users, the completions and the
\* wait's time-out.
RegisterSound == FirstIsArmed /\ NoOversleep

\* The processor does not go to sleep on an event it was told to wake up for:
\* an interrupt that sets one after the flags are read is held off until the
\* sleep ends (events.cpp:119-127).
NoSleepOnEvent == pc = "sleep" => events \cap wakeup = {}

\* No callback runs before its time: what DequeueAndExec takes from the list
\* is due, as its assertion says (Completions.cpp:66).
NeverEarly ==
    [][TimerISR => \A c \in Members(completions) \ Members(completions') : due[c] <= now]_vars

\* A completion gets its turn: it is executed (or aborted) and leaves the list.
CompletionRuns ==
    \A c \in Call : c \in Members(completions) ~> c \notin Members(completions)

\* Events_WaitForEvents returns: its time-out ends it whatever the completions
\* and the continuations do.
WaitReturns == pc = "loop" ~> pc = "app"

\* The list of continuations is served, though one that is queued between the
\* stall and the sleep waits for the sleep to end (events.cpp:139-147).
ContinuationsServed == conts # <<>> ~> pc \in {"callback", "appCallback"} \/ conts = <<>>

\* Completions, continuations and waits all come to their end, although they
\* share the native thread, the register and the sleep.
AllServed == CompletionRuns /\ WaitReturns /\ ContinuationsServed

=============================================================================
