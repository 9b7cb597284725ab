------------------------------ MODULE Scheduler ------------------------------
(***************************************************************************)
(* The scheduling order of the managed threads (ScheduleThreads): the      *)
(* execution counters, which every quantum debits by an amount that        *)
(* depends on the priority, the order of m_threadsReady, and the two       *)
(* system threads that break it, the one of the static constructors and    *)
(* the finalizer's.  Module Threads has the reasons for which threads wait *)
(* and wake; here a thread waits, or is suspended, until somebody wakes it *)
(* ("waiting").                                                            *)
(***************************************************************************)
EXTENDS Integers, Sequences, FiniteSets, Lists

CONSTANTS
    Program,        \* the program's threads
    Main,           \* its main thread
    Cctor,          \* m_cctorThread, when it exists
    Finalizer,      \* m_finalizerThread
    NONE,
    SystemHighest,  \* priorities are 0..SystemHighest
    Normal,         \* the priority of a new Thread object
    BelowNormal,    \* the finalizer's priority
    Debit,          \* Debit[p] = 1 << (System_Highest - p)
    Maximum,        \* EXECUTION_COUNTER_MAXIMUM
    Adjustment,     \* EXECUTION_COUNTER_ADJUSTMENT
    IntMax,         \* 2^31 - 1
    MaxContextSwitch,   \* quanta of one call of ScheduleThreads
    MaxStarts,      \* bound: threads started
    MaxEvents,      \* bound: priorities changed, assemblies loaded and objects
                    \* found to finalize
    MaxGarbage      \* bound: objects waiting for their finalizer

Thread == Program \cup {Cctor, Finalizer}
Priority == 0..SystemHighest
MaxDebit == Debit[0]

DefaultPriority == [t \in Thread |-> IF t = Cctor THEN SystemHighest
                                     ELSE IF t = Finalizer THEN BelowNormal ELSE Normal]

Credit == MaxDebit + 1      \* (1 << System_Highest) + 1

ASSUME SchedulerAssumption ==
    /\ Main \in Program /\ Cctor \notin Program /\ Finalizer \notin Program /\ Cctor # Finalizer
    /\ NONE \notin Thread
    /\ SystemHighest \in Nat /\ Normal \in Priority /\ BelowNormal \in Priority
    /\ Debit \in [Priority -> Nat] /\ \A p \in Priority : Debit[p] \in 1..MaxDebit
    /\ MaxContextSwitch \in Nat \ {0}
    /\ Maximum \in Nat /\ Adjustment \in Nat /\ IntMax \in Nat
    /\ MaxContextSwitch * (MaxDebit + 1) <= Adjustment /\ Adjustment <= Maximum
    /\ Maximum + MaxContextSwitch * (MaxDebit + 1) + Credit + SystemHighest <= IntMax
    /\ MaxStarts \in Nat /\ MaxEvents \in Nat /\ MaxGarbage \in Nat

VARIABLES
    status,     \* "absent", "unstarted", "ready" or "waiting"
    priority,   \* m_priority
    counter,    \* m_executionCounter
    ready,      \* m_threadsReady
    global,     \* m_GlobalExecutionCounter
    current,    \* the thread that Execute runs, or NONE
    switches,   \* maxContextSwitch, what is left of it
    cctors,     \* static constructors that did not run yet
    cctorThread,\* m_cctorThread # NULL
    skipped,    \* the constructors' thread could not be made
    garbage,    \* objects in m_finalizersPending
    spent,      \* what the thread that ran last was debited while others were ready
    last,       \* the thread that ran last
    starts,     \* count of the threads started
    events      \* count of the other bounded events

vars == <<status, priority, counter, ready, global, current, switches, cctors,
          cctorThread, skipped, garbage, spent, last, starts, events>>

Exists(t) == status[t] # "absent"

bounds == <<starts, events>>

Event == events < MaxEvents /\ events' = events + 1

(***************************************************************************)
(* The ready list                                                          *)
(***************************************************************************)

GetExecutionCounter(pri, cnt, t) == pri[t] + cnt[t]

\* InsertThreadRoundRobin: before the first thread with a lower counter.
InsertThreadRoundRobin(list, pri, cnt, t) ==
    LET rest == Unlink(list, t)
        key(u) == GetExecutionCounter(pri, cnt, u)
        lower == {i \in 1..Len(rest) : key(rest[i]) < key(t)}
    IN  InsertBefore(rest,
                     IF lower = {} THEN Len(rest) + 1
                                   ELSE CHOOSE i \in lower : \A j \in lower : i <= j,
                     t)

ToDate_NoLimit(c, g) == c

\* BringExecCounterToDate
ToDate(c, g) == IF c - g > Credit THEN g + Credit ELSE c

(***************************************************************************)
(* ScheduleThreads                                                         *)
(***************************************************************************)

AdjustExecutionCounter_ReadyOnly ==
    LET g == global + Adjustment
    IN  /\ global' = g
        /\ counter' = [t \in Thread |-> IF status[t] = "ready" THEN ToDate(counter[t] + Adjustment, g)
                                        ELSE counter[t]]

\* The start of a call.  Threads that exist are in one of the three lists
\* AdjustExecutionCounter is called for.
AdjustExecutionCounter ==
    LET g == global + Adjustment
    IN  /\ global' = g
        /\ counter' = [t \in Thread |-> IF Exists(t) THEN ToDate(counter[t] + Adjustment, g)
                                        ELSE counter[t]]

BeginSchedule_NeverAdjusts ==
    /\ current = NONE /\ switches = 0
    /\ switches' = MaxContextSwitch
    /\ UNCHANGED <<status, priority, ready, current, cctors, cctorThread, garbage,
                   skipped, spent, last, bounds, global, counter>>

BeginSchedule ==
    /\ current = NONE /\ switches = 0
    /\ switches' = MaxContextSwitch
    /\ IF global < -Maximum THEN AdjustExecutionCounter ELSE UNCHANGED <<global, counter>>
    /\ UNCHANGED <<status, priority, ready, current, cctors, cctorThread, garbage,
                   skipped, spent, last, bounds>>

Candidate_First == IF ready # <<>> THEN Head(ready) ELSE NONE

\* The thread a quantum would go to.
Candidate ==
    IF cctorThread THEN IF status[Cctor] = "ready" THEN Cctor ELSE NONE
    ELSE IF ready # <<>> THEN Head(ready) ELSE NONE

\* EnsureSystemThread and CanThreadBeReused
FinalizerFree == status[Finalizer] \in {"absent", "unstarted"}

\* CLR_S_NO_READY_THREADS: Execute goes to WaitForActivity and calls again.
\* There is nothing to finalize, the finalizer waits, or memory is short.
NoReadyThreads ==
    /\ current = NONE /\ switches > 0
    /\ Candidate = NONE
    /\ switches' = 0
    /\ UNCHANGED <<status, priority, counter, ready, global, current, cctors,
                   cctorThread, garbage, skipped, spent, last, bounds>>

\* SpawnFinalizer, when no thread is ready.
SpawnFinalizer ==
    /\ current = NONE /\ switches > 0
    /\ Candidate = NONE /\ ~cctorThread /\ garbage > 0 /\ FinalizerFree
    /\ status' = [status EXCEPT ![Finalizer] = "ready"]
    /\ garbage' = garbage - 1
    /\ ready' = <<Finalizer>>
    /\ UNCHANGED <<priority, counter, global, current, switches, cctors, cctorThread, skipped,
                   spent, last, bounds>>

\* A quantum starts: the thread's counter is brought to date and debited.
Pick ==
    /\ current = NONE /\ switches > 0
    /\ Candidate # NONE
    /\ LET t == Candidate
           debit == Debit[priority[t]]
           c == ToDate(counter[t], global) - debit
       IN  /\ counter' = [counter EXCEPT ![t] = c]
           /\ global' = IF c < global THEN c ELSE global
           /\ current' = t
           /\ IF cctorThread \/ Len(ready) = 1
                THEN spent' = 0 /\ last' = NONE
                ELSE /\ spent' = (IF t = last THEN spent ELSE 0) + debit
                     /\ last' = t
    /\ switches' = switches - 1
    /\ UNCHANGED <<status, priority, ready, cctors, cctorThread, skipped, garbage, bounds>>

\* PutInProperList after the quantum, in the states the thread may be in.
QuantumExpired ==
    /\ current # NONE
    /\ ready' = InsertThreadRoundRobin(ready, priority, counter, current)
    /\ current' = NONE
    /\ UNCHANGED <<status, priority, counter, global, switches, cctors, cctorThread,
                   garbage, skipped, spent, last, bounds>>

Wait_Linked ==
    /\ current # NONE
    /\ status' = [status EXCEPT ![current] = "waiting"]
    /\ current' = NONE
    /\ UNCHANGED <<priority, counter, ready, global, switches, cctors, cctorThread, garbage,
                   skipped, spent, last, bounds>>

Wait ==
    /\ current # NONE
    /\ status' = [status EXCEPT ![current] = "waiting"]
    /\ ready' = Unlink(ready, current)
    /\ current' = NONE
    /\ UNCHANGED <<priority, counter, global, switches, cctors, cctorThread, garbage,
                   skipped, spent, last, bounds>>

\* Thread.Sleep(0): UpdateToLowestExecutionCounter and CLR_E_RESCHEDULE.
SleepZero ==
    /\ current # NONE
    /\ counter' = [counter EXCEPT ![current] = global - 1]
    /\ ready' = InsertThreadRoundRobin(ready, priority, counter', current)
    /\ current' = NONE
    /\ UNCHANGED <<status, priority, global, switches, cctors, cctorThread, garbage,
                   skipped, spent, last, bounds>>

\* DestroyInstance: a thread that does not exist has counter 0, its next one's.
Destroy(t) ==
    /\ status' = [status EXCEPT ![t] = "absent"]
    /\ counter' = [counter EXCEPT ![t] = 0]
    /\ priority' = [priority EXCEPT ![t] = DefaultPriority[t]]
    /\ ready' = Unlink(ready, t)

\* A program's thread ends: Passivate and ReleaseWhenDead.
Exit ==
    /\ current \in Program
    /\ Destroy(current)
    /\ current' = NONE
    /\ UNCHANGED <<global, switches, cctors, cctorThread, garbage,
                   skipped, spent, last, bounds>>

\* FinalizerTerminationCallback: the next object, if there is one and memory.
FinalizerEnds ==
    /\ current = Finalizer
    /\ current' = NONE
    /\ \/ /\ garbage > 0
          /\ garbage' = garbage - 1
          /\ ready' = InsertThreadRoundRobin(ready, priority, counter, Finalizer)
          /\ UNCHANGED status
       \/ /\ status' = [status EXCEPT ![Finalizer] = "unstarted"]
          /\ ready' = Unlink(ready, Finalizer)
          /\ UNCHANGED garbage
    /\ UNCHANGED <<priority, counter, global, switches, cctors, cctorThread,
                   skipped, spent, last, bounds>>

CctorEnds_ThreadKept ==
    /\ current = Cctor
    /\ current' = NONE
    /\ cctors' \in 0..(cctors - 1)
    /\ IF cctors' > 0
         THEN /\ ready' = InsertThreadRoundRobin(ready, priority, counter, Cctor)
              /\ UNCHANGED <<status, priority, counter, cctorThread>>
         ELSE /\ Destroy(Cctor)
              /\ UNCHANGED cctorThread
    /\ UNCHANGED <<global, switches, garbage, skipped, spent, last, bounds>>

\* StaticConstructorTerminationCallback: the next constructor of this or of
\* another assembly, or the end of the thread.  Without memory to start the
\* next one, the rest of its assembly counts as executed.
CctorEnds ==
    /\ current = Cctor
    /\ current' = NONE
    /\ cctors' \in 0..(cctors - 1)
    /\ IF cctors' > 0
         THEN /\ ready' = InsertThreadRoundRobin(ready, priority, counter, Cctor)
              /\ UNCHANGED <<status, priority, counter, cctorThread>>
         ELSE /\ Destroy(Cctor)
              /\ cctorThread' = FALSE
    /\ UNCHANGED <<global, switches, garbage, skipped, spent, last, bounds>>

(***************************************************************************)
(* What a running thread does to others, and what the engine does.         *)
(***************************************************************************)

\* Thread.Start: a new thread has the counter 0 and the priority of its object.
Start(u) ==
    /\ current # NONE
    /\ u \in Program /\ ~Exists(u)
    /\ starts < MaxStarts /\ starts' = starts + 1
    /\ status' = [status EXCEPT ![u] = "ready"]
    /\ ready' = InsertThreadRoundRobin(ready, priority, counter, u)
    /\ UNCHANGED <<priority, counter, global, current, switches, cctors, cctorThread, garbage, skipped, spent,
                   last, events>>

\* set_Priority: the thread keeps its place in the ready list, one that is not
\* started yet will have the priority.  A thread that gives another more than it
\* has itself is rescheduled.
SetPriority(u, p) ==
    /\ current # NONE
    /\ u \in Program \cup {current}
    /\ p < SystemHighest /\ p # priority[u]
    /\ Event
    /\ priority' = [priority EXCEPT ![u] = p]
    /\ IF Exists(u) /\ p > priority'[current]
         THEN /\ current' = NONE
              /\ ready' = InsertThreadRoundRobin(ready, priority', counter, current)
         ELSE UNCHANGED <<current, ready>>
    /\ UNCHANGED <<status, counter, global, switches, cctors, cctorThread, garbage,
                   skipped, spent, last, starts>>

\* SpawnStaticConstructor for an assembly loaded by the program.  While the
\* constructors' thread exists it goes on with this assembly later; a thread
\* that cannot be created leaves the constructors, and an assembly whose
\* delegate cannot be created counts as executed.
LoadAssembly ==
    /\ current # NONE
    /\ Event
    /\ \/ cctorThread /\ cctors' = cctors + 1 /\ UNCHANGED <<cctorThread, skipped>>
       \/ /\ ~cctorThread
          /\ cctors' \in 0..(cctors + 1) /\ cctorThread' = (cctors' > 0)
          /\ skipped' = FALSE
       \/ /\ ~cctorThread
          /\ cctors' = cctors + 1 /\ UNCHANGED cctorThread
          /\ skipped' = TRUE
    /\ IF cctorThread' /\ ~cctorThread
         THEN /\ status' = [status EXCEPT ![Cctor] = "ready"]
              /\ ready' = InsertThreadRoundRobin(ready, priority, counter, Cctor)
         ELSE UNCHANGED <<status, ready>>
    /\ UNCHANGED <<priority, counter, global, current, switches, garbage, spent, last, starts>>

\* The collector finds objects to finalize.
Collect ==
    /\ current # NONE
    /\ Event
    /\ garbage' \in garbage + 1 .. MaxGarbage
    /\ UNCHANGED <<status, priority, counter, ready, global, current, switches, cctors,
                   cctorThread, skipped, spent, last, starts>>

\* Restart: by the running thread, or by ProcessTimer and SignalEvents.
Wake(u) ==
    /\ status[u] = "waiting"
    /\ status' = [status EXCEPT ![u] = "ready"]
    /\ ready' = InsertThreadRoundRobin(ready, priority, counter, u)
    /\ UNCHANGED <<priority, counter, global, current, switches, cctors, cctorThread,
                   garbage, skipped, spent, last, bounds>>

-----------------------------------------------------------------------------

\* Execute has made the main thread and the constructors' thread.
Init ==
    /\ status = [t \in Thread |-> IF t \in {Main, Cctor} THEN "ready" ELSE "absent"]
    /\ ready = <<Cctor, Main>>
    /\ priority = DefaultPriority
    /\ counter = [t \in Thread |-> 0]
    /\ global = 0 /\ current = NONE /\ switches = 0
    /\ cctors = 1 /\ cctorThread = TRUE /\ skipped = FALSE
    /\ garbage = 0 /\ spent = 0 /\ last = NONE
    /\ starts = 0 /\ events = 0

Engine == BeginSchedule \/ NoReadyThreads \/ SpawnFinalizer \/ Pick

Quantum == QuantumExpired \/ SleepZero \/ Wait \/ Exit
           \/ FinalizerEnds \/ CctorEnds

Next == \/ Engine \/ Quantum \/ LoadAssembly \/ Collect
        \/ \E u \in Thread : Wake(u) \/ Start(u) \/ \E p \in Priority : SetPriority(u, p)

Spec == Init /\ [][Next]_vars

\* The engine's loop goes on, a quantum ends, and a constructor that is run
\* again and again comes to its end.
FairSpec == /\ Spec
            /\ WF_vars(Engine) /\ WF_vars(Quantum)
            /\ SF_vars(CctorEnds)

-----------------------------------------------------------------------------

\* Types; the ready list holds exactly the threads that are ready, once each,
\* and the constructors' thread exists while m_cctorThread says so.
TypeOK ==
    /\ status \in [Thread -> {"absent", "unstarted", "ready", "waiting"}]
    /\ priority \in [Thread -> Priority]
    /\ counter \in [Thread -> Int]
    /\ ready \in Seq(Thread)
    /\ \A t \in Thread : status[t] = "ready" <=> \E i \in 1..Len(ready) : ready[i] = t
    /\ \A i, j \in 1..Len(ready) : ready[i] = ready[j] => i = j
    /\ global \in Int
    /\ current \in Thread \cup {NONE}
    /\ current # NONE => status[current] = "ready"
    /\ switches \in 0..MaxContextSwitch
    /\ cctors \in Nat /\ cctorThread \in BOOLEAN /\ skipped \in BOOLEAN
    /\ cctorThread <=> status[Cctor] # "absent"
    /\ garbage \in Nat /\ spent \in Nat /\ last \in Thread \cup {NONE}

\* No counter, no sum with a priority and no difference with the global counter
\* that the scheduler computes leaves the integers of IntMax, however long the
\* program runs and however long a thread did not run: the adjustment at the
\* start of ScheduleThreads comes in time, for all that one call may debit.
NoOverflow ==
    /\ global >= -IntMax
    /\ \A t \in Thread : /\ counter[t] \in -IntMax..IntMax
                         /\ GetExecutionCounter(priority, counter, t) <= IntMax
                         /\ Exists(t) => counter[t] - global <= IntMax

\* m_GlobalExecutionCounter is the lowest counter of all threads, of the waiting
\* and unstarted ones too, but for the one below it that Sleep(0) goes to: what
\* the credit of BringExecCounterToDate is measured from.
GlobalIsLowest == \A t \in Thread : Exists(t) => counter[t] >= global - 1

\* The counters can be compared with each other and with the global one, for as
\* long as the device runs.
CountersSound == NoOverflow /\ GlobalIsLowest

\* While other threads are ready, a thread gets no more quanta in a row than its
\* credit, the lead its priority gives it and one quantum pay for, however long
\* it slept and however its counter compares with the others'.
BoundedStreak == spent <= Credit + 1 + SystemHighest + MaxDebit

\* No quantum goes to another thread while a static constructor of a loaded
\* assembly has to run, unless memory was short when its thread was made.
ConstructorsFirst ==
    [][current = NONE /\ current' \in Thread \ {Cctor} => cctors = 0 \/ skipped]_vars

\* The running thread makes another one ready.
HandOver == current # NONE /\ \E u \in Thread : status[u] = "waiting" /\ status'[u] = "ready"

\* A ready thread gets a quantum, or static constructors wait for something,
\* provided that running threads stop waking others: InsertThreadRoundRobin
\* compares with the running thread, which is still in the list at the place of
\* its old counter, so two threads that wake each other can go on in front of a
\* third one for ever.
ReadyRuns ==
    <>[][~HandOver]_vars =>
        \A t \in Thread \ {Cctor} :
            status[t] = "ready" ~> current = t \/ status[Cctor] = "waiting"

=============================================================================
