# The TinyCLR run-time: models, checks and proofs

This directory holds a TLA+ development of the .NET Micro Framework's run-time
(`CLR/`), of the part of its hardware abstraction layer (`DeviceCode/pal`) that
the run-time sleeps on, and of the protocol by which a debugger on a host talks
to it. It answers questions that the repository's tests can hardly ask: what
happens when a thread is aborted, suspended or killed while it is blocked, when a
timer is changed while it waits for its turn, when an interrupt arrives between a
test and a sleep or between a load and a store, when the power fails while flash is written, when a reply is
lost and the request comes again.

All modules are translated from the source (C++, and C# for the host's side of
the wire protocol). Line numbers in comments and in `PROJECT.json` refer to files
of the repository.

## 1. The system and its parts

The run-time is an interpreter for managed code on a processor without an
operating system. One *native thread* does everything: it runs a managed thread
for a quantum (`ScheduleThreads`), looks at timers and time-outs between two
quanta (`ProcessTimer`), and sleeps when nothing is ready (`WaitForActivity`,
`Events_WaitForEvents`). Concurrency comes from two sources. Managed threads
are interleaved at the granularity of quanta and blocking calls, and interrupts
interleave with the native thread wherever it has not disabled them.

| Part | State it keeps | Operations | What makes it correct |
|---|---|---|---|
| Managed threads (`Thread.cpp`, `Execution.cpp`) | `m_status`, flags, the lists `m_threadsReady`, `m_threadsWaiting`, `m_threadsZombie` | Start, Suspend, Resume, Abort, Passivate, Restart, PutInProperList, the debugger's kill | a node in one list; a live thread is never out of reach; a suspended thread never runs |
| Monitors (`CLR_RT_HeapBlock_Lock*.cpp`) | owner, recursion, queue of requests, `m_lockRequestsCount` | LockObject, UnlockObject, ChangeOwner, DestroyOwner, DeleteLockRequests | one owner, handed over in order; a dead thread neither owns nor requests |
| Wait handles (`CLR_RT_HeapBlock_WaitForObject.cpp`) | `HB_Signaled` of an object, `m_waitForObject` of a thread | Set, Reset, Wait*, Join, SignalObject, TryWaitForSignal | no signal lost, none invented; the walk over the waiters ends |
| Managed timers (`CLR_RT_HeapBlock_Timer.cpp`) | list of timers with flags and times, the one timer thread, the cached time-out | constructor, Change, Dispose, Trigger, SpawnTimer, Reschedule, collection | a due timer runs, once per expiration, on time, and the thread works on the timer it was started for |
| Completions and continuations (`AsyncProcCall/`) | two lists of calls, the compare register of the system timer | EnqueueTicks, Abort, DequeueAndExec, Dequeue_And_Execute, WaitForInterrupts | sorted; the timer armed for the first; nothing runs early, nothing is forgotten |
| Events and idle loop (`events/events.cpp`) | `SystemEvents` | Events_Set, Get, Clear, WaitForEvents | no sleep on an event that is there; a wait ends |
| Scheduling order (`Execution.cpp`, `Thread.cpp`) | `m_executionCounter`, priorities, the order of `m_threadsReady`, `m_cctorThread`, pending finalizers | ScheduleThreads, InsertThreadRoundRobin, BringExecCounterToDate, AdjustExecutionCounter, set_Priority, Sleep(0), SpawnStaticConstructor, SpawnFinalizer | the counters stay comparable for as long as the device runs; nobody lives on old credit; static constructors go first; a ready thread runs |
| Weak references in flash (`Heap_Persistence.cpp`, `ExtendedWeakReference`) | two banks of marked records, the manager's state, the list of references | flush, erase, copy, revert, switch of banks, InvalidateEntry, SetTarget, Initialize, Reboot | what is marked persisted is what a reset brings back; what fits is saved |
| Wire protocol and messaging (`Support/WireProtocol`, `CLR/Messaging`, the host's `Engine` and `Controller`) | two receivers, cached replies, the outstanding request | Process, ProcessPayload, ReplyToCommand, PurgeCache, Request with retries, CancelRequest | a request is executed once and answered by its own reply; receivers find the start of a message again |
| Serial ports (`pal/COM/usart`, the AT91 driver, `SerialPort`) | two ring buffers, flags of the flow control, `fDataEventSet`, the interrupt mask, the managed calls and their waits | interrupt, Open, Close, Read, Write, Flush, DiscardBuffer, XON/XOFF and RTS, clock stop | bytes keep their order; what is queued is sent; a stopped peer is released; no wake-up and no data event is missing |
| Exceptions, subthreads, constraints (`Thread.cpp`) | nested unwinding state | ProcessException, ExecutionConstraint | finally blocks run once, constraints abort the right frames |
| Garbage collector (`GarbageCollector*.cpp`) | marks, mark stack, relocation table | Mark, Sweep, compaction | reachable objects survive with their references |
| I2C, USB (`pal/COM`) | transactions, queues | start, interrupt, cancel | a cancelled transaction is not touched again |
| Block storage, wear leveling, FAT, configuration | media | read, write, erase | a reset leaves a readable medium |

*Interactions.* A monitor's hand-over, a signal and a time-out all end in
`CLR_RT_Thread::Restart`, which relinks the thread by its status and its
suspended flag. The death of a thread signals its Thread object (for Join),
releases its locks, deletes its lock requests and, on the timer thread,
reschedules the timer and starts the next. `ProcessTimer` triggers timers,
restarts threads whose time-out is over, and computes how long the engine may
sleep. That sleep is `Events_WaitForEvents`, which lends the system timer's
compare register to its own time-out. Which of the ready threads gets the next
quantum is decided by the execution counters; while a static constructor has to
run, only its thread does, and finalizers start when nothing is ready. The
persistence manager is a completion that works between two quanta, a few records
at a time; the collector and SetTarget call into it at any point of its work. The
wire protocol is polled from the same loop, and the host repeats what is not
answered in time. The interrupt of a serial port fills and empties its queues and
sets an event of the HAL, which ProcessActivity turns into an event of the
run-time that wakes the threads waiting in `SerialPort.Read` and `Write`.

*What is hard.* Calls reach threads that are blocked somewhere else (Abort,
Suspend, kill). Loops walk intrusive lists while their bodies relink nodes of
these lists. A native call that was blocked is entered a second time and does
not look again at what it waited for. A timer is triggered long before it runs.
Settings are stored before they are validated. One hardware register has two
users. A bank of flash is in use from the moment its header says so. A retry may
repeat what the device has already done. The serial port's flags are loaded and
stored by Write with the interrupt between the two. `PROJECT.json` lists these as hazards,
each with the line at which it bites and the properties that would notice.

## 2. The modules

| Module | Contents |
|---|---|
| `Lists` | doubly linked lists as sequences: `Members`, `Position`, `Unlink`, `LinkAtBack`, `InsertBefore` |
| `Threads` | threads, monitors, wait handles, Join and Sleep (22 variables, one action per call or engine step) |
| `Timers` | `System.Threading.Timer` and its thread |
| `Completions` | completions, continuations, system events and the idle loop |
| `Scheduler` | execution counters, the order of the ready list, static constructors and finalizers |
| `Persistence` | extended weak references and the manager that keeps them in two banks of flash |
| `DurableStore` | what extended weak references promise: the abstract specification that Persistence implements |
| `Wire` | the wire protocol between device and host over a line that loses and garbles |
| `HalQueue` | the ring buffer `Hal_Queue_UnknownSize`, its loops and indices as in the code |
| `Usart` | a serial port: the portable driver, the AT91 driver with its interrupt, and the managed Read and Write that wait |
| `MCThreads`, `MCTimers`, `MCCompletions`, `MCScheduler`, `MCPersistence`, `MCWire`, `MCUsart` | model values, symmetry sets and argument sets for TLC |
| `Lists_proofs`, `Threads_proofs`, `Timers_proofs`, `Completions_proofs`, `Scheduler_proofs`, `Persistence_proofs`, `Wire_proofs`, `Usart_proofs` | lemmas and theorems for TLAPS |

Definitions called `X_Something` directly before a definition `X` are mutants:
`X` as a plausible mistake would have it. They are not used by any
specification; they show that each property can fail. A property that is a
conjunction has several, so that more than one of its parts is seen to fail.

### Threads

The state is that of the C++ structures: `status`, `suspended`, `aborted`, `exc`
are fields of `CLR_RT_Thread`; `ready` and `waiting` are the two lists;
`owner`, `recursion` and `requests` are the fields of a lock, `owner[o] = NONE`
when the object has none; `wait` is the node `m_waitForObject`. `frame` is the
top stack frame: managed code, or the native call (Monitor.Enter, Sleep, a wait)
that will be entered a second time when the thread runs again.

A native call is one step, because nothing else runs on the native thread
meanwhile. Three loops are split into one step per iteration so that their
traversal can be looked at: SignalObject over the waiting threads (`step =
"signal"`, with `cursor` the node the loop stands on), the release of a dying
thread's locks (`"release"`) and the removal of its requests (`"purge"`). No
other action is enabled inside a loop. ThreadExit or Kill lead through all three.

Restart deserves a reader's attention. Of a suspended thread it sets the status
to Ready and links it at the back of the *waiting* list, and what the thread
waits for is kept, because only InsertThreadRoundRobin forgets it. The
consequence is the condition of `SignalLoopEnds` (section 5).

Abstractions: any ready thread may be dispatched; a finite time-out may expire at
any moment between two quanta; a thread has one subthread; an array of handles is
a set. Handlers are abstracted to "the exception is caught" or "it is not".
Synchronized methods and the global lock are left out.

### Timers

`timers` is `m_timers`; `enabled`, `recurring`, `triggered` and `executing` are
the sets of timers with that flag; `expire`, `freq` and `last` are the three
times. `status` and `param` are the timer thread: it can be missing (`none`),
reusable (`idle`), running (`busy`), or `lost` when a failed allocation has left
it ready and in no list. `clock` is the machine time and `now` the engine's copy
of it, which Reschedule uses and which may be old.

Configure follows `ConfigureObject` statement by statement where it fails: what
is assigned before CLR_E_OUT_OF_RANGE stays assigned. Arithmetic wraps around at
`Infinite`, and `Rem` is C's remainder. `fresh` is a history variable: it is
written and never read by the actions.

Abstractions: UpdateTime, ProcessTimer and the entry of the sleep are one step;
`WaitSystemEvents` rounds its time-out to whole milliseconds with a minimum of
one, so that in the code a sleep may be up to a millisecond longer than in the
model; the system timer is one of the wake-up events (`m_wakeupEvents`, its
default). Timers of ExtendedTimer (absolute times) are left out, and so are the
debugger's flags.

### Completions

`completions` and `conts` are the lists of the HAL, `compare` and `pending` the
system timer's register and its latched interrupt, `pc` the place of the native
thread in Events_WaitForEvents and in its callbacks. What the code does under
GLOBAL_LOCK is one step. While `pc` is at a place where interrupts are enabled,
any interrupt may set an event, start or abort a call; a pending timer interrupt
is taken before the native thread goes on. `MaxLag` is the delay between reading
the clock in EnqueueDelta64 and inserting the node.

`SleepServesInterrupts` distinguishes two kinds of targets: those whose
`CPU_Sleep` waits with interrupts disabled (ARM) and those that lower the mask
for the sleep (SH7264 and its relatives).

Abstraction: the compare register holds a full time, as the driver's 64-bit
`m_nextCompare` does; the 16- or 32-bit hardware counter behind it is the
driver's business. A completion that is enqueued again while it is linked is a
misuse that the code does not guard against, and is not modelled.

### Scheduler

Threads lets the engine dispatch any ready thread; this module has the choice.
`counter`, `priority` and `global` are `m_executionCounter`, `m_priority` and
`m_GlobalExecutionCounter`; `ready` is `m_threadsReady` in its order, in which a
thread stays linked while it runs. A call of ScheduleThreads begins with the
adjustment (`BeginSchedule`) and gives out quanta until `switches` is used up or
nothing is ready. `Pick` brings the chosen thread's counter to date and debits it
by `Debit[priority]`; a quantum ends with the running thread put back, waiting or
dead. While it runs it may start a thread, change a priority (without relinking
the thread, as the code does), load an assembly, wake another thread, or find
garbage. `cctorThread` is `m_cctorThread # NULL`, and `cctors` counts the static
constructors that have not run. `spent` and `last` are history variables for
BoundedStreak.

Abstractions: what threads wait for is reduced to Wait and Wake. Assemblies and
their constructors are a count; `CctorEnds` and `LoadAssembly` have the outcomes
of failed allocations. `Maximum`, `Adjustment` and `IntMax` are the code's
0x70000000, 0x60000000 and 2^31 - 1; what they have to satisfy is
`SchedulerAssumption`.

### Persistence and DurableStore

`flash` is what survives: of each bank its sequence number (0 without a good
header, `Erased` for 0xFFFFFFFF) and its records, each erased, open (good header,
data not complete), good or dead. The rest is memory: the manager's `state`,
`m_pending_object` and `m_pending_header`, and for each reference its object, its
place in bank A (`at`), its copy in bank B (`copied`) and its flags. One
iteration of AdvanceState is one step, or two when a record is written: header,
then data. Between two steps the program, the collector, a fault of the media and
the loss of power are possible; the allocation in STATE_CopyBackToRam is split so
that the collector can run inside it. `Reboot` flushes twice and each call ends
where the code returns. `Reset` may leave a torn header or a half erased bank.

`DurableStore` has two functions from identities to objects: what the program
sees and what is durable. Under the mapping `cacheNow`/`storedNow` each step of
Persistence is one of Put, Forget, Save, Withdraw or Reset, or a stuttering step:
in particular the whole switch of banks does not change what is stored.

Abstractions: records have one length, there is one reference per identity, all
references have WR_SurvivePowerdown, and an object is a value (its serialization
is not modelled). `ResetWhileCopying` and `CollectReverted` name two things that
can happen in the code and that the passing run excludes (section 5). `Blocks` is
the number of erase blocks of a bank; the runs have one.

### Wire

Each direction of the line is a sequence of units: the signature, the rest of the
header, and the parts of a payload. A receiver consumes a unit where the code
reads that many bytes, so after a loss it takes units of the next message for the
rest of this one, as the code does with bytes. A checksum is taken to detect
every difference. The device's actions are those of WP_Message::Process and
CLR_Messaging::ProcessPayload: find the cached reply and send it again
(`Retransmit`), or execute, reply and cache (`ProcessRequest`), with its failures
for lack of memory and of a port. `PurgeCache` drops replies by age and size from
the least recently used: it says which entries stay (`Stays`, an entry is looked at
when those behind it that do not stay are gone) and that they keep their order (`Keep`). The host's actions are those of Engine.Request, with
`Retry` and `Cancel`, and of MessageReassembler. `executed`, `forgotten`, `answer`
and `expired` are history variables.

Abstractions: time passes in steps of the host's retry time-out (`Time`), only as
often as `MaxLate` allows while there is unread input; the number of a request is
its index, and numbers do not come again while the device still has the first
reply to them. Requests the device sends, asynchronous requests of the host and
messages nobody asked for are left out.

### HalQueue and Usart

A queue has the fields of the C++ class: the buffer, `writer`, `reader` and
`full`. `Push` copies in up to two pieces and `Pop` returns at most what lies
before the end of the buffer, as the code does; a free place has the value
`Free`, so that a byte read from one would show.

`port` is the structure `HAL_USART_STATE` together with the registers it works on:
`Flag` is the set of flags, `refs` the interrupts the driver wants and `imr` the
mask of the chip, `rhr` and `thr` its holding registers. `com` is
SYSTEM_EVENT_FLAG_COM_OUT and COM_IN, `raised` the run-time's
`c_Event_SerialPort`, `thread` a thread that reads and one that writes. `call` is
the one call the native thread is in. Between its steps (`pc`) the interrupt may
come; what the code does under GLOBAL_LOCK is one step. `WriteEnter` and
`WriteStore` are two steps because `SET_USART_FLAG` in Write is not under the lock:
the word is loaded before, and stored after, an interrupt that changes it.
`stream` (the bytes each queue should hold) and `port.posted` (a data event since
the last Read) are history variables. The peer sees what `Transmit` takes out of
the holding register, and `stopped` is what the last XON or XOFF told it.

Abstractions: a character is data, XON or XOFF, and data have a value when they
enter a queue; the holding register and the shift register of the transmitter are
one. The flow control of a port is chosen by Open among `Flows`. Two threads use
the port, a reader and a writer. Left out: error events, the debugger on a
serial port, InternalDispose (which closes without waking anybody), CloseAllPorts,
a handler that is connected later than Open, pins and baud rates, the drivers of
other chips.

## 3. The runs

| Run | Instance | Shows |
|---|---|---|
| `threads_monitor` | 3 threads, 2 monitors, 2 requests per thread; monitor, abort, kill | queues, counters and lists stay consistent, a lock passes on in order, Enter returns to an owner |
| `threads_kill` | 3 threads, 2 monitors, recursion 2; suspend, join, kill, no abort | a dead thread leaves no lock, no request and no joiner; no thread runs with a pending request (`RequestsEnd`) |
| `threads_events` | 3 threads, an auto-reset and a manual-reset event; wait, sleep, suspend | lists and cursor stay sound, no signal is lost or invented, and SignalObject ends, while its body relinks threads |
| `completions` | 2 calls (one served in the interrupt, one through a continuation), 2 flags, times up to 2, delay up to 2, lag up to 1, fairness | the register serves both its users, nothing runs early, no sleep misses an event, everything is served |
| `timers_safety` | 2 timers, once or every 2 ms, callbacks of any length, failing allocations | the thread and the sleep keep track of the timers; no recurring timer dies, no one-shot repeats, no avalanche |
| `timers_liveness` | 3 timers that may be due all the time, fairness | a due timer runs, and none is passed over for ever |
| `scheduler` | 2 program threads, the constructors' thread, the finalizer's; 3 priorities; counters of 18 values on either side of 0; fairness | counters in range and related, bounded streaks, constructors first, a ready thread runs |
| `persistence` | 2 identities of different priority, 2 values, banks of 2 records, 3 writes, 1 reset, 1 fault, fairness | a reset finds what is marked as stored, nothing is left unsaved without need, the refinement of DurableStore, what fits is saved |
| `wire` | 3 commands (with payload, with long reply, not cached), 2 requests, 2 faults, 1 late answer, fairness | executed once, answered by its own reply, the cache outlives the retries, receivers resynchronise |
| `usart` | rings of 2 bytes, requests of up to 2; without XON/XOFF 2 values, or 1 value and two threads; with XON/XOFF 1 value, Writes of 1 byte, fewer waits | bytes keep their order though Push and Pop are cut, the port goes on, a stopped peer is released by reading, data are announced, waits are woken |

`threads_dead_owner` and `persistence_reset` are expected to end with a
counterexample; section 5 explains them.

*Composite properties.* Properties that say one thing together are one definition
of named parts: `ListsConsistent` (ListsDisjoint, CursorLinked,
SuspendedNotReady), `LocksConsistent` (NoOrphanedRequest, RequestCountExact,
EnterQueuedOrOwner, EnterReturnsOwner, SelfDeadlockOnlyAfterAbort),
`SignalsExact` (NoLostSignal, NoSpuriousWakeup) and `RequestsEnd`
(RunningHasNoRequest, DeadOwnsNoLock, DeadRequestsNothing, NoStrandedJoiner) of
Threads; `CallsLinked`
(InOneList, InOrder), `RegisterSound` (FirstIsArmed, NoOversleep) and `AllServed`
(CompletionRuns, WaitReturns, ContinuationsServed) of Completions;
`ThreadKeepsTrack` (ServesItsTimer, NoIdleTrigger), `RecurringSound`
(RecurringGoesOn, DivisorNotZero), `CallbacksBounded` (NoAvalanche,
QuietAfterDispose) and `TimersServed` (TriggeredRuns, DueRuns) of Timers;
`CountersSound` (NoOverflow, GlobalIsLowest) of Scheduler; `ExactlyOnce`
(AtMostOnce, AnswersItsRequest) of Wire. `NeverEarly` of Completions and
`HeaderSurvivesAllocation` of Persistence are stated by theorems only.

*Bounds.* Three threads are the least with which one thread acts while two
are in a queue or a list, so that order, overtaking and the cursor's successor
matter. Two requests per thread are the least at which an aborted thread queues
again with a stale request behind it, and two monitors let the stale request be
for another lock. Two events, one of each kind, let a WaitAll be satisfied in
part. For timers, two are needed for one to wait behind the other; the third in
`timers_liveness` lets two overtake one. There the due time is 0, which lets a
program keep its timers due for ever; expirations ahead of the clock are the
subject of `timers_safety`. A clock of 3 ticks admits a callback that is late by
more than a period of 2. For completions, two calls, one of each kind, are the
least with which the abort of the first has to arm the second, and a delay of 2
with a lag of 1 produces times that are over, equal and ahead; orders among more
calls are covered by the proof of `CallsLinked` and `RegisterSound`. In
`scheduler` the constants are scaled down so that the adjustment happens again
and again within a run; three priorities give debits of 1, 2 and 4, and two
threads besides the system threads let one sleep while the other is debited. In
`persistence` two references and two records fill a bank, so that the third write
needs a switch, with dead records to drop; one fault and one reset at every
possible step reach every branch of AdvanceState and of Initialize. In `wire` the
second request is made while units of the first, of its retries and of its late
replies are still on the line; two faults let the retry that repairs the first be
lost too. A request of patience `2 * MaxFaults + MaxLate` is one that
EventuallyAnswered speaks of; the commands have five retries, the uncached one
two. In `usart` a ring of two bytes has every position of reader and writer, and
the high and the low water mark fall on different counts. A Write of two bytes into
an empty ring whose indices stand at its second place is cut in two pieces and
takes both rounds of the loop; a Write of two must stop at the one byte that was
not sent (`Room_PastReader` does not); a Read of two is cut likewise; and with two
values a byte in the wrong place shows. XON and XOFF multiply the states, so
`MCUsart` bounds them. Without that handshake one thread at a time uses the port
while there are two values, and two threads do with one value. With XON/XOFF there
is one value (XON and XOFF pass the rings by), a Write is of one byte, and the
engine's events and waits are explored only while the port is written to and the
peer stops and releases the writer. That takes nothing from what the port can be
asked to do, since a call that finds nothing may return at once and the port knows
nothing of events and waits, but it leaves out a Read that waits on a port with XON/XOFF.
`StreamsStayIntact` and `WakeupsArrive` prove both properties without these bounds,
for every size of the rings. Symmetry among threads,
timers, identities and values is used in runs that check safety only.

*Deadlock.* The runs of threads, persistence and wire disable the check: a program
may end, or all of its threads may wait for each other; the device is off after
its last reset; the host makes no more requests. In the other runs it is checked.

*Fairness.* `Threads!LoopSpec` assumes only that the native thread carries on
its loops. That a ready thread is dispatched is what `ReadyRuns` of Scheduler
shows, under a condition that section 5 explains. In `Timers`
the clock runs, a sleep ends, the scheduler goes round, and callbacks return; the
two strong fairness conditions are there because Change, Dispose and the like may
be executed in between as often as the program pleases. In `Completions` the
clock runs, a latched interrupt is served and wakes the processor, and interrupts
leave the native thread time to go on; the last conjunct excludes a program that
for ever enqueues completions whose time is already over, each of which forces
the next interrupt. In `Scheduler` the engine's loop goes on and a quantum ends
(the interpreter's time slice); a static constructor that is run again and again
ends, which is strong because it may be interrupted by the end of its quantum. In
`Persistence` the manager's completion is called again while there is something
to do, and Initialize goes through. In `Wire` both sides take what came in, and a
wait with a time-out ends.

## 4. The proofs

TLAPS checks the following for all values of the constants that satisfy the
modules' assumptions: any number of threads, monitors, events, timers, calls,
priorities, objects and records, ring buffers and requests of any size.

* **Lists.** What Unlink, LinkAtBack, InsertBefore and Drop do to the members and
  to the absence of repetitions; everything below rests on these lemmas.
* **Threads.** `TypeCorrect`, `ListsStayConsistent` (from `ListsSound` and
  `SuspendedStaysOut`), `NoOrphan`, `LiveThreadsStayLinked`, `LocksStayConsistent`
  (with `CountsExact`), `LocksGrantedInOrder`, `WaitsEndForAReason`,
  `SignalsStayExact` and `RequestsEndWithWaits`. The inductive invariant `ListInv` joins the type invariant, `ListsDisjoint`,
  `CursorLinked` and `LoopOK`. `LoopOK` is needed because the cursor is only
  moved inside the loop, and because the loop's body may unlink the very node
  the cursor would move to unless the next node is taken first, as
  TINYCLR_FOREACH_NODE does. Helper lemmas give the effect of InsertReady,
  LinkWaiting, Restart, DropLockRequest and ChangeOwner on the lists, and each
  action follows from those it calls. `NoOrphan` adds the facts about locks; a
  lock loses its owner only in ChangeOwner, which first looks at the queue.
  `SuspendInv` states that a ready thread is not suspended, which is inductive
  only with the types and the disjoint lists. `SeatInv` says where each thread is:
  a ready thread waits for nothing, a wait or a sleep belongs to the native frame
  that began it, and only the dying thread, until its subthread is destroyed, has
  frames and no list. `CountInv` compares m_lockRequestsCount with the finite set
  of a thread's places in the queues; a grant removes the first request of a queue
  and moves the others up, so that its lemma needs a bijection between the places
  before and after. `LockInv` adds two facts to all of these: `Claim`, about a
  thread (one that was not aborted has at most one request, and only inside
  Monitor.Enter; one that is ready has none, and an exception inside a call is an
  abort's), and `Queue`, about a thread and a lock (who has entered is queued or
  owner, and both only after an abort). EnterReturnsOwner follows: a thread that
  runs again in Monitor.Enter has no request left, so it is not in the queue.
  `WokenInv` extends `NoSpuriousWakeup` from the current thread to all that are
  ready, since a wait is decided long before its thread runs.
  `SigInv` says for every step of SignalObject which threads in the waiting
  list may still have a satisfied wait: those at the cursor or behind it, and
  only because of the object that is being signaled (`SatBy` is WaitForSignal's test
  in a given state of the objects, `Before` the order of the list). It
  assumes that the program does not use both Abort and monitors: the stale request of an
  aborted thread keeps it Waiting when its wait is satisfied. `RestInv`
  says what a thread without frames may still have: no request, but for the
  dying thread's until they are purged, and no lock, but for the dying
  thread's that the loop which releases them has still to visit. `JoinInv` adds that a
  thread that has ended is signaled and that a joiner waits for one object, so that
  the signal of its death frees it. `RequestsEndWithWaits` assumes a program without Abort,
  as the run `threads_kill` does; section 5 says why.
* **Completions.** `TypeCorrect` and `CallsStayLinked` hold
  for all targets. `RegisterServesBoth`, `CompletionsOnTime` and
  `SleepWithoutEvent` assume `SleepServesInterrupts = FALSE`, and need it
  (section 5). The invariant
  `TimerInv` adds `SleepInv` to FirstIsArmed: during the sleep, what
  `state` says will be restored is what the first completion needs, and the
  register holds the earlier of that and the time-out. Without it nothing would
  be known about the register at the wake-up.
* **Timers.** `TypeCorrect`, `NoDivisionByZero`,
  `SleepEndsInTime`, `RunsOnce` and, if no timer is collected during its callback
  (`CollectExecuting = FALSE`), `ThreadStaysOnTrack`. `ListOK` adds the absence
  of repetitions in `m_timers`. `NoDivisionByZero` depends on an assumption
  about the arguments: a period of 0 is never passed together with an invalid due
  time. With both, the failed Change leaves a recurring timer with frequency 0,
  and Reschedule divides by it. `RunsOnce` needs `RanOnce`: a timer that ran and
  does not recur has an infinite expiration and is not triggered.
  `RecurringStaysSound` and `CallbacksStayBounded` assume `ValidArguments`: times
  and Timeout.Infinite, nothing negative otherwise. Their invariant `PaceInv` bounds
  the last expiration and the period so that their sum does not wrap around, but
  for one case: a timer that is changed to infinite while it is triggered has an infinite
  last expiration, to which Reschedule then adds a period. `NextExpireLemma`
  shows that the wrapped sum still leads to a time ahead of the clock.
* **Scheduler.** `TypeCorrect`: the ready list holds exactly the ready threads,
  once each, for which `InsertLemma` shows that InsertThreadRoundRobin puts its
  thread into the list whatever the counters say (the list need not be sorted).
  `CountersStaySound`: the invariant `CounterInv` bounds the global counter
  from below by `-Maximum` less what the quanta given out since the last
  adjustment can have debited, (MaxContextSwitch - switches) * (MaxDebit + 1), and
  every counter by the credit from above and by the global counter, less one,
  from below. The adjustment preserves the last bound only because it lifts the
  counters of all threads that exist and the global one by the same amount. The
  assumption on the constants is that one call's debits fit between threshold and
  width: with the 50 quanta per call of the solutions and debits up to 32, the code's
  constants leave more than 10^8 to spare. `ConstructorsGoFirst`: with
  `CctorInv`, constructors that have to run have a thread, unless it could not
  be made. `StreaksStayBounded`: `StreakInv` compares what the thread that ran
  last has been debited in a row with the counters of all others. Its
  `Follows(u)` says that the debit is paid for by the distance to u, or that u is so
  far ahead that it cannot be what keeps the thread in the first place; the second
  case arises when the adjustment cuts u's counter to the credit. `InsertFirst`
  gives the reason for being first: no lower counter than the next thread, but for the
  priorities. The theorem assumes `RoomForLead`: the highest priority is not more
  than the longest quantum (5 and 32), and the adjustment leaves the counters that
  caused it below the negative of the highest priority, so that a new thread, which starts at 0, is
  not below them (0x70000000 and 0x60000000).
* **Persistence.** For identities, objects and banks of any number and size.
  `TypeCorrect` and `NothingLeftUnsaved` need no more than the module's
  assumption; the second rests on `DoneInv`, which adds that an object always
  belongs to a linked reference (or Create could bring an unsaved one while the
  manager sleeps) and how Reboot's phases follow the states.
  `NothingLostOrRevived`, `HeaderSurvives` and `Implements`, the refinement of
  DurableStore, assume `OneBlock` (one erase block, no power failure while a bank
  has a header and no number, no collection of the reference that is being
  reverted; section 5 says what happens otherwise) and `NoWrap` (fewer than
  2^32 - 2 bank switches). Their invariant `StoreInv` has five parts. `BankAOK`
  and `BankBOK` say of the banks that the good records are exactly those
  of the objects at the places `at` (bank A) and `copied` (bank B); `Holds` is that
  relation, and its lemmas say what a neutral write, a new record and a removal do
  to it. `BankBOK` also has that before the switch what is persisted is copied,
  which needs that the revert empties the list of uncopied references.
  `HeaderOK` says which record is in work in each state; without it InvalidateEntry
  could delete a record of another object when it aborts a write. `SequencesOK`
  (bank A is the newer one) gives that Initialize chooses bank A, and `BootOK` is
  what is left of all this over a reset. For the refinement, `View` expresses the
  abstract state by `at` and `val`; FlushData is the store's Save, Revert its
  Withdraw, SetTarget its Put or Forget, the collector's steps are Forget, Reset is
  Reset, and the rest, the bank switch and the boot included, are stutters.
* **Wire.** For any commands, sizes, numbers of requests and retries, and any faults.
  `IInv` says what may be where. Towards the device there are only requests
  that the host made (and answers to bad-packet notices); towards the host, in its
  receiver and in the cache, replies to requests that were executed, with the
  request's command and number (and notices); `UnitsOf` gives the units of a set of
  messages, and a unit that is lost or garbled leaves units of the same set. Each
  reply in the cache is to a different request, and `RepliesCounted` counts: a
  request was executed as often as a reply to it was forgotten, and once more if
  one is in the cache. From it `AtMostOnce` follows; without the contents of the cache it
  would not be inductive, because a request found nowhere in the cache is executed
  (`HitsLemma`). `MessagesStay` says that what is under way stays right when the host asks
  more and the device executes more. `CacheRearranged`, `UsedLemma`, `KeepLemma` and `NewEntryLemma`
  are what the operations on the cache do to its contents.
  `ReplyStaysFresh` needs the order of the units as well. Its invariant `RInv` has that
  the line to the device holds whole messages, but for the start of the first (`Whole`): a
  loss can only damage the message at the front, and what is sent is appended whole.
  A receiver in the middle of a message takes what it misses from the next one, and
  `Missing` is what it takes of messages that are not sent yet. `Debt` adds one if the
  request is not `Coming`, and bounds the time-outs that may pass while nothing is
  under way before the device receives the request: each retry pays for one
  (`DebtOfRetry`), no unit that is read adds to it (`DebtTaken`) and a lost one makes it
  at most two more than what was missing (`DebtOfFault`). `InTime` bounds the age of the reply plus
  the debt by twice the faults and the late time-outs; without a fault `CleanLine`
  says that both receivers are where the messages begin, so that the reply is on its
  way to the host (`ReplyComing`), and the host, once it has it, waits no more (`HostCompletes`).
* **Serial port.** For rings, bytes and requests of any size, and, but for the last
  theorem, for any set of flow controls. The lemmas about HalQueue come first: `Holds(q, s)`
  says that the queue q contains the sequence s from its reader on, and `Push`,
  `Pop`, `Front` and `Given` are what appending to s and cutting s at its front
  are, wherever the indices wrap. The lemmas about the drivers say what each
  operation on a port leaves alone (`Mild`, `Sent`, `Hears`). `Base` is types,
  `Holds` of both queues and the shape of the call in progress (which call, at
  which place, with how much left); it gives `TypeCorrect` and `StreamsStayIntact`.
  `PortKeepsGoing` needs `PortInv`: `LineOK` strengthens the property by the
  receiver's interrupt being on, without which the chip's driver could enter the
  power-save mode when it turns the transmitter's off, and `StoreOK` says that the
  flags Write has loaded still agree with the port's on all that the interrupt
  cannot change, without which the store could turn anything on or off.
  `DataIsAnnounced` rests on `DataOK`: fDataEventSet implies that the event was
  posted, except inside a Read, which clears the flag last. `WakeupsArrive` rests
  on `WaitOK`, which speaks already of a Read that has found nothing and has not
  begun to wait. `ReadingReleasesPeer` rests on `SoftOK`, the property for the port
  and for the flags Write is about to store, with what FULL means; it assumes `OneControl`, that no flow
  control in `Flows` has both XON/XOFF and RTS on the receiver. The
  enumeration Handshake has no such value (Ports.cs:41-46), and with both, the
  receiver that RTS holds off would miss the byte that makes it send XON.

Only model-checked: every liveness property (fairness and ENABLED are out of the
prover's reach).

## 5. Where the code and its texts disagree

| Run | What TLC shows |
|---|---|
| `threads_dead_owner` | Abort wakes a thread that is queued for a monitor and leaves its request there. Such a thread may later die as owner of the lock it still requests: the loop that releases its locks hands the lock back to it and stops |
| `persistence_reset` | Format gives bank B a header with sequence number 0xFFFFFFFF, which Initialize takes for good and newer than bank A's. When the power fails before SetSequence, the half copied bank is the bank in use and what was only in bank A is lost |

The quoted comments and texts are in `PROJECT.json` under `findings`. These and
other properties of the code show up as conditions of what is checked:

* Abort is left out of `threads_kill`, because an aborted thread runs with its
  request still pending (`RunningHasNoRequest`, against the comment of
  Interpreter.cpp:605).
* `SignalLoopEnds` admits one suspended waiter. A suspended thread whose wait is
  satisfied stays satisfied in the list: two of them keep the loop going for
  ever, and one consumes the next Set of an auto-reset event although the
  previous one has freed it already.
* `SleepServesInterrupts` is FALSE in the run and in the proofs. Where CPU_Sleep
  lowers the interrupt mask (SH7264_power.cpp:87) the compare interrupt of the
  wait's own time-out is taken inside the sleep, and the handler executes the
  first completion early (Completions.cpp:62-70): with TRUE, `NeverEarly` and
  `RegisterSound` do not hold.
* `QuietAfterDispose` admits one run of a timer that was triggered before it was
  disposed: it waits behind another callback and runs all the same
  (Execution.cpp:791), where TimerTests.cs:351 expects none.
* `CollectExecuting` is FALSE in the runs. The timer thread holds the address of
  the timer's block but no reference to its managed object; if the object dies
  while the callback runs, the collector releases the block and the end of the
  callback works on a free one. With TRUE, `ServesItsTimer` does not hold.
* `OutOfMemory` is FALSE in `timers_liveness`. PushThreadProcDelegate makes the
  timer thread Ready before it allocates the stack frame (Thread.cpp:158-160);
  when that fails the thread is in no list and no timer runs again.
* The runs pass valid arguments to Change. One that is refused for its period has
  stored it already; a negative one lets Reschedule compute times that are over.
* CheckDisposed looks for a flag that no code sets, so Change of a disposed timer
  succeeds and enables it again; the model's Change has no such guard.
* A timer that waits behind another callback and is changed to a later time still
  runs as soon as the thread is free.
* `ReadyRuns` has the premise that running threads stop waking others.
  InsertThreadRoundRobin compares a woken thread with the one that runs, which is
  still linked at the place of its old counter (Execution.cpp:1415): two threads
  that wake each other can stay in front of a third for ever.
* The bound of `BoundedStreak` is the one the code keeps: a thread of the highest
  priority may have sixteen and more quanta in a row after a sleep, as
  Thread.cpp:104 says and not four as Execution.cpp:1220 says. The comments of
  lines 1132 and 1135 (the highest counter, a threshold of 0x40000000) are not what
  the code does either: it is the lowest, and 0x70000000. A thread that is created has counter 0,
  above every thread that has run (Thread.cpp:199), and a program that goes on
  starting threads can keep old ones waiting; `MaxStarts` bounds that.
* A static constructor that waits for another thread stops the program, since
  nobody else gets a quantum (Execution.cpp:1187); `ReadyRuns` admits that state.
* `CollectReverted` is FALSE. If the allocation of STATE_CopyBackToRam makes the
  collector find the very reference dead that is being reverted,
  m_pending_header is cleared under the hands of AdvanceState
  (Heap_Persistence.cpp:1114): with TRUE, `HeaderSurvivesAllocation` does not hold.
* Banks have one erase block, as in most solutions. STATE_EraseSector goes on to
  the copy after one block (Heap_Persistence.cpp:992): with `Blocks = 2` records
  of the last but one bank come back and `Durable` does not hold. After an erase
  fault in the last block the state is not left; `EventuallySaved` admits it.
* A new object deletes the record of the old one before it is written, so that a
  power failure leaves neither (Heap_Persistence.cpp:1363). DurableStore's `Put`
  says so.
* The payload time-out of the receiver measures the time between two calls of
  Process and not, as WireProtocol.cpp:236 says, between two bytes (line 241). A
  receiver that is polled often is freed by the bytes of the retries;
  `EventuallyAnswered` is about that.
* The host's receiver answers a bad packet through a message without a Converter
  (Controller.cs:894): the exception closes the port, which `HostBadHeader` takes
  for the loss of what is on the way. A host that is started again counts from the
  same number and may be given the cached reply to an older request of that
  number and command (Controller.cs:509); Wire has one session of the host.
* Flush may return while the last character is on its way, although usart.cpp:500
  says that all have been transmitted. When the queue is empty the interrupt has
  turned the transmitter's interrupt off, and then `TxShiftRegisterEmpty` answers
  TRUE without a look at the register (AT91_USART.cpp:229).
* USART_decl.h:39-41 has a time-out after which a port stopped by XOFF goes on; a
  Write that waits does not look at it, since usart.cpp:300 is reached only by a
  new call.
* PrepareForClockStop with an XON still to be sent sends XOFF and then the XON
  (usart.cpp:682, 640), which releases the peer before the clock stops.
* With RTS, the hold-off of the receiver turns its interrupt off when the receive
  queue reaches the high water mark (usart.cpp:550). If nothing is being sent, that
  is the last interrupt of the port: the driver of the chip takes the port for
  unused and turns the power-save mode on. Read and Write then refuse every call
  (usart.cpp:293, 361), so that the queue is never read down to the mark that would
  end it; only DiscardBuffer, or Close and a new Open, leads out. `PortGoesOn`
  excepts a port with RTS, and no property covers this state.
* DiscardBuffer empties the receive queue and leaves fDataEventSet
  alone (usart.cpp:749), so that bytes that come afterwards are not announced
  before the next Read, although USART_decl.h:65 speaks of an event when one is
  placed in the buffer. `DataAnnounced` therefore speaks of an event since the last
  Read.

## 6. What is not modelled

Subthreads and execution constraints, two-phase exceptions, the collector's mark
stack and compaction, I2C and USB drivers, block storage and file systems have no
module yet; waiting for hardware events is modelled for the serial port only. The type system, serialization, graphics, XML
and cryptography are conversions of data, in part third-party code. The managed
class libraries and the board support packages are outside: the first run on what
is modelled here, the second are register accesses. `PROJECT.json` gives the
reason for each. By lines, most of the repository is of this kind (register
definitions of the boards, OpenSSL, lwIP, the SDK's tools and tests), so that the
share of its lines that any model of its control can name is small.

Inside the modelled parts these are left out: the 32-bit cut of the engine's sleep
(Execution.cpp:3581), the debugger's Stopped flag, whose race the source documents
(Execution.cpp:2380-2392), the wrap-around of the banks' sequence numbers after 2^32
switches, records of different lengths, and requests that the device sends.

## 7. Plan

Done, in this order: Lists, Threads, Completions, Timers; Scheduler, Persistence
with DurableStore, Wire; HalQueue and Usart; their runs; the proofs of section 4.
Next:

1. `HardwareEvents`: WaitEvents and SignalEvents on top of Threads, and the
   engine's sleep composed with `Completions`.
2. `Monitor`, an abstract specification of a monitor (owner, queue, blocked
   callers) that Threads without Abort implements.
3. `SubThreads`: execution constraints and their abort; two-phase exceptions.
4. I2C transactions between interrupt and application.
5. Block storage: bad-block replacement interrupted by a reset.
