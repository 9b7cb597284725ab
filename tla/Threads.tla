------------------------------ MODULE Threads ------------------------------
(***************************************************************************)
(* The managed threads of the TinyCLR execution engine and the three ways  *)
(* one of them blocks: a monitor (CLR_RT_HeapBlock_Lock), a wait handle or *)
(* a Join (CLR_RT_HeapBlock_WaitForObject) and Thread.Sleep.  Everything   *)
(* here runs on ONE native thread: the engine runs a managed thread for a  *)
(* quantum, and a native call (Monitor.Enter, Set, Abort, ...) is atomic.  *)
(* The interleavings are those of quanta, of time-outs that CheckThreads   *)
(* finds between two quanta, and of Suspend, Abort and the debugger's kill *)
(* reaching a thread that is blocked.                                      *)
(*                                                                         *)
(* Three loops of the engine are split into one step per iteration, with   *)
(* `step' saying which loop the native thread is in: SignalObject over the *)
(* waiting threads, the release of a dying thread's locks and the removal  *)
(* of its lock requests.  No other action is enabled inside a loop.        *)
(*                                                                         *)
(* Abstractions.  The order of m_threadsReady (Scheduler's subject) is     *)
(* left out: any ready thread may be dispatched.  A finite time-out may    *)
(* expire at any time.  A thread has one subthread.  An array of wait      *)
(* handles is the set of its elements, so that any signaled element may be *)
(* the one of lowest index.                                                *)
(***************************************************************************)
EXTENDS Integers, Sequences, FiniteSets, Lists

CONSTANTS
    Thread,         \* the managed threads the program may ever create
    Obj,            \* the objects it uses as monitors
    Event,          \* its AutoResetEvents and ManualResetEvents
    AutoReset,      \* the events with HB_SignalAutoReset
    Ops,            \* the calls the program (or its debugger) makes
    MaxRecursion,   \* bound on Owner::m_recursion
    MaxRequests,    \* bound on a thread's m_lockRequestsCount
    NONE            \* the null pointer

OpNames == {"monitor", "event", "join", "sleep", "suspend", "abort", "kill"}

ASSUME ThreadsAssumption ==
    /\ NONE \notin Thread \cup Obj \cup Event
    /\ Thread \cap Event = {}
    /\ AutoReset \subseteq Event
    /\ Ops \subseteq OpNames
    /\ MaxRecursion \in Nat \ {0}
    /\ MaxRequests \in Nat \ {0}

\* What a wait may be for: an event, or (Join) a managed Thread object.
Waitable == Event \cup Thread

VARIABLES
    status,     \* m_status
    suspended,  \* TH_F_Suspended in m_flags
    aborted,    \* TH_F_Aborted in m_flags
    exc,        \* m_currentException is set
    frame,      \* the top stack frame: IL code, or the native call blocked in
    entering,   \* the argument of the Monitor.Enter on top of the stack
    ready,      \* the threads linked in m_threadsReady
    waiting,    \* m_threadsWaiting, front to back
    current,    \* the thread inside Execute, NONE between two quanta
    owner,      \* the lock's m_owningThread, NONE when the object has no lock
    recursion,  \* Owner::m_recursion of that lock
    requests,   \* m_requests of that lock: the requesting threads, in order
    reqCount,   \* m_lockRequestsCount
    wait,       \* m_waitForObject
    waitResult, \* m_waitForObject_Result
    sleeping,   \* m_waitForEvents_Timeout is finite
    signaled,   \* HB_Signaled of the waitable objects
    step,       \* the loop the native thread is in, "run" for none
    sigObj,     \* SignalObject's argument
    cursor,     \* the node SignalObject's loop visits next, NONE at the end
    dying,      \* the thread inside Passivate
    todo        \* locks of the dying thread that the release loop will visit

flagVars == <<status, suspended, aborted, exc>>
codeVars == <<frame, entering>>
listVars == <<ready, waiting>>
lockVars == <<owner, recursion, requests, reqCount>>
waitVars == <<wait, waitResult, sleeping>>
loopVars == <<step, sigObj, cursor, dying, todo>>
vars == <<flagVars, codeVars, listVars, current, lockVars, waitVars, signaled,
          loopVars>>

Status == {"Unstarted", "Ready", "Waiting", "Terminated"}
Frames == {"il", "enter", "sleep", "wait", "none"}
Wait == [objects : SUBSET Waitable, all : BOOLEAN, timed : BOOLEAN]
NoWait == [objects |-> {}, all |-> FALSE, timed |-> FALSE]

-----------------------------------------------------------------------------
(* Walks over a list *)

FirstNode(s) == IF s = <<>> THEN NONE ELSE s[1]

\* Mutant: the walk starts over instead of going on.
NextNode_Restart(s, x) == FirstNode(s)

\* Mutant: the position of the next node for the node.
NextNode_Position(s, x) == IF Position(s, x) = Len(s) THEN NONE ELSE Position(s, x) + 1

\* th->Next(), NONE for the sentinel that ends the list.
NextNode(s, x) == IF Position(s, x) = Len(s) THEN NONE ELSE s[Position(s, x) + 1]

-----------------------------------------------------------------------------
Init ==
    /\ \E main \in Thread :
        /\ status = [t \in Thread |-> IF t = main THEN "Ready" ELSE "Unstarted"]
        /\ frame = [t \in Thread |-> IF t = main THEN "il" ELSE "none"]
        /\ ready = {main}
    /\ suspended = [t \in Thread |-> FALSE]
    /\ aborted = [t \in Thread |-> FALSE]
    /\ exc = [t \in Thread |-> FALSE]
    /\ entering = [t \in Thread |-> NONE]
    /\ waiting = <<>>
    /\ current = NONE
    /\ owner = [o \in Obj |-> NONE]
    /\ recursion = [o \in Obj |-> 0]
    /\ requests = [o \in Obj |-> <<>>]
    /\ reqCount = [t \in Thread |-> 0]
    /\ wait = [t \in Thread |-> NoWait]
    /\ waitResult = [t \in Thread |-> "init"]
    /\ sleeping = [t \in Thread |-> FALSE]
    /\ signaled \in {s \in [Waitable -> BOOLEAN] : \A t \in Thread : ~s[t]}
    /\ step = "run"
    /\ sigObj = NONE
    /\ cursor = NONE
    /\ dying = NONE
    /\ todo = {}

-----------------------------------------------------------------------------
(* Lists of threads *)

\* Mutant: the thread is not unlinked from the list it was in.
InsertReady_NoUnlink(t) ==
    /\ ready' = ready \cup {t}
    /\ wait' = [wait EXCEPT ![t] = NoWait]
    /\ sleeping' = [sleeping EXCEPT ![t] = FALSE]
    /\ UNCHANGED waiting

\* InsertThreadRoundRobin: what a thread waited for is forgotten.
InsertReady(t) ==
    /\ ready' = ready \cup {t}
    /\ waiting' = Unlink(waiting, t)
    /\ wait' = [wait EXCEPT ![t] = NoWait]
    /\ sleeping' = [sleeping EXCEPT ![t] = FALSE]

\* Mutant: unlinked from the ready list and linked nowhere.
LinkWaiting_Lost(t) == ready' = ready \ {t} /\ waiting' = Unlink(waiting, t)

\* m_threadsWaiting.LinkAtBack: what the thread waits for is kept.
LinkWaiting(t) ==
    /\ ready' = ready \ {t}
    /\ waiting' = LinkAtBack(waiting, t)

\* CLR_RT_ExecutionEngine::PutInProperList for a thread that is not
\* terminated, with the status and the suspended flag it has by then.
PutInProperList(t, st, susp) ==
    IF st = "Ready" /\ ~susp
    THEN InsertReady(t)
    ELSE LinkWaiting(t) /\ UNCHANGED <<wait, sleeping>>

\* Mutant: the suspended flag is not looked at.
Restart_Suspended(t, fDeleteEvent) ==
    status' = [status EXCEPT ![t] = "Ready"] /\ InsertReady(t)

\* CLR_RT_Thread::Restart.  A suspended thread becomes Ready and stays in the
\* waiting list, where only m_waitForEvents_Timeout is cleared.
Restart(t, fDeleteEvent) ==
    /\ status' = [status EXCEPT ![t] = "Ready"]
    /\ IF suspended[t]
       THEN /\ LinkWaiting(t)
            /\ sleeping' = [sleeping EXCEPT ![t] = @ /\ ~fDeleteEvent]
            /\ UNCHANGED wait
       ELSE InsertReady(t)

\* Mutant: any grant wakes the thread up.
DropLockRequest_AnyGrant(t) ==
    reqCount' = [reqCount EXCEPT ![t] = @ - 1] /\ Restart(t, FALSE)

\* CLR_RT_SubThread::ChangeLockRequestCount( -1 ).
DropLockRequest(t) ==
    /\ reqCount' = [reqCount EXCEPT ![t] = @ - 1]
    /\ IF reqCount[t] = 1
       THEN Restart(t, FALSE)
       ELSE /\ status' = [status EXCEPT ![t] = "Waiting"]
            /\ UNCHANGED <<listVars, wait, sleeping>>

\* Mutant: the last request gets the lock, the first one is removed.
ChangeOwner_Last(o) ==
    IF requests[o] = <<>>
    THEN /\ owner' = [owner EXCEPT ![o] = NONE]
         /\ recursion' = [recursion EXCEPT ![o] = 0]
         /\ UNCHANGED <<requests, reqCount, status, listVars, wait, sleeping>>
    ELSE /\ owner' = [owner EXCEPT ![o] = requests[o][Len(requests[o])]]
         /\ recursion' = [recursion EXCEPT ![o] = 1]
         /\ requests' = [requests EXCEPT ![o] = Drop(@, 1)]
         /\ DropLockRequest(requests[o][1])

\* CLR_RT_HeapBlock_Lock::ChangeOwner: the first request becomes the owner, or
\* the lock is given back to the event cache.
ChangeOwner(o) ==
    IF requests[o] = <<>>
    THEN /\ owner' = [owner EXCEPT ![o] = NONE]
         /\ recursion' = [recursion EXCEPT ![o] = 0]
         /\ UNCHANGED <<requests, reqCount, status, listVars, wait, sleeping>>
    ELSE /\ owner' = [owner EXCEPT ![o] = requests[o][1]]
         /\ recursion' = [recursion EXCEPT ![o] = 1]
         /\ requests' = [requests EXCEPT ![o] = Drop(@, 1)]
         /\ DropLockRequest(requests[o][1])

-----------------------------------------------------------------------------
(* The scheduler's side of a quantum *)

\* ScheduleThreads picks a thread of m_threadsReady and calls Execute.
Dispatch(t) ==
    /\ step = "run" /\ current = NONE /\ t \in ready
    /\ current' = t
    /\ UNCHANGED <<flagVars, codeVars, listVars, lockVars, waitVars, signaled,
                   loopVars>>

\* The quantum expires; ScheduleThreads puts the thread in its list.
QuantumExpired(t) ==
    /\ step = "run" /\ current = t
    /\ current' = NONE
    /\ PutInProperList(t, status[t], suspended[t])
    /\ UNCHANGED <<flagVars, codeVars, lockVars, waitResult, signaled, loopVars>>

\* Execute_Inner is about to run an IL instruction of t.
InIL(t) == step = "run" /\ current = t /\ frame[t] = "il" /\ ~exc[t]

\* A native call returned CLR_E_THREAD_WAITING: the caller's status is Waiting
\* and ScheduleThreads links it in the waiting list.
Block(t, native) ==
    /\ status' = [status EXCEPT ![t] = "Waiting"]
    /\ frame' = [frame EXCEPT ![t] = native]
    /\ current' = NONE
    /\ LinkWaiting(t)

\* The native frame on top of the stack runs again, with m_customState = 1,
\* once its thread is dispatched: it returns to IL.
NativeReturn(t) ==
    /\ step = "run" /\ current = t /\ ~exc[t]
    /\ frame[t] \in {"enter", "sleep", "wait"}
    /\ frame' = [frame EXCEPT ![t] = "il"]
    /\ entering' = [entering EXCEPT ![t] = NONE]
    /\ waitResult' = [waitResult EXCEPT ![t] = "init"]
    /\ UNCHANGED <<flagVars, listVars, current, lockVars, wait, sleeping,
                   signaled, loopVars>>

\* ProcessException found a catch or a finally block: the frames above it are
\* popped and m_currentException is cleared.
Catch(t) ==
    /\ step = "run" /\ current = t /\ exc[t] /\ frame[t] # "none"
    /\ exc' = [exc EXCEPT ![t] = FALSE]
    /\ frame' = [frame EXCEPT ![t] = "il"]
    /\ entering' = [entering EXCEPT ![t] = NONE]
    /\ waitResult' = [waitResult EXCEPT ![t] = "init"]
    /\ UNCHANGED <<status, suspended, aborted, listVars, current, lockVars,
                   wait, sleeping, signaled, loopVars>>

\* CEE_LEAVE (or endfinally) of a thread with TH_F_Aborted raises the
\* ThreadAbortException again.
Leave(t) ==
    /\ InIL(t) /\ aborted[t]
    /\ exc' = [exc EXCEPT ![t] = TRUE]
    /\ UNCHANGED <<status, suspended, aborted, codeVars, listVars, current,
                   lockVars, waitVars, signaled, loopVars>>

-----------------------------------------------------------------------------
(* Monitors *)

\* Mutant: the request is forced, the lock is taken from its owner.
EnterFree_Forced(t, o) ==
    /\ InIL(t) /\ "monitor" \in Ops /\ owner[o] # t
    /\ owner' = [owner EXCEPT ![o] = t]
    /\ recursion' = [recursion EXCEPT ![o] = 1]
    /\ UNCHANGED <<flagVars, codeVars, listVars, current, requests, reqCount,
                   waitVars, signaled, loopVars>>

\* Monitor.Enter: LockObject and IncrementOwnership.
EnterFree(t, o) ==
    /\ InIL(t) /\ "monitor" \in Ops /\ owner[o] = NONE
    /\ owner' = [owner EXCEPT ![o] = t]
    /\ recursion' = [recursion EXCEPT ![o] = 1]
    /\ UNCHANGED <<flagVars, codeVars, listVars, current, requests, reqCount,
                   waitVars, signaled, loopVars>>

EnterRecursive(t, o) ==
    /\ InIL(t) /\ "monitor" \in Ops /\ owner[o] = t
    /\ recursion[o] < MaxRecursion
    /\ recursion' = [recursion EXCEPT ![o] = @ + 1]
    /\ UNCHANGED <<flagVars, codeVars, listVars, current, owner, requests,
                   reqCount, waitVars, signaled, loopVars>>

\* Mutant: the owner itself is queued.
EnterQueued_Owner(t, o) ==
    /\ InIL(t) /\ "monitor" \in Ops /\ owner[o] # NONE
    /\ reqCount[t] < MaxRequests
    /\ requests' = [requests EXCEPT ![o] = Append(@, t)]
    /\ reqCount' = [reqCount EXCEPT ![t] = @ + 1]
    /\ entering' = [entering EXCEPT ![t] = o]
    /\ Block(t, "enter")
    /\ UNCHANGED <<suspended, aborted, exc, owner, recursion, waitVars,
                   signaled, loopVars>>

\* CLR_RT_HeapBlock_LockRequest::CreateInstance, with an infinite time-out.
EnterQueued(t, o) ==
    /\ InIL(t) /\ "monitor" \in Ops /\ owner[o] \notin {NONE, t}
    /\ reqCount[t] < MaxRequests
    /\ requests' = [requests EXCEPT ![o] = Append(@, t)]
    /\ reqCount' = [reqCount EXCEPT ![t] = @ + 1]
    /\ entering' = [entering EXCEPT ![t] = o]
    /\ Block(t, "enter")
    /\ UNCHANGED <<suspended, aborted, exc, owner, recursion, waitVars,
                   signaled, loopVars>>

\* Monitor.Exit: UnlockObject and DecrementOwnership.
Exit(t, o) ==
    /\ InIL(t) /\ "monitor" \in Ops /\ owner[o] = t
    /\ IF recursion[o] > 1
       THEN /\ recursion' = [recursion EXCEPT ![o] = @ - 1]
            /\ UNCHANGED <<owner, requests, reqCount, status, listVars, wait,
                           sleeping>>
       ELSE ChangeOwner(o)
    /\ UNCHANGED <<suspended, aborted, exc, codeVars, current, waitResult,
                   signaled, loopVars>>

\* Exit by a thread that does not own the lock: a
\* SynchronizationLockException.
ExitNotOwner(t, o) ==
    /\ InIL(t) /\ "monitor" \in Ops /\ owner[o] # t
    /\ exc' = [exc EXCEPT ![t] = TRUE]
    /\ UNCHANGED <<status, suspended, aborted, codeVars, listVars, current,
                   lockVars, waitVars, signaled, loopVars>>

-----------------------------------------------------------------------------
(* Wait handles, Join and Sleep *)

Satisfied(w) ==
    /\ w.objects # {}
    /\ IF w.all THEN \A x \in w.objects : signaled[x]
                ELSE \E x \in w.objects : signaled[x]

\* TryWaitForSignal: the values `signaled' may have after a satisfied wait has
\* taken its objects, auto-reset ones being reset.
Taken(w) ==
    IF w.all
    THEN {[x \in Waitable |-> signaled[x] /\ x \notin w.objects \cap AutoReset]}
    ELSE {[signaled EXCEPT ![x] = x \notin AutoReset] :
             x \in {y \in w.objects : signaled[y]}}

\* Mutant: the wait is created without a look at the objects.
WaitForSignal_NoTest(t, w) ==
    /\ InIL(t)
    /\ wait' = [wait EXCEPT ![t] = w]
    /\ waitResult' = [waitResult EXCEPT ![t] = "init"]
    /\ Block(t, "wait")
    /\ UNCHANGED <<suspended, aborted, exc, entering, lockVars, sleeping,
                   signaled, loopVars>>

\* WaitForSignal: take the objects now, or create the wait and block.
WaitForSignal(t, w) ==
    /\ InIL(t)
    /\ \/ /\ Satisfied(w)
          /\ signaled' \in Taken(w)
          /\ UNCHANGED <<status, codeVars, listVars, current, waitVars>>
       \/ /\ ~Satisfied(w)
          /\ wait' = [wait EXCEPT ![t] = w]
          /\ waitResult' = [waitResult EXCEPT ![t] = "init"]
          /\ Block(t, "wait")
          /\ UNCHANGED <<entering, sleeping, signaled>>
    /\ UNCHANGED <<suspended, aborted, exc, lockVars, loopVars>>

\* WaitOne, WaitAny and WaitAll, with or without a time-out.
WaitEvent(t) ==
    /\ "event" \in Ops
    /\ \E es \in SUBSET Event \ {{}}, all \in BOOLEAN, timed \in BOOLEAN :
        WaitForSignal(t, [objects |-> es, all |-> all, timed |-> timed])

\* Thread.Join.  Joining oneself or an unstarted thread is an exception, and
\* a terminated thread is not waited for.
Join(t, u) ==
    /\ "join" \in Ops /\ u # t /\ status[u] \notin {"Unstarted", "Terminated"}
    /\ \E timed \in BOOLEAN :
        WaitForSignal(t, [objects |-> {u}, all |-> FALSE, timed |-> timed])

\* Thread.Sleep: for ever (-1) or for a while.
Sleep(t) ==
    /\ InIL(t) /\ "sleep" \in Ops
    /\ \E finite \in BOOLEAN : sleeping' = [sleeping EXCEPT ![t] = finite]
    /\ Block(t, "sleep")
    /\ UNCHANGED <<suspended, aborted, exc, entering, lockVars, wait,
                   waitResult, signaled, loopVars>>

\* The head of SignalObject: the object is signaled, the loop starts.
SignalObject(x, list) ==
    /\ signaled' = [signaled EXCEPT ![x] = TRUE]
    /\ step' = "signal"
    /\ sigObj' = x
    /\ cursor' = FirstNode(list)

\* EventWaitHandle.Set
Set(t, e) ==
    /\ InIL(t) /\ "event" \in Ops
    /\ SignalObject(e, waiting)
    /\ UNCHANGED <<flagVars, codeVars, listVars, current, lockVars, waitVars,
                   dying, todo>>

\* EventWaitHandle.Reset
Reset(t, e) ==
    /\ InIL(t) /\ "event" \in Ops
    /\ signaled' = [signaled EXCEPT ![e] = FALSE]
    /\ UNCHANGED <<flagVars, codeVars, listVars, current, lockVars, waitVars,
                   loopVars>>

\* One iteration of SignalObject's loop.  The next node is read before the
\* body, which may move the visited thread to the back of the list.
SignalStep ==
    /\ step = "signal" /\ cursor # NONE
    /\ IF Satisfied(wait[cursor])
       THEN /\ signaled' \in Taken(wait[cursor])
            /\ waitResult' = [waitResult EXCEPT ![cursor] = "handle"]
            /\ Restart(cursor, TRUE)
       ELSE UNCHANGED <<signaled, status, listVars, waitVars>>
    /\ cursor' = IF signaled'[sigObj] THEN NextNode(waiting, cursor) ELSE NONE
    /\ UNCHANGED <<suspended, aborted, exc, codeVars, current, lockVars, step,
                   sigObj, dying, todo>>

\* SignalObject returns: to Set's caller, or to OnThreadTerminated, which
\* destroys the subthread of a thread that still has one.
SignalDone ==
    /\ step = "signal" /\ cursor = NONE
    /\ sigObj' = NONE
    /\ IF dying = NONE \/ frame[dying] = "none"
       THEN /\ step' = "run"
            /\ dying' = NONE
            /\ UNCHANGED <<todo, codeVars>>
       ELSE /\ step' = "release"
            /\ todo' = {o \in Obj : owner[o] = dying}
            /\ frame' = [frame EXCEPT ![dying] = "none"]
            /\ entering' = [entering EXCEPT ![dying] = NONE]
            /\ UNCHANGED dying
    /\ UNCHANGED <<flagVars, listVars, current, lockVars, waitVars, signaled,
                   cursor>>

\* CheckThreads finds an expired sleep or wait, between two quanta.
SleepExpired(t) ==
    /\ step = "run" /\ current = NONE
    /\ t \in Members(waiting) /\ ~suspended[t] /\ sleeping[t]
    /\ Restart(t, FALSE)
    /\ UNCHANGED <<suspended, aborted, exc, codeVars, current, lockVars,
                   waitResult, signaled, loopVars>>

WaitExpired(t) ==
    /\ step = "run" /\ current = NONE
    /\ t \in Members(waiting) /\ ~suspended[t] /\ wait[t].timed
    /\ waitResult' = [waitResult EXCEPT ![t] = "timeout"]
    /\ Restart(t, TRUE)
    /\ UNCHANGED <<suspended, aborted, exc, codeVars, current, lockVars,
                   signaled, loopVars>>

-----------------------------------------------------------------------------
(* Life and death of a thread *)

\* Thread.Start: a second Start of the same Thread object is an exception.
Start(t, u) ==
    /\ InIL(t) /\ status[u] = "Unstarted"
    /\ status' = [status EXCEPT ![u] = "Ready"]
    /\ frame' = [frame EXCEPT ![u] = "il"]
    /\ signaled' = [signaled EXCEPT ![u] = FALSE]
    /\ InsertReady(u)
    /\ UNCHANGED <<suspended, aborted, exc, entering, current, lockVars,
                   waitResult, loopVars>>

\* Thread.Suspend of another thread or, giving the quantum up, of oneself.
Suspend(t, u) ==
    /\ InIL(t) /\ "suspend" \in Ops
    /\ status[u] \notin {"Unstarted", "Terminated"} /\ ~suspended[u]
    /\ suspended' = [suspended EXCEPT ![u] = TRUE]
    /\ PutInProperList(u, status[u], TRUE)
    /\ current' = IF u = t THEN NONE ELSE t
    /\ UNCHANGED <<status, aborted, exc, codeVars, lockVars, waitResult,
                   signaled, loopVars>>

\* Mutant: a resumed thread is made ready whatever it waits for.
Resume_Restart(t, u) ==
    /\ InIL(t) /\ "suspend" \in Ops
    /\ status[u] # "Terminated" /\ suspended[u]
    /\ suspended' = [suspended EXCEPT ![u] = FALSE]
    /\ status' = [status EXCEPT ![u] = "Ready"]
    /\ InsertReady(u)
    /\ UNCHANGED <<aborted, exc, codeVars, current, lockVars, waitResult,
                   signaled, loopVars>>

\* Thread.Resume
Resume(t, u) ==
    /\ InIL(t) /\ "suspend" \in Ops
    /\ status[u] # "Terminated" /\ suspended[u]
    /\ suspended' = [suspended EXCEPT ![u] = FALSE]
    /\ PutInProperList(u, status[u], FALSE)
    /\ UNCHANGED <<status, aborted, exc, codeVars, current, lockVars,
                   waitResult, signaled, loopVars>>

\* Thread.Abort of another thread: its lock requests stay where they are.
Abort(t, u) ==
    /\ InIL(t) /\ "abort" \in Ops
    /\ u # t /\ status[u] \notin {"Unstarted", "Terminated"}
    /\ exc' = [exc EXCEPT ![u] = TRUE]
    /\ aborted' = [aborted EXCEPT ![u] = TRUE]
    /\ Restart(u, TRUE)
    /\ UNCHANGED <<suspended, codeVars, current, lockVars, waitResult, signaled,
                   loopVars>>

\* Mutant: the Thread object is signaled after the walk over its waiters.
Passivate_NoWalk(t) ==
    /\ status' = [status EXCEPT ![t] = "Terminated"]
    /\ suspended' = [suspended EXCEPT ![t] = FALSE]
    /\ aborted' = [aborted EXCEPT ![t] = FALSE]
    /\ exc' = [exc EXCEPT ![t] = FALSE]
    /\ ready' = ready \ {t}
    /\ waiting' = Unlink(waiting, t)
    /\ wait' = [wait EXCEPT ![t] = NoWait]
    /\ sleeping' = [sleeping EXCEPT ![t] = FALSE]
    /\ SignalObject(t, <<>>)
    /\ dying' = t
    /\ current' = NONE
    /\ UNCHANGED <<codeVars, lockVars, waitResult, todo>>

\* CLR_RT_Thread::Passivate up to the loop of SignalAll.  The exception, which
\* the code clears last, is not read before.
Passivate(t) ==
    /\ status' = [status EXCEPT ![t] = "Terminated"]
    /\ suspended' = [suspended EXCEPT ![t] = FALSE]
    /\ aborted' = [aborted EXCEPT ![t] = FALSE]
    /\ exc' = [exc EXCEPT ![t] = FALSE]
    /\ ready' = ready \ {t}
    /\ waiting' = Unlink(waiting, t)
    /\ wait' = [wait EXCEPT ![t] = NoWait]
    /\ sleeping' = [sleeping EXCEPT ![t] = FALSE]
    /\ SignalObject(t, Unlink(waiting, t))
    /\ dying' = t
    /\ current' = NONE
    /\ UNCHANGED <<codeVars, lockVars, waitResult, todo>>

\* The thread procedure returns, an exception is not handled, or a thread that
\* has no frame left is run again.
ThreadExit(t) ==
    /\ step = "run" /\ current = t
    /\ frame[t] \in {"il", "none"} \/ exc[t]
    /\ Passivate(t)

\* The debugger's Debugging_Thread_Kill, between two quanta.
Kill(t) ==
    /\ step = "run" /\ current = NONE /\ "kill" \in Ops
    /\ t \in ready \cup Members(waiting)
    /\ Passivate(t)

\* Mutant: the lock loses its owner and is handed to nobody.
ReleaseStep_NoGrant(o) ==
    /\ step = "release" /\ o \in todo
    /\ owner' = [owner EXCEPT ![o] = NONE]
    /\ recursion' = [recursion EXCEPT ![o] = 0]
    /\ todo' = todo \ {o}
    /\ UNCHANGED <<flagVars, codeVars, listVars, current, requests, reqCount,
                   waitVars, signaled, step, sigObj, cursor, dying>>

\* One iteration of CLR_RT_SubThread::DestroyInstance's loop over m_locks:
\* DestroyOwner.  A lock that comes back to the dying thread is linked at the
\* back of the list, where the loop meets it again unless it was the last.
ReleaseStep(o) ==
    /\ step = "release" /\ o \in todo
    /\ ChangeOwner(o)
    /\ todo' = IF owner'[o] = dying /\ todo # {o} THEN todo ELSE todo \ {o}
    /\ UNCHANGED <<suspended, aborted, exc, codeVars, current, waitResult,
                   signaled, step, sigObj, cursor, dying>>

\* Mutant: the release loop may stop before its end.
ReleaseDone_Early ==
    /\ step = "release"
    /\ step' = "purge"
    /\ todo' = {}
    /\ UNCHANGED <<flagVars, codeVars, listVars, current, lockVars, waitVars,
                   signaled, sigObj, cursor, dying>>

ReleaseDone ==
    /\ step = "release" /\ todo = {}
    /\ step' = "purge"
    /\ UNCHANGED <<flagVars, codeVars, listVars, current, lockVars, waitVars,
                   signaled, sigObj, cursor, dying, todo>>

\* DeleteLockRequests looks at the locks of the threads in the two lists.
Reachable(o) == owner[o] \in ready \cup Members(waiting)

\* Mutant: the request is deleted and still counted.
PurgeStep_StillCounted(o, i) ==
    /\ step = "purge" /\ Reachable(o) /\ requests[o][i] = dying
    /\ requests' = [requests EXCEPT ![o] = Drop(@, i)]
    /\ UNCHANGED <<flagVars, codeVars, listVars, current, owner, recursion,
                   reqCount, waitVars, signaled, loopVars>>

PurgeStep(o, i) ==
    /\ step = "purge" /\ Reachable(o) /\ requests[o][i] = dying
    /\ requests' = [requests EXCEPT ![o] = Drop(@, i)]
    /\ DropLockRequest(dying)
    /\ UNCHANGED <<suspended, aborted, exc, codeVars, current, owner, recursion,
                   waitResult, signaled, loopVars>>

\* Mutant: the requests of the dying thread are left in the queues.
PurgeDone_Early ==
    /\ step = "purge"
    /\ step' = "run"
    /\ dying' = NONE
    /\ UNCHANGED <<flagVars, codeVars, listVars, current, lockVars, waitVars,
                   signaled, sigObj, cursor, todo>>

PurgeDone ==
    /\ step = "purge"
    /\ \A o \in Obj : Reachable(o) => dying \notin Members(requests[o])
    /\ step' = "run"
    /\ dying' = NONE
    /\ UNCHANGED <<flagVars, codeVars, listVars, current, lockVars, waitVars,
                   signaled, sigObj, cursor, todo>>

-----------------------------------------------------------------------------
MonitorCall(t) ==
    \E o \in Obj : \/ EnterFree(t, o) \/ EnterRecursive(t, o)
                   \/ EnterQueued(t, o) \/ Exit(t, o) \/ ExitNotOwner(t, o)

EventCall(t) == WaitEvent(t) \/ \E e \in Event : Set(t, e) \/ Reset(t, e)

ThreadCall(t) ==
    \/ Sleep(t)
    \/ \E u \in Thread : \/ Start(t, u) \/ Join(t, u) \/ Suspend(t, u)
                         \/ Resume(t, u) \/ Abort(t, u)

Engine(t) ==
    \/ Dispatch(t) \/ QuantumExpired(t) \/ NativeReturn(t) \/ Catch(t)
    \/ Leave(t) \/ SleepExpired(t) \/ WaitExpired(t) \/ ThreadExit(t)

Loops ==
    \/ SignalStep \/ SignalDone \/ ReleaseDone \/ PurgeDone
    \/ \E o \in Obj :
        ReleaseStep(o) \/ \E i \in 1..Len(requests[o]) : PurgeStep(o, i)

Next ==
    \/ \E t \in Thread : MonitorCall(t) \/ EventCall(t) \/ ThreadCall(t)
                            \/ Engine(t) \/ Kill(t)
    \/ Loops

Spec == Init /\ [][Next]_vars
-----------------------------------------------------------------------------
(* Properties *)

\* The type invariant.  The bounds of the lock counters are left to TLC.
TypeOK ==
    /\ status \in [Thread -> Status]
    /\ suspended \in [Thread -> BOOLEAN]
    /\ aborted \in [Thread -> BOOLEAN]
    /\ exc \in [Thread -> BOOLEAN]
    /\ frame \in [Thread -> Frames]
    /\ entering \in [Thread -> Obj \cup {NONE}]
    /\ ready \in SUBSET Thread
    /\ waiting \in Seq(Thread)
    /\ current \in Thread \cup {NONE}
    /\ owner \in [Obj -> Thread \cup {NONE}]
    /\ recursion \in [Obj -> Nat]
    /\ requests \in [Obj -> Seq(Thread)]
    /\ reqCount \in [Thread -> Int]
    /\ wait \in [Thread -> Wait]
    /\ waitResult \in [Thread -> {"init", "timeout", "handle"}]
    /\ sleeping \in [Thread -> BOOLEAN]
    /\ signaled \in [Waitable -> BOOLEAN]
    /\ step \in {"run", "signal", "release", "purge"}
    /\ sigObj \in Waitable \cup {NONE}
    /\ cursor \in Thread \cup {NONE}
    /\ dying \in Thread \cup {NONE}
    /\ todo \in SUBSET Obj

\* A node is linked in one list at a time, at one place: Restart, Suspend,
\* Passivate and the end of a quantum all relink a thread that may be anywhere.
ListsDisjoint ==
    /\ \A t \in ready : t \notin Members(waiting)
    /\ \A i, j \in 1..Len(waiting) : waiting[i] = waiting[j] => i = j

\* SignalObject's loop stands on a node of the waiting list, although its body
\* moves threads out of that list and to the back of it.
CursorLinked == cursor # NONE => cursor \in Members(waiting)

\* A thread that has frames and was started is in one of the two lists the
\* scheduler and CheckThreads look at: no call leaves it behind, out of reach.
LiveThreadLinked ==
    \A t \in Thread :
        frame[t] # "none" /\ status[t] # "Terminated" =>
            t \in ready \cup Members(waiting)

\* A suspended thread is in the waiting list whatever wakes it up (a signal, a
\* grant of a lock, an abort), so that it is never given a quantum.
SuspendedNotReady == \A t \in ready : ~suspended[t]

\* The two lists are sound and hold back who must not run, in the middle of
\* every loop that relinks their nodes.
ListsConsistent == ListsDisjoint /\ CursorLinked /\ SuspendedNotReady

\* A lock without an owner is freed, and it is freed only when nobody waits for
\* it: Exit, the death of the owner and ChangeOwner never leave a queue behind.
NoOrphanedRequest ==
    \A o \in Obj : /\ owner[o] = NONE => requests[o] = <<>> /\ recursion[o] = 0
                   /\ owner[o] # NONE => recursion[o] > 0

\* The places a thread holds in the queues of all locks.
Places(t) ==
    UNION {{o} \X {i \in 1..Len(requests[o]) : requests[o][i] = t} : o \in Obj}

\* m_lockRequestsCount is the number of requests of the thread in the queues of
\* all locks: grants, aborts, kills and new requests keep the two in step, and
\* ChangeLockRequestCount's test for zero is right.
RequestCountExact == \A t \in Thread : reqCount[t] = Cardinality(Places(t))

\* Monitor.Enter returns to IL only when its caller owns the lock, although it
\* does not look at the lock again after having been woken up.
EnterReturnsOwner ==
    \A t \in Thread :
        current = t /\ frame[t] = "enter" /\ ~exc[t] => owner[entering[t]] = t

\* A thread blocked in Monitor.Enter has its request in the queue of the lock
\* or has been granted the lock: it is never forgotten.
EnterQueuedOrOwner ==
    \A t \in Thread :
        frame[t] = "enter" /\ status[t] # "Terminated" =>
            \/ t \in Members(requests[entering[t]])
            \/ owner[entering[t]] = t

\* Only a thread that has been aborted while it was queued can come to wait for
\* a lock it owns itself.
SelfDeadlockOnlyAfterAbort ==
    \A o \in Obj, t \in Thread :
        owner[o] = t /\ t \in Members(requests[o]) =>
            aborted[t] \/ frame[t] = "none" \/ dying = t

\* Locks, their queues, the counts of requests and the callers of Monitor.Enter
\* agree with each other through grants, aborts, kills and new requests.
LocksConsistent ==
    /\ NoOrphanedRequest /\ RequestCountExact
    /\ EnterQueuedOrOwner /\ EnterReturnsOwner
    /\ SelfDeadlockOnlyAfterAbort

\* No lost signal: outside SignalObject's loop no thread waits for something
\* that is already there.  This relates WaitForSignal's test, the loop, its
\* early exit and the objects it resets.
NoLostSignal ==
    step = "run" =>
        \A t \in Thread :
            status[t] = "Waiting" /\ t \in Members(waiting) => ~Satisfied(wait[t])

\* A wait that returns to IL was satisfied or timed out, unless its thread was
\* aborted: no other wake-up (a grant, a resume) ends it.
NoSpuriousWakeup ==
    \A t \in Thread :
        current = t /\ frame[t] = "wait" /\ ~exc[t] /\ ~aborted[t] =>
            waitResult[t] # "init"

\* A wait ends when and only when what it waits for is there, or its time is over.
SignalsExact == NoLostSignal /\ NoSpuriousWakeup

\* A lock changes hands in the order of its queue, whoever releases it: a
\* thread that calls Enter never overtakes one that waits.
GrantedInOrder ==
    [][\A o \in Obj :
          owner'[o] # owner[o] /\ requests[o] # <<>> => owner'[o] = requests[o][1]]_vars

\* The death of a thread frees every thread that has joined it, also when it is
\* killed while it holds locks, is queued for others or is suspended.  (The
\* stale lock requests of an aborted joiner keep that joiner Waiting.)
NoStrandedJoiner ==
    step = "run" =>
        \A t, u \in Thread :
            status[u] = "Terminated" /\ status[t] = "Waiting" /\ reqCount[t] = 0 =>
                u \notin wait[t].objects

\* A thread that has pending lock requests is not run (the comment of
\* Execute_Inner).  Abort breaks this, no other call does.
RunningHasNoRequest == current # NONE => reqCount[current] = 0

\* A thread that has died owns no lock: DestroyInstance releases all of them
\* whatever the recursion and whoever waits for them.
DeadOwnsNoLock ==
    step = "run" => \A o \in Obj : owner[o] # NONE => frame[owner[o]] # "none"

\* A thread that has died has no request left in any queue, which would make a
\* dead thread the next owner of the lock.
DeadRequestsNothing ==
    step = "run" =>
        \A o \in Obj : \A t \in Members(requests[o]) : frame[t] # "none"

\* However a thread ends, it leaves no lock, no request and no joiner behind.
DeadLeavesNothing == DeadOwnsNoLock /\ DeadRequestsNothing /\ NoStrandedJoiner

\* A request for a lock ends with the wait it belongs to and with its thread.
RequestsEnd == RunningHasNoRequest /\ DeadLeavesNothing

-----------------------------------------------------------------------------
(* Liveness *)

\* The native thread carries its loops on.
LoopSpec == Spec /\ WF_vars(Loops)

SuspendedWaiters == {t \in Thread : suspended[t] /\ wait[t] # NoWait}

\* SignalObject's loop ends.  It moves a suspended thread whose wait is
\* satisfied to the back of the list it walks and keeps its wait, so that this
\* needs at most one suspended thread to be waiting.
SignalLoopEnds ==
    step = "signal" /\ Cardinality(SuspendedWaiters) <= 1 ~> step = "run"
=============================================================================
