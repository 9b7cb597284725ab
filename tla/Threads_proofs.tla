-------------------------- MODULE Threads_proofs ---------------------------
(***************************************************************************)
(* Proofs about Threads, for any number of threads, monitors and events    *)
(* and whatever calls the program makes.                                   *)
(***************************************************************************)
EXTENDS Threads, Lists_proofs, FiniteSetTheorems, TLAPS

-----------------------------------------------------------------------------
(* Walks over a list *)

\* The node after x is another node of the list.
LEMMA NextNodeLemma ==
    ASSUME NEW S, NEW s \in Seq(S), NEW x \in Members(s), NoDup(s)
    PROVE  NextNode(s, x) \in (Members(s) \ {x}) \cup {NONE}
<1> DEFINE i == Position(s, x)
<1>1. i \in 1..Len(s) /\ s[i] = x
  BY DEF Members, Position
<1>2. NextNode(s, x) = IF i = Len(s) THEN NONE ELSE s[i + 1]
  BY DEF NextNode
<1> HIDE DEF i
<1>3. i # Len(s) => i + 1 \in 1..Len(s) /\ s[i + 1] # x
  BY <1>1 DEF NoDup
<1> QED BY <1>2, <1>3 DEF Members

LEMMA FirstNodeLemma ==
    ASSUME NEW S, NEW s \in Seq(S)
    PROVE  FirstNode(s) \in Members(s) \cup {NONE}
<1>1. s # <<>> => 1 \in 1..Len(s)
  OBVIOUS
<1> QED BY <1>1 DEF FirstNode, Members

-----------------------------------------------------------------------------
(* The inductive invariant *)

\* What the loops need to go on: the walk has an object and stands on a node,
\* the other two have a dying thread.
LoopOK ==
    /\ cursor # NONE => step = "signal"
    /\ step = "signal" => sigObj \in Waitable
    /\ step \in {"release", "purge"} => dying \in Thread

ListInv == TypeOK /\ ListsDisjoint /\ CursorLinked /\ LoopOK

\* What every action that touches the lists leaves behind.
ListsOK ==
    /\ ready \in SUBSET Thread
    /\ waiting \in Seq(Thread)
    /\ ListsDisjoint
    /\ wait \in [Thread -> Wait]
    /\ sleeping \in [Thread -> BOOLEAN]

LEMMA UnchangedLists ==
    ASSUME ListsDisjoint, UNCHANGED listVars
    PROVE  ListsDisjoint' /\ Members(waiting') = Members(waiting)
BY DEF ListsDisjoint, listVars, Members

LEMMA NoWaitType == NoWait \in Wait
BY DEF NoWait, Wait

LEMMA InsertReadyLemma ==
    ASSUME ListsOK, NEW t \in Thread, InsertReady(t)
    PROVE  /\ ListsOK'
           /\ ready' = ready \cup {t}
           /\ Members(waiting') = Members(waiting) \ {t}
<1>1. /\ waiting' \in Seq(Thread) /\ NoDup(waiting')
      /\ Members(waiting') = Members(waiting) \ {t}
  BY UnlinkLemma DEF ListsOK, ListsDisjoint, NoDup, InsertReady
<1>2. wait' \in [Thread -> Wait] /\ sleeping' \in [Thread -> BOOLEAN]
  BY NoWaitType DEF ListsOK, InsertReady
<1>3. ready' = ready \cup {t}
  BY DEF InsertReady
<1>4. ListsDisjoint'
  BY <1>1, <1>3 DEF ListsOK, ListsDisjoint, NoDup
<1> QED BY <1>1, <1>2, <1>3, <1>4 DEF ListsOK

LEMMA LinkWaitingLemma ==
    ASSUME ListsOK, NEW t \in Thread, LinkWaiting(t)
    PROVE  /\ ready' \in SUBSET Thread /\ waiting' \in Seq(Thread)
           /\ ListsDisjoint'
           /\ ready' = ready \ {t}
           /\ Members(waiting') = Members(waiting) \cup {t}
<1>1. /\ waiting' \in Seq(Thread) /\ NoDup(waiting')
      /\ Members(waiting') = Members(waiting) \cup {t}
  BY LinkAtBackLemma DEF ListsOK, ListsDisjoint, NoDup, LinkWaiting
<1>2. ready' = ready \ {t}
  BY DEF LinkWaiting
<1>3. ListsDisjoint'
  BY <1>1, <1>2 DEF ListsOK, ListsDisjoint, NoDup
<1> QED BY <1>1, <1>2, <1>3 DEF ListsOK

\* t is relinked, in the list its status and its flag call for.
Relinked(t, toReady) ==
    /\ ListsOK'
    /\ ready' = IF toReady THEN ready \cup {t} ELSE ready \ {t}
    /\ Members(waiting') = IF toReady THEN Members(waiting) \ {t}
                                      ELSE Members(waiting) \cup {t}

LEMMA PutInProperListLemma ==
    ASSUME ListsOK, NEW t \in Thread, NEW st, NEW susp \in BOOLEAN,
           PutInProperList(t, st, susp)
    PROVE  Relinked(t, st = "Ready" /\ ~susp)
<1>1. CASE st = "Ready" /\ ~susp
  BY <1>1, InsertReadyLemma DEF PutInProperList, Relinked
<1>2. CASE ~(st = "Ready" /\ ~susp)
  <2>1. LinkWaiting(t) /\ UNCHANGED <<wait, sleeping>>
    BY <1>2 DEF PutInProperList
  <2> QED BY <1>2, <2>1, LinkWaitingLemma DEF Relinked, ListsOK
<1> QED BY <1>1, <1>2

LEMMA RestartLemma ==
    ASSUME ListsOK, suspended \in [Thread -> BOOLEAN],
           status \in [Thread -> Status],
           NEW t \in Thread, NEW fDeleteEvent \in BOOLEAN,
           Restart(t, fDeleteEvent)
    PROVE  /\ status' = [status EXCEPT ![t] = "Ready"]
           /\ status' \in [Thread -> Status]
           /\ Relinked(t, ~suspended[t])
<1>1. /\ status' = [status EXCEPT ![t] = "Ready"]
      /\ status' \in [Thread -> Status]
  BY DEF Restart, Status
<1>2. CASE suspended[t]
  <2>1. LinkWaiting(t) /\ UNCHANGED wait /\ sleeping' \in [Thread -> BOOLEAN]
    BY <1>2 DEF Restart, ListsOK
  <2> QED BY <1>1, <1>2, <2>1, LinkWaitingLemma DEF Relinked, ListsOK
<1>3. CASE ~suspended[t]
  <2>1. InsertReady(t)
    BY <1>3 DEF Restart
  <2> QED BY <1>1, <1>3, <2>1, InsertReadyLemma DEF Relinked
<1> QED BY <1>2, <1>3

\* One lock request less: the thread is restarted or its status is Waiting.
LEMMA DropLockRequestLemma ==
    ASSUME ListsOK, suspended \in [Thread -> BOOLEAN],
           status \in [Thread -> Status], reqCount \in [Thread -> Int],
           NEW t \in Thread, DropLockRequest(t)
    PROVE  /\ status' \in [Thread -> Status]
           /\ reqCount' \in [Thread -> Int]
           /\ \/ /\ status' = [status EXCEPT ![t] = "Ready"]
                 /\ Relinked(t, ~suspended[t])
              \/ /\ status' = [status EXCEPT ![t] = "Waiting"]
                 /\ ListsOK' /\ UNCHANGED listVars
<1>1. reqCount' \in [Thread -> Int]
  BY DEF DropLockRequest
<1>2. CASE reqCount[t] = 1
  <2>1. Restart(t, FALSE)
    BY <1>2 DEF DropLockRequest
  <2> QED BY <1>1, <2>1, RestartLemma
<1>3. CASE reqCount[t] # 1
  <2>1. /\ status' = [status EXCEPT ![t] = "Waiting"]
        /\ UNCHANGED <<listVars, wait, sleeping>>
    BY <1>3 DEF DropLockRequest
  <2>2. ListsOK'
    BY <2>1 DEF ListsOK, ListsDisjoint, listVars, Members
  <2> QED BY <1>1, <2>1, <2>2 DEF Status
<1> QED BY <1>2, <1>3

LEMMA ChangeOwnerLemma ==
    ASSUME TypeOK, ListsDisjoint, NEW o \in Obj, ChangeOwner(o)
    PROVE  /\ owner' \in [Obj -> Thread \cup {NONE}]
           /\ recursion' \in [Obj -> Nat]
           /\ requests' \in [Obj -> Seq(Thread)]
           /\ reqCount' \in [Thread -> Int]
           /\ status' \in [Thread -> Status]
           /\ ListsOK'
           /\ \/ /\ requests[o] = <<>>
                 /\ owner' = [owner EXCEPT ![o] = NONE]
                 /\ recursion' = [recursion EXCEPT ![o] = 0]
                 /\ UNCHANGED <<requests, status, listVars>>
              \/ \E t \in Thread :
                 /\ requests[o] # <<>> /\ t = requests[o][1]
                 /\ owner' = [owner EXCEPT ![o] = t]
                 /\ recursion' = [recursion EXCEPT ![o] = 1]
                 /\ requests' = [requests EXCEPT ![o] = Drop(@, 1)]
                 /\ \/ /\ status' = [status EXCEPT ![t] = "Ready"]
                       /\ Relinked(t, ~suspended[t])
                    \/ /\ status' = [status EXCEPT ![t] = "Waiting"]
                       /\ UNCHANGED listVars
<1>0. ListsOK
  BY DEF TypeOK, ListsOK
<1>1. CASE requests[o] = <<>>
  <2>1. /\ owner' = [owner EXCEPT ![o] = NONE]
        /\ recursion' = [recursion EXCEPT ![o] = 0]
        /\ UNCHANGED <<requests, reqCount, status, listVars, wait, sleeping>>
    BY <1>1 DEF ChangeOwner
  <2>2. ListsOK'
    BY <1>0, <2>1 DEF ListsOK, ListsDisjoint, listVars, Members
  <2> QED BY <1>1, <2>1, <2>2 DEF TypeOK
<1>2. CASE requests[o] # <<>>
  <2> DEFINE t == requests[o][1]
  <2>1. requests[o] \in Seq(Thread) /\ 1 \in 1..Len(requests[o])
    BY <1>2 DEF TypeOK
  <2>2. t \in Thread
    BY <2>1
  <2>3. /\ owner' = [owner EXCEPT ![o] = t]
        /\ recursion' = [recursion EXCEPT ![o] = 1]
        /\ requests' = [requests EXCEPT ![o] = Drop(@, 1)]
        /\ DropLockRequest(t)
    BY <1>2 DEF ChangeOwner
  <2>4. Drop(requests[o], 1) \in Seq(Thread)
    BY <2>1, DropLemma
  <2> HIDE DEF t
  <2>5. /\ owner' \in [Obj -> Thread \cup {NONE}]
        /\ recursion' \in [Obj -> Nat]
        /\ requests' \in [Obj -> Seq(Thread)]
    BY <2>2, <2>3, <2>4 DEF TypeOK
  <2>6. /\ status' \in [Thread -> Status]
        /\ reqCount' \in [Thread -> Int]
        /\ \/ /\ status' = [status EXCEPT ![t] = "Ready"]
              /\ Relinked(t, ~suspended[t])
           \/ /\ status' = [status EXCEPT ![t] = "Waiting"]
              /\ ListsOK' /\ UNCHANGED listVars
    BY <1>0, <2>2, <2>3, DropLockRequestLemma DEF TypeOK
  <2>7. ListsOK'
    BY <2>6 DEF Relinked
  <2> QED BY <1>2, <2>2, <2>3, <2>5, <2>6, <2>7 DEF t
<1> QED BY <1>1, <1>2

LEMMA TakenLemma ==
    ASSUME signaled \in [Waitable -> BOOLEAN], NEW w \in Wait
    PROVE  Taken(w) \subseteq [Waitable -> BOOLEAN]
BY DEF Taken, Wait

\* The initial state satisfies the invariant.
LEMMA InitListInv == Init => ListInv
<1> SUFFICES ASSUME Init PROVE ListInv
  OBVIOUS
<1>1. waiting = <<>> /\ Members(waiting) = {}
  BY DEF Init, Members
<1>2. TypeOK
  BY <1>1, NoWaitType DEF Init, TypeOK, Status, Frames, Waitable
<1>3. ListsDisjoint
  BY <1>1 DEF ListsDisjoint
<1>4. CursorLinked /\ LoopOK
  BY DEF Init, CursorLinked, LoopOK
<1> QED BY <1>2, <1>3, <1>4 DEF ListInv

\* Every step preserves it.
LEMMA NextListInv == ListInv /\ [Next]_vars => ListInv'
<1> SUFFICES ASSUME ListInv, [Next]_vars PROVE ListInv'
  OBVIOUS
<1> USE DEF ListInv
<1>0. /\ ListsOK
      /\ NONE \notin Thread /\ NONE \notin Obj
      /\ Members(waiting) \subseteq Thread
  BY MembersLemma, ThreadsAssumption DEF TypeOK, ListsOK
<1>s. CASE UNCHANGED vars
  BY <1>s DEF vars, flagVars, codeVars, listVars, lockVars, waitVars, loopVars,
     TypeOK, ListsDisjoint, CursorLinked, LoopOK, Members
<1>1. ASSUME NEW t \in Thread, Dispatch(t) PROVE ListInv'
  BY <1>1 DEF Dispatch, flagVars, codeVars, listVars, lockVars, waitVars, loopVars,
     TypeOK, ListsDisjoint, CursorLinked, LoopOK, Members
<1>2. ASSUME NEW t \in Thread, QuantumExpired(t) PROVE ListInv'
  <2>1. Relinked(t, status[t] = "Ready" /\ ~suspended[t])
    BY <1>0, <1>2, PutInProperListLemma DEF QuantumExpired, TypeOK
  <2>2. /\ ListsOK' /\ current' = NONE /\ cursor = NONE
        /\ UNCHANGED <<flagVars, codeVars, lockVars, waitResult, signaled, loopVars>>
    BY <1>2, <2>1 DEF QuantumExpired, Relinked, LoopOK
  <2> QED BY <2>2 DEF flagVars, codeVars, lockVars, loopVars, TypeOK, ListsOK,
        CursorLinked, LoopOK
<1>3. ASSUME NEW t \in Thread, NativeReturn(t) PROVE ListInv'
  BY <1>3 DEF NativeReturn, flagVars, listVars, lockVars, loopVars,
     TypeOK, ListsDisjoint, CursorLinked, LoopOK, Members, Frames
<1>4. ASSUME NEW t \in Thread, Catch(t) PROVE ListInv'
  BY <1>4 DEF Catch, listVars, lockVars, loopVars,
     TypeOK, ListsDisjoint, CursorLinked, LoopOK, Members, Frames
<1>5. ASSUME NEW t \in Thread, Leave(t) PROVE ListInv'
  BY <1>5 DEF Leave, codeVars, listVars, lockVars, waitVars, loopVars,
     TypeOK, ListsDisjoint, CursorLinked, LoopOK, Members
<1>6. ASSUME NEW t \in Thread, NEW o \in Obj, EnterFree(t, o) PROVE ListInv'
  BY <1>6 DEF EnterFree, flagVars, codeVars, listVars, waitVars, loopVars,
     TypeOK, ListsDisjoint, CursorLinked, LoopOK, Members
<1>7. ASSUME NEW t \in Thread, NEW o \in Obj, EnterRecursive(t, o) PROVE ListInv'
  BY <1>7 DEF EnterRecursive, flagVars, codeVars, listVars, waitVars, loopVars,
     TypeOK, ListsDisjoint, CursorLinked, LoopOK, Members
<1>8. ASSUME NEW t \in Thread, NEW o \in Obj, EnterQueued(t, o) PROVE ListInv'
  <2>1. /\ ready' \in SUBSET Thread /\ waiting' \in Seq(Thread) /\ ListsDisjoint'
        /\ cursor = NONE
    BY <1>0, <1>8, LinkWaitingLemma DEF EnterQueued, Block, InIL, LoopOK
  <2>2. requests' \in [Obj -> Seq(Thread)] /\ reqCount' \in [Thread -> Int]
    BY <1>8 DEF EnterQueued, TypeOK
  <2>3. status' \in [Thread -> Status] /\ frame' \in [Thread -> Frames]
    BY <1>8 DEF EnterQueued, Block, TypeOK, Status, Frames
  <2> QED BY <1>8, <2>1, <2>2, <2>3 DEF EnterQueued, Block, waitVars, loopVars,
        TypeOK, CursorLinked, LoopOK
<1>9. ASSUME NEW t \in Thread, NEW o \in Obj, Exit(t, o) PROVE ListInv'
  <2>0. cursor = NONE /\ cursor' = NONE
    BY <1>9 DEF Exit, InIL, LoopOK, loopVars
  <2>1. CASE recursion[o] > 1
    <3>1. /\ recursion' = [recursion EXCEPT ![o] = @ - 1]
          /\ UNCHANGED <<owner, requests, reqCount, status, listVars, wait, sleeping>>
      BY <1>9, <2>1 DEF Exit
    <3>2. recursion' \in [Obj -> Nat]
      BY <2>1, <3>1 DEF TypeOK
    <3> QED BY <1>9, <2>0, <3>1, <3>2 DEF Exit, codeVars, listVars, loopVars,
          TypeOK, ListsDisjoint, CursorLinked, LoopOK, Members
  <2>2. CASE ~(recursion[o] > 1)
    <3>1. ChangeOwner(o)
      BY <1>9, <2>2 DEF Exit
    <3>2. /\ owner' \in [Obj -> Thread \cup {NONE}]
          /\ recursion' \in [Obj -> Nat]
          /\ requests' \in [Obj -> Seq(Thread)]
          /\ reqCount' \in [Thread -> Int]
          /\ status' \in [Thread -> Status]
          /\ ListsOK'
      BY <3>1, ChangeOwnerLemma
    <3> QED BY <1>9, <2>0, <3>2 DEF Exit, codeVars, loopVars,
          TypeOK, ListsOK, CursorLinked, LoopOK
  <2> QED BY <2>1, <2>2
<1>10. ASSUME NEW t \in Thread, NEW o \in Obj, ExitNotOwner(t, o) PROVE ListInv'
  BY <1>10 DEF ExitNotOwner, codeVars, listVars, lockVars, waitVars, loopVars,
     TypeOK, ListsDisjoint, CursorLinked, LoopOK, Members
<1>11. ASSUME NEW t \in Thread, NEW w \in Wait, WaitForSignal(t, w) PROVE ListInv'
  <2>0. cursor = NONE /\ cursor' = NONE
    BY <1>11 DEF WaitForSignal, InIL, LoopOK, loopVars
  <2>1. CASE /\ signaled' \in Taken(w)
             /\ UNCHANGED <<status, codeVars, listVars, current, waitVars>>
    <3>1. signaled' \in [Waitable -> BOOLEAN]
      BY <2>1, TakenLemma DEF TypeOK
    <3> QED BY <1>11, <2>0, <2>1, <3>1 DEF WaitForSignal, codeVars, listVars,
          lockVars, waitVars, loopVars, TypeOK, ListsDisjoint, CursorLinked, LoopOK, Members
  <2>2. CASE /\ wait' = [wait EXCEPT ![t] = w]
             /\ waitResult' = [waitResult EXCEPT ![t] = "init"]
             /\ Block(t, "wait")
             /\ UNCHANGED <<entering, sleeping, signaled>>
    <3>1. /\ ready' \in SUBSET Thread /\ waiting' \in Seq(Thread) /\ ListsDisjoint'
      BY <1>0, <2>2, LinkWaitingLemma DEF Block
    <3>2. status' \in [Thread -> Status] /\ frame' \in [Thread -> Frames]
      BY <2>2 DEF Block, TypeOK, Status, Frames
    <3> QED BY <1>11, <2>0, <2>2, <3>1, <3>2 DEF WaitForSignal, Block, lockVars,
          loopVars, TypeOK, CursorLinked, LoopOK
  <2> QED BY <1>11, <2>1, <2>2 DEF WaitForSignal
<1>12. ASSUME NEW t \in Thread, WaitEvent(t) PROVE ListInv'
  <2>1. PICK es \in SUBSET Event \ {{}}, all \in BOOLEAN, timed \in BOOLEAN :
          WaitForSignal(t, [objects |-> es, all |-> all, timed |-> timed])
    BY <1>12 DEF WaitEvent
  <2>2. [objects |-> es, all |-> all, timed |-> timed] \in Wait
    BY DEF Wait, Waitable
  <2> QED BY <1>11, <2>1, <2>2
<1>13. ASSUME NEW t \in Thread, NEW u \in Thread, Join(t, u) PROVE ListInv'
  <2>1. PICK timed \in BOOLEAN :
          WaitForSignal(t, [objects |-> {u}, all |-> FALSE, timed |-> timed])
    BY <1>13 DEF Join
  <2>2. [objects |-> {u}, all |-> FALSE, timed |-> timed] \in Wait
    BY DEF Wait, Waitable
  <2> QED BY <1>11, <2>1, <2>2
<1>14. ASSUME NEW t \in Thread, Sleep(t) PROVE ListInv'
  <2>1. /\ ready' \in SUBSET Thread /\ waiting' \in Seq(Thread) /\ ListsDisjoint'
        /\ cursor = NONE
    BY <1>0, <1>14, LinkWaitingLemma DEF Sleep, Block, InIL, LoopOK
  <2>2. status' \in [Thread -> Status] /\ frame' \in [Thread -> Frames]
    BY <1>14 DEF Sleep, Block, TypeOK, Status, Frames
  <2>3. sleeping' \in [Thread -> BOOLEAN]
    BY <1>14 DEF Sleep, TypeOK
  <2> QED BY <1>14, <2>1, <2>2, <2>3 DEF Sleep, Block, lockVars, loopVars,
        TypeOK, CursorLinked, LoopOK
<1>15. ASSUME NEW t \in Thread, NEW e \in Event, Set(t, e) PROVE ListInv'
  <2>1. FirstNode(waiting) \in Members(waiting) \cup {NONE}
    BY FirstNodeLemma DEF TypeOK
  <2>2. ListsDisjoint' /\ Members(waiting') = Members(waiting)
    BY <1>15, UnchangedLists DEF Set
  <2>3. /\ signaled' \in [Waitable -> BOOLEAN] /\ sigObj' \in Waitable
        /\ step' = "signal" /\ cursor' = FirstNode(waiting)
    BY <1>15 DEF Set, SignalObject, TypeOK, Waitable
  <2>4. CursorLinked' /\ cursor' \in Thread \cup {NONE}
    BY <1>0, <2>1, <2>2, <2>3 DEF CursorLinked
  <2> QED BY <1>15, <2>2, <2>3, <2>4 DEF Set, flagVars, codeVars, listVars,
        lockVars, waitVars, TypeOK, LoopOK
<1>16. ASSUME NEW t \in Thread, NEW e \in Event, Reset(t, e) PROVE ListInv'
  <2>1. ListsDisjoint' /\ Members(waiting') = Members(waiting)
    BY <1>16, UnchangedLists DEF Reset
  <2>2. signaled' \in [Waitable -> BOOLEAN]
    BY <1>16 DEF Reset, TypeOK
  <2> QED BY <1>16, <2>1, <2>2 DEF Reset, flagVars, codeVars, listVars, lockVars,
        waitVars, loopVars, TypeOK, CursorLinked, LoopOK
<1>17. CASE SignalStep
  <2>1. /\ cursor \in Thread /\ cursor \in Members(waiting) /\ step = "signal"
        /\ sigObj \in Waitable
    BY <1>0, <1>17 DEF SignalStep, CursorLinked, LoopOK
  <2>2. NextNode(waiting, cursor) \in (Members(waiting) \ {cursor}) \cup {NONE}
    BY <2>1, NextNodeLemma DEF TypeOK, ListsDisjoint, NoDup
  <2>3. cursor' \in (Members(waiting) \ {cursor}) \cup {NONE}
    BY <1>17, <2>2 DEF SignalStep
  <2>4. /\ signaled' \in [Waitable -> BOOLEAN]
        /\ waitResult' \in [Thread -> {"init", "timeout", "handle"}]
        /\ status' \in [Thread -> Status]
        /\ ListsOK'
        /\ Members(waiting) \ {cursor} \subseteq Members(waiting')
    <3>1. CASE Satisfied(wait[cursor])
      <4>1. /\ signaled' \in Taken(wait[cursor])
            /\ waitResult' = [waitResult EXCEPT ![cursor] = "handle"]
            /\ Restart(cursor, TRUE)
        BY <1>17, <3>1 DEF SignalStep
      <4>2. status' \in [Thread -> Status] /\ Relinked(cursor, ~suspended[cursor])
        BY <1>0, <2>1, <4>1, RestartLemma DEF TypeOK
      <4>3. signaled' \in [Waitable -> BOOLEAN]
        BY <2>1, <4>1, TakenLemma DEF TypeOK
      <4> QED BY <4>1, <4>2, <4>3 DEF Relinked, TypeOK
    <3>2. CASE ~Satisfied(wait[cursor])
      <4>1. UNCHANGED <<signaled, status, listVars, waitVars>>
        BY <1>17, <3>2 DEF SignalStep
      <4> QED BY <1>0, <4>1 DEF listVars, waitVars, TypeOK, ListsOK, ListsDisjoint, Members
    <3> QED BY <3>1, <3>2
  <2>5. cursor' \in Thread \cup {NONE} /\ CursorLinked'
    BY <1>0, <2>3, <2>4 DEF CursorLinked
  <2> QED BY <1>17, <2>1, <2>4, <2>5 DEF SignalStep, codeVars, lockVars, TypeOK,
        ListsOK, LoopOK
<1>18. CASE SignalDone
  <2>1. cursor = NONE /\ cursor' = NONE
    BY <1>18 DEF SignalDone
  <2>2. CASE dying = NONE \/ frame[dying] = "none"
    BY <1>18, <2>1, <2>2 DEF SignalDone, flagVars, codeVars, listVars, lockVars,
       waitVars, TypeOK, ListsDisjoint, CursorLinked, LoopOK, Members
  <2>3. CASE ~(dying = NONE \/ frame[dying] = "none")
    <3>1. /\ dying \in Thread
          /\ frame' \in [Thread -> Frames]
          /\ entering' \in [Thread -> Obj \cup {NONE}]
          /\ todo' \in SUBSET Obj
          /\ step' = "release" /\ dying' = dying /\ sigObj' = NONE
      BY <1>18, <2>3 DEF SignalDone, TypeOK, Frames
    <3> QED BY <1>18, <2>1, <3>1 DEF SignalDone, flagVars, listVars, lockVars,
          waitVars, TypeOK, ListsDisjoint, CursorLinked, LoopOK, Members
  <2> QED BY <2>2, <2>3
<1>19. ASSUME NEW t \in Thread, SleepExpired(t) PROVE ListInv'
  <2>1. status' \in [Thread -> Status] /\ ListsOK' /\ cursor = NONE
    BY <1>0, <1>19, RestartLemma DEF SleepExpired, TypeOK, Relinked, LoopOK
  <2> QED BY <1>19, <2>1 DEF SleepExpired, codeVars, lockVars, loopVars, TypeOK,
        ListsOK, CursorLinked, LoopOK
<1>20. ASSUME NEW t \in Thread, WaitExpired(t) PROVE ListInv'
  <2>1. status' \in [Thread -> Status] /\ ListsOK' /\ cursor = NONE
    BY <1>0, <1>20, RestartLemma DEF WaitExpired, TypeOK, Relinked, LoopOK
  <2>2. waitResult' \in [Thread -> {"init", "timeout", "handle"}]
    BY <1>20 DEF WaitExpired, TypeOK
  <2> QED BY <1>20, <2>1, <2>2 DEF WaitExpired, codeVars, lockVars, loopVars, TypeOK,
        ListsOK, CursorLinked, LoopOK
<1>21. ASSUME NEW t \in Thread, NEW u \in Thread, Start(t, u) PROVE ListInv'
  <2>1. ListsOK' /\ cursor = NONE
    BY <1>0, <1>21, InsertReadyLemma DEF Start, InIL, LoopOK
  <2>2. status' \in [Thread -> Status] /\ frame' \in [Thread -> Frames]
    BY <1>21 DEF Start, TypeOK, Status, Frames
  <2>3. signaled' \in [Waitable -> BOOLEAN]
    BY <1>21 DEF Start, TypeOK
  <2> QED BY <1>21, <2>1, <2>2, <2>3 DEF Start, lockVars, loopVars, TypeOK, ListsOK,
        CursorLinked, LoopOK
<1>22. ASSUME NEW t \in Thread, NEW u \in Thread, Suspend(t, u) PROVE ListInv'
  <2>1. ListsOK' /\ cursor = NONE
    BY <1>0, <1>22, PutInProperListLemma DEF Suspend, InIL, Relinked, LoopOK
  <2>2. suspended' \in [Thread -> BOOLEAN] /\ current' \in Thread \cup {NONE}
    BY <1>22 DEF Suspend, TypeOK
  <2> QED BY <1>22, <2>1, <2>2 DEF Suspend, codeVars, lockVars, loopVars, TypeOK,
        ListsOK, CursorLinked, LoopOK
<1>23. ASSUME NEW t \in Thread, NEW u \in Thread, Resume(t, u) PROVE ListInv'
  <2>1. ListsOK' /\ cursor = NONE
    BY <1>0, <1>23, PutInProperListLemma DEF Resume, InIL, Relinked, LoopOK
  <2>2. suspended' \in [Thread -> BOOLEAN]
    BY <1>23 DEF Resume, TypeOK
  <2> QED BY <1>23, <2>1, <2>2 DEF Resume, codeVars, lockVars, loopVars, TypeOK,
        ListsOK, CursorLinked, LoopOK
<1>24. ASSUME NEW t \in Thread, NEW u \in Thread, Abort(t, u) PROVE ListInv'
  <2>1. status' \in [Thread -> Status] /\ ListsOK' /\ cursor = NONE
    BY <1>0, <1>24, RestartLemma DEF Abort, InIL, TypeOK, Relinked, LoopOK
  <2>2. exc' \in [Thread -> BOOLEAN] /\ aborted' \in [Thread -> BOOLEAN]
    BY <1>24 DEF Abort, TypeOK
  <2> QED BY <1>24, <2>1, <2>2 DEF Abort, codeVars, lockVars, loopVars, TypeOK,
        ListsOK, CursorLinked, LoopOK
<1>25. ASSUME NEW t \in Thread, step = "run", Passivate(t) PROVE ListInv'
  <2>1. /\ waiting' \in Seq(Thread) /\ NoDup(waiting')
        /\ Members(waiting') = Members(waiting) \ {t}
    <3>1. waiting' = Unlink(waiting, t)
      BY <1>25 DEF Passivate
    <3>2. waiting \in Seq(Thread) /\ NoDup(waiting)
      BY DEF TypeOK, ListsDisjoint, NoDup
    <3> QED BY <3>1, <3>2, UnlinkLemma
  <2>2. cursor' \in Members(waiting') \cup {NONE}
    BY <1>25, <2>1, FirstNodeLemma DEF Passivate, SignalObject
  <2>3. ListsDisjoint' /\ ready' \in SUBSET Thread
    BY <1>25, <2>1 DEF Passivate, ListsDisjoint, NoDup, TypeOK
  <2>4. /\ status' \in [Thread -> Status] /\ suspended' \in [Thread -> BOOLEAN]
        /\ aborted' \in [Thread -> BOOLEAN] /\ exc' \in [Thread -> BOOLEAN]
        /\ wait' \in [Thread -> Wait] /\ sleeping' \in [Thread -> BOOLEAN]
    BY <1>25, NoWaitType DEF Passivate, TypeOK, Status
  <2>5. /\ signaled' \in [Waitable -> BOOLEAN] /\ sigObj' \in Waitable
        /\ step' = "signal" /\ dying' = t /\ current' = NONE
    BY <1>25 DEF Passivate, SignalObject, TypeOK, Waitable
  <2>6. CursorLinked' /\ cursor' \in Thread \cup {NONE}
    BY <1>0, <2>1, <2>2 DEF CursorLinked
  <2> QED BY <1>25, <2>1, <2>3, <2>4, <2>5, <2>6 DEF Passivate, codeVars, lockVars,
        TypeOK, LoopOK
<1>26. ASSUME NEW o \in Obj, ReleaseStep(o) PROVE ListInv'
  <2>1. /\ owner' \in [Obj -> Thread \cup {NONE}]
        /\ recursion' \in [Obj -> Nat]
        /\ requests' \in [Obj -> Seq(Thread)]
        /\ reqCount' \in [Thread -> Int]
        /\ status' \in [Thread -> Status]
        /\ ListsOK'
    BY <1>26, ChangeOwnerLemma DEF ReleaseStep
  <2>2. cursor = NONE /\ todo' \in SUBSET Obj
    BY <1>26 DEF ReleaseStep, LoopOK, TypeOK
  <2> QED BY <1>26, <2>1, <2>2 DEF ReleaseStep, codeVars, TypeOK, ListsOK,
        CursorLinked, LoopOK
<1>27. CASE ReleaseDone
  <2>1. ListsDisjoint' /\ Members(waiting') = Members(waiting)
    BY <1>27, UnchangedLists DEF ReleaseDone
  <2> QED BY <1>27, <2>1 DEF ReleaseDone, flagVars, codeVars, listVars, lockVars,
        waitVars, TypeOK, CursorLinked, LoopOK
<1>28. ASSUME NEW o \in Obj, NEW i \in 1..Len(requests[o]), PurgeStep(o, i)
       PROVE  ListInv'
  <2>1. requests' \in [Obj -> Seq(Thread)]
    BY <1>28, DropLemma DEF PurgeStep, TypeOK
  <2>2. /\ status' \in [Thread -> Status] /\ reqCount' \in [Thread -> Int]
        /\ ListsOK' /\ cursor = NONE
    BY <1>0, <1>28, DropLockRequestLemma DEF PurgeStep, LoopOK, TypeOK, Relinked
  <2> QED BY <1>28, <2>1, <2>2 DEF PurgeStep, codeVars, loopVars, TypeOK, ListsOK,
        CursorLinked, LoopOK
<1>29. CASE PurgeDone
  <2>1. ListsDisjoint' /\ Members(waiting') = Members(waiting)
    BY <1>29, UnchangedLists DEF PurgeDone
  <2>2. step = "purge" /\ step' = "run" /\ dying' = NONE /\ cursor = NONE
    BY <1>29 DEF PurgeDone, LoopOK
  <2>3. UNCHANGED <<flagVars, codeVars, listVars, current, lockVars, waitVars,
                    signaled, sigObj, cursor, todo>>
    BY <1>29 DEF PurgeDone
  <2> QED BY <2>1, <2>2, <2>3 DEF flagVars, codeVars, listVars, lockVars,
        waitVars, TypeOK, CursorLinked, LoopOK
<1> QED
  BY <1>s, <1>1, <1>2, <1>3, <1>4, <1>5, <1>6, <1>7, <1>8, <1>9, <1>10, <1>12,
     <1>13, <1>14, <1>15, <1>16, <1>17, <1>18, <1>19, <1>20, <1>21, <1>22, <1>23,
     <1>24, <1>25, <1>26, <1>27, <1>28, <1>29
  DEF Next, MonitorCall, EventCall, ThreadCall, Engine, Loops, ThreadExit, Kill

\* The types of the engine's state, for any program and any number of threads.
THEOREM TypeCorrect == Spec => []TypeOK
<1>1. Spec => []ListInv
  BY InitListInv, NextListInv, PTL DEF Spec
<1> QED BY <1>1, PTL DEF ListInv

\* A thread is linked in at most one of the two lists, once, and SignalObject's
\* walk never leaves the list it walks: ListInv is inductive.
THEOREM ListsSound == Spec => [](ListsDisjoint /\ CursorLinked)
<1>1. Spec => []ListInv
  BY InitListInv, NextListInv, PTL DEF Spec
<1> QED BY <1>1, PTL DEF ListInv

-----------------------------------------------------------------------------
(* Monitors *)

\* Six actions touch a lock; the others leave all of them alone.
LEMMA LockSteps ==
    ASSUME [Next]_vars
    PROVE  \/ UNCHANGED lockVars
           \/ \E o \in Obj : \/ \E t \in Thread : \/ EnterFree(t, o)
                                                  \/ EnterRecursive(t, o)
                                                  \/ EnterQueued(t, o)
                                                  \/ Exit(t, o)
                             \/ ReleaseStep(o)
                             \/ \E i \in 1..Len(requests[o]) : PurgeStep(o, i)
<1> DEFINE Same == UNCHANGED lockVars
<1>1. ASSUME NEW t \in Thread, Engine(t) PROVE Same
  BY <1>1 DEF Engine, Dispatch, QuantumExpired, NativeReturn, Catch, Leave,
     SleepExpired, WaitExpired, ThreadExit, Passivate
<1>2. ASSUME NEW t \in Thread, EventCall(t) PROVE Same
  BY <1>2 DEF EventCall, WaitEvent, WaitForSignal, Set, Reset
<1>3. ASSUME NEW t \in Thread, ThreadCall(t) PROVE Same
  BY <1>3 DEF ThreadCall, Sleep, Start, Join, WaitForSignal, Suspend, Resume, Abort
<1>4. ASSUME NEW t \in Thread, Kill(t) PROVE Same
  BY <1>4 DEF Kill, Passivate
<1>5. ASSUME NEW t \in Thread, NEW o \in Obj, ExitNotOwner(t, o) PROVE Same
  BY <1>5 DEF ExitNotOwner
<1>6. ASSUME SignalStep \/ SignalDone \/ ReleaseDone \/ PurgeDone PROVE Same
  BY <1>6 DEF SignalStep, SignalDone, ReleaseDone, PurgeDone
<1>7. ASSUME UNCHANGED vars PROVE Same
  BY <1>7 DEF vars
<1> HIDE DEF Same
<1> QED BY <1>1, <1>2, <1>3, <1>4, <1>5, <1>6, <1>7 DEF Next, MonitorCall, Loops, Same

LEMMA OrphanStep ==
    ASSUME ListInv, NoOrphanedRequest, [Next]_vars
    PROVE  NoOrphanedRequest'
<1> USE DEF ListInv
<1>0. NONE \notin Thread /\ Members(waiting) \subseteq Thread
  BY MembersLemma, ThreadsAssumption DEF TypeOK
<1>1. CASE UNCHANGED lockVars
  BY <1>1 DEF NoOrphanedRequest, lockVars
<1>2. ASSUME NEW o \in Obj, NEW t \in Thread, EnterFree(t, o)
      PROVE  NoOrphanedRequest'
  BY <1>0, <1>2 DEF EnterFree, NoOrphanedRequest, TypeOK
<1>3. ASSUME NEW o \in Obj, NEW t \in Thread, EnterRecursive(t, o)
      PROVE  NoOrphanedRequest'
  BY <1>0, <1>3 DEF EnterRecursive, NoOrphanedRequest, TypeOK
<1>4. ASSUME NEW o \in Obj, NEW t \in Thread, EnterQueued(t, o)
      PROVE  NoOrphanedRequest'
  <2>1. owner[o] # NONE /\ owner' = owner /\ recursion' = recursion
    BY <1>4 DEF EnterQueued
  <2>2. \A p \in Obj : p # o => requests'[p] = requests[p]
    BY <1>4 DEF EnterQueued, TypeOK
  <2> QED BY <2>1, <2>2 DEF NoOrphanedRequest
<1>5. ASSUME NEW o \in Obj, ChangeOwner(o)
      PROVE  NoOrphanedRequest'
  <2>1. CASE /\ requests[o] = <<>>
             /\ owner' = [owner EXCEPT ![o] = NONE]
             /\ recursion' = [recursion EXCEPT ![o] = 0]
             /\ UNCHANGED requests
    BY <2>1 DEF NoOrphanedRequest, TypeOK
  <2>2. ASSUME NEW t \in Thread,
               owner' = [owner EXCEPT ![o] = t],
               recursion' = [recursion EXCEPT ![o] = 1],
               requests' = [requests EXCEPT ![o] = Drop(@, 1)]
        PROVE  NoOrphanedRequest'
    <3>1. \A p \in Obj : p # o => /\ owner'[p] = owner[p]
                                  /\ recursion'[p] = recursion[p]
                                  /\ requests'[p] = requests[p]
      BY <2>2 DEF TypeOK
    <3>2. owner'[o] # NONE /\ recursion'[o] = 1
      BY <1>0, <2>2 DEF TypeOK
    <3> QED BY <3>1, <3>2 DEF NoOrphanedRequest
  <2> QED BY <1>5, <2>1, <2>2, ChangeOwnerLemma
<1>6. ASSUME NEW o \in Obj, NEW t \in Thread, Exit(t, o)
      PROVE  NoOrphanedRequest'
  <2>1. CASE recursion[o] > 1
    <3>1. /\ recursion' = [recursion EXCEPT ![o] = @ - 1]
          /\ UNCHANGED <<owner, requests>> /\ owner[o] # NONE
      BY <1>0, <1>6, <2>1 DEF Exit
    <3> QED BY <2>1, <3>1 DEF NoOrphanedRequest, TypeOK
  <2>2. CASE ~(recursion[o] > 1)
    BY <1>5, <1>6, <2>2 DEF Exit
  <2> QED BY <2>1, <2>2
<1>7. ASSUME NEW o \in Obj, ReleaseStep(o)
      PROVE  NoOrphanedRequest'
  BY <1>5, <1>7 DEF ReleaseStep
<1>8. ASSUME NEW o \in Obj, NEW i \in 1..Len(requests[o]), PurgeStep(o, i)
      PROVE  NoOrphanedRequest'
  <2>1. owner[o] # NONE /\ owner' = owner /\ recursion' = recursion
    BY <1>0, <1>8 DEF PurgeStep, Reachable, TypeOK
  <2>2. \A p \in Obj : p # o => requests'[p] = requests[p]
    BY <1>8 DEF PurgeStep, TypeOK
  <2> QED BY <2>1, <2>2 DEF NoOrphanedRequest
<1> QED BY <1>1, <1>2, <1>3, <1>4, <1>6, <1>7, <1>8, LockSteps

\* A lock without an owner has no queue and a lock with one is held at least
\* once, whoever enters, exits, is aborted or dies.
THEOREM NoOrphan == Spec => []NoOrphanedRequest
<1>1. Init => NoOrphanedRequest
  BY DEF Init, NoOrphanedRequest
<1>2. ListInv /\ NoOrphanedRequest /\ [Next]_vars => NoOrphanedRequest'
  BY OrphanStep
<1> QED BY <1>1, <1>2, InitListInv, NextListInv, PTL DEF Spec

-----------------------------------------------------------------------------
(* Suspension *)

SuspendInv ==
    /\ SuspendedNotReady
    /\ \A t \in Thread : status[t] = "Unstarted" => ~suspended[t]

LEMMA SuspendStep ==
    ASSUME ListInv, SuspendInv, [Next]_vars
    PROVE  SuspendInv'
<1> USE DEF ListInv
<1>0. ListsOK /\ NONE \notin Thread /\ Members(waiting) \subseteq Thread
  BY MembersLemma, ThreadsAssumption DEF TypeOK, ListsOK
<1>1. CASE UNCHANGED <<status, suspended, ready>>
  BY <1>1 DEF SuspendInv, SuspendedNotReady
<1>2. \* A thread that is restarted enters the ready list if it is not suspended.
      ASSUME NEW t \in Thread, status' = [status EXCEPT ![t] = "Ready"],
             suspended' = suspended, Relinked(t, ~suspended[t])
      PROVE  SuspendInv'
  BY <1>2 DEF SuspendInv, SuspendedNotReady, Relinked, TypeOK
<1>3. ASSUME NEW t \in Thread, NEW b \in BOOLEAN, Restart(t, b), suspended' = suspended
      PROVE  SuspendInv'
  BY <1>0, <1>2, <1>3, RestartLemma DEF TypeOK
<1>4. ASSUME NEW t \in Thread, status' = [status EXCEPT ![t] = "Waiting"],
             suspended' = suspended, ready' \subseteq ready
      PROVE  SuspendInv'
  BY <1>4 DEF SuspendInv, SuspendedNotReady, TypeOK
<1>5. ASSUME NEW t \in Thread, DropLockRequest(t), suspended' = suspended
      PROVE  SuspendInv'
  <2>1. \/ /\ status' = [status EXCEPT ![t] = "Ready"]
           /\ Relinked(t, ~suspended[t])
        \/ /\ status' = [status EXCEPT ![t] = "Waiting"]
           /\ UNCHANGED listVars
    BY <1>0, <1>5, DropLockRequestLemma DEF TypeOK
  <2> QED BY <1>2, <1>4, <1>5, <2>1 DEF listVars
<1>6. ASSUME NEW o \in Obj, ChangeOwner(o), suspended' = suspended
      PROVE  SuspendInv'
  <2>1. CASE UNCHANGED <<requests, status, listVars>>
    BY <1>1, <1>6, <2>1 DEF listVars
  <2>2. ASSUME NEW t \in Thread,
               \/ /\ status' = [status EXCEPT ![t] = "Ready"]
                  /\ Relinked(t, ~suspended[t])
               \/ /\ status' = [status EXCEPT ![t] = "Waiting"]
                  /\ UNCHANGED listVars
        PROVE  SuspendInv'
    BY <1>2, <1>4, <1>6, <2>2 DEF listVars
  <2> QED BY <1>6, <2>1, <2>2, ChangeOwnerLemma
<1>7. ASSUME NEW t \in Thread, Engine(t) PROVE SuspendInv'
  <2>1. CASE Dispatch(t) \/ NativeReturn(t) \/ Catch(t) \/ Leave(t)
    BY <1>1, <2>1 DEF Dispatch, NativeReturn, Catch, Leave, flagVars, listVars
  <2>2. CASE QuantumExpired(t)
    <3>1. Relinked(t, status[t] = "Ready" /\ ~suspended[t])
      BY <1>0, <2>2, PutInProperListLemma DEF QuantumExpired, TypeOK
    <3>2. UNCHANGED <<status, suspended>>
      BY <2>2 DEF QuantumExpired, flagVars
    <3> QED BY <3>1, <3>2 DEF SuspendInv, SuspendedNotReady, Relinked
  <2>3. CASE SleepExpired(t) \/ WaitExpired(t)
    BY <1>3, <2>3 DEF SleepExpired, WaitExpired
  <2>4. CASE ThreadExit(t)
    BY <2>4 DEF ThreadExit, Passivate, SuspendInv, SuspendedNotReady, TypeOK
  <2> QED BY <1>7, <2>1, <2>2, <2>3, <2>4 DEF Engine
<1>8. ASSUME NEW t \in Thread, Kill(t) PROVE SuspendInv'
  BY <1>8 DEF Kill, Passivate, SuspendInv, SuspendedNotReady, TypeOK
<1>9. ASSUME NEW t \in Thread, MonitorCall(t) PROVE SuspendInv'
  <2> SUFFICES ASSUME NEW o \in Obj,
                      \/ EnterFree(t, o) \/ EnterRecursive(t, o)
                      \/ EnterQueued(t, o) \/ Exit(t, o) \/ ExitNotOwner(t, o)
               PROVE  SuspendInv'
    BY <1>9 DEF MonitorCall
  <2>1. CASE EnterFree(t, o) \/ EnterRecursive(t, o) \/ ExitNotOwner(t, o)
    BY <1>1, <2>1 DEF EnterFree, EnterRecursive, ExitNotOwner, flagVars, listVars
  <2>2. CASE EnterQueued(t, o)
    BY <1>4, <2>2 DEF EnterQueued, Block, LinkWaiting
  <2>3. CASE Exit(t, o)
    BY <1>1, <1>6, <2>3 DEF Exit, listVars
  <2> QED BY <2>1, <2>2, <2>3
<1>10. ASSUME NEW t \in Thread, NEW w, WaitForSignal(t, w) PROVE SuspendInv'
  <2>1. CASE UNCHANGED <<status, codeVars, listVars, current, waitVars>>
    BY <1>1, <1>10, <2>1 DEF WaitForSignal, listVars
  <2>2. CASE Block(t, "wait")
    BY <1>4, <1>10, <2>2 DEF WaitForSignal, Block, LinkWaiting
  <2> QED BY <1>10, <2>1, <2>2 DEF WaitForSignal
<1>11. ASSUME NEW t \in Thread, EventCall(t) PROVE SuspendInv'
  <2>1. CASE WaitEvent(t)
    BY <1>10, <2>1 DEF WaitEvent
  <2>2. ASSUME NEW e \in Event, Set(t, e) \/ Reset(t, e) PROVE SuspendInv'
    BY <1>1, <2>2 DEF Set, Reset, flagVars, listVars
  <2> QED BY <1>11, <2>1, <2>2 DEF EventCall
<1>12. ASSUME NEW t \in Thread, ThreadCall(t) PROVE SuspendInv'
  <2>1. CASE Sleep(t)
    BY <1>4, <2>1 DEF Sleep, Block, LinkWaiting
  <2>2. ASSUME NEW u \in Thread, Start(t, u) PROVE SuspendInv'
    BY <2>2 DEF Start, InsertReady, SuspendInv, SuspendedNotReady, TypeOK
  <2>3. ASSUME NEW u \in Thread, Join(t, u) PROVE SuspendInv'
    BY <1>10, <2>3 DEF Join
  <2>4. ASSUME NEW u \in Thread, Suspend(t, u) PROVE SuspendInv'
    <3>1. PutInProperList(u, status[u], TRUE)
      BY <2>4 DEF Suspend
    <3>2. ready' = ready \ {u}
      BY <3>1 DEF PutInProperList, LinkWaiting
    <3>3. /\ suspended' = [suspended EXCEPT ![u] = TRUE]
          /\ status' = status /\ status[u] # "Unstarted"
      BY <2>4 DEF Suspend
    <3> QED BY <3>2, <3>3 DEF SuspendInv, SuspendedNotReady, TypeOK
  <2>5. ASSUME NEW u \in Thread, Resume(t, u) PROVE SuspendInv'
    <3>1. ready' \subseteq ready \cup {u}
      BY <2>5 DEF Resume, PutInProperList, InsertReady, LinkWaiting
    <3>2. suspended' = [suspended EXCEPT ![u] = FALSE] /\ status' = status
      BY <2>5 DEF Resume
    <3> QED BY <3>1, <3>2 DEF SuspendInv, SuspendedNotReady, TypeOK
  <2>6. ASSUME NEW u \in Thread, Abort(t, u) PROVE SuspendInv'
    BY <1>3, <2>6 DEF Abort
  <2> QED BY <1>12, <2>1, <2>2, <2>3, <2>4, <2>5, <2>6 DEF ThreadCall
<1>13. ASSUME Loops PROVE SuspendInv'
  <2>1. CASE SignalDone \/ ReleaseDone \/ PurgeDone
    BY <1>1, <2>1 DEF SignalDone, ReleaseDone, PurgeDone, flagVars, listVars
  <2>2. CASE SignalStep
    <3>1. cursor \in Thread
      BY <2>2 DEF SignalStep, TypeOK
    <3>2. suspended' = suspended
      BY <2>2 DEF SignalStep
    <3>3. \/ Restart(cursor, TRUE)
          \/ UNCHANGED <<signaled, status, listVars, waitVars>>
      BY <2>2 DEF SignalStep
    <3> QED BY <1>1, <1>3, <3>1, <3>2, <3>3 DEF listVars
  <2>3. ASSUME NEW o \in Obj, ReleaseStep(o) PROVE SuspendInv'
    BY <1>6, <2>3 DEF ReleaseStep
  <2>4. ASSUME NEW o \in Obj, NEW i \in 1..Len(requests[o]), PurgeStep(o, i)
        PROVE  SuspendInv'
    <3>1. dying \in Thread
      BY <2>4 DEF PurgeStep, LoopOK
    <3> QED BY <1>5, <2>4, <3>1 DEF PurgeStep
  <2> QED BY <1>13, <2>1, <2>2, <2>3, <2>4 DEF Loops
<1>14. CASE UNCHANGED vars
  BY <1>1, <1>14 DEF vars, flagVars, listVars
<1> QED BY <1>7, <1>8, <1>9, <1>11, <1>12, <1>13, <1>14 DEF Next

\* A suspended thread is not given a quantum, whatever wakes it up.
THEOREM SuspendedStaysOut == Spec => []SuspendedNotReady
<1>1. Init => SuspendInv
  BY DEF Init, SuspendInv, SuspendedNotReady
<1>2. ListInv /\ SuspendInv /\ [Next]_vars => SuspendInv'
  BY SuspendStep
<1>3. SuspendInv => SuspendedNotReady
  BY DEF SuspendInv
<1> QED BY <1>1, <1>2, <1>3, InitListInv, NextListInv, PTL DEF Spec

\* What the scheduler and SignalObject rely on: sound lists, a cursor that stays
\* in them, and no suspended thread among the ready ones.
THEOREM ListsStayConsistent == Spec => []ListsConsistent
<1>1. ListsDisjoint /\ CursorLinked /\ SuspendedNotReady => ListsConsistent
  BY DEF ListsConsistent
<1> QED BY <1>1, ListsSound, SuspendedStaysOut, PTL

-----------------------------------------------------------------------------
(* A live thread is linked somewhere *)

\* t is relinked, and what it waits for is forgotten when it becomes ready.
Moved(t, toReady) ==
    /\ Relinked(t, toReady)
    /\ \A u \in Thread \ {t} : wait'[u] = wait[u] /\ sleeping'[u] = sleeping[u]
    /\ wait'[t] \in {wait[t], NoWait}
    /\ sleeping'[t] => sleeping[t]
    /\ toReady => wait'[t] = NoWait /\ ~sleeping'[t]

LEMMA InsertReadyMoves ==
    ASSUME ListsOK, NEW t \in Thread, InsertReady(t)
    PROVE  Moved(t, TRUE)
<1>1. Relinked(t, TRUE)
  BY InsertReadyLemma DEF Relinked
<1>2. /\ wait' = [wait EXCEPT ![t] = NoWait]
      /\ sleeping' = [sleeping EXCEPT ![t] = FALSE]
      /\ wait \in [Thread -> Wait] /\ sleeping \in [Thread -> BOOLEAN]
  BY DEF InsertReady, ListsOK
<1>3. wait'[t] = NoWait /\ ~sleeping'[t]
  BY <1>2
<1>4. \A u \in Thread \ {t} : wait'[u] = wait[u] /\ sleeping'[u] = sleeping[u]
  BY <1>2
<1> QED BY <1>1, <1>3, <1>4 DEF Moved

LEMMA PutMoves ==
    ASSUME ListsOK, NEW t \in Thread, NEW st, NEW susp \in BOOLEAN,
           PutInProperList(t, st, susp)
    PROVE  Moved(t, st = "Ready" /\ ~susp)
<1>1. CASE st = "Ready" /\ ~susp
  <2>1. Moved(t, TRUE)
    BY <1>1, InsertReadyMoves DEF PutInProperList
  <2> QED BY <1>1, <2>1
<1>2. CASE ~(st = "Ready" /\ ~susp)
  <2>1. Relinked(t, FALSE)
    BY <1>2, PutInProperListLemma DEF Relinked
  <2>2. UNCHANGED <<wait, sleeping>>
    BY <1>2 DEF PutInProperList
  <2>3. Moved(t, FALSE)
    BY <2>1, <2>2 DEF Moved
  <2> QED BY <1>2, <2>3
<1> QED BY <1>1, <1>2

LEMMA RestartMoves ==
    ASSUME TypeOK, ListsOK, NEW t \in Thread, NEW fDeleteEvent \in BOOLEAN,
           Restart(t, fDeleteEvent)
    PROVE  /\ status' = [status EXCEPT ![t] = "Ready"]
           /\ Moved(t, ~suspended[t])
<1>0. status' = [status EXCEPT ![t] = "Ready"]
  BY DEF Restart
<1>1. CASE suspended[t]
  <2>1. Relinked(t, FALSE)
    BY <1>1, RestartLemma DEF Relinked, TypeOK
  <2>2. /\ wait' = wait
        /\ sleeping' = [sleeping EXCEPT ![t] = @ /\ ~fDeleteEvent]
        /\ sleeping \in [Thread -> BOOLEAN]
    BY <1>1 DEF Restart, TypeOK
  <2>3. /\ \A u \in Thread \ {t} : sleeping'[u] = sleeping[u]
        /\ sleeping'[t] => sleeping[t]
    BY <2>2
  <2>4. Moved(t, FALSE)
    BY <2>1, <2>2, <2>3 DEF Moved
  <2> QED BY <1>0, <1>1, <2>4
<1>2. CASE ~suspended[t]
  <2>1. Moved(t, TRUE)
    BY <1>2, InsertReadyMoves DEF Restart
  <2>2. ~suspended[t] = TRUE
    BY <1>2
  <2> QED BY <1>0, <2>1, <2>2
<1> QED BY <1>1, <1>2 DEF TypeOK

\* A request less: the last one restarts the thread.
Granted(t) ==
    /\ reqCount' = [reqCount EXCEPT ![t] = @ - 1]
    /\ \/ /\ reqCount[t] = 1
          /\ status' = [status EXCEPT ![t] = "Ready"]
          /\ Moved(t, ~suspended[t])
       \/ /\ reqCount[t] # 1
          /\ status' = [status EXCEPT ![t] = "Waiting"]
          /\ UNCHANGED <<ready, waiting, wait, sleeping>>

LEMMA GrantedLemma ==
    ASSUME TypeOK, ListsOK, NEW t \in Thread, DropLockRequest(t)
    PROVE  Granted(t)
<1>1. CASE reqCount[t] = 1
  BY <1>1, RestartMoves DEF DropLockRequest, Granted
<1>2. CASE reqCount[t] # 1
  BY <1>2 DEF DropLockRequest, Granted, listVars
<1> QED BY <1>1, <1>2

\* The lock o goes to the first of its queue, or to nobody.
Freed(o) ==
    /\ requests[o] = <<>>
    /\ owner' = [owner EXCEPT ![o] = NONE]
    /\ UNCHANGED <<requests, reqCount, status, ready, waiting, wait, sleeping>>

Handed(o, t) ==
    /\ requests[o] # <<>> /\ t = requests[o][1] /\ t \in Members(requests[o])
    /\ owner' = [owner EXCEPT ![o] = t]
    /\ requests' = [requests EXCEPT ![o] = Drop(@, 1)]
    /\ Granted(t)

LEMMA ChangeOwnerCases ==
    ASSUME TypeOK, ListsOK, NEW o \in Obj, ChangeOwner(o)
    PROVE  Freed(o) \/ \E t \in Thread : Handed(o, t)
<1>1. CASE requests[o] = <<>>
  BY <1>1 DEF ChangeOwner, Freed, listVars
<1>2. CASE requests[o] # <<>>
  <2>1. requests[o] \in Seq(Thread) /\ 1 \in 1..Len(requests[o])
    BY <1>2 DEF TypeOK
  <2>2. PICK t \in Thread : t = requests[o][1]
    BY <2>1
  <2>3. t \in Members(requests[o])
    BY <2>1, <2>2 DEF Members
  <2>4. DropLockRequest(t)
    BY <1>2, <2>2 DEF ChangeOwner
  <2>5. Granted(t)
    BY <2>4, GrantedLemma
  <2> QED BY <1>2, <2>2, <2>3, <2>5 DEF ChangeOwner, Handed
<1> QED BY <1>1, <1>2

-----------------------------------------------------------------------------
(* Where a thread can be found *)

InLists(t) == t \in ready \/ t \in Members(waiting)

\* A ready thread waits for nothing, a wait belongs to its frame, and a thread
\* is in a list while it has frames and lives.
Seat(t) ==
    /\ t \in ready => wait[t] = NoWait /\ ~sleeping[t]
    /\ wait[t] # NoWait => frame[t] = "wait"
    /\ sleeping[t] => frame[t] = "sleep"
    /\ status[t] \in {"Terminated", "Unstarted"} => ~InLists(t)
    /\ status[t] = "Unstarted" => frame[t] = "none"
    /\ frame[t] # "none" /\ status[t] = "Terminated" => step = "signal" /\ dying = t
    /\ frame[t] # "none" /\ status[t] # "Terminated" => InLists(t)

StepOK ==
    /\ step = "run" => dying = NONE
    /\ step # "release" => todo = {}
    /\ step \in {"release", "purge"} => frame[dying] = "none"
    /\ current # NONE => current \in ready
    /\ dying # NONE => current = NONE /\ wait[dying] = NoWait /\ ~sleeping[dying]

SeatInv == ListInv /\ StepOK /\ \A t \in Thread : Seat(t)

Same(t) ==
    /\ status'[t] = status[t] /\ frame'[t] = frame[t]
    /\ wait'[t] = wait[t] /\ sleeping'[t] = sleeping[t]
    /\ t \in ready' <=> t \in ready
    /\ t \in Members(waiting') <=> t \in Members(waiting)

Signalling == step = "signal" => step' = "signal" /\ dying' = dying

LEMMA SeatKept ==
    ASSUME NEW t, Seat(t), Same(t), Signalling
    PROVE  Seat(t)'
BY DEF Seat, Same, Signalling, InLists

\* What is relinked stays where it belongs if its status says so.
LEMMA SeatMoved ==
    ASSUME NEW t \in Thread, NEW toReady \in BOOLEAN, Seat(t), Moved(t, toReady),
           frame'[t] = frame[t], status'[t] \notin {"Terminated", "Unstarted"}
    PROVE  Seat(t)'
BY DEF Seat, Moved, Relinked, InLists

LEMMA MovedOthers ==
    ASSUME NEW t \in Thread, NEW toReady \in BOOLEAN, Moved(t, toReady),
           NEW st, status \in [Thread -> Status],
           status' = [status EXCEPT ![t] = st] \/ status' = status, frame' = frame
    PROVE  \A u \in Thread \ {t} : Same(u)
BY DEF Moved, Relinked, Same

\* A grant moves its thread or makes it wait.
LEMMA SeatGranted ==
    ASSUME TypeOK, NEW t \in Thread, \A u \in Thread : Seat(u), Granted(t),
           frame' = frame, Signalling, step # "signal",
           status[t] = "Unstarted" => ~InLists(t)
    PROVE  \A u \in Thread : Seat(u)'
<1>1. CASE /\ status' = [status EXCEPT ![t] = "Ready"]
           /\ Moved(t, ~suspended[t])
  <2>1. \A u \in Thread \ {t} : Same(u)
    BY <1>1, MovedOthers DEF TypeOK
  <2>2. status'[t] = "Ready"
    BY <1>1 DEF TypeOK
  <2>3. Seat(t)'
    BY <1>1, <2>2, SeatMoved
  <2> QED BY <2>1, <2>3, SeatKept
<1>2. CASE /\ status' = [status EXCEPT ![t] = "Waiting"]
           /\ UNCHANGED <<ready, waiting, wait, sleeping>>
  <2>1. \A u \in Thread \ {t} : Same(u)
    BY <1>2 DEF Same, TypeOK, Members
  <2>2. status'[t] = "Waiting"
    BY <1>2 DEF TypeOK
  <2>3. Seat(t)'
    BY <1>2, <2>2 DEF Seat, InLists, Members
  <2> QED BY <2>1, <2>3, SeatKept
<1> QED BY <1>1, <1>2 DEF Granted

\* A thread that blocks is linked in the waiting list.
LEMMA SeatBlocked ==
    ASSUME TypeOK, ListsOK, NEW t \in Thread, NEW native \in {"enter", "sleep", "wait"},
           Block(t, native), \A u \in Thread : Seat(u), step = "run",
           current = t, t \in ready,
           \A u \in Thread \ {t} : wait'[u] = wait[u] /\ sleeping'[u] = sleeping[u],
           wait'[t] # NoWait => native = "wait", sleeping'[t] => native = "sleep"
    PROVE  (\A u \in Thread : Seat(u)') /\ current' = NONE
<1>1. /\ status' = [status EXCEPT ![t] = "Waiting"]
      /\ frame' = [frame EXCEPT ![t] = native] /\ current' = NONE
      /\ ready' = ready \ {t} /\ Members(waiting') = Members(waiting) \cup {t}
  BY LinkWaitingLemma DEF Block
<1>2. \A u \in Thread \ {t} : Same(u)
  BY <1>1 DEF Same, TypeOK
<1>3. status'[t] = "Waiting" /\ frame'[t] = native
  BY <1>1 DEF TypeOK
<1>4. Seat(t)'
  BY <1>1, <1>3 DEF Seat, InLists
<1> QED BY <1>1, <1>2, <1>4, SeatKept DEF Signalling

LEMMA SeatPassivate ==
    ASSUME SeatInv, NEW t \in Thread, Passivate(t), step = "run"
    PROVE  StepOK' /\ \A u \in Thread : Seat(u)'
<1> USE DEF SeatInv, ListInv
<1>0. TypeOK /\ ListsOK /\ NONE \notin Thread
  BY ThreadsAssumption DEF TypeOK, ListsOK
<1>1. /\ status' = [status EXCEPT ![t] = "Terminated"]
      /\ wait' = [wait EXCEPT ![t] = NoWait]
      /\ sleeping' = [sleeping EXCEPT ![t] = FALSE]
      /\ ready' = ready \ {t} /\ Members(waiting') = Members(waiting) \ {t}
      /\ dying' = t /\ current' = NONE /\ frame' = frame
      /\ step' = "signal" /\ todo' = todo
  BY <1>0, UnlinkLemma DEF Passivate, SignalObject, codeVars, ListsOK, ListsDisjoint, NoDup
<1>2. \A u \in Thread \ {t} : Same(u)
  BY <1>0, <1>1 DEF Same, TypeOK
<1>3. status'[t] = "Terminated" /\ wait'[t] = NoWait /\ ~sleeping'[t]
  BY <1>0, <1>1 DEF TypeOK
<1>4. Seat(t)'
  BY <1>1, <1>3 DEF Seat, InLists
<1>5. \A u \in Thread : Seat(u)'
  BY <1>2, <1>4, SeatKept DEF Signalling
<1>6. StepOK'
  BY <1>1, <1>3 DEF StepOK
<1> QED BY <1>5, <1>6

\* The steps in the loops.
LEMMA SeatLoops ==
    ASSUME SeatInv, Loops
    PROVE  StepOK' /\ \A u \in Thread : Seat(u)'
<1> USE DEF SeatInv, ListInv
<1>0. TypeOK /\ ListsOK /\ NONE \notin Thread
  BY ThreadsAssumption DEF TypeOK, ListsOK
<1>1. CASE SignalStep
  <2>0. PICK c \in Thread : c = cursor
    BY <1>0, <1>1 DEF SignalStep, TypeOK
  <2>1. /\ step = "signal" /\ step' = step /\ dying' = dying
        /\ todo' = todo /\ current' = current /\ frame' = frame
        /\ c \in Members(waiting)
    BY <1>0, <1>1, <2>0 DEF SignalStep, codeVars, TypeOK, CursorLinked
  <2>2. CASE Restart(c, TRUE)
    <3>1. /\ status' = [status EXCEPT ![c] = "Ready"]
          /\ Moved(c, ~suspended[c])
      BY <1>0, <2>1, <2>2, RestartMoves
    <3>2. \A u \in Thread \ {c} : Same(u)
      BY <1>0, <2>1, <3>1, MovedOthers DEF TypeOK
    <3>3. status'[c] = "Ready"
      BY <1>0, <2>1, <3>1 DEF TypeOK
    <3>4. Seat(c)'
      BY <2>1, <3>1, <3>3, SeatMoved
    <3>5. \A u \in Thread : Seat(u)'
      BY <2>1, <3>2, <3>4, SeatKept DEF Signalling
    <3>6. c \notin ready /\ (current # NONE => current' \in ready')
      BY <2>1, <3>1 DEF ListsDisjoint, Moved, Relinked, StepOK
    <3>7. dying # NONE => wait'[dying] = NoWait /\ ~sleeping'[dying]
      BY <1>0, <3>1 DEF Moved, StepOK, TypeOK
    <3> QED BY <2>1, <3>5, <3>6, <3>7 DEF StepOK
  <2>3. CASE UNCHANGED <<signaled, status, listVars, waitVars>>
    <3>1. \A u \in Thread : Same(u)
      BY <2>1, <2>3 DEF Same, listVars, waitVars, Members
    <3> QED BY <2>1, <2>3, <3>1, SeatKept DEF StepOK, Signalling, listVars, waitVars
  <2> QED BY <1>1, <2>0, <2>2, <2>3 DEF SignalStep
<1>2. CASE SignalDone
  <2>1. /\ step = "signal"
        /\ UNCHANGED <<status, ready, waiting, wait, sleeping, current>>
    BY <1>2 DEF SignalDone, flagVars, listVars, waitVars
  <2>2. CASE dying = NONE \/ frame[dying] = "none"
    <3>1. step' = "run" /\ dying' = NONE /\ UNCHANGED <<todo, frame>>
      BY <1>2, <2>2 DEF SignalDone, codeVars
    <3>2. \A u \in Thread : Seat(u)'
      BY <1>0, <2>1, <2>2, <3>1 DEF Seat, InLists, Members
    <3> QED BY <2>1, <3>1, <3>2 DEF StepOK
  <2>3. CASE ~(dying = NONE \/ frame[dying] = "none")
    <3>0. PICK d \in Thread : d = dying
      BY <1>0, <2>3 DEF TypeOK
    <3>1. /\ step' = "release" /\ dying' = d
          /\ frame' = [frame EXCEPT ![d] = "none"]
      BY <1>2, <2>3, <3>0 DEF SignalDone
    <3>2. wait[d] = NoWait /\ ~sleeping[d] /\ current = NONE
      BY <1>0, <2>3, <3>0 DEF TypeOK, StepOK
    <3>3. frame'[d] = "none" /\ \A u \in Thread \ {d} : frame'[u] = frame[u]
      BY <1>0, <3>1, <3>2 DEF TypeOK
    <3>4. Seat(d)'
      <4>1. Seat(d)
        OBVIOUS
      <4> QED BY <2>1, <3>1, <3>2, <3>3, <4>1 DEF Seat, InLists, Members
    <3>5. ASSUME NEW u \in Thread \ {d} PROVE Seat(u)'
      <4>1. Seat(u)
        OBVIOUS
      <4>2. frame[u] # "none" => status[u] # "Terminated"
        BY <3>0, <3>5, <4>1 DEF Seat
      <4> QED BY <2>1, <3>3, <4>1, <4>2 DEF Seat, InLists, Members
    <3>6. StepOK'
      BY <2>1, <3>1, <3>2, <3>3 DEF StepOK
    <3>7. \A u \in Thread : Seat(u)'
      BY <3>4, <3>5
    <3> QED BY <3>6, <3>7
  <2> QED BY <2>2, <2>3
<1>3. CASE ReleaseDone \/ PurgeDone
  <2>1. /\ UNCHANGED <<status, ready, waiting, wait, sleeping, current, frame>>
        /\ step # "signal" /\ step' # "signal"
    BY <1>3 DEF ReleaseDone, PurgeDone, flagVars, codeVars, listVars, waitVars
  <2>2. \A u \in Thread : Same(u)
    BY <2>1 DEF Same, Members
  <2>3. StepOK'
    BY <1>3, <2>1 DEF ReleaseDone, PurgeDone, StepOK
  <2> QED BY <2>1, <2>2, <2>3, SeatKept DEF Signalling
<1>4. ASSUME NEW t \in Thread, Granted(t), frame' = frame, step \in {"release", "purge"},
             step' = step, dying' = dying, current' = current,
             step = "purge" => todo' = todo
      PROVE  StepOK' /\ \A u \in Thread : Seat(u)'
  <2>1. \A u \in Thread : Seat(u)'
    BY <1>0, <1>4, SeatGranted DEF Seat, Signalling
  <2>2. dying \in Thread /\ current = NONE /\ wait[dying] = NoWait /\ ~sleeping[dying]
    BY <1>0, <1>4 DEF LoopOK, StepOK
  <2>3. wait'[dying] = NoWait /\ ~sleeping'[dying]
    BY <1>4, <2>2 DEF Granted, Moved
  <2> QED BY <1>4, <2>1, <2>2, <2>3 DEF StepOK
<1>5. ASSUME NEW o \in Obj, ReleaseStep(o)
      PROVE  StepOK' /\ \A u \in Thread : Seat(u)'
  <2>1. /\ ChangeOwner(o) /\ frame' = frame /\ step = "release"
        /\ step' = step /\ dying' = dying /\ current' = current
    BY <1>5 DEF ReleaseStep, codeVars
  <2>2. CASE Freed(o)
    <3>1. \A u \in Thread : Same(u)
      BY <2>1, <2>2 DEF Freed, Same, Members
    <3> QED BY <2>1, <2>2, <3>1, SeatKept DEF Freed, Signalling, StepOK
  <2>3. ASSUME NEW t \in Thread, Handed(o, t)
        PROVE  StepOK' /\ \A u \in Thread : Seat(u)'
    <3>1. Granted(t)
      BY <2>3 DEF Handed
    <3> QED BY <1>4, <2>1, <3>1
  <2>4. Freed(o) \/ \E t \in Thread : Handed(o, t)
    BY <1>0, <2>1, ChangeOwnerCases
  <2> QED BY <2>2, <2>3, <2>4
<1>6. ASSUME NEW o \in Obj, NEW i \in 1..Len(requests[o]), PurgeStep(o, i)
      PROVE  StepOK' /\ \A u \in Thread : Seat(u)'
  <2>1. dying \in Thread /\ DropLockRequest(dying) /\ frame' = frame
        /\ step = "purge" /\ step' = step /\ dying' = dying /\ current' = current
        /\ todo' = todo
    BY <1>6 DEF PurgeStep, LoopOK, codeVars, loopVars
  <2> QED BY <1>0, <1>4, <2>1, GrantedLemma
<1> QED BY <1>1, <1>2, <1>3, <1>5, <1>6 DEF Loops

\* A call of the running thread that moves another one, or itself out of Execute.
LEMMA SeatCall ==
    ASSUME SeatInv, step = "run", NEW t \in Thread, NEW toReady \in BOOLEAN,
           Moved(t, toReady), NEW st,
           status' = [status EXCEPT ![t] = st] \/ status' = status,
           status'[t] \notin {"Terminated", "Unstarted"},
           frame' = frame, step' = step, dying' = dying, todo' = todo,
           current' = NONE \/ (current' = current /\ current # t)
    PROVE  StepOK' /\ \A u \in Thread : Seat(u)'
<1>0. TypeOK
  BY DEF SeatInv, ListInv
<1>1. \A u \in Thread \ {t} : Same(u)
  BY <1>0, MovedOthers DEF TypeOK
<1>2. Seat(t)'
  BY SeatMoved DEF SeatInv
<1>3. \A u \in Thread : Seat(u)'
  BY <1>1, <1>2, SeatKept DEF Signalling, SeatInv
<1>4. current' # NONE => current' \in ready'
  BY DEF SeatInv, StepOK, Moved, Relinked
<1> QED BY <1>3, <1>4 DEF StepOK, SeatInv

\* A call after which every thread is where it was.
LEMMA SeatSame ==
    ASSUME SeatInv, step = "run", \A u \in Thread : Same(u),
           todo' = todo, dying' = dying, step' \in {"run", "signal"},
           current' \in ready \cup {NONE}, NONE \notin Thread
    PROVE  StepOK' /\ \A u \in Thread : Seat(u)'
<1>1. \A u \in Thread : Seat(u)'
  BY SeatKept DEF Signalling, SeatInv
<1>2. current' # NONE => current' \in ready'
  BY DEF SeatInv, ListInv, TypeOK, Same
<1> QED BY <1>1, <1>2 DEF StepOK, SeatInv

LEMMA SeatWait ==
    ASSUME SeatInv, NEW t \in Thread, NEW w, WaitForSignal(t, w)
    PROVE  StepOK' /\ \A u \in Thread : Seat(u)'
<1> USE DEF SeatInv, ListInv
<1>0. TypeOK /\ ListsOK /\ NONE \notin Thread
  BY ThreadsAssumption DEF TypeOK, ListsOK
<1>1. /\ step = "run" /\ current = t /\ t \in ready /\ UNCHANGED loopVars
      /\ dying = NONE
  BY <1>0 DEF WaitForSignal, InIL, StepOK
<1>2. CASE UNCHANGED <<status, codeVars, listVars, current, waitVars>>
  <2>1. \A u \in Thread : Same(u)
    BY <1>2 DEF Same, codeVars, listVars, waitVars, Members
  <2> QED BY <1>0, <1>1, <1>2, <2>1, SeatSame DEF loopVars
<1>3. CASE /\ wait' = [wait EXCEPT ![t] = w]
           /\ Block(t, "wait")
           /\ UNCHANGED sleeping
  <2>1. \A u \in Thread \ {t} : wait'[u] = wait[u] /\ sleeping'[u] = sleeping[u]
    BY <1>0, <1>3 DEF TypeOK
  <2>2. ~sleeping'[t]
    BY <1>1, <1>3 DEF Seat
  <2>3. (\A u \in Thread : Seat(u)') /\ current' = NONE
    BY <1>0, <1>1, <1>3, <2>1, <2>2, SeatBlocked
  <2> QED BY <1>1, <2>3 DEF StepOK, loopVars
<1> QED BY <1>2, <1>3 DEF WaitForSignal

LEMMA SeatStep ==
    ASSUME SeatInv, SuspendInv, [Next]_vars
    PROVE  StepOK' /\ \A u \in Thread : Seat(u)'
<1> DEFINE Goal == StepOK' /\ \A u \in Thread : Seat(u)'
<1> USE DEF SeatInv, ListInv
<1>0. TypeOK /\ ListsOK /\ NONE \notin Thread
  BY ThreadsAssumption DEF TypeOK, ListsOK
<1>1. ASSUME NEW t \in Thread, Engine(t) PROVE Goal
  <2>1. CASE Dispatch(t) \/ Leave(t)
    <3>1. \A u \in Thread : Same(u)
      BY <2>1 DEF Dispatch, Leave, Same, flagVars, codeVars, listVars, waitVars, Members
    <3>2. current' = t /\ t \in ready /\ UNCHANGED loopVars /\ step = "run"
      BY <1>0, <2>1 DEF Dispatch, Leave, InIL, StepOK
    <3> QED BY <1>0, <3>1, <3>2, SeatSame DEF loopVars
  <2>2. CASE QuantumExpired(t)
    <3>1. Moved(t, status[t] = "Ready" /\ ~suspended[t])
      BY <1>0, <2>2, PutMoves DEF QuantumExpired, TypeOK
    <3>2. /\ step = "run" /\ current' = NONE
          /\ UNCHANGED <<flagVars, codeVars, loopVars>> /\ t \in ready
      BY <1>0, <2>2 DEF QuantumExpired, StepOK
    <3>3. status[t] \notin {"Terminated", "Unstarted"}
      BY <3>2 DEF Seat, InLists
    <3> QED BY <3>1, <3>2, <3>3, SeatCall DEF flagVars, codeVars, loopVars
  <2>3. CASE NativeReturn(t) \/ Catch(t)
    <3>1. /\ step = "run" /\ t \in ready /\ frame[t] # "none"
          /\ frame' = [frame EXCEPT ![t] = "il"]
          /\ UNCHANGED <<status, listVars, current, wait, sleeping, loopVars>>
      BY <1>0, <2>3 DEF NativeReturn, Catch, StepOK, flagVars
    <3>2. \A u \in Thread \ {t} : Same(u)
      BY <1>0, <3>1 DEF Same, listVars, Members, TypeOK
    <3>3. Seat(t)'
      BY <1>0, <3>1 DEF Seat, InLists, listVars, Members, TypeOK, loopVars
    <3>4. \A u \in Thread : Seat(u)'
      BY <3>1, <3>2, <3>3, SeatKept DEF Signalling
    <3> QED BY <3>1, <3>4 DEF StepOK, loopVars, listVars
  <2>4. CASE SleepExpired(t) \/ WaitExpired(t)
    <3>1. PICK b \in BOOLEAN : Restart(t, b)
      BY <2>4 DEF SleepExpired, WaitExpired
    <3>2. /\ status' = [status EXCEPT ![t] = "Ready"]
          /\ Moved(t, ~suspended[t])
      BY <1>0, <3>1, RestartMoves
    <3>3. /\ step = "run" /\ current' = NONE /\ UNCHANGED <<codeVars, loopVars>>
      BY <2>4 DEF SleepExpired, WaitExpired
    <3>4. status'[t] = "Ready"
      BY <1>0, <3>2 DEF TypeOK
    <3> QED BY <3>2, <3>3, <3>4, SeatCall DEF codeVars, loopVars
  <2>5. CASE ThreadExit(t)
    BY <2>5, SeatPassivate DEF ThreadExit
  <2> QED BY <1>1, <2>1, <2>2, <2>3, <2>4, <2>5 DEF Engine
<1>2. ASSUME NEW t \in Thread, Kill(t) PROVE Goal
  BY <1>2, SeatPassivate DEF Kill
<1>3. ASSUME NEW t \in Thread, NEW o \in Obj,
             EnterFree(t, o) \/ EnterRecursive(t, o) \/ ExitNotOwner(t, o)
      PROVE  Goal
  <2>1. \A u \in Thread : Same(u)
    BY <1>3 DEF EnterFree, EnterRecursive, ExitNotOwner, Same, flagVars, codeVars,
       listVars, waitVars, Members
  <2>2. current' = t /\ t \in ready /\ UNCHANGED loopVars /\ step = "run"
    BY <1>0, <1>3 DEF EnterFree, EnterRecursive, ExitNotOwner, InIL, StepOK
  <2> QED BY <1>0, <2>1, <2>2, SeatSame DEF loopVars
<1>4. ASSUME NEW t \in Thread, NEW o \in Obj, EnterQueued(t, o) PROVE Goal
  <2>1. /\ step = "run" /\ current = t /\ t \in ready /\ UNCHANGED loopVars
        /\ dying = NONE /\ Block(t, "enter") /\ UNCHANGED waitVars
    BY <1>0, <1>4 DEF EnterQueued, InIL, StepOK
  <2>2. wait'[t] = NoWait /\ ~sleeping'[t]
    BY <2>1 DEF Seat, waitVars
  <2>3. (\A u \in Thread : Seat(u)') /\ current' = NONE
    BY <1>0, <2>1, <2>2, SeatBlocked DEF waitVars
  <2> QED BY <2>1, <2>3 DEF StepOK, loopVars
<1>5. ASSUME NEW t \in Thread, NEW o \in Obj, Exit(t, o) PROVE Goal
  <2>1. /\ step = "run" /\ current = t /\ t \in ready /\ ~suspended[t] /\ dying = NONE
        /\ UNCHANGED <<loopVars, codeVars, current, suspended>>
    BY <1>0, <1>5 DEF Exit, InIL, StepOK, SuspendInv, SuspendedNotReady
  <2>2. CASE UNCHANGED <<status, listVars, wait, sleeping>>
    <3>1. \A u \in Thread : Same(u)
      BY <2>1, <2>2 DEF Same, codeVars, listVars, Members
    <3> QED BY <1>0, <2>1, <3>1, SeatSame DEF loopVars
  <2>3. ASSUME NEW u \in Thread, Granted(u) PROVE Goal
    <3>1. \A v \in Thread : Seat(v)'
      BY <1>0, <2>1, <2>3, SeatGranted DEF Seat, Signalling, codeVars
    <3>2. t \in ready'
      BY <2>1, <2>3 DEF Granted, Moved, Relinked
    <3> QED BY <2>1, <3>1, <3>2 DEF StepOK, loopVars
  <2>4. CASE ChangeOwner(o)
    <3>1. Freed(o) \/ \E u \in Thread : Handed(o, u)
      BY <1>0, <2>4, ChangeOwnerCases
    <3>2. CASE Freed(o)
      BY <2>2, <3>2 DEF Freed, listVars
    <3> QED BY <2>3, <3>1, <3>2 DEF Handed
  <2> QED BY <1>5, <2>2, <2>4 DEF Exit
<1>6. ASSUME NEW t \in Thread, MonitorCall(t) PROVE Goal
  BY <1>3, <1>4, <1>5, <1>6 DEF MonitorCall
<1>7. ASSUME NEW t \in Thread, EventCall(t) PROVE Goal
  <2>1. CASE WaitEvent(t)
    BY <2>1, SeatWait DEF WaitEvent
  <2>2. ASSUME NEW e \in Event, Set(t, e) \/ Reset(t, e) PROVE Goal
    <3>1. \A u \in Thread : Same(u)
      BY <2>2 DEF Set, Reset, Same, flagVars, codeVars, listVars, waitVars, Members
    <3>2. /\ current' = t /\ t \in ready /\ step = "run" /\ UNCHANGED <<todo, dying>>
          /\ step' \in {"run", "signal"}
      BY <1>0, <2>2 DEF Set, Reset, SignalObject, InIL, StepOK, loopVars
    <3> QED BY <1>0, <3>1, <3>2, SeatSame
  <2> QED BY <1>7, <2>1, <2>2 DEF EventCall
<1>8. ASSUME NEW t \in Thread, ThreadCall(t) PROVE Goal
  <2>1. CASE Sleep(t)
    <3>1. /\ step = "run" /\ current = t /\ t \in ready /\ UNCHANGED <<loopVars, wait>>
          /\ dying = NONE /\ Block(t, "sleep")
          /\ \E b \in BOOLEAN : sleeping' = [sleeping EXCEPT ![t] = b]
      BY <1>0, <2>1 DEF Sleep, InIL, StepOK
    <3>2. \A u \in Thread \ {t} : wait'[u] = wait[u] /\ sleeping'[u] = sleeping[u]
      BY <1>0, <3>1 DEF TypeOK
    <3>3. wait'[t] = NoWait
      BY <3>1 DEF Seat
    <3>4. (\A u \in Thread : Seat(u)') /\ current' = NONE
      BY <1>0, <3>1, <3>2, <3>3, SeatBlocked
    <3> QED BY <3>1, <3>4 DEF StepOK, loopVars
  <2>2. ASSUME NEW u \in Thread, Start(t, u) PROVE Goal
    <3>1. Moved(u, TRUE)
      BY <1>0, <2>2, InsertReadyMoves DEF Start
    <3>2. /\ step = "run" /\ status' = [status EXCEPT ![u] = "Ready"]
          /\ frame' = [frame EXCEPT ![u] = "il"]
          /\ UNCHANGED <<current, loopVars>>
      BY <2>2 DEF Start, InIL
    <3>3. \A v \in Thread \ {u} : Same(v)
      BY <1>0, <3>1, <3>2 DEF Same, Moved, Relinked, TypeOK
    <3>4. status'[u] = "Ready" /\ frame'[u] = "il"
      BY <1>0, <3>2 DEF TypeOK
    <3>5. Seat(u)'
      BY <3>1, <3>4 DEF Seat, Moved, Relinked, InLists
    <3>6. \A v \in Thread : Seat(v)'
      BY <3>2, <3>3, <3>5, SeatKept DEF Signalling
    <3> QED BY <3>1, <3>2, <3>6 DEF StepOK, loopVars, Moved, Relinked
  <2>3. ASSUME NEW u \in Thread, Join(t, u) PROVE Goal
    BY <2>3, SeatWait DEF Join
  <2>4. ASSUME NEW u \in Thread, Suspend(t, u) PROVE Goal
    <3>1. Moved(u, status[u] = "Ready" /\ ~TRUE)
      BY <1>0, <2>4, PutMoves DEF Suspend
    <3>2. /\ step = "run" /\ current = t /\ UNCHANGED <<status, codeVars, loopVars>>
          /\ status[u] \notin {"Unstarted", "Terminated"}
          /\ current' = IF u = t THEN NONE ELSE t
      BY <2>4 DEF Suspend, InIL
    <3> QED BY <3>1, <3>2, SeatCall DEF codeVars, loopVars
  <2>5. ASSUME NEW u \in Thread, Resume(t, u) PROVE Goal
    <3>1. Moved(u, status[u] = "Ready" /\ ~FALSE)
      BY <1>0, <2>5, PutMoves DEF Resume
    <3>2. /\ step = "run" /\ current = t /\ UNCHANGED <<status, codeVars, current, loopVars>>
          /\ status[u] # "Terminated" /\ suspended[u] /\ t \in ready
      BY <1>0, <2>5 DEF Resume, InIL, StepOK
    <3>3. status[u] # "Unstarted" /\ u # t
      BY <3>2 DEF SuspendInv, SuspendedNotReady
    <3> QED BY <3>1, <3>2, <3>3, SeatCall DEF codeVars, loopVars
  <2>6. ASSUME NEW u \in Thread, Abort(t, u) PROVE Goal
    <3>1. /\ status' = [status EXCEPT ![u] = "Ready"]
          /\ Moved(u, ~suspended[u])
      BY <1>0, <2>6, RestartMoves DEF Abort
    <3>2. /\ step = "run" /\ current = t /\ u # t /\ UNCHANGED <<codeVars, current, loopVars>>
      BY <2>6 DEF Abort, InIL
    <3>3. status'[u] = "Ready"
      BY <1>0, <3>1 DEF TypeOK
    <3> QED BY <3>1, <3>2, <3>3, SeatCall DEF codeVars, loopVars
  <2> QED BY <1>8, <2>1, <2>2, <2>3, <2>4, <2>5, <2>6 DEF ThreadCall
<1>9. CASE Loops
  BY <1>9, SeatLoops
<1>10. CASE UNCHANGED vars
  <2>1. \A u \in Thread : Same(u)
    BY <1>10 DEF vars, Same, flagVars, codeVars, listVars, waitVars, Members
  <2> QED BY <1>10, <2>1, SeatKept DEF vars, loopVars, codeVars, listVars, waitVars,
        Signalling, StepOK
<1> HIDE DEF Goal
<1> QED BY <1>1, <1>2, <1>6, <1>7, <1>8, <1>9, <1>10 DEF Next, Goal

LEMMA InitSeatInv == Init => SeatInv
<1> SUFFICES ASSUME Init PROVE SeatInv
  OBVIOUS
<1>1. StepOK
  BY ThreadsAssumption DEF Init, StepOK
<1>2. \A t \in Thread : Seat(t)
  BY DEF Init, Seat, InLists, Members
<1> QED BY <1>1, <1>2, InitListInv DEF SeatInv

\* A thread that has frames and lives is in a list, whatever blocks it, wakes it
\* up, suspends it, aborts it or kills another one.
THEOREM LiveThreadsStayLinked == Spec => []LiveThreadLinked
<1>1. Init => SuspendInv
  BY DEF Init, SuspendInv, SuspendedNotReady
<1>2. SeatInv /\ SuspendInv /\ [Next]_vars => SeatInv' /\ SuspendInv'
  BY SeatStep, SuspendStep, NextListInv DEF SeatInv
<1>3. SeatInv => LiveThreadLinked
  BY DEF SeatInv, Seat, InLists, LiveThreadLinked
<1> QED BY <1>1, <1>2, <1>3, InitSeatInv, PTL DEF Spec

-----------------------------------------------------------------------------
(* Counting requests *)

\* Places, for the queues R.
PlacesOf(R, t) == UNION {{o} \X {i \in 1..Len(R[o]) : R[o][i] = t} : o \in Obj}

\* The i-th request in the queue of o is t's.
At(R, t, o, i) == o \in Obj /\ i \in 1..Len(R[o]) /\ R[o][i] = t

LEMMA PlaceIn ==
    ASSUME NEW R, NEW t
    PROVE  /\ \A o, i : At(R, t, o, i) <=> <<o, i>> \in PlacesOf(R, t)
           /\ \A x \in PlacesOf(R, t) : \E o, i : x = <<o, i>> /\ At(R, t, o, i)
<1>1. \A o, i : At(R, t, o, i) <=> <<o, i>> \in PlacesOf(R, t)
  BY DEF PlacesOf, At
<1>2. ASSUME NEW x \in PlacesOf(R, t)
      PROVE  \E o, i : x = <<o, i>> /\ At(R, t, o, i)
  <2>1. PICK o \in Obj : x \in {o} \X {i \in 1..Len(R[o]) : R[o][i] = t}
    BY DEF PlacesOf
  <2> QED BY <2>1 DEF At
<1> QED BY <1>1, <1>2

\* Q is R with t at the end of the queue of o, whose length was n.
Appended(R, Q, o, t, n) ==
    /\ o \in Obj /\ n \in Nat /\ Len(R[o]) = n
    /\ Len(Q[o]) = n + 1 /\ Q[o][n + 1] = t
    /\ \A i \in 1..n : Q[o][i] = R[o][i]
    /\ \A p \in Obj \ {o} : Q[p] = R[p]

LEMMA AppendPlace ==
    ASSUME NEW R, NEW Q, NEW o, NEW t, NEW n, Appended(R, Q, o, t, n)
    PROVE  \A u : PlacesOf(Q, u) = PlacesOf(R, u) \cup IF u = t THEN {<<o, n + 1>>} ELSE {}
<1>1. /\ o \in Obj /\ n \in Nat /\ Len(Q[o]) = n + 1 /\ Q[o][n + 1] = t /\ Len(R[o]) = n
      /\ \A i \in 1..n : Q[o][i] = R[o][i]
      /\ \A p \in Obj \ {o} : Q[p] = R[p]
  BY DEF Appended
<1>2. n + 1 \notin 1..n
  BY <1>1
<1>3. ASSUME NEW u, NEW p, NEW i
      PROVE  At(Q, u, p, i) <=> At(R, u, p, i) \/ (p = o /\ i = n + 1 /\ u = t)
  <2>1. CASE p = o
    <3>1. i \in 1..Len(Q[o]) <=> i \in 1..n \/ i = n + 1
      BY <1>1
    <3> QED BY <1>1, <1>2, <2>1, <3>1 DEF At
  <2>2. CASE p # o
    BY <1>1, <2>2 DEF At
  <2> QED BY <2>1, <2>2
<1>4. \A u : PlacesOf(Q, u) = PlacesOf(R, u) \cup IF u = t THEN {<<o, n + 1>>} ELSE {}
  <2> SUFFICES ASSUME NEW u
               PROVE  PlacesOf(Q, u) = PlacesOf(R, u) \cup IF u = t THEN {<<o, n + 1>>} ELSE {}
    OBVIOUS
  <2>0. /\ \A p, i : At(R, u, p, i) <=> <<p, i>> \in PlacesOf(R, u)
        /\ \A x \in PlacesOf(R, u) : \E p, i : x = <<p, i>> /\ At(R, u, p, i)
        /\ \A p, i : At(Q, u, p, i) <=> <<p, i>> \in PlacesOf(Q, u)
        /\ \A x \in PlacesOf(Q, u) : \E p, i : x = <<p, i>> /\ At(Q, u, p, i)
    BY PlaceIn
  <2>1. ASSUME NEW x \in PlacesOf(Q, u)
        PROVE  x \in PlacesOf(R, u) \/ (u = t /\ x = <<o, n + 1>>)
    <3>1. PICK p, i : x = <<p, i>> /\ At(Q, u, p, i)
      BY <2>0
    <3>2. At(R, u, p, i) \/ (p = o /\ i = n + 1 /\ u = t)
      BY <1>3, <3>1
    <3> QED BY <2>0, <3>1, <3>2
  <2>2. ASSUME NEW x \in PlacesOf(R, u) PROVE x \in PlacesOf(Q, u)
    <3>1. PICK p, i : x = <<p, i>> /\ At(R, u, p, i)
      BY <2>0
    <3>2. At(Q, u, p, i)
      BY <1>3, <3>1
    <3> QED BY <2>0, <3>1, <3>2
  <2>3. u = t => <<o, n + 1>> \in PlacesOf(Q, u)
    BY <1>3, <2>0
  <2> QED BY <2>1, <2>2, <2>3
<1> QED BY <1>4

\* The places of u in R, but for the i-th of o, and its places after the
\* removal of that one.
LEMMA DropPlace ==
    ASSUME NEW S, NEW R \in [Obj -> Seq(S)], NEW o \in Obj, NEW i \in 1..Len(R[o]),
           NEW Q, Q = [R EXCEPT ![o] = Drop(@, i)], NEW u
    PROVE  ExistsBijection(PlacesOf(R, u) \ {<<o, i>>}, PlacesOf(Q, u))
<1> DEFINE n == Len(R[o])
           A == PlacesOf(R, u) \ {<<o, i>>}
           B == PlacesOf(Q, u)
           Shift(p, j) == IF p = o /\ j > i THEN j - 1 ELSE j
           f == [x \in A |-> <<x[1], Shift(x[1], x[2])>>]
<1>1. /\ n \in Nat /\ Len(Q[o]) = n - 1 /\ i \in 1..n
      /\ \A j \in 1..(n - 1) : Q[o][j] = IF j < i THEN R[o][j] ELSE R[o][j + 1]
      /\ \A p \in Obj \ {o} : Q[p] = R[p]
  <2>1. R[o] \in Seq(S) /\ Q[o] = Drop(R[o], i)
    OBVIOUS
  <2>2. Len(Drop(R[o], i)) = Len(R[o]) - 1
    BY <2>1, DropLemma
  <2> QED BY <2>1, <2>2 DEF Drop
<1> HIDE DEF n
<1>2. ASSUME NEW p, NEW j, At(R, u, p, j), ~(p = o /\ j = i)
      PROVE  At(Q, u, p, Shift(p, j))
  <2>1. CASE p = o /\ j > i
    <3>1. j \in 1..n /\ R[o][j] = u
      BY <1>2, <2>1 DEF At, n
    <3>2. j - 1 \in 1..(n - 1) /\ ~(j - 1 < i) /\ (j - 1) + 1 = j
      BY <1>1, <2>1, <3>1
    <3>3. Q[o][j - 1] = u
      BY <1>1, <3>1, <3>2
    <3> QED BY <1>1, <2>1, <3>2, <3>3 DEF At
  <2>2. CASE p = o /\ ~(j > i)
    <3>1. j \in 1..n /\ R[o][j] = u /\ j # i
      BY <1>2, <2>2 DEF At, n
    <3>2. j \in 1..(n - 1) /\ j < i
      BY <1>1, <2>2, <3>1
    <3> QED BY <1>1, <2>2, <3>1, <3>2 DEF At
  <2>3. CASE p # o
    BY <1>1, <1>2, <2>3 DEF At
  <2> QED BY <2>1, <2>2, <2>3
<1>3. ASSUME NEW p, NEW j, At(Q, u, p, j)
      PROVE  \E k : At(R, u, p, k) /\ ~(p = o /\ k = i) /\ Shift(p, k) = j
  <2>1. CASE p = o
    <3>1. j \in 1..(n - 1) /\ Q[o][j] = u
      BY <1>1, <1>3, <2>1 DEF At
    <3>2. CASE j < i
      <4>1. At(R, u, o, j) /\ j # i /\ ~(j > i)
        BY <1>1, <3>1, <3>2 DEF At, n
      <4> QED BY <2>1, <4>1
    <3>3. CASE ~(j < i)
      <4>1. j + 1 \in 1..n /\ j + 1 # i /\ j + 1 > i /\ (j + 1) - 1 = j
        BY <1>1, <3>1, <3>3
      <4>2. At(R, u, o, j + 1)
        BY <1>1, <3>1, <3>3, <4>1 DEF At, n
      <4> QED BY <2>1, <4>1, <4>2
    <3> QED BY <3>2, <3>3
  <2>2. CASE p # o
    BY <1>1, <1>3, <2>2 DEF At
  <2> QED BY <2>1, <2>2
<1>4. ASSUME NEW p, NEW j, NEW k, At(R, u, p, j), At(R, u, p, k),
             ~(p = o /\ j = i), ~(p = o /\ k = i), Shift(p, j) = Shift(p, k)
      PROVE  j = k
  <2>1. j \in Int /\ k \in Int
    BY <1>4 DEF At
  <2> QED BY <1>1, <1>4, <2>1
<1>5. /\ \A p, j : At(R, u, p, j) <=> <<p, j>> \in PlacesOf(R, u)
      /\ \A x \in PlacesOf(R, u) : \E p, j : x = <<p, j>> /\ At(R, u, p, j)
      /\ \A p, j : At(Q, u, p, j) <=> <<p, j>> \in B
      /\ \A x \in B : \E p, j : x = <<p, j>> /\ At(Q, u, p, j)
  BY PlaceIn
<1> HIDE DEF B
<1>6. /\ \A x \in A : \E p, j : /\ x = <<p, j>> /\ At(R, u, p, j)
                                /\ ~(p = o /\ j = i)
      /\ \A p, j : At(R, u, p, j) /\ ~(p = o /\ j = i) => <<p, j>> \in A
  BY <1>5
<1> HIDE DEF A
<1>7. ASSUME NEW x \in A, NEW p, NEW j, x = <<p, j>>
      PROVE  f[x] = <<p, Shift(p, j)>>
  <2> HIDE DEF Shift
  <2>1. f[x] = <<x[1], Shift(x[1], x[2])>>
    OBVIOUS
  <2> HIDE DEF f
  <2>2. x[1] = p /\ x[2] = j
    BY <1>7
  <2> QED BY <2>1, <2>2
<1>8. f \in [A -> B]
  <2>1. \A x \in A : <<x[1], Shift(x[1], x[2])>> \in B
    <3> SUFFICES ASSUME NEW x \in A PROVE <<x[1], Shift(x[1], x[2])>> \in B
      OBVIOUS
    <3>1. PICK p, j : x = <<p, j>> /\ At(R, u, p, j) /\ ~(p = o /\ j = i)
      BY <1>6
    <3>2. x[1] = p /\ x[2] = j
      BY <3>1
    <3> HIDE DEF Shift
    <3> QED BY <1>2, <1>5, <3>1, <3>2
  <2> QED BY <2>1
<1> HIDE DEF f, Shift
<1>9. ASSUME NEW x \in A, NEW y \in A, f[x] = f[y] PROVE x = y
  <2>1. PICK p, j : x = <<p, j>> /\ At(R, u, p, j) /\ ~(p = o /\ j = i)
    BY <1>6
  <2>2. PICK q, k : y = <<q, k>> /\ At(R, u, q, k) /\ ~(q = o /\ k = i)
    BY <1>6
  <2>3. <<p, Shift(p, j)>> = <<q, Shift(q, k)>>
    BY <1>7, <1>9, <2>1, <2>2
  <2>4. p = q /\ Shift(p, j) = Shift(p, k)
    BY <2>3
  <2>5. j = k
    BY <1>4, <2>1, <2>2, <2>4
  <2> QED BY <2>1, <2>2, <2>4, <2>5
<1>10. ASSUME NEW y \in B PROVE \E x \in A : f[x] = y
  <2>1. PICK p, j : y = <<p, j>> /\ At(Q, u, p, j)
    BY <1>5
  <2>2. PICK k : At(R, u, p, k) /\ ~(p = o /\ k = i) /\ Shift(p, k) = j
    BY <1>3, <2>1
  <2>3. <<p, k>> \in A
    BY <1>6, <2>2
  <2>4. PICK x \in A : x = <<p, k>>
    BY <2>3
  <2>5. f[x] = y
    BY <1>7, <2>1, <2>2, <2>4
  <2> QED BY <2>5
<1>11. f \in Bijection(A, B)
  BY <1>8, <1>9, <1>10 DEF Bijection, Injection, Surjection, IsInjective
<1> QED BY <1>11 DEF ExistsBijection, A, B


\* m_lockRequestsCount counts the requests of its thread, which are finitely many.
CountInv ==
    \A t \in Thread : IsFiniteSet(Places(t)) /\ reqCount[t] = Cardinality(Places(t))

\* A request less for t, at the i-th place of the queue of o.
LEMMA CountDrop ==
    ASSUME TypeOK, CountInv, NEW t \in Thread, NEW o \in Obj,
           NEW i \in 1..Len(requests[o]), requests[o][i] = t,
           requests' = [requests EXCEPT ![o] = Drop(@, i)],
           reqCount' = [reqCount EXCEPT ![t] = @ - 1]
    PROVE  CountInv'
<1>1. PICK Q : Q = requests'
  OBVIOUS
<1>2. PICK R : R = requests
  OBVIOUS
<1>3. ASSUME NEW u \in Thread PROVE (IsFiniteSet(Places(u)) /\ reqCount[u] = Cardinality(Places(u)))'
  <2>1. PlacesOf(R, u) = Places(u) /\ PlacesOf(Q, u) = Places(u)'
    BY <1>1, <1>2 DEF PlacesOf, Places
  <2>2. ExistsBijection(PlacesOf(R, u) \ {<<o, i>>}, PlacesOf(Q, u))
    BY <1>1, <1>2, DropPlace DEF TypeOK
  <2>3. IsFiniteSet(PlacesOf(R, u)) /\ reqCount[u] = Cardinality(PlacesOf(R, u))
    BY <2>1 DEF CountInv
  <2>4. <<o, i>> \in PlacesOf(R, u) <=> u = t
    BY <1>2, PlaceIn DEF At
  <2>5. /\ IsFiniteSet(PlacesOf(R, u) \ {<<o, i>>})
        /\ Cardinality(PlacesOf(R, u) \ {<<o, i>>}) =
             IF u = t THEN reqCount[u] - 1 ELSE reqCount[u]
    BY <2>3, <2>4, FS_RemoveElement
  <2>6. /\ IsFiniteSet(PlacesOf(Q, u))
        /\ Cardinality(PlacesOf(Q, u)) = IF u = t THEN reqCount[u] - 1 ELSE reqCount[u]
    BY <2>2, <2>5, FS_Bijection
  <2>7. reqCount'[u] = IF u = t THEN reqCount[u] - 1 ELSE reqCount[u]
    BY DEF TypeOK
  <2> QED BY <2>1, <2>6, <2>7
<1> QED BY <1>3 DEF CountInv

LEMMA CountStep ==
    ASSUME ListInv, CountInv, [Next]_vars
    PROVE  CountInv'
<1> USE DEF ListInv
<1>0. TypeOK /\ ListsOK
  BY DEF TypeOK, ListsOK
<1>1. CASE UNCHANGED <<requests, reqCount>>
  <2>1. \A t : Places(t)' = Places(t)
    BY <1>1 DEF Places
  <2> QED BY <1>1, <2>1 DEF CountInv
<1>2. ASSUME NEW t \in Thread, NEW o \in Obj, EnterQueued(t, o) PROVE CountInv'
  <2>1. PICK R \in [Obj -> Seq(Thread)] : R = requests
    BY DEF TypeOK
  <2>2. PICK Q : Q = requests'
    OBVIOUS
  <2>3. Q = [R EXCEPT ![o] = Append(@, t)] /\ reqCount' = [reqCount EXCEPT ![t] = @ + 1]
    BY <1>2, <2>1, <2>2 DEF EnterQueued
  <2>p. PICK n \in Nat : n = Len(R[o])
    OBVIOUS
  <2>x. PICK x : x = <<o, n + 1>>
    OBVIOUS
  <2>q. Appended(R, Q, o, t, n)
    <3>1. R[o] \in Seq(Thread) /\ Q[o] = Append(R[o], t)
      BY <2>3
    <3> QED BY <2>3, <2>p, <3>1 DEF Appended
  <2>4. /\ PlacesOf(Q, t) = PlacesOf(R, t) \cup {x}
        /\ x \notin PlacesOf(R, t)
        /\ \A u : u # t => PlacesOf(Q, u) = PlacesOf(R, u)
    <3>0. \A u : PlacesOf(Q, u) = PlacesOf(R, u) \cup IF u = t THEN {<<o, n + 1>>} ELSE {}
      BY <2>p, <2>q, AppendPlace
    <3>1. PlacesOf(Q, t) = PlacesOf(R, t) \cup {<<o, n + 1>>}
      BY <3>0
    <3>2. \A u : u # t => PlacesOf(Q, u) = PlacesOf(R, u)
      BY <3>0
    <3>3. <<o, n + 1>> \notin PlacesOf(R, t)
      <4>1. At(R, t, o, n + 1) <=> <<o, n + 1>> \in PlacesOf(R, t)
        BY PlaceIn
      <4>2. n + 1 \notin 1..Len(R[o])
        BY <2>p
      <4> QED BY <4>1, <4>2 DEF At
    <3> QED BY <2>x, <3>1, <3>2, <3>3
  <2>5. \A u : PlacesOf(R, u) = Places(u) /\ PlacesOf(Q, u) = Places(u)'
    BY <2>1, <2>2 DEF PlacesOf, Places
  <2>6. \A u \in Thread : reqCount'[u] = IF u = t THEN reqCount[u] + 1 ELSE reqCount[u]
    BY <2>3 DEF TypeOK
  <2>7. \A u \in Thread : /\ IsFiniteSet(PlacesOf(R, u))
                          /\ reqCount[u] = Cardinality(PlacesOf(R, u))
    BY <2>5 DEF CountInv
  <2>8. IsFiniteSet(PlacesOf(Q, t)) /\ Cardinality(PlacesOf(Q, t)) = reqCount[t] + 1
    BY <2>4, <2>7, FS_AddElement
  <2>9. \A u \in Thread : /\ IsFiniteSet(PlacesOf(Q, u))
                          /\ reqCount'[u] = Cardinality(PlacesOf(Q, u))
    BY <2>4, <2>6, <2>7, <2>8
  <2> QED BY <2>5, <2>9 DEF CountInv
<1>3. ASSUME NEW o \in Obj, ChangeOwner(o) PROVE CountInv'
  <2>1. CASE Freed(o)
    BY <1>1, <2>1 DEF Freed
  <2>2. ASSUME NEW t \in Thread, Handed(o, t) PROVE CountInv'
    <3>1. 1 \in 1..Len(requests[o]) /\ requests[o][1] = t
      BY <2>2 DEF Handed, TypeOK
    <3> QED BY <2>2, <3>1, CountDrop DEF Handed, Granted
  <2>3. Freed(o) \/ \E t \in Thread : Handed(o, t)
    BY <1>0, <1>3, ChangeOwnerCases
  <2> QED BY <2>1, <2>2, <2>3
<1>4. ASSUME NEW o \in Obj, NEW i \in 1..Len(requests[o]), PurgeStep(o, i)
      PROVE  CountInv'
  <2>1. PICK t \in Thread : t = dying
    BY <1>4 DEF PurgeStep, LoopOK
  <2>2. /\ requests[o][i] = t /\ requests' = [requests EXCEPT ![o] = Drop(@, i)]
        /\ reqCount' = [reqCount EXCEPT ![t] = @ - 1]
    BY <1>4, <2>1 DEF PurgeStep, DropLockRequest
  <2> QED BY <2>2, CountDrop
<1>5. ASSUME NEW o \in Obj, NEW t \in Thread,
             EnterFree(t, o) \/ EnterRecursive(t, o) \/ Exit(t, o)
      PROVE  CountInv'
  BY <1>1, <1>3, <1>5 DEF EnterFree, EnterRecursive, Exit
<1>6. ASSUME NEW o \in Obj, ReleaseStep(o) PROVE CountInv'
  BY <1>3, <1>6 DEF ReleaseStep
<1>7. CASE UNCHANGED lockVars
  BY <1>1, <1>7 DEF lockVars
<1> QED BY <1>2, <1>4, <1>5, <1>6, <1>7, LockSteps

\* A thread in a queue has a place.
LEMMA QueuedPlace ==
    ASSUME NEW R, NEW t, IsFiniteSet(PlacesOf(R, t))
    PROVE  /\ Cardinality(PlacesOf(R, t)) \in Nat
           /\ \A o \in Obj : t \in Members(R[o]) => Cardinality(PlacesOf(R, t)) >= 1
<1>1. Cardinality(PlacesOf(R, t)) \in Nat
  BY FS_CardinalityType
<1>2. ASSUME NEW o \in Obj, t \in Members(R[o])
      PROVE  Cardinality(PlacesOf(R, t)) # 0
  <2>1. PICK i \in 1..Len(R[o]) : R[o][i] = t
    BY <1>2 DEF Members
  <2>2. <<o, i>> \in PlacesOf(R, t)
    BY <2>1, PlaceIn DEF At
  <2>3. PlacesOf(R, t) # {}
    BY <2>2
  <2> QED BY <1>1, <2>3, FS_EmptySet
<1> QED BY <1>1, <1>2

\* What the count says of the queues.
LEMMA CountQueues ==
    ASSUME CountInv, NEW t \in Thread
    PROVE  /\ reqCount[t] \in Nat
           /\ \A o \in Obj : t \in Members(requests[o]) => reqCount[t] >= 1
<1>1. PICK R : R = requests
  OBVIOUS
<1>2. PlacesOf(R, t) = Places(t)
  BY <1>1 DEF PlacesOf, Places
<1>3. IsFiniteSet(PlacesOf(R, t)) /\ reqCount[t] = Cardinality(PlacesOf(R, t))
  BY <1>2 DEF CountInv
<1> QED BY <1>1, <1>3, QueuedPlace

\* The same of the next state.
LEMMA CountQueuesNext ==
    ASSUME CountInv', NEW t \in Thread
    PROVE  /\ reqCount'[t] \in Nat
           /\ \A o \in Obj : t \in Members(requests'[o]) => reqCount'[t] >= 1
<1>1. PICK R : R = requests'
  OBVIOUS
<1>2. PlacesOf(R, t) = Places(t)'
  BY <1>1 DEF PlacesOf, Places
<1>3. IsFiniteSet(PlacesOf(R, t)) /\ reqCount'[t] = Cardinality(PlacesOf(R, t))
  BY <1>2 DEF CountInv
<1> QED BY <1>1, <1>3, QueuedPlace

\* Nobody has asked for a lock.
LEMMA InitCountInv == Init => CountInv
<1> SUFFICES ASSUME Init PROVE CountInv
  OBVIOUS
<1>1. \A t \in Thread : Places(t) = {} /\ reqCount[t] = 0
  BY DEF Init, Places
<1> QED BY <1>1, FS_EmptySet DEF CountInv

\* m_lockRequestsCount is exact, for any number of threads and locks.
THEOREM CountsExact == Spec => []RequestCountExact
<1>1. CountInv => RequestCountExact
  BY DEF CountInv, RequestCountExact
<1> QED BY <1>1, CountStep, InitCountInv, InitListInv, NextListInv, PTL DEF Spec

-----------------------------------------------------------------------------
(* Who waits for a lock, and who owns it *)

\* A thread in IL or in a call, that has not been aborted and is not dying.
Fresh(t) == ~aborted[t] /\ frame[t] # "none" /\ dying # t

\* An exception inside a blocking call is an abort, and a call that goes on has
\* no request left: only the stale requests of an aborted thread outlive it.
Claim(t) ==
    /\ exc[t] /\ frame[t] \notin {"il", "none"} => aborted[t]
    /\ frame[t] = "enter" /\ ~exc[t] /\ (status[t] = "Ready" \/ t \in ready) =>
         reqCount[t] = 0
    /\ Fresh(t) => reqCount[t] <= 1 /\ (frame[t] # "enter" => reqCount[t] = 0)
    /\ status[t] = "Unstarted" => reqCount[t] = 0
    /\ frame[t] = "enter" => entering[t] \in Obj

\* A thread that enters o is queued or the owner, and seldom both.
Queue(o, t) ==
    /\ frame[t] = "enter" /\ status[t] # "Terminated" /\ entering[t] = o =>
         t \in Members(requests[o]) \/ owner[o] = t
    /\ owner[o] = t /\ t \in Members(requests[o]) => ~Fresh(t)

TodoOK == step = "release" => \A o \in todo : owner[o] = dying

LockInv ==
    /\ SeatInv /\ SuspendInv /\ NoOrphanedRequest /\ CountInv /\ TodoOK
    /\ \A t \in Thread : Claim(t)
    /\ \A o \in Obj, t \in Thread : Queue(o, t)

\* A step that leaves a thread's own state alone.
Alone(t) ==
    /\ status'[t] = status[t] /\ frame'[t] = frame[t] /\ entering'[t] = entering[t]
    /\ exc'[t] = exc[t] /\ aborted'[t] = aborted[t]
    /\ t \in ready' <=> t \in ready

\* A thread that is no longer dying is dead.
DyingStep == dying' = dying \/ dying = NONE \/ frame[dying] = "none"

LEMMA FreshKept ==
    ASSUME NEW t \in Thread, Alone(t), DyingStep
    PROVE  Fresh(t)' => Fresh(t)
BY ThreadsAssumption DEF Alone, DyingStep, Fresh

LEMMA ClaimKept ==
    ASSUME NEW t \in Thread, Claim(t), Alone(t), DyingStep, reqCount'[t] = reqCount[t]
    PROVE  Claim(t)'
<1>1. Fresh(t)' => Fresh(t)
  BY FreshKept
<1> QED BY <1>1 DEF Claim, Alone

LEMMA QueueKept ==
    ASSUME NEW t \in Thread, NEW o, Queue(o, t), Alone(t), DyingStep,
           owner'[o] = owner[o], requests'[o] = requests[o]
    PROVE  Queue(o, t)'
<1>1. Fresh(t)' => Fresh(t)
  BY FreshKept
<1>2. Members(requests[o])' = Members(requests[o])
  BY DEF Members
<1> QED BY <1>1, <1>2 DEF Queue, Alone

\* The thread t is started, stopped or moved; the locks are left alone.
LEMMA LockCall ==
    ASSUME LockInv, NEW t \in Thread, UNCHANGED <<owner, requests, reqCount>>, DyingStep,
           \A u \in Thread \ {t} : Alone(u), Claim(t)',
           (Fresh(t)' => Fresh(t)) \/ reqCount[t] = 0,
           frame'[t] = "enter" /\ status'[t] # "Terminated" =>
              frame[t] = "enter" /\ status[t] # "Terminated" /\ entering'[t] = entering[t]
    PROVE  /\ \A u \in Thread : Claim(u)'
           /\ \A o \in Obj, u \in Thread : Queue(o, u)'
<1>1. \A u \in Thread : Claim(u)'
  BY ClaimKept DEF LockInv
<1>2. ASSUME NEW o \in Obj, NEW u \in Thread \ {t} PROVE Queue(o, u)'
  BY QueueKept DEF LockInv
<1>3. ASSUME NEW o \in Obj PROVE Queue(o, t)'
  <2>1. Queue(o, t)
    BY DEF LockInv
  <2>2. Members(requests[o])' = Members(requests[o])
    BY DEF Members
  <2>3. reqCount[t] = 0 => t \notin Members(requests[o])
    BY CountQueues DEF LockInv
  <2> QED BY <2>1, <2>2, <2>3 DEF Queue
<1> QED BY <1>1, <1>2, <1>3

LEMMA AloneKept ==
    ASSUME LockInv, UNCHANGED <<owner, requests, reqCount>>, DyingStep,
           \A u \in Thread : Alone(u)
    PROVE  /\ \A u \in Thread : Claim(u)'
           /\ \A o \in Obj, u \in Thread : Queue(o, u)'
<1>1. \A u \in Thread : Claim(u)'
  BY ClaimKept DEF LockInv
<1>2. ASSUME NEW o \in Obj, NEW u \in Thread PROVE Queue(o, u)'
  BY QueueKept DEF LockInv
<1> QED BY <1>1, <1>2

\* The lock o is handed over: the dying thread or the running one gives it up.
LEMMA LockGranted ==
    ASSUME LockInv, NEW o \in Obj, NEW t \in Thread, Handed(o, t),
           UNCHANGED <<codeVars, suspended, aborted, exc, dying>>,
           owner[o] \in Thread => frame[owner[o]] # "enter", step # "signal"
    PROVE  /\ \A u \in Thread : Claim(u)'
           /\ \A p \in Obj, u \in Thread : Queue(p, u)'
<1> USE DEF LockInv, SeatInv, ListInv
<1>0. TypeOK /\ NONE \notin Thread
  BY ThreadsAssumption DEF TypeOK
<1>1. /\ owner' = [owner EXCEPT ![o] = t]
      /\ requests' = [requests EXCEPT ![o] = Drop(@, 1)]
      /\ reqCount' = [reqCount EXCEPT ![t] = @ - 1]
      /\ requests[o][1] = t /\ t \in Members(requests[o]) /\ Granted(t)
  BY DEF Handed, Granted
<1>2. reqCount[t] >= 1 /\ reqCount'[t] = reqCount[t] - 1 /\ reqCount[t] \in Nat
  BY <1>0, <1>1, CountQueues DEF TypeOK
<1>3. /\ \A u \in Thread \ {t} : Alone(u)
      /\ \A u \in Thread \ {t} : reqCount'[u] = reqCount[u]
      /\ frame' = frame /\ entering' = entering /\ exc' = exc /\ aborted' = aborted
      /\ dying' = dying
  <2>1. \A u \in Thread \ {t} : status'[u] = status[u] /\ (u \in ready' <=> u \in ready)
    BY <1>0, <1>1 DEF Granted, Moved, Relinked, TypeOK
  <2> QED BY <1>0, <1>1, <2>1 DEF Alone, codeVars, TypeOK
<1>4. DyingStep
  BY <1>3 DEF DyingStep
<1>5. \A u \in Thread \ {t} : Claim(u)'
  BY <1>3, <1>4, ClaimKept
<1>6. /\ reqCount[t] = 1 \/ (status'[t] = "Waiting" /\ (t \in ready' <=> t \in ready))
      /\ status'[t] \in {"Ready", "Waiting"}
  BY <1>0, <1>1 DEF Granted, TypeOK
<1>7. Claim(t)'
  <2>1. Claim(t)
    OBVIOUS
  <2>2. Fresh(t)' => Fresh(t)
    BY <1>3 DEF Fresh
  <2> QED BY <1>2, <1>3, <1>6, <2>1, <2>2 DEF Claim
<1>8. CountInv'
  <2>1. 1 \in 1..Len(requests[o])
    BY <1>0 DEF Handed, TypeOK
  <2> QED BY <1>0, <1>1, <2>1, CountDrop
<1>9. \A u \in Thread : /\ Fresh(u)' => Fresh(u)
                        /\ frame[u] = "enter" => status[u] # "Terminated"
  BY <1>3 DEF Fresh, Seat
<1>10. ASSUME NEW p \in Obj, p # o, NEW u \in Thread PROVE Queue(p, u)'
  <2>1. owner'[p] = owner[p] /\ requests'[p] = requests[p]
    BY <1>0, <1>1, <1>10 DEF TypeOK
  <2>2. Members(requests[p])' = Members(requests[p])
    BY <2>1 DEF Members
  <2>3. Queue(p, u)
    OBVIOUS
  <2>4. Fresh(u)' => Fresh(u)
    BY <1>9
  <2>5. frame[u] = "enter" => status[u] # "Terminated"
    BY <1>9
  <2> QED BY <1>3, <2>1, <2>2, <2>3, <2>4, <2>5 DEF Queue
<1>11. owner'[o] = t /\ requests'[o] = Drop(requests[o], 1)
  BY <1>0, <1>1 DEF TypeOK
<1>12. ASSUME NEW u \in Thread, u # t PROVE Queue(o, u)'
  <2>1. requests[o] \in Seq(Thread) /\ requests[o] # <<>> /\ Head(requests[o]) = t
    BY <1>0, <1>1 DEF TypeOK, Handed
  <2>2. u \in Members(requests[o]) => u \in Members(Drop(requests[o], 1))
    BY <1>12, <2>1, DropFirst
  <2>3. u \in Members(requests[o]) => u \in Members(requests'[o])
    BY <1>11, <2>2
  <2>4. frame[u] = "enter" => owner[o] # u
    OBVIOUS
  <2>5. Queue(o, u)
    OBVIOUS
  <2>6. frame[u] = "enter" => status[u] # "Terminated"
    BY <1>9
  <2>7. owner'[o] # u
    BY <1>11, <1>12
  <2> QED BY <1>3, <2>3, <2>4, <2>5, <2>6, <2>7 DEF Queue
<1>13. Queue(o, t)'
  <2>1. t \in Members(requests'[o]) => reqCount'[t] >= 1
    BY <1>8, CountQueuesNext
  <2>2. Claim(t)
    OBVIOUS
  <2>3. t \in Members(requests'[o]) => ~Fresh(t)
    BY <1>2, <2>1, <2>2 DEF Claim
  <2>4. Fresh(t)' => Fresh(t)
    BY <1>9
  <2>5. owner'[o] = t
    BY <1>11
  <2> QED BY <2>3, <2>4, <2>5 DEF Queue
<1>14. \A u \in Thread : Claim(u)'
  BY <1>5, <1>7
<1>15. \A p \in Obj, u \in Thread : Queue(p, u)'
  BY <1>10, <1>12, <1>13
<1> QED BY <1>14, <1>15

\* A lock that nobody waits for is taken or given back.
LEMMA LockUnqueued ==
    ASSUME LockInv, NEW o \in Obj, NEW x, owner' = [owner EXCEPT ![o] = x],
           requests[o] = <<>>, UNCHANGED <<requests, reqCount, dying>>,
           \A u \in Thread : Alone(u), owner[o] \in Thread => frame[owner[o]] # "enter"
    PROVE  /\ \A u \in Thread : Claim(u)'
           /\ \A p \in Obj, u \in Thread : Queue(p, u)'
<1>0. DyingStep
  BY DEF DyingStep
<1>1. \A u \in Thread : Claim(u)'
  BY <1>0, ClaimKept DEF LockInv
<1>2. ASSUME NEW p \in Obj, NEW u \in Thread PROVE Queue(p, u)'
  <2>1. CASE p # o
    <3>1. owner'[p] = owner[p]
      BY <2>1 DEF LockInv, SeatInv, ListInv, TypeOK
    <3> QED BY <1>0, <3>1, QueueKept DEF LockInv
  <2>2. CASE p = o
    <3>1. u \notin Members(requests[o]) /\ u \notin Members(requests'[o])
      BY DEF Members
    <3>2. Queue(o, u)
      BY DEF LockInv
    <3> QED BY <2>2, <3>1, <3>2 DEF Queue, Alone
  <2> QED BY <2>1, <2>2
<1> QED BY <1>1, <1>2

\* The engine runs, moves or ends the thread t.
LEMMA LockEngine ==
    ASSUME LockInv, NEW t \in Thread, Engine(t) \/ Kill(t)
    PROVE  /\ \A u \in Thread : Claim(u)'
           /\ \A o \in Obj, u \in Thread : Queue(o, u)'
<1> DEFINE Goal == /\ \A u \in Thread : Claim(u)'
                   /\ \A o \in Obj, u \in Thread : Queue(o, u)'
<1>0. TypeOK /\ ListsOK /\ NONE \notin Thread /\ Claim(t) /\ Seat(t) /\ StepOK
  BY ThreadsAssumption DEF TypeOK, ListsOK, LockInv, SeatInv, ListInv
<1>1. CASE Dispatch(t)
  <2>1. \A u \in Thread : Alone(u)
    BY <1>1 DEF Dispatch, Alone, flagVars, codeVars, listVars
  <2>2. UNCHANGED <<owner, requests, reqCount>> /\ DyingStep
    BY <1>1 DEF Dispatch, lockVars, loopVars, DyingStep
  <2> QED BY <2>1, <2>2, AloneKept
<1>2. CASE QuantumExpired(t)
  <2>1. /\ UNCHANGED <<flagVars, codeVars, lockVars, loopVars>>
        /\ Moved(t, status[t] = "Ready" /\ ~suspended[t])
    BY <1>0, <1>2, PutMoves DEF QuantumExpired, TypeOK
  <2>2. \A u \in Thread \ {t} : Alone(u)
    BY <2>1 DEF Moved, Relinked, Alone, flagVars, codeVars
  <2>3. (t \in ready' => status[t] = "Ready") /\ DyingStep
    BY <2>1 DEF Moved, Relinked, loopVars, DyingStep
  <2>4. Fresh(t)' => Fresh(t)
    BY <2>1 DEF Fresh, flagVars, codeVars, loopVars
  <2>5. Claim(t)'
    BY <1>0, <2>1, <2>3, <2>4 DEF Claim, flagVars, codeVars, lockVars
  <2> QED BY <2>1, <2>2, <2>3, <2>4, <2>5, LockCall DEF lockVars, flagVars, codeVars
<1>3. CASE NativeReturn(t) \/ Catch(t)
  <2>1. /\ step = "run" /\ t \in ready /\ frame[t] # "none"
        /\ exc[t] \/ frame[t] \in {"enter", "sleep", "wait"}
        /\ exc' = [exc EXCEPT ![t] = FALSE]
        /\ frame' = [frame EXCEPT ![t] = "il"] /\ entering' = [entering EXCEPT ![t] = NONE]
        /\ UNCHANGED <<status, suspended, aborted, listVars, lockVars, loopVars>>
    <3>1. CASE NativeReturn(t)
      <4>1. exc' = [exc EXCEPT ![t] = FALSE]
        BY <1>0, <3>1 DEF NativeReturn, flagVars, TypeOK
      <4> QED BY <1>0, <3>1, <4>1 DEF NativeReturn, flagVars, StepOK
    <3>2. CASE Catch(t)
      BY <1>0, <3>2 DEF Catch, StepOK
    <3> QED BY <1>3, <3>1, <3>2
  <2>2. \A u \in Thread \ {t} : Alone(u)
    BY <1>0, <2>1 DEF Alone, listVars, TypeOK
  <2>3. frame'[t] = "il" /\ ~exc'[t] /\ (Fresh(t)' => Fresh(t)) /\ DyingStep
    BY <1>0, <2>1 DEF TypeOK, Fresh, DyingStep, loopVars
  <2>4. status[t] # "Unstarted"
    BY <1>0, <2>1 DEF Seat
  <2>5. Fresh(t) => reqCount[t] = 0
    BY <1>0, <2>1 DEF Claim, Fresh
  <2>6. Claim(t)'
    BY <2>1, <2>3, <2>4, <2>5 DEF Claim, lockVars
  <2> QED BY <2>1, <2>2, <2>3, <2>6, LockCall DEF lockVars
<1>4. CASE Leave(t)
  <2>1. /\ frame[t] = "il" /\ exc' = [exc EXCEPT ![t] = TRUE]
        /\ UNCHANGED <<status, aborted, codeVars, listVars, lockVars, loopVars>>
    BY <1>4 DEF Leave, InIL
  <2>2. \A u \in Thread \ {t} : Alone(u)
    BY <1>0, <2>1 DEF Alone, listVars, codeVars, TypeOK
  <2>3. (Fresh(t)' => Fresh(t)) /\ DyingStep
    BY <2>1 DEF Fresh, DyingStep, loopVars, codeVars
  <2>4. Claim(t)'
    BY <1>0, <2>1, <2>3 DEF Claim, lockVars, codeVars
  <2> QED BY <2>1, <2>2, <2>3, <2>4, LockCall DEF lockVars, codeVars
<1>5. CASE SleepExpired(t) \/ WaitExpired(t)
  <2>1. PICK b \in BOOLEAN : Restart(t, b)
    BY <1>5 DEF SleepExpired, WaitExpired
  <2>2. /\ status' = [status EXCEPT ![t] = "Ready"] /\ Moved(t, ~suspended[t])
        /\ UNCHANGED <<aborted, exc, codeVars, lockVars, loopVars>>
    BY <1>0, <1>5, <2>1, RestartMoves DEF SleepExpired, WaitExpired
  <2>3. frame[t] \in {"sleep", "wait"}
    <3>1. sleeping[t] \/ wait[t].timed
      BY <1>5 DEF SleepExpired, WaitExpired
    <3>2. ~NoWait.timed
      BY DEF NoWait
    <3>3. sleeping[t] \/ wait[t] # NoWait
      BY <3>1, <3>2
    <3> QED BY <1>0, <3>3 DEF Seat
  <2>4. \A u \in Thread \ {t} : Alone(u)
    BY <1>0, <2>2 DEF Alone, Moved, Relinked, codeVars, TypeOK
  <2>5. (Fresh(t)' => Fresh(t)) /\ DyingStep /\ status'[t] = "Ready"
    BY <1>0, <2>2 DEF Fresh, DyingStep, loopVars, codeVars, TypeOK
  <2>6. Claim(t)'
    BY <1>0, <2>2, <2>3, <2>5 DEF Claim, lockVars, codeVars
  <2> QED BY <2>2, <2>3, <2>4, <2>5, <2>6, LockCall DEF lockVars, codeVars
<1>6. CASE ThreadExit(t) \/ Kill(t)
  <2>1. Passivate(t) /\ step = "run"
    BY <1>6 DEF ThreadExit, Kill
  <2>2. /\ status' = [status EXCEPT ![t] = "Terminated"]
        /\ exc' = [exc EXCEPT ![t] = FALSE] /\ aborted' = [aborted EXCEPT ![t] = FALSE]
        /\ ready' = ready \ {t} /\ dying' = t /\ UNCHANGED <<codeVars, lockVars>>
    BY <2>1 DEF Passivate
  <2>3. \A u \in Thread \ {t} : Alone(u)
    BY <1>0, <2>2 DEF Alone, codeVars, TypeOK
  <2>4. status'[t] = "Terminated" /\ ~exc'[t] /\ ~Fresh(t)' /\ DyingStep
    BY <1>0, <2>1, <2>2 DEF Fresh, DyingStep, TypeOK, StepOK
  <2>5. Claim(t)'
    BY <1>0, <2>2, <2>4 DEF Claim, codeVars
  <2> QED BY <2>2, <2>3, <2>4, <2>5, LockCall DEF lockVars
<1> QED BY <1>1, <1>2, <1>3, <1>4, <1>5, <1>6 DEF Engine

\* A thread calls Monitor.Enter or Monitor.Exit.
LEMMA LockMonitor ==
    ASSUME LockInv, NEW t \in Thread, MonitorCall(t)
    PROVE  /\ \A u \in Thread : Claim(u)'
           /\ \A o \in Obj, u \in Thread : Queue(o, u)'
<1> DEFINE Goal == /\ \A u \in Thread : Claim(u)'
                   /\ \A o \in Obj, u \in Thread : Queue(o, u)'
<1>0. /\ TypeOK /\ ListsOK /\ NONE \notin Thread /\ Claim(t) /\ Seat(t) /\ StepOK
      /\ NoOrphanedRequest
  BY ThreadsAssumption DEF TypeOK, ListsOK, LockInv, SeatInv, ListInv
<1> SUFFICES ASSUME NEW o \in Obj,
                    \/ EnterFree(t, o) \/ EnterRecursive(t, o) \/ EnterQueued(t, o)
                    \/ Exit(t, o) \/ ExitNotOwner(t, o)
             PROVE  Goal
  BY DEF MonitorCall
<1>1. InIL(t) /\ step = "run" /\ frame[t] = "il" /\ ~exc[t] /\ UNCHANGED loopVars
  BY DEF EnterFree, EnterRecursive, EnterQueued, Exit, ExitNotOwner, InIL
<1>2. dying' = dying /\ DyingStep
  BY <1>1 DEF loopVars, DyingStep
<1>3. CASE EnterFree(t, o)
  <2>1. \A u \in Thread : Alone(u)
    BY <1>3 DEF EnterFree, Alone, flagVars, codeVars, listVars
  <2>2. requests[o] = <<>> /\ owner[o] = NONE
    BY <1>0, <1>3 DEF EnterFree, NoOrphanedRequest
  <2>3. owner' = [owner EXCEPT ![o] = t] /\ UNCHANGED <<requests, reqCount>>
    BY <1>3 DEF EnterFree
  <2> QED BY <1>0, <1>2, <2>1, <2>2, <2>3, LockUnqueued
<1>4. CASE EnterRecursive(t, o)
  <2>1. \A u \in Thread : Alone(u)
    BY <1>4 DEF EnterRecursive, Alone, flagVars, codeVars, listVars
  <2> QED BY <1>2, <1>4, <2>1, AloneKept DEF EnterRecursive
<1>5. CASE EnterQueued(t, o)
  <2>1. /\ owner' = owner /\ owner[o] # t
        /\ requests' = [requests EXCEPT ![o] = Append(@, t)]
        /\ reqCount' = [reqCount EXCEPT ![t] = @ + 1]
        /\ entering' = [entering EXCEPT ![t] = o]
        /\ status' = [status EXCEPT ![t] = "Waiting"]
        /\ frame' = [frame EXCEPT ![t] = "enter"]
        /\ ready' = ready \ {t} /\ UNCHANGED <<aborted, exc>>
    BY <1>5 DEF EnterQueued, Block, LinkWaiting
  <2>2. \A u \in Thread \ {t} : Alone(u) /\ reqCount'[u] = reqCount[u]
    BY <1>0, <2>1 DEF Alone, TypeOK
  <2>3. \A u \in Thread \ {t} : Claim(u)'
    BY <1>2, <2>2, ClaimKept DEF LockInv
  <2>4. /\ status'[t] = "Waiting" /\ frame'[t] = "enter" /\ entering'[t] = o
        /\ reqCount'[t] = reqCount[t] + 1 /\ ~exc'[t] /\ t \notin ready'
        /\ reqCount[t] \in Int
    BY <1>0, <1>1, <2>1 DEF TypeOK
  <2>5. Fresh(t)' => Fresh(t)
    BY <1>1, <1>2, <2>1 DEF Fresh
  <2>6. Claim(t)'
    BY <1>0, <1>1, <2>4, <2>5 DEF Claim
  <2>7. ASSUME NEW p \in Obj, NEW u \in Thread PROVE Queue(p, u)'
    <3>1. CASE p # o
      <4>1. requests'[p] = requests[p] /\ owner'[p] = owner[p]
        BY <1>0, <2>1, <3>1 DEF TypeOK
      <4>2. CASE u # t
        BY <1>2, <2>2, <4>1, <4>2, QueueKept DEF LockInv
      <4>3. CASE u = t
        <5>1. Members(requests[p])' = Members(requests[p])
          BY <4>1 DEF Members
        <5>2. Queue(p, t)
          BY DEF LockInv
        <5> QED BY <2>4, <2>5, <3>1, <4>1, <4>3, <5>1, <5>2 DEF Queue
      <4> QED BY <4>2, <4>3
    <3>2. CASE p = o
      <4>1. requests[o] \in Seq(Thread) /\ requests'[o] = Append(requests[o], t)
        BY <1>0, <2>1 DEF TypeOK
      <4>2. /\ \A i \in 1..Len(requests[o]) : Append(requests[o], t)[i] = requests[o][i]
            /\ Append(requests[o], t)[Len(requests[o]) + 1] = t
            /\ Len(Append(requests[o], t)) = Len(requests[o]) + 1
            /\ Len(requests[o]) \in Nat
        BY <4>1
      <4>3. Members(requests'[o]) = Members(requests[o]) \cup {t}
        BY <4>1, <4>2 DEF Members
      <4>4. CASE u # t
        <5>1. Queue(o, u)
          BY DEF LockInv
        <5>2. Alone(u) /\ (Fresh(u)' => Fresh(u))
          BY <1>2, <2>2, <4>4, FreshKept
        <5> QED BY <2>1, <3>2, <4>3, <4>4, <5>1, <5>2 DEF Queue, Alone
      <4>5. CASE u = t
        BY <2>1, <3>2, <4>3, <4>5 DEF Queue
      <4> QED BY <4>4, <4>5
    <3> QED BY <3>1, <3>2
  <2>8. \A u \in Thread : Claim(u)'
    BY <2>3, <2>6
  <2> QED BY <2>7, <2>8
<1>6. CASE Exit(t, o)
  <2>1. owner[o] = t /\ UNCHANGED <<suspended, aborted, exc, codeVars>>
    BY <1>6 DEF Exit
  <2>2. CASE UNCHANGED <<owner, requests, reqCount, status, listVars>>
    <3>1. \A u \in Thread : Alone(u)
      BY <2>1, <2>2 DEF Alone, codeVars, listVars
    <3> QED BY <1>2, <2>2, <3>1, AloneKept
  <2>3. CASE Freed(o)
    <3>1. \A u \in Thread : Alone(u)
      BY <2>1, <2>3 DEF Freed, Alone, codeVars
    <3> QED BY <1>1, <1>2, <2>1, <2>3, <3>1, LockUnqueued DEF Freed
  <2>4. ASSUME NEW u \in Thread, Handed(o, u) PROVE Goal
    BY <1>1, <1>2, <2>1, <2>4, LockGranted
  <2>5. \/ UNCHANGED <<owner, requests, reqCount, status, listVars>>
        \/ ChangeOwner(o)
    BY <1>6 DEF Exit
  <2>6. ChangeOwner(o) => Freed(o) \/ \E u \in Thread : Handed(o, u)
    BY <1>0, ChangeOwnerCases
  <2> QED BY <2>2, <2>3, <2>4, <2>5, <2>6
<1>7. CASE ExitNotOwner(t, o)
  <2>1. /\ exc' = [exc EXCEPT ![t] = TRUE]
        /\ UNCHANGED <<status, aborted, codeVars, listVars, lockVars>>
    BY <1>7 DEF ExitNotOwner
  <2>2. \A u \in Thread \ {t} : Alone(u)
    BY <1>0, <2>1 DEF Alone, listVars, codeVars, TypeOK
  <2>3. Fresh(t)' => Fresh(t)
    BY <1>2, <2>1 DEF Fresh, codeVars
  <2>4. Claim(t)'
    BY <1>0, <1>1, <2>1, <2>3 DEF Claim, lockVars, codeVars
  <2> QED BY <1>2, <2>1, <2>2, <2>3, <2>4, LockCall DEF lockVars, codeVars
<1> HIDE DEF Goal
<1> QED BY <1>3, <1>4, <1>5, <1>6, <1>7

\* A thread blocks in a wait or in Sleep.
LEMMA LockBlock ==
    ASSUME LockInv, NEW t \in Thread, InIL(t), NEW native \in {"sleep", "wait"},
           Block(t, native), UNCHANGED <<suspended, aborted, exc, entering, lockVars, loopVars>>
    PROVE  /\ \A u \in Thread : Claim(u)'
           /\ \A o \in Obj, u \in Thread : Queue(o, u)'
<1>0. TypeOK /\ Claim(t)
  BY DEF LockInv, SeatInv, ListInv
<1>1. /\ status' = [status EXCEPT ![t] = "Waiting"] /\ frame' = [frame EXCEPT ![t] = native]
      /\ ready' = ready \ {t}
  BY DEF Block, LinkWaiting
<1>2. \A u \in Thread \ {t} : Alone(u)
  BY <1>0, <1>1 DEF Alone, TypeOK
<1>3. /\ status'[t] = "Waiting" /\ frame'[t] = native /\ frame[t] = "il" /\ ~exc[t]
  BY <1>0, <1>1 DEF TypeOK, InIL
<1>4. (Fresh(t)' => Fresh(t)) /\ DyingStep
  BY <1>3 DEF Fresh, DyingStep, loopVars
<1>5. Claim(t)'
  BY <1>0, <1>3, <1>4 DEF Claim, lockVars
<1> QED BY <1>2, <1>3, <1>4, <1>5, LockCall DEF lockVars

LEMMA LockOther ==
    ASSUME LockInv, NEW t \in Thread, EventCall(t) \/ ThreadCall(t)
    PROVE  /\ \A u \in Thread : Claim(u)'
           /\ \A o \in Obj, u \in Thread : Queue(o, u)'
<1> DEFINE Goal == /\ \A u \in Thread : Claim(u)'
                   /\ \A o \in Obj, u \in Thread : Queue(o, u)'
<1>0. /\ TypeOK /\ ListsOK /\ NONE \notin Thread /\ StepOK
      /\ \A u \in Thread : Claim(u) /\ Seat(u)
  BY ThreadsAssumption DEF TypeOK, ListsOK, LockInv, SeatInv, ListInv
<1>1. ASSUME NEW w, WaitForSignal(t, w) PROVE Goal
  <2>1. CASE UNCHANGED <<status, codeVars, listVars, current, waitVars>>
    <3>1. (\A u \in Thread : Alone(u)) /\ DyingStep
      BY <1>1, <2>1 DEF WaitForSignal, Alone, codeVars, listVars, loopVars, DyingStep
    <3> QED BY <1>1, <3>1, AloneKept DEF WaitForSignal, lockVars
  <2>2. CASE Block(t, "wait") /\ UNCHANGED entering
    BY <1>1, <2>2, LockBlock DEF WaitForSignal
  <2> QED BY <1>1, <2>1, <2>2 DEF WaitForSignal
<1>2. ASSUME WaitEvent(t) PROVE Goal
  BY <1>1, <1>2 DEF WaitEvent
<1>3. ASSUME NEW e \in Event, Set(t, e) \/ Reset(t, e) PROVE Goal
  <2>1. (\A u \in Thread : Alone(u)) /\ DyingStep
    BY <1>3 DEF Set, Reset, Alone, flagVars, codeVars, listVars, loopVars, DyingStep
  <2> QED BY <1>3, <2>1, AloneKept DEF Set, Reset, lockVars
<1>4. ASSUME Sleep(t) PROVE Goal
  BY <1>4, LockBlock DEF Sleep
<1>5. ASSUME NEW u \in Thread, Start(t, u) PROVE Goal
  <2>1. /\ status[u] = "Unstarted" /\ status' = [status EXCEPT ![u] = "Ready"]
        /\ frame' = [frame EXCEPT ![u] = "il"] /\ ready' = ready \cup {u}
        /\ UNCHANGED <<aborted, exc, entering, lockVars, loopVars>>
    BY <1>5 DEF Start, InsertReady
  <2>2. \A v \in Thread \ {u} : Alone(v)
    BY <1>0, <2>1 DEF Alone, TypeOK
  <2>3. status'[u] = "Ready" /\ frame'[u] = "il" /\ reqCount[u] = 0 /\ DyingStep
    BY <1>0, <2>1 DEF TypeOK, Claim, DyingStep, loopVars
  <2>4. Claim(u)'
    BY <1>0, <2>1, <2>3 DEF Claim, lockVars
  <2> QED BY <2>1, <2>2, <2>3, <2>4, LockCall DEF lockVars
<1>6. ASSUME NEW u \in Thread, Join(t, u) PROVE Goal
  BY <1>1, <1>6 DEF Join
<1>7. ASSUME NEW u \in Thread, Suspend(t, u) \/ Resume(t, u) PROVE Goal
  <2>1. /\ u \in ready' => status[u] = "Ready"
        /\ \A v \in Thread \ {u} : v \in ready' <=> v \in ready
    <3>1. CASE Suspend(t, u)
      BY <3>1 DEF Suspend, PutInProperList, InsertReady, LinkWaiting
    <3>2. CASE Resume(t, u)
      BY <3>2 DEF Resume, PutInProperList, InsertReady, LinkWaiting
    <3> QED BY <1>7, <3>1, <3>2
  <2>2. UNCHANGED <<status, aborted, exc, codeVars, lockVars, loopVars>>
    BY <1>7 DEF Suspend, Resume
  <2>3. \A v \in Thread \ {u} : Alone(v)
    BY <2>1, <2>2 DEF Alone, codeVars
  <2>4. DyingStep /\ (Fresh(u)' => Fresh(u))
    BY <2>2 DEF loopVars, DyingStep, Fresh, codeVars
  <2>5. Claim(u)'
    BY <1>0, <2>1, <2>2, <2>4 DEF Claim, codeVars, lockVars
  <2> QED BY <2>2, <2>3, <2>4, <2>5, LockCall DEF lockVars, codeVars
<1>8. ASSUME NEW u \in Thread, Abort(t, u) PROVE Goal
  <2>1. /\ Restart(u, TRUE) /\ exc' = [exc EXCEPT ![u] = TRUE]
        /\ aborted' = [aborted EXCEPT ![u] = TRUE] /\ status[u] # "Terminated"
        /\ UNCHANGED <<codeVars, lockVars, loopVars>>
    BY <1>8 DEF Abort
  <2>2. status' = [status EXCEPT ![u] = "Ready"] /\ Moved(u, ~suspended[u])
    BY <1>0, <2>1, RestartMoves
  <2>3. \A v \in Thread \ {u} : Alone(v)
    BY <1>0, <2>1, <2>2 DEF Moved, Relinked, Alone, codeVars, TypeOK
  <2>4. status'[u] = "Ready" /\ aborted'[u] /\ exc'[u] /\ DyingStep /\ ~Fresh(u)'
    BY <1>0, <2>1, <2>2 DEF TypeOK, loopVars, DyingStep, Fresh
  <2>5. Claim(u)'
    BY <1>0, <2>1, <2>4 DEF Claim, codeVars
  <2> QED BY <2>1, <2>3, <2>4, <2>5, LockCall DEF lockVars, codeVars
<1> HIDE DEF Goal
<1>9. Goal
  BY <1>2, <1>3, <1>4, <1>5, <1>6, <1>7, <1>8 DEF EventCall, ThreadCall
<1> USE DEF Goal
<1> QED BY <1>9

\* The loops: a signal, the release of the dying thread's locks, its requests.
LEMMA LockLoops ==
    ASSUME LockInv, Loops
    PROVE  /\ \A u \in Thread : Claim(u)'
           /\ \A o \in Obj, u \in Thread : Queue(o, u)'
<1> DEFINE Goal == /\ \A u \in Thread : Claim(u)'
                   /\ \A o \in Obj, u \in Thread : Queue(o, u)'
<1>0. /\ TypeOK /\ ListsOK /\ NONE \notin Thread /\ StepOK /\ LoopOK /\ TodoOK
      /\ \A u \in Thread : Claim(u) /\ Seat(u)
  BY ThreadsAssumption DEF TypeOK, ListsOK, LockInv, SeatInv, ListInv
<1>1. CASE SignalStep
  <2>0. PICK c \in Thread : c = cursor
    BY <1>0, <1>1 DEF SignalStep, TypeOK
  <2>1. /\ UNCHANGED <<suspended, aborted, exc, codeVars, lockVars, dying>> /\ DyingStep
        /\ \/ Satisfied(wait[c]) /\ Restart(c, TRUE)
           \/ UNCHANGED <<signaled, status, listVars, waitVars>>
    BY <1>1, <2>0 DEF SignalStep, DyingStep
  <2>2. CASE Satisfied(wait[c]) /\ Restart(c, TRUE)
    <3>1. status' = [status EXCEPT ![c] = "Ready"] /\ Moved(c, ~suspended[c])
      BY <1>0, <2>2, RestartMoves
    <3>2. \A v \in Thread \ {c} : Alone(v)
      BY <1>0, <2>1, <3>1 DEF Moved, Relinked, Alone, codeVars, TypeOK
    <3>3. frame[c] = "wait"
      <4>1. wait[c] # NoWait
        BY <2>2 DEF Satisfied, NoWait
      <4> QED BY <1>0, <4>1 DEF Seat
    <3>4. status'[c] = "Ready" /\ (Fresh(c)' => Fresh(c))
      BY <1>0, <2>1, <3>1 DEF TypeOK, Fresh, codeVars
    <3>5. Claim(c)'
      BY <1>0, <2>1, <3>3, <3>4 DEF Claim, codeVars, lockVars
    <3> QED BY <2>1, <3>2, <3>3, <3>4, <3>5, LockCall DEF lockVars, codeVars
  <2>3. CASE UNCHANGED <<signaled, status, listVars, waitVars>>
    <3>1. \A v \in Thread : Alone(v)
      BY <2>1, <2>3 DEF Alone, codeVars, listVars
    <3> QED BY <2>1, <3>1, AloneKept DEF lockVars
  <2> QED BY <2>1, <2>2, <2>3
<1>2. CASE SignalDone
  <2>1. UNCHANGED <<flagVars, listVars, lockVars>> /\ step = "signal"
    BY <1>2 DEF SignalDone
  <2>2. CASE dying = NONE \/ frame[dying] = "none"
    <3>1. UNCHANGED codeVars /\ DyingStep
      BY <1>2, <2>2 DEF SignalDone, DyingStep
    <3>2. \A v \in Thread : Alone(v)
      BY <2>1, <3>1 DEF Alone, codeVars, listVars, flagVars
    <3> QED BY <2>1, <3>1, <3>2, AloneKept DEF lockVars
  <2>3. CASE ~(dying = NONE \/ frame[dying] = "none")
    <3>0. PICK d \in Thread : d = dying
      BY <1>0, <2>3 DEF TypeOK
    <3>1. /\ frame' = [frame EXCEPT ![d] = "none"] /\ entering' = [entering EXCEPT ![d] = NONE]
          /\ dying' = d
      BY <1>2, <2>3, <3>0 DEF SignalDone
    <3>2. \A v \in Thread \ {d} : Alone(v)
      BY <1>0, <2>1, <3>1 DEF Alone, flagVars, listVars, TypeOK
    <3>3. frame'[d] = "none" /\ ~Fresh(d)' /\ DyingStep
      BY <1>0, <3>0, <3>1 DEF Fresh, DyingStep, TypeOK
    <3>4. Claim(d)'
      BY <1>0, <2>1, <3>3 DEF Claim, flagVars, lockVars
    <3> QED BY <2>1, <3>2, <3>3, <3>4, LockCall DEF lockVars
  <2> QED BY <2>2, <2>3
<1>3. CASE ReleaseDone \/ PurgeDone
  <2>1. \A v \in Thread : Alone(v)
    BY <1>3 DEF ReleaseDone, PurgeDone, Alone, flagVars, codeVars, listVars
  <2>2. UNCHANGED <<owner, requests, reqCount>> /\ DyingStep
    BY <1>0, <1>3 DEF ReleaseDone, PurgeDone, lockVars, DyingStep, StepOK
  <2> QED BY <2>1, <2>2, AloneKept
<1>4. ASSUME NEW o \in Obj, ReleaseStep(o) PROVE Goal
  <2>1. /\ step = "release" /\ owner[o] = dying /\ frame[dying] = "none"
        /\ UNCHANGED <<codeVars, suspended, aborted, exc, dying>> /\ ChangeOwner(o)
    BY <1>0, <1>4 DEF ReleaseStep, TodoOK, StepOK
  <2>2. CASE Freed(o)
    <3>1. \A v \in Thread : Alone(v)
      BY <2>1, <2>2 DEF Freed, Alone, codeVars
    <3> QED BY <2>1, <2>2, <3>1, LockUnqueued DEF Freed
  <2>3. ASSUME NEW u \in Thread, Handed(o, u) PROVE Goal
    BY <2>1, <2>3, LockGranted
  <2>4. Freed(o) \/ \E u \in Thread : Handed(o, u)
    BY <1>0, <2>1, ChangeOwnerCases
  <2> QED BY <2>2, <2>3, <2>4
<1>5. ASSUME NEW o \in Obj, NEW i \in 1..Len(requests[o]), PurgeStep(o, i) PROVE Goal
  <2>0. PICK d \in Thread : d = dying
    BY <1>0, <1>5 DEF PurgeStep, LoopOK
  <2>1. /\ step = "purge" /\ requests[o][i] = d /\ frame[d] = "none" /\ DropLockRequest(d)
        /\ requests' = [requests EXCEPT ![o] = Drop(@, i)]
        /\ UNCHANGED <<owner, suspended, aborted, exc, codeVars, dying>> /\ DyingStep
    BY <1>0, <1>5, <2>0 DEF PurgeStep, StepOK, loopVars, DyingStep
  <2>2. Granted(d)
    BY <1>0, <2>1, GrantedLemma
  <2>3. /\ \A u \in Thread \ {d} : Alone(u) /\ reqCount'[u] = reqCount[u]
        /\ status'[d] \in {"Ready", "Waiting"}
    BY <1>0, <2>1, <2>2 DEF Granted, Moved, Relinked, Alone, codeVars, TypeOK
  <2>4. frame'[d] = "none" /\ ~Fresh(d)'
    BY <2>1 DEF Fresh, codeVars
  <2>5. Claim(d)'
    BY <2>3, <2>4 DEF Claim
  <2>6. \A u \in Thread : Claim(u)'
    BY <2>1, <2>3, <2>5, ClaimKept DEF LockInv
  <2>7. ASSUME NEW p \in Obj, NEW u \in Thread PROVE Queue(p, u)'
    <3>1. CASE u = d
      BY <2>4, <3>1 DEF Queue
    <3>2. CASE u # d /\ p # o
      <4>1. requests'[p] = requests[p]
        BY <1>0, <2>1, <3>2 DEF TypeOK
      <4> QED BY <2>1, <2>3, <3>2, <4>1, QueueKept DEF LockInv
    <3>3. CASE u # d /\ p = o
      <4>1. requests[o] \in Seq(Thread) /\ requests'[o] = Drop(requests[o], i)
        BY <1>0, <2>1 DEF TypeOK
      <4>2. u \in Members(requests'[o]) <=> u \in Members(requests[o])
        BY <2>1, <3>3, <4>1, DropLemma
      <4>3. Queue(o, u)
        BY DEF LockInv
      <4>4. Alone(u) /\ (Fresh(u)' => Fresh(u))
        BY <2>1, <2>3, <3>3, FreshKept
      <4> QED BY <2>1, <3>3, <4>2, <4>3, <4>4 DEF Queue, Alone
    <3> QED BY <3>1, <3>2, <3>3
  <2> QED BY <2>6, <2>7
<1> HIDE DEF Goal
<1> QED BY <1>1, <1>2, <1>3, <1>4, <1>5 DEF Loops, Goal

LEMMA TodoStep ==
    ASSUME LockInv, [Next]_vars
    PROVE  TodoOK'
<1>0. TypeOK /\ StepOK /\ TodoOK
  BY DEF LockInv, SeatInv, ListInv
<1>1. CASE step # "release" /\ step' # "release"
  BY <1>1 DEF TodoOK
<1>2. CASE SignalDone
  BY <1>2 DEF SignalDone, TodoOK, lockVars
<1>3. ASSUME NEW o \in Obj, ReleaseStep(o) PROVE TodoOK'
  <2>1. /\ step = "release" /\ step' = step /\ dying' = dying
        /\ \A p \in Obj \ {o} : owner'[p] = owner[p]
        /\ todo' = IF owner'[o] = dying /\ todo # {o} THEN todo ELSE todo \ {o}
    BY <1>0, <1>3 DEF ReleaseStep, ChangeOwner, TypeOK
  <2> QED BY <1>0, <2>1 DEF TodoOK, TypeOK
<1>4. CASE UNCHANGED <<step, todo, owner, dying>>
  BY <1>0, <1>4 DEF TodoOK
<1>5. CASE ReleaseDone \/ PurgeDone
  BY <1>5 DEF ReleaseDone, PurgeDone, TodoOK
<1>6. ASSUME NEW t \in Thread, MonitorCall(t) \/ EventCall(t) \/ ThreadCall(t) \/ Kill(t)
      PROVE  step # "release" /\ step' # "release"
  <2>1. ASSUME MonitorCall(t) PROVE step = "run" /\ step' = step
    BY <2>1 DEF MonitorCall, EnterFree, EnterRecursive, EnterQueued, Exit, ExitNotOwner,
       InIL, loopVars
  <2>2. ASSUME EventCall(t) PROVE step = "run" /\ step' \in {"run", "signal"}
    BY <2>2 DEF EventCall, WaitEvent, WaitForSignal, Set, Reset, SignalObject, InIL, loopVars
  <2>3. ASSUME ThreadCall(t) PROVE step = "run" /\ step' = step
    BY <2>3 DEF ThreadCall, Sleep, Start, Join, WaitForSignal, Suspend, Resume, Abort, InIL,
       loopVars
  <2>4. ASSUME Kill(t) PROVE step = "run" /\ step' = "signal"
    BY <2>4 DEF Kill, Passivate, SignalObject
  <2> QED BY <1>6, <2>1, <2>2, <2>3, <2>4
<1>7. ASSUME NEW t \in Thread, Engine(t)
      PROVE  step # "release" /\ step' # "release"
  BY <1>7 DEF Engine, Dispatch, QuantumExpired, NativeReturn, Catch, Leave, SleepExpired,
     WaitExpired, ThreadExit, Passivate, SignalObject, InIL, loopVars
<1>8. ASSUME NEW o \in Obj, NEW i \in 1..Len(requests[o]), PurgeStep(o, i)
      PROVE  UNCHANGED <<step, todo, owner, dying>>
  BY <1>8 DEF PurgeStep, loopVars
<1>9. CASE SignalStep
  BY <1>4, <1>9 DEF SignalStep, lockVars
<1>10. CASE UNCHANGED vars
  BY <1>4, <1>10 DEF vars, lockVars, loopVars
<1> QED BY <1>1, <1>2, <1>3, <1>4, <1>5, <1>6, <1>7, <1>8, <1>9, <1>10 DEF Next, Loops

LEMMA LockStep ==
    ASSUME LockInv, [Next]_vars
    PROVE  LockInv'
<1>1. ListInv' /\ SuspendInv' /\ NoOrphanedRequest' /\ CountInv'
  BY NextListInv, SuspendStep, OrphanStep, CountStep DEF LockInv, SeatInv
<1>2. StepOK' /\ \A u \in Thread : Seat(u)'
  BY SeatStep DEF LockInv
<1>3. TodoOK'
  BY TodoStep
<1>4. /\ \A u \in Thread : Claim(u)'
      /\ \A o \in Obj, u \in Thread : Queue(o, u)'
  <2>1. CASE UNCHANGED vars
    <3>1. (\A u \in Thread : Alone(u)) /\ DyingStep
      BY <2>1 DEF vars, flagVars, codeVars, listVars, loopVars, Alone, DyingStep
    <3> QED BY <2>1, <3>1, AloneKept DEF vars, lockVars
  <2>2. CASE Next
    BY <2>2, LockEngine, LockMonitor, LockOther, LockLoops DEF Next
  <2> QED BY <2>1, <2>2
<1> QED BY <1>1, <1>2, <1>3, <1>4 DEF LockInv, SeatInv

LEMMA InitLockInv == Init => LockInv
<1> SUFFICES ASSUME Init PROVE LockInv
  OBVIOUS
<1>1. SuspendInv /\ NoOrphanedRequest /\ TodoOK
  BY DEF Init, SuspendInv, SuspendedNotReady, NoOrphanedRequest, TodoOK
<1>2. \A t \in Thread : Claim(t)
  BY DEF Init, Claim
<1>3. \A o \in Obj, t \in Thread : Queue(o, t)
  BY DEF Init, Queue, Members
<1> QED BY <1>1, <1>2, <1>3, InitSeatInv, InitCountInv DEF LockInv

\* Locks, queues, request counts and callers of Monitor.Enter agree with each
\* other, whoever is granted a lock, aborted or killed.
THEOREM LocksStayConsistent == Spec => []LocksConsistent
<1>1. LockInv => LocksConsistent
  <2> SUFFICES ASSUME LockInv PROVE LocksConsistent
    OBVIOUS
  <2>0. /\ TypeOK /\ StepOK /\ CountInv /\ NoOrphanedRequest /\ NONE \notin Thread
        /\ \A t \in Thread : Claim(t) /\ Seat(t)
        /\ \A o \in Obj, t \in Thread : Queue(o, t)
    BY ThreadsAssumption DEF LockInv, SeatInv, ListInv
  <2>1. RequestCountExact
    BY <2>0 DEF CountInv, RequestCountExact
  <2>2. EnterQueuedOrOwner
    BY <2>0 DEF EnterQueuedOrOwner, Queue, Claim
  <2>3. EnterReturnsOwner
    <3> SUFFICES ASSUME NEW t \in Thread, current = t, frame[t] = "enter", ~exc[t]
                 PROVE  owner[entering[t]] = t
      BY DEF EnterReturnsOwner
    <3>1. t \in ready
      BY <2>0 DEF StepOK
    <3>2. reqCount[t] = 0 /\ entering[t] \in Obj
      BY <2>0, <3>1 DEF Claim
    <3>3. t \notin Members(requests[entering[t]])
      BY <2>0, <3>2, CountQueues
    <3>4. status[t] # "Terminated"
      BY <2>0, <3>1 DEF Seat, InLists
    <3> QED BY <2>0, <3>2, <3>3, <3>4 DEF Queue
  <2>4. SelfDeadlockOnlyAfterAbort
    BY <2>0 DEF SelfDeadlockOnlyAfterAbort, Queue, Fresh
  <2> QED BY <2>0, <2>1, <2>2, <2>3, <2>4 DEF LocksConsistent
<1>2. LockInv /\ [Next]_vars => LockInv'
  BY LockStep
<1> QED BY <1>1, <1>2, InitLockInv, PTL DEF Spec

\* A lock changes hands in the order of its queue: only a lock without an owner
\* is taken by a thread that calls Enter, and it has no queue.
THEOREM LocksGrantedInOrder == Spec => GrantedInOrder
<1> DEFINE A == \A o \in Obj : owner'[o] # owner[o] /\ requests[o] # <<>> =>
                                   owner'[o] = requests[o][1]
<1>1. ListInv /\ NoOrphanedRequest /\ [Next]_vars => [A]_vars
  <2> SUFFICES ASSUME ListInv, NoOrphanedRequest, [Next]_vars,
                      NEW o \in Obj, owner'[o] # owner[o], requests[o] # <<>>
               PROVE  owner'[o] = requests[o][1]
    OBVIOUS
  <2>0. TypeOK /\ ListsOK
    BY DEF ListInv, TypeOK, ListsOK
  <2>1. ASSUME NEW p \in Obj, ChangeOwner(p) PROVE owner'[o] = requests[o][1]
    BY <2>0, <2>1 DEF ChangeOwner, TypeOK
  <2>2. ASSUME NEW p \in Obj, NEW t \in Thread, EnterFree(t, p)
        PROVE  owner'[o] = requests[o][1]
    BY <2>0, <2>2 DEF EnterFree, NoOrphanedRequest, TypeOK
  <2>3. ASSUME NEW p \in Obj, NEW t \in Thread, Exit(t, p) PROVE owner'[o] = requests[o][1]
    BY <2>1, <2>3 DEF Exit
  <2>4. ASSUME NEW p \in Obj,
               \/ UNCHANGED owner
               \/ \E t \in Thread : EnterRecursive(t, p) \/ EnterQueued(t, p)
               \/ \E i \in 1..Len(requests[p]) : PurgeStep(p, i)
        PROVE  FALSE
    BY <2>4 DEF EnterRecursive, EnterQueued, PurgeStep
  <2>5. ~UNCHANGED lockVars
    BY DEF lockVars
  <2> QED BY <2>1, <2>2, <2>3, <2>4, <2>5, LockSteps DEF ReleaseStep
<1>2. Init => NoOrphanedRequest
  BY DEF Init, NoOrphanedRequest
<1>3. ListInv /\ NoOrphanedRequest /\ [Next]_vars => NoOrphanedRequest'
  BY OrphanStep
<1> QED BY <1>1, <1>2, <1>3, InitListInv, NextListInv, PTL DEF Spec, GrantedInOrder

-----------------------------------------------------------------------------
(* What a dead thread leaves behind when nobody is aborted *)

Late(t) == t = dying /\ step \in {"release", "purge"}

\* A thread without frames has no request, unless it is being destroyed, and
\* owns at most the locks the release loop has still to visit.
Rest(t) ==
    /\ ~aborted[t]
    /\ frame[t] = "none" /\ ~Late(t) => reqCount[t] = 0
    /\ \A o \in Obj : owner[o] = t => t \notin Members(requests[o])
    /\ \A o \in Obj : owner[o] = t /\ frame[t] = "none" =>
         dying = t /\ step = "release" /\ o \in todo

RestInv == LockInv /\ \A t \in Thread : Rest(t)

\* A thread that has frames and is not dying has a request only in Enter, and
\* only until it is ready again.
LEMMA RestFresh ==
    ASSUME RestInv, NEW t \in Thread, frame[t] # "none", dying # t
    PROVE  /\ reqCount[t] \in {0, 1}
           /\ status[t] = "Ready" \/ t \in ready => reqCount[t] = 0
<1>1. Claim(t) /\ Rest(t) /\ TypeOK /\ CountInv
  BY DEF RestInv, LockInv, SeatInv, ListInv
<1>2. Fresh(t) /\ ~aborted[t]
  BY <1>1 DEF Fresh, Rest
<1>3. reqCount[t] \in Nat
  BY <1>1, CountQueues
<1>4. reqCount[t] <= 1 /\ (frame[t] # "enter" => reqCount[t] = 0)
  BY <1>1, <1>2 DEF Claim
<1>5. frame[t] = "enter" => ~exc[t]
  BY <1>1, <1>2 DEF Claim
<1>6. frame[t] = "enter" /\ (status[t] = "Ready" \/ t \in ready) => reqCount[t] = 0
  BY <1>1, <1>5 DEF Claim
<1> QED BY <1>3, <1>4, <1>6

\* The thread that runs has no request, also when it runs again after its death.
LEMMA RestRunning ==
    ASSUME RestInv, step = "run", NEW t \in Thread, t \in ready
    PROVE  reqCount[t] = 0
<1>1. Rest(t) /\ dying = NONE /\ NONE \notin Thread
  BY ThreadsAssumption DEF RestInv, LockInv, SeatInv, StepOK
<1>2. CASE frame[t] = "none"
  BY <1>1, <1>2 DEF Rest, Late
<1>3. CASE frame[t] # "none"
  BY <1>1, <1>3, RestFresh
<1> QED BY <1>2, <1>3

\* What changes neither locks nor frames, outside the loops over them.
LEMMA RestKept ==
    ASSUME NEW t \in Thread, Rest(t), step \notin {"release", "purge"},
           UNCHANGED <<owner, requests, reqCount>>,
           frame'[t] = "none" => frame[t] = "none", aborted'[t] => aborted[t]
    PROVE  Rest(t)'
<1>1. \A o \in Obj : Members(requests[o])' = Members(requests[o])
  BY DEF Members
<1> QED BY <1>1 DEF Rest, Late

\* A lock that is handed over goes to a thread in Monitor.Enter, whose only
\* request is removed.
LEMMA RestHanded ==
    ASSUME RestInv, CountInv', NEW o \in Obj, NEW t \in Thread, Handed(o, t),
           UNCHANGED <<aborted, frame, step, dying>>,
           step \in {"run", "release"},
           step = "release" => owner[o] = dying,
           \A p \in todo : p = o \/ p \in todo'
    PROVE  \A u \in Thread : Rest(u)'
<1>0. /\ TypeOK /\ CountInv /\ NONE \notin Thread /\ \A u \in Thread : Rest(u)
      /\ step = "run" => dying = NONE
  BY ThreadsAssumption DEF RestInv, LockInv, SeatInv, ListInv, StepOK
<1>1. /\ t \in Members(requests[o]) /\ requests[o] # <<>>
      /\ owner' = [owner EXCEPT ![o] = t] /\ requests' = [requests EXCEPT ![o] = Drop(@, 1)]
      /\ Granted(t)
  BY DEF Handed
<1>2. reqCount[t] \in Nat /\ reqCount[t] >= 1
  BY <1>0, <1>1, CountQueues
<1>3. dying # t
  BY <1>0, <1>1 DEF Rest
<1>4. frame[t] # "none"
  BY <1>0, <1>2, <1>3 DEF Rest, Late
<1>5. reqCount[t] = 1
  BY <1>2, <1>3, <1>4, RestFresh
<1>6. reqCount'[t] = 0 /\ \A u \in Thread \ {t} : reqCount'[u] = reqCount[u]
  BY <1>0, <1>1, <1>5 DEF Granted, TypeOK
<1>7. \A p \in Obj : t \notin Members(requests'[p])
  BY <1>6, CountQueuesNext
<1>8. ASSUME NEW p \in Obj PROVE Members(requests'[p]) \subseteq Members(requests[p])
  <2>1. CASE p = o
    <3>1. requests[o] \in Seq(Thread) /\ requests'[o] = Drop(requests[o], 1)
          /\ 1 \in 1..Len(requests[o])
      BY <1>0, <1>1 DEF TypeOK
    <3> QED BY <2>1, <3>1, DropLemma
  <2>2. CASE p # o
    BY <1>0, <1>1, <2>2 DEF TypeOK
  <2> QED BY <2>1, <2>2
<1>9. owner'[o] = t /\ \A p \in Obj \ {o} : owner'[p] = owner[p]
  BY <1>0, <1>1 DEF TypeOK
<1>10. ASSUME NEW u \in Thread PROVE Rest(u)'
  <2>1. Rest(u)
    BY <1>0
  <2>2. ~aborted'[u]
    BY <2>1 DEF Rest
  <2>3. frame'[u] = "none" /\ ~Late(u)' => reqCount'[u] = 0
    BY <1>6, <2>1 DEF Rest, Late
  <2>4. ASSUME NEW p \in Obj, owner'[p] = u
        PROVE  /\ u \notin Members(requests'[p])
               /\ frame'[u] = "none" => dying' = u /\ step' = "release" /\ p \in todo'
    <3>1. CASE p = o
      BY <1>4, <1>7, <1>9, <2>4, <3>1
    <3>2. CASE p # o
      <4>1. owner[p] = u
        BY <1>9, <2>4, <3>2
      <4> QED BY <1>8, <2>1, <3>2, <4>1 DEF Rest
    <3> QED BY <3>1, <3>2
  <2> QED BY <2>2, <2>3, <2>4 DEF Rest
<1> QED BY <1>10

LEMMA RestFreed ==
    ASSUME TypeOK, NEW t \in Thread, Rest(t), NEW o \in Obj, Freed(o), NONE \notin Thread,
           UNCHANGED <<aborted, frame, step, dying>>,
           \A p \in todo : p = o \/ p \in todo'
    PROVE  Rest(t)'
<1>1. \A p \in Obj : Members(requests[p])' = Members(requests[p])
  BY DEF Freed, Members
<1>2. owner'[o] = NONE /\ \A p \in Obj \ {o} : owner'[p] = owner[p]
  BY DEF Freed, TypeOK
<1>3. reqCount' = reqCount /\ Late(t)' = Late(t)
  BY DEF Freed, Late
<1>4. ASSUME NEW p \in Obj, owner'[p] = t
      PROVE  /\ t \notin Members(requests[p])'
             /\ frame'[t] = "none" => dying' = t /\ step' = "release" /\ p \in todo'
  BY <1>1, <1>2, <1>4 DEF Rest
<1> QED BY <1>3, <1>4 DEF Rest

LEMMA RestCall ==
    ASSUME RestInv, CountInv', NEW t \in Thread, MonitorCall(t)
    PROVE  \A u \in Thread : Rest(u)'
<1>0. /\ TypeOK /\ ListsOK /\ CountInv /\ NONE \notin Thread /\ \A u \in Thread : Rest(u)
      /\ step = "run" => dying = NONE /\ todo = {}
  BY ThreadsAssumption DEF RestInv, LockInv, SeatInv, ListInv, StepOK, ListsOK, TypeOK
<1>1. PICK o \in Obj : \/ EnterFree(t, o) \/ EnterRecursive(t, o)
                       \/ EnterQueued(t, o) \/ Exit(t, o) \/ ExitNotOwner(t, o)
  BY DEF MonitorCall
<1>2. /\ step = "run" /\ t \in ready /\ frame[t] = "il" /\ UNCHANGED <<aborted, step, dying, todo>>
  BY <1>0, <1>1 DEF EnterFree, EnterRecursive, EnterQueued, Exit, ExitNotOwner, InIL,
     loopVars, flagVars, RestInv, LockInv, SeatInv, StepOK
<1>3. reqCount[t] = 0
  BY <1>2, RestRunning
<1>4. \A p \in Obj : t \notin Members(requests[p])
  BY <1>0, <1>3, CountQueues
<1>5. CASE EnterRecursive(t, o) \/ ExitNotOwner(t, o)
  BY <1>0, <1>2, <1>5, RestKept DEF EnterRecursive, ExitNotOwner, codeVars, lockVars
<1>6. CASE EnterFree(t, o)
  <2>1. /\ owner' = [owner EXCEPT ![o] = t] /\ UNCHANGED <<requests, reqCount, frame>>
    BY <1>6 DEF EnterFree, codeVars
  <2>2. owner'[o] = t /\ \A p \in Obj \ {o} : owner'[p] = owner[p]
    BY <1>0, <2>1 DEF TypeOK
  <2>3. \A p \in Obj : Members(requests[p])' = Members(requests[p])
    BY <2>1 DEF Members
  <2>4. ASSUME NEW u \in Thread PROVE Rest(u)'
    <3>1. Rest(u)
      BY <1>0
    <3>2. ASSUME NEW p \in Obj, owner'[p] = u
          PROVE  /\ u \notin Members(requests[p])'
                 /\ frame'[u] = "none" => dying' = u /\ step' = "release" /\ p \in todo'
      <4>1. CASE p = o
        BY <1>2, <1>4, <2>1, <2>2, <2>3, <3>2, <4>1
      <4>2. CASE p # o
        BY <1>2, <2>1, <2>2, <2>3, <3>1, <3>2, <4>2 DEF Rest
      <4> QED BY <4>1, <4>2
    <3> QED BY <1>2, <2>1, <3>1, <3>2 DEF Rest, Late
  <2> QED BY <2>4
<1>7. CASE EnterQueued(t, o)
  <2>1. /\ owner[o] # t /\ owner' = owner /\ requests' = [requests EXCEPT ![o] = Append(@, t)]
        /\ reqCount' = [reqCount EXCEPT ![t] = @ + 1]
        /\ frame' = [frame EXCEPT ![t] = "enter"]
    BY <1>7 DEF EnterQueued, Block
  <2>2. /\ frame'[t] = "enter"
        /\ \A u \in Thread \ {t} : frame'[u] = frame[u] /\ reqCount'[u] = reqCount[u]
    BY <1>0, <2>1 DEF TypeOK
  <2>3. ASSUME NEW p \in Obj, NEW u \in Members(requests'[p])
        PROVE  u \in Members(requests[p]) \/ (p = o /\ u = t)
    <3>1. CASE p = o
      <4>1. requests[o] \in Seq(Thread) /\ requests'[o] = Append(requests[o], t)
        BY <1>0, <2>1 DEF TypeOK
      <4> QED BY <2>3, <3>1, <4>1 DEF Members
    <3>2. CASE p # o
      BY <1>0, <2>1, <2>3, <3>2 DEF TypeOK
    <3> QED BY <3>1, <3>2
  <2>4. ASSUME NEW u \in Thread PROVE Rest(u)'
    <3>1. Rest(u)
      BY <1>0
    <3>2. \A p \in Obj : owner'[p] = u => u \notin Members(requests'[p])
      BY <2>1, <2>3, <3>1 DEF Rest
    <3>3. frame'[u] = "none" => frame[u] = "none" /\ reqCount'[u] = reqCount[u]
      BY <2>2
    <3> QED BY <1>2, <2>1, <3>1, <3>2, <3>3 DEF Rest, Late
  <2> QED BY <2>4
<1>8. CASE Exit(t, o)
  <2>1. frame' = frame
    BY <1>8 DEF Exit, codeVars
  <2>2. CASE UNCHANGED <<owner, requests, reqCount>>
    BY <1>0, <1>2, <2>1, <2>2, RestKept
  <2>3. CASE ChangeOwner(o)
    <3>1. Freed(o) \/ \E u \in Thread : Handed(o, u)
      BY <1>0, <2>3, ChangeOwnerCases
    <3>2. CASE Freed(o)
      BY <1>0, <1>2, <2>1, <3>2, RestFreed
    <3>3. ASSUME NEW u \in Thread, Handed(o, u) PROVE \A v \in Thread : Rest(v)'
      BY <1>0, <1>2, <2>1, <3>3, RestHanded
    <3> QED BY <3>1, <3>2, <3>3
  <2> QED BY <1>8, <2>2, <2>3 DEF Exit
<1> QED BY <1>1, <1>5, <1>6, <1>7, <1>8

\* A thread that is in no queue has no request.
LEMMA CountNothing ==
    ASSUME CountInv, NEW t \in Thread, \A o \in Obj : t \notin Members(requests[o])
    PROVE  reqCount[t] = 0
<1>1. Places(t) = {}
  BY DEF Places, Members
<1> QED BY <1>1, FS_EmptySet DEF CountInv

\* The calls and the engine's steps that do not touch the locks.
LEMMA CallsOutOfLoops ==
    ASSUME NEW t \in Thread, EventCall(t) \/ ThreadCall(t) \/ Engine(t) \/ Kill(t)
    PROVE  UNCHANGED <<owner, requests, reqCount>> /\ step = "run"
<1>1. ASSUME NEW w, WaitForSignal(t, w)
      PROVE  UNCHANGED <<owner, requests, reqCount>> /\ step = "run"
  BY <1>1 DEF WaitForSignal, InIL, lockVars
<1>2. CASE EventCall(t)
  BY <1>1, <1>2 DEF EventCall, WaitEvent, Set, Reset, InIL, lockVars
<1>3. CASE ThreadCall(t)
  BY <1>1, <1>3 DEF ThreadCall, Sleep, Start, Join, Suspend, Resume, Abort, InIL, lockVars
<1>4. CASE Engine(t)
  BY <1>4 DEF Engine, Dispatch, QuantumExpired, NativeReturn, Catch, Leave, SleepExpired,
     WaitExpired, ThreadExit, Passivate, InIL, lockVars
<1>5. CASE Kill(t)
  BY <1>5 DEF Kill, Passivate, lockVars
<1> QED BY <1>2, <1>3, <1>4, <1>5

LEMMA FramesStay ==
    ASSUME TypeOK, NEW t \in Thread, EventCall(t) \/ ThreadCall(t) \/ Engine(t) \/ Kill(t)
    PROVE  \A u \in Thread : frame'[u] = "none" => frame[u] = "none"
<1> DEFINE Goal == \A u \in Thread : frame'[u] = "none" => frame[u] = "none"
<1>1. ASSUME NEW u \in Thread, NEW x, x # "none", frame' = [frame EXCEPT ![u] = x]
      PROVE  Goal
  BY <1>1 DEF TypeOK
<1>2. ASSUME UNCHANGED codeVars PROVE Goal
  BY <1>2 DEF codeVars
<1> HIDE DEF Goal
<1>3. ASSUME NEW w, WaitForSignal(t, w) PROVE Goal
  BY <1>1, <1>2, <1>3 DEF WaitForSignal, Block
<1>4. ASSUME EventCall(t) PROVE Goal
  BY <1>2, <1>3, <1>4 DEF EventCall, WaitEvent, Set, Reset
<1>5. ASSUME ThreadCall(t) PROVE Goal
  BY <1>1, <1>2, <1>3, <1>5 DEF ThreadCall, Sleep, Block, Start, Join, Suspend, Resume, Abort
<1>6. ASSUME Engine(t) PROVE Goal
  BY <1>1, <1>2, <1>6 DEF Engine, Dispatch, QuantumExpired, NativeReturn, Catch, Leave,
     SleepExpired, WaitExpired, ThreadExit, Passivate
<1>7. ASSUME Kill(t) PROVE Goal
  BY <1>2, <1>7 DEF Kill, Passivate
<1>8. Goal
  BY <1>4, <1>5, <1>6, <1>7
<1> USE DEF Goal
<1> QED BY <1>8

LEMMA AbortedStay ==
    ASSUME TypeOK, "abort" \notin Ops, NEW t \in Thread,
           EventCall(t) \/ ThreadCall(t) \/ Engine(t) \/ Kill(t)
    PROVE  \A u \in Thread : aborted'[u] => aborted[u]
<1> DEFINE Goal == \A u \in Thread : aborted'[u] => aborted[u]
<1>1. ASSUME aborted' = aborted \/ \E u \in Thread : aborted' = [aborted EXCEPT ![u] = FALSE] PROVE Goal
  BY <1>1 DEF TypeOK
<1> HIDE DEF Goal
<1>2. ASSUME NEW w, WaitForSignal(t, w) PROVE aborted' = aborted
  BY <1>2 DEF WaitForSignal
<1>3. ASSUME EventCall(t) PROVE Goal
  BY <1>1, <1>2, <1>3 DEF EventCall, WaitEvent, Set, Reset, flagVars
<1>4. ASSUME ThreadCall(t) PROVE Goal
  BY <1>1, <1>2, <1>4 DEF ThreadCall, Sleep, Start, Join, Suspend, Resume, Abort
<1>5. ASSUME Engine(t) PROVE Goal
  BY <1>1, <1>5 DEF Engine, Dispatch, QuantumExpired, NativeReturn, Catch, Leave,
     SleepExpired, WaitExpired, ThreadExit, Passivate, flagVars
<1>6. ASSUME Kill(t) PROVE Goal
  BY <1>1, <1>6 DEF Kill, Passivate
<1>7. Goal
  BY <1>3, <1>4, <1>5, <1>6
<1> USE DEF Goal
<1> QED BY <1>7

\* The destruction of a thread takes its locks and requests from it.
LEMMA RestLoops ==
    ASSUME RestInv, CountInv', Loops
    PROVE  \A t \in Thread : Rest(t)'
<1>0. /\ TypeOK /\ ListsOK /\ CountInv /\ NONE \notin Thread /\ \A t \in Thread : Rest(t)
      /\ LoopOK /\ StepOK /\ TodoOK
  BY ThreadsAssumption DEF RestInv, LockInv, SeatInv, ListInv, ListsOK, TypeOK
<1>1. CASE SignalStep
  BY <1>0, <1>1, RestKept DEF SignalStep, codeVars, lockVars
<1>2. CASE SignalDone
  <2>1. step = "signal" /\ UNCHANGED <<flagVars, lockVars>>
    BY <1>2 DEF SignalDone
  <2>2. CASE UNCHANGED codeVars
    BY <1>0, <2>1, <2>2, RestKept DEF codeVars, flagVars, lockVars
  <2>3. CASE dying # NONE /\ step' = "release" /\ todo' = {o \in Obj : owner[o] = dying}
             /\ frame' = [frame EXCEPT ![dying] = "none"] /\ UNCHANGED dying
    <3>0. PICK d \in Thread : d = dying
      BY <1>0, <2>3 DEF TypeOK
    <3>1. frame'[d] = "none" /\ \A t \in Thread \ {d} : frame'[t] = frame[t]
      BY <1>0, <2>3, <3>0 DEF TypeOK
    <3>2. \A o \in Obj : Members(requests[o])' = Members(requests[o])
      BY <2>1 DEF Members, lockVars
    <3>3. ASSUME NEW t \in Thread PROVE Rest(t)'
      <4>1. Rest(t) /\ ~Late(t)
        BY <1>0, <2>1 DEF Late
      <4>2. CASE t = d
        BY <2>1, <2>3, <3>0, <3>2, <4>1, <4>2 DEF Rest, Late, flagVars, lockVars
      <4>3. CASE t # d
        BY <2>1, <2>3, <3>0, <3>1, <3>2, <4>1, <4>3 DEF Rest, Late, flagVars, lockVars
      <4> QED BY <4>2, <4>3
    <3> QED BY <3>3
  <2> QED BY <1>2, <2>2, <2>3 DEF SignalDone, codeVars
<1>3. ASSUME NEW o \in Obj, ReleaseStep(o) PROVE \A t \in Thread : Rest(t)'
  <2>1. /\ step = "release" /\ owner[o] = dying /\ ChangeOwner(o)
        /\ UNCHANGED <<aborted, frame, step, dying>>
        /\ \A p \in todo : p = o \/ p \in todo'
    BY <1>0, <1>3 DEF ReleaseStep, TodoOK, codeVars
  <2>2. Freed(o) \/ \E u \in Thread : Handed(o, u)
    BY <1>0, <2>1, ChangeOwnerCases
  <2>3. CASE Freed(o)
    BY <1>0, <2>1, <2>3, RestFreed
  <2>4. ASSUME NEW u \in Thread, Handed(o, u) PROVE \A v \in Thread : Rest(v)'
    BY <2>1, <2>4, RestHanded
  <2> QED BY <2>2, <2>3, <2>4
<1>4. CASE ReleaseDone
  <2>1. /\ step = "release" /\ step' = "purge" /\ todo = {} /\ dying' = dying
        /\ UNCHANGED <<flagVars, codeVars, lockVars>>
    BY <1>4 DEF ReleaseDone
  <2>2. \A o \in Obj : Members(requests[o])' = Members(requests[o])
    BY <2>1 DEF Members, lockVars
  <2> QED BY <1>0, <2>1, <2>2 DEF Rest, Late, flagVars, codeVars, lockVars
<1>5. ASSUME NEW o \in Obj, NEW i \in 1..Len(requests[o]), PurgeStep(o, i)
      PROVE  \A t \in Thread : Rest(t)'
  <2>0. PICK d \in Thread : d = dying
    BY <1>0, <1>5 DEF PurgeStep, LoopOK
  <2>1. /\ step = "purge" /\ DropLockRequest(d)
        /\ requests' = [requests EXCEPT ![o] = Drop(@, i)]
        /\ UNCHANGED <<owner, aborted, frame, step, dying, todo>>
    BY <1>5, <2>0 DEF PurgeStep, codeVars, loopVars
  <2>2. \A t \in Thread \ {d} : reqCount'[t] = reqCount[t]
    BY <1>0, <2>1 DEF DropLockRequest, TypeOK
  <2>3. ASSUME NEW p \in Obj PROVE Members(requests'[p]) \subseteq Members(requests[p])
    <3>1. CASE p = o
      <4>1. requests[o] \in Seq(Thread) /\ requests'[o] = Drop(requests[o], i)
        BY <1>0, <2>1 DEF TypeOK
      <4> QED BY <3>1, <4>1, DropLemma
    <3>2. CASE p # o
      BY <1>0, <2>1, <3>2 DEF TypeOK
    <3> QED BY <3>1, <3>2
  <2>4. ASSUME NEW t \in Thread PROVE Rest(t)'
    <3>1. Rest(t)
      BY <1>0
    <3>2. frame[t] = "none" /\ ~Late(t)' => reqCount'[t] = 0
      BY <2>0, <2>1, <2>2, <3>1 DEF Rest, Late
    <3> QED BY <2>1, <2>3, <3>1, <3>2 DEF Rest
  <2> QED BY <2>4
<1>6. CASE PurgeDone
  <2>0. PICK d \in Thread : d = dying
    BY <1>0, <1>6 DEF PurgeDone, LoopOK
  <2>1. /\ step = "purge" /\ step' = "run" /\ dying' = NONE
        /\ UNCHANGED <<flagVars, codeVars, lockVars, todo>>
        /\ \A o \in Obj : Reachable(o) => d \notin Members(requests[o])
    BY <1>6, <2>0 DEF PurgeDone
  <2>2. ASSUME NEW o \in Obj, d \in Members(requests[o]) PROVE FALSE
    <3>1. PICK t \in Thread : t = owner[o]
      BY <1>0, <2>2 DEF RestInv, LockInv, NoOrphanedRequest, Members, TypeOK
    <3>2. frame[t] # "none"
      BY <1>0, <2>1, <3>1 DEF Rest
    <3>3. InLists(t)
      BY <2>1, <3>2 DEF RestInv, LockInv, SeatInv, Seat
    <3> QED BY <2>1, <2>2, <3>1, <3>3 DEF InLists, Reachable
  <2>3. reqCount[d] = 0
    BY <1>0, <2>2, CountNothing
  <2>4. \A o \in Obj : Members(requests[o])' = Members(requests[o])
    BY <2>1 DEF Members, lockVars
  <2>5. ASSUME NEW t \in Thread PROVE Rest(t)'
    <3>1. Rest(t)
      BY <1>0
    <3>2. frame[t] = "none" => reqCount[t] = 0
      BY <2>0, <2>3, <3>1 DEF Rest, Late
    <3> QED BY <2>1, <2>4, <3>1, <3>2 DEF Rest, flagVars, codeVars, lockVars
  <2> QED BY <2>5
<1> QED BY <1>1, <1>2, <1>3, <1>4, <1>5, <1>6 DEF Loops

LEMMA RestStep ==
    ASSUME "abort" \notin Ops, RestInv, CountInv', [Next]_vars
    PROVE  \A t \in Thread : Rest(t)'
<1>0. TypeOK /\ \A t \in Thread : Rest(t)
  BY DEF RestInv, LockInv, SeatInv, ListInv
<1>1. ASSUME NEW t \in Thread, EventCall(t) \/ ThreadCall(t) \/ Engine(t) \/ Kill(t)
      PROVE  \A u \in Thread : Rest(u)'
  <2>1. UNCHANGED <<owner, requests, reqCount>> /\ step = "run"
    BY <1>1, CallsOutOfLoops
  <2>2. \A u \in Thread : frame'[u] = "none" => frame[u] = "none"
    BY <1>0, <1>1, FramesStay
  <2>3. \A u \in Thread : aborted'[u] => aborted[u]
    BY <1>0, <1>1, AbortedStay
  <2> QED BY <1>0, <2>1, <2>2, <2>3, RestKept
<1>2. CASE UNCHANGED vars
  <2>1. \A o \in Obj : Members(requests[o])' = Members(requests[o])
    BY <1>2 DEF Members, vars, lockVars
  <2> QED BY <1>0, <1>2, <2>1 DEF Rest, Late, vars, flagVars, codeVars, lockVars, loopVars
<1>3. CASE Loops
  BY <1>3, RestLoops
<1> QED BY <1>1, <1>2, <1>3, RestCall DEF Next

-----------------------------------------------------------------------------
(* The order of a list *)

\* y is x or comes after x.
Before(s, x, y) == \E i, j \in 1..Len(s) : s[i] = x /\ s[j] = y /\ i <= j

LEMMA FirstBefore ==
    ASSUME NEW S, NEW s \in Seq(S), NEW y \in Members(s)
    PROVE  Before(s, FirstNode(s), y)
<1>1. PICK j \in 1..Len(s) : s[j] = y
  BY DEF Members
<1>2. 1 \in 1..Len(s) /\ FirstNode(s) = s[1] /\ 1 <= j
  BY DEF FirstNode
<1> QED BY <1>1, <1>2 DEF Before

\* What comes after x, if it is not x, comes after the next node or is it.
LEMMA NextBefore ==
    ASSUME NEW S, NEW s \in Seq(S), NoDup(s), NEW x, NEW y, x # y, Before(s, x, y)
    PROVE  Before(s, NextNode(s, x), y) /\ NextNode(s, x) \in Members(s) \ {x}
<1> DEFINE p == Position(s, x)
<1>1. PICK i, j \in 1..Len(s) : s[i] = x /\ s[j] = y /\ i <= j
  BY DEF Before
<1>2. p \in 1..Len(s) /\ s[p] = x
  BY <1>1 DEF Position
<1>3. NextNode(s, x) = IF p = Len(s) THEN NONE ELSE s[p + 1]
  BY DEF NextNode
<1> HIDE DEF p
<1>4. p = i
  BY <1>1, <1>2 DEF NoDup
<1>5. p + 1 <= j /\ p + 1 \in 1..Len(s) /\ NextNode(s, x) = s[p + 1]
  BY <1>1, <1>3, <1>4
<1>6. s[p + 1] # x
  BY <1>2, <1>5 DEF NoDup
<1> QED BY <1>1, <1>5, <1>6 DEF Before, Members

LEMMA DropBefore ==
    ASSUME NEW S, NEW s \in Seq(S), NEW k \in 1..Len(s), NEW x, NEW y,
           s[k] # x, s[k] # y, Before(s, x, y)
    PROVE  Before(Drop(s, k), x, y)
<1> DEFINE d == Drop(s, k)
           At2(i) == IF i < k THEN i ELSE i - 1
<1>1. Len(d) = Len(s) - 1 /\ \A i \in 1..Len(d) : d[i] = IF i < k THEN s[i] ELSE s[i + 1]
  BY DropLemma DEF Drop
<1> HIDE DEF d
<1>2. PICK i, j \in 1..Len(s) : s[i] = x /\ s[j] = y /\ i <= j
  BY DEF Before
<1>3. i # k /\ j # k
  BY <1>2
<1>4. At2(i) \in 1..Len(d) /\ d[At2(i)] = x
  BY <1>1, <1>2, <1>3
<1>5. At2(j) \in 1..Len(d) /\ d[At2(j)] = y
  BY <1>1, <1>2, <1>3
<1>6. At2(i) <= At2(j)
  BY <1>2, <1>3
<1> HIDE DEF At2
<1>7. Before(d, x, y)
  BY <1>4, <1>5, <1>6 DEF Before
<1> QED BY <1>7 DEF d

\* Unlinking a node, and linking it at the back, keep the order of the others.
LEMMA UnlinkBefore ==
    ASSUME NEW S, NEW s \in Seq(S), NoDup(s), NEW z, NEW x, NEW y,
           z # x, z # y, Before(s, x, y)
    PROVE  Before(Unlink(s, z), x, y)
<1>1. CASE z \in Members(s)
  <2> DEFINE k == Position(s, z)
  <2>1. k \in 1..Len(s) /\ s[k] = z
    BY <1>1 DEF Members, Position
  <2>2. Unlink(s, z) = Drop(s, k)
    BY <1>1 DEF Unlink
  <2> HIDE DEF k
  <2> QED BY <2>1, <2>2, DropBefore
<1>2. CASE z \notin Members(s)
  BY <1>2 DEF Unlink
<1> QED BY <1>1, <1>2

LEMMA BackBefore ==
    ASSUME NEW S, NEW s \in Seq(S), NoDup(s), NEW z \in S, NEW x, NEW y,
           z # x, z # y, Before(s, x, y)
    PROVE  Before(LinkAtBack(s, z), x, y)
<1> DEFINE u == Unlink(s, z)
<1>1. u \in Seq(S) /\ Before(u, x, y)
  BY UnlinkLemma, UnlinkBefore
<1>2. LinkAtBack(s, z) = Append(u, z)
  BY DEF LinkAtBack
<1> HIDE DEF u
<1>3. /\ Len(Append(u, z)) = Len(u) + 1 /\ Len(u) \in Nat
      /\ \A i \in 1..Len(u) : Append(u, z)[i] = u[i]
  BY <1>1
<1>4. Before(Append(u, z), x, y)
  BY <1>1, <1>3 DEF Before
<1> QED BY <1>2, <1>4

-----------------------------------------------------------------------------
(* Signals *)

\* Satisfied, for the flags sig.
SatBy(w, sig) ==
    /\ w.objects # {}
    /\ IF w.all THEN \A x \in w.objects : sig[x]
                ELSE \E x \in w.objects : sig[x]

AtMost(a, b) == \A x \in Waitable : a[x] => b[x]

LEMMA SatMonotone ==
    ASSUME NEW w \in Wait, NEW a, NEW b, AtMost(a, b), SatBy(w, a)
    PROVE  SatBy(w, b)
BY DEF Wait, AtMost, SatBy

LEMMA NoWaitNever == \A sig : ~SatBy(NoWait, sig)
BY DEF SatBy, NoWait

\* A satisfied wait resets events only.
LEMMA TakenLess ==
    ASSUME signaled \in [Waitable -> BOOLEAN], NEW w \in Wait, NEW s \in Taken(w)
    PROVE  /\ s \in [Waitable -> BOOLEAN] /\ AtMost(s, signaled)
           /\ \A u \in Thread : signaled[u] => s[u]
<1>0. Thread \cap AutoReset = {} /\ Thread \subseteq Waitable
  BY ThreadsAssumption DEF Waitable
<1>1. CASE w.all
  BY <1>0, <1>1 DEF Taken, AtMost
<1>2. CASE ~w.all
  <2>1. PICK x \in w.objects : signaled[x] /\ s = [signaled EXCEPT ![x] = x \notin AutoReset]
    BY <1>2 DEF Taken
  <2>2. x \in Waitable
    BY <2>1 DEF Wait
  <2> QED BY <1>0, <2>1, <2>2 DEF AtMost
<1> QED BY <1>1, <1>2

\* A waiting thread waits for something that is not there, except while the loop
\* that brings it is on its way to the thread.
Wake(t) ==
    status[t] = "Waiting" =>
        /\ step # "signal" => ~SatBy(wait[t], signaled)
        /\ step = "signal" =>
             /\ ~SatBy(wait[t], [signaled EXCEPT ![sigObj] = FALSE])
             /\ SatBy(wait[t], signaled) => Before(waiting, cursor, t)

\* Nobody has been aborted, or nobody has asked for a lock.
Calm == (\A t \in Thread : ~aborted[t]) \/ (\A t \in Thread : reqCount[t] = 0)

SigInv == LockInv /\ Calm /\ \A t \in Thread : Wake(t)

\* The step does not make t wait for anything new.
Still(t) ==
    status'[t] = "Waiting" =>
        wait'[t] = NoWait \/ (status[t] = "Waiting" /\ wait'[t] = wait[t])

LEMMA WakeStill ==
    ASSUME TypeOK, NEW t \in Thread, Wake(t), Still(t), AtMost(signaled', signaled),
           step # "signal", step' # "signal"
    PROVE  Wake(t)'
<1>1. CASE wait'[t] = NoWait
  BY <1>1, NoWaitNever DEF Wake
<1>2. CASE status[t] = "Waiting" /\ wait'[t] = wait[t]
  <2>1. wait[t] \in Wait /\ ~SatBy(wait[t], signaled)
    BY <1>2 DEF Wake, TypeOK
  <2>2. ~SatBy(wait'[t], signaled')
    BY <1>2, <2>1, SatMonotone
  <2> QED BY <2>2 DEF Wake
<1> QED BY <1>1, <1>2 DEF Still, Wake

\* The loop starts in front of all that may be satisfied.
LEMMA WakeSignal ==
    ASSUME TypeOK, NEW t \in Thread, Wake(t), Still(t), step # "signal",
           NEW x \in Waitable, SignalObject(x, waiting'), waiting' \in Seq(Thread),
           status'[t] = "Waiting" /\ wait'[t] # NoWait => t \in Members(waiting')
    PROVE  Wake(t)'
<1>1. /\ signaled' = [signaled EXCEPT ![x] = TRUE] /\ step' = "signal" /\ sigObj' = x
      /\ cursor' = FirstNode(waiting')
  BY DEF SignalObject
<1>2. CASE wait'[t] = NoWait
  BY <1>1, <1>2, NoWaitNever DEF Wake
<1>3. CASE status[t] = "Waiting" /\ wait'[t] = wait[t] /\ wait[t] # NoWait /\ status'[t] = "Waiting"
  <2>1. wait[t] \in Wait /\ ~SatBy(wait[t], signaled)
    BY <1>3 DEF Wake, TypeOK
  <2>2. PICK e : e = [signaled' EXCEPT ![x] = FALSE]
    OBVIOUS
  <2>3. AtMost(e, signaled)
    BY <1>1, <2>2 DEF AtMost, TypeOK
  <2>4. ~SatBy(wait[t], e)
    BY <2>1, <2>3, SatMonotone
  <2>5. Before(waiting', FirstNode(waiting'), t)
    BY <1>3, FirstBefore
  <2> QED BY <1>1, <1>3, <2>2, <2>4, <2>5 DEF Wake
<1> QED BY <1>2, <1>3 DEF Still, Wake

\* A thread that waits for a signal has no request.
LEMMA Lone ==
    ASSUME LockInv, Calm, NEW t \in Thread, wait[t] # NoWait
    PROVE  reqCount[t] = 0
<1>1. Claim(t) /\ Seat(t) /\ StepOK /\ TypeOK /\ NONE \notin Thread
  BY ThreadsAssumption DEF LockInv, SeatInv, ListInv
<1>2. frame[t] = "wait" /\ dying # t
  BY <1>1 DEF Seat, StepOK
<1>3. CASE ~aborted[t]
  BY <1>1, <1>2, <1>3 DEF Claim, Fresh
<1> QED BY <1>3 DEF Calm

LEMMA StillMoved ==
    ASSUME TypeOK, NEW u \in Thread, NEW b, Moved(u, b),
           status' = status \/ status' = [status EXCEPT ![u] = "Ready"]
    PROVE  \A t \in Thread : Still(t)
BY DEF Moved, Still, TypeOK

LEMMA StillGranted ==
    ASSUME LockInv, Calm, NEW u \in Thread, Granted(u), reqCount[u] # 0
    PROVE  \A t \in Thread : Still(t)
<1>0. TypeOK
  BY DEF LockInv, SeatInv, ListInv
<1>1. CASE status' = [status EXCEPT ![u] = "Ready"] /\ Moved(u, ~suspended[u])
  BY <1>0, <1>1, StillMoved
<1>2. CASE status' = [status EXCEPT ![u] = "Waiting"] /\ UNCHANGED wait
  <2>1. wait[u] = NoWait
    BY Lone
  <2> QED BY <1>0, <1>2, <2>1 DEF Still, TypeOK
<1> QED BY <1>1, <1>2 DEF Granted

LEMMA StillChangeOwner ==
    ASSUME LockInv, Calm, NEW o \in Obj, ChangeOwner(o)
    PROVE  \A t \in Thread : Still(t)
<1>0. TypeOK /\ ListsOK /\ CountInv
  BY DEF LockInv, SeatInv, ListInv, TypeOK, ListsOK
<1>1. CASE Freed(o)
  BY <1>1 DEF Freed, Still
<1>2. ASSUME NEW u \in Thread, Handed(o, u) PROVE \A t \in Thread : Still(t)
  <2>1. Granted(u) /\ reqCount[u] # 0
    BY <1>0, <1>2, CountQueues DEF Handed
  <2> QED BY <2>1, StillGranted
<1> QED BY <1>0, <1>1, <1>2, ChangeOwnerCases

LEMMA CalmStep ==
    ASSUME LockInv, [Next]_vars,
           "abort" \notin Ops => \A t \in Thread : ~aborted[t],
           "monitor" \notin Ops => \A t \in Thread : reqCount[t] = 0
    PROVE  /\ "abort" \notin Ops => \A t \in Thread : ~aborted'[t]
           /\ "monitor" \notin Ops => \A t \in Thread : reqCount'[t] = 0
<1>0. TypeOK /\ CountInv /\ ListsOK
  BY DEF LockInv, SeatInv, ListInv, TypeOK, ListsOK
<1>1. ASSUME "abort" \notin Ops PROVE \A t \in Thread : ~aborted'[t]
  <2>1. ASSUME NEW t \in Thread, MonitorCall(t) PROVE UNCHANGED aborted
    BY <2>1 DEF MonitorCall, EnterFree, EnterRecursive, EnterQueued, Exit, ExitNotOwner, flagVars
  <2>2. CASE Loops
    BY <1>1, <2>2 DEF Loops, SignalStep, SignalDone, ReleaseStep, ReleaseDone, PurgeStep,
       PurgeDone, flagVars
  <2>3. CASE UNCHANGED vars
    BY <1>1, <2>3 DEF vars, flagVars
  <2> QED BY <1>0, <1>1, <2>1, <2>2, <2>3, AbortedStay DEF Next
<1>2. ASSUME "monitor" \notin Ops PROVE \A t \in Thread : reqCount'[t] = 0
  <2>1. \A o \in Obj : requests[o] = <<>>
    <3> SUFFICES ASSUME NEW o \in Obj, requests[o] # <<>> PROVE FALSE
      OBVIOUS
    <3>1. PICK t \in Thread : t = requests[o][1] /\ t \in Members(requests[o])
      BY <1>0 DEF Members, TypeOK
    <3> QED BY <1>0, <1>2, <3>1, CountQueues
  <2>2. ASSUME NEW o \in Obj, ChangeOwner(o) PROVE UNCHANGED reqCount
    BY <2>1, <2>2 DEF ChangeOwner
  <2>3. \A o \in Obj : ~ \E i \in 1..Len(requests[o]) : PurgeStep(o, i)
    BY <2>1
  <2>4. UNCHANGED reqCount
    BY <1>0, <1>2, <2>2, <2>3, LockSteps DEF LockInv, SeatInv, EnterFree, EnterRecursive,
       EnterQueued, Exit, ReleaseStep, lockVars
  <2> QED BY <1>2, <2>4
<1> QED BY <1>1, <1>2

LEMMA WakeLoops ==
    ASSUME SigInv, Loops
    PROVE  \A t \in Thread : Wake(t)'
<1>0. /\ TypeOK /\ ListsOK /\ NONE \notin Thread /\ LockInv /\ Calm /\ LoopOK /\ CursorLinked
      /\ NoDup(waiting) /\ \A t \in Thread : Wake(t)
  BY ThreadsAssumption DEF SigInv, LockInv, SeatInv, ListInv, ListsOK, TypeOK, ListsDisjoint,
     NoDup
<1>1. CASE SignalStep
  <2>0. PICK c \in Thread : c = cursor
    BY <1>0, <1>1 DEF SignalStep, TypeOK
  <2>1. /\ step = "signal" /\ step' = "signal" /\ sigObj' = sigObj /\ sigObj \in Waitable
        /\ cursor' = IF signaled'[sigObj] THEN NextNode(waiting, c) ELSE NONE
    BY <1>0, <1>1, <2>0 DEF SignalStep, LoopOK
  <2>2. \/ /\ SatBy(wait[c], signaled) /\ signaled' \in Taken(wait[c]) /\ Restart(c, TRUE)
        \/ ~SatBy(wait[c], signaled) /\ UNCHANGED <<signaled, status, listVars, waitVars>>
    BY <1>1, <2>0 DEF SignalStep, Satisfied, SatBy
  <2>3. signaled' \in [Waitable -> BOOLEAN] /\ AtMost(signaled', signaled)
    <3>1. wait[c] \in Wait /\ signaled \in [Waitable -> BOOLEAN]
      BY <1>0 DEF TypeOK
    <3>2. CASE signaled' \in Taken(wait[c])
      BY <3>1, <3>2, TakenLess
    <3>3. CASE UNCHANGED signaled
      BY <3>1, <3>3 DEF AtMost
    <3> QED BY <2>2, <3>2, <3>3
  <2>4. ASSUME NEW t \in Thread, status'[t] = "Waiting"
        PROVE  /\ status[t] = "Waiting" /\ wait'[t] = wait[t]
               /\ \/ waiting' = waiting
                  \/ t # c /\ waiting' \in {Unlink(waiting, c), LinkAtBack(waiting, c)}
               /\ t = c => ~SatBy(wait[c], signaled)
    <3>1. CASE SatBy(wait[c], signaled) /\ Restart(c, TRUE)
      <4>1. status' = [status EXCEPT ![c] = "Ready"] /\ Moved(c, ~suspended[c])
        BY <1>0, <3>1, RestartMoves
      <4>2. t # c /\ status[t] = "Waiting" /\ wait'[t] = wait[t]
        BY <1>0, <2>4, <4>1 DEF TypeOK, Moved
      <4>3. waiting' \in {Unlink(waiting, c), LinkAtBack(waiting, c)}
        BY <3>1 DEF Restart, InsertReady, LinkWaiting
      <4> QED BY <4>2, <4>3
    <3>2. CASE ~SatBy(wait[c], signaled) /\ UNCHANGED <<signaled, status, listVars, waitVars>>
      BY <2>4, <3>2 DEF listVars, waitVars
    <3> QED BY <2>2, <3>1, <3>2
  <2>5. ASSUME NEW t \in Thread, status'[t] = "Waiting" PROVE Wake(t)'
    <3>1. /\ status[t] = "Waiting" /\ wait'[t] = wait[t] /\ wait[t] \in Wait
          /\ t = c => ~SatBy(wait[c], signaled)
      BY <1>0, <2>4, <2>5 DEF TypeOK
    <3>2. PICK e : e = [signaled EXCEPT ![sigObj] = FALSE]
      OBVIOUS
    <3>3. PICK f : f = [signaled' EXCEPT ![sigObj] = FALSE]
      OBVIOUS
    <3>4. ~SatBy(wait[t], e) /\ (SatBy(wait[t], signaled) => Before(waiting, c, t))
      BY <1>0, <2>0, <2>1, <3>1, <3>2 DEF Wake
    <3>5. AtMost(f, e) /\ (~signaled'[sigObj] => AtMost(signaled', e))
      BY <1>0, <2>1, <2>3, <3>2, <3>3 DEF AtMost, TypeOK
    <3>6. ~SatBy(wait[t], f)
      BY <3>1, <3>4, <3>5, SatMonotone
    <3>7. ASSUME SatBy(wait[t], signaled') PROVE Before(waiting', cursor', t)
      <4>1. signaled'[sigObj]
        BY <3>1, <3>4, <3>5, <3>7, SatMonotone
      <4>2. SatBy(wait[t], signaled)
        BY <2>3, <3>1, <3>7, SatMonotone
      <4>3. t # c /\ Before(waiting, c, t)
        BY <3>1, <3>4, <4>2
      <4>4. PICK n : n = NextNode(waiting, c)
        OBVIOUS
      <4>5. Before(waiting, n, t) /\ n # c
        BY <1>0, <4>3, <4>4, NextBefore DEF TypeOK
      <4>6. cursor' = n
        BY <2>1, <4>1, <4>4
      <4>7. Before(waiting', n, t)
        <5>1. waiting \in Seq(Thread)
          BY <1>0 DEF TypeOK
        <5>2. CASE waiting' = Unlink(waiting, c)
          BY <1>0, <4>3, <4>5, <5>1, <5>2, UnlinkBefore
        <5>3. CASE waiting' = LinkAtBack(waiting, c)
          BY <1>0, <4>3, <4>5, <5>1, <5>3, BackBefore
        <5>4. CASE waiting' = waiting
          BY <4>5, <5>4
        <5> QED BY <2>4, <2>5, <5>2, <5>3, <5>4
      <4> QED BY <4>6, <4>7
    <3> QED BY <2>1, <3>1, <3>3, <3>6, <3>7 DEF Wake
  <2> QED BY <2>5 DEF Wake
<1>2. CASE SignalDone
  <2>1. /\ step = "signal" /\ step' # "signal" /\ cursor = NONE
        /\ UNCHANGED <<status, wait, signaled>>
    BY <1>2 DEF SignalDone, flagVars, waitVars
  <2>2. ASSUME NEW t \in Thread PROVE ~Before(waiting, NONE, t)
    BY <1>0 DEF Before, TypeOK
  <2> QED BY <1>0, <2>1, <2>2 DEF Wake
<1>3. ASSUME \A t \in Thread : Still(t), step # "signal", step' # "signal", UNCHANGED signaled
      PROVE  \A t \in Thread : Wake(t)'
  <2>1. AtMost(signaled', signaled)
    BY <1>3 DEF AtMost
  <2> QED BY <1>0, <1>3, <2>1, WakeStill
<1>4. CASE ReleaseDone \/ PurgeDone
  BY <1>3, <1>4 DEF ReleaseDone, PurgeDone, flagVars, waitVars, Still
<1>5. ASSUME NEW o \in Obj, ReleaseStep(o) PROVE \A t \in Thread : Wake(t)'
  BY <1>0, <1>3, <1>5, StillChangeOwner DEF ReleaseStep
<1>6. ASSUME NEW o \in Obj, NEW i \in 1..Len(requests[o]), PurgeStep(o, i)
      PROVE  \A t \in Thread : Wake(t)'
  <2>0. PICK d \in Thread : d = dying
    BY <1>0, <1>6 DEF PurgeStep, LoopOK
  <2>1. d \in Members(requests[o]) /\ DropLockRequest(d)
    BY <1>6, <2>0 DEF PurgeStep, Members
  <2>2. Granted(d)
    BY <1>0, <2>1, GrantedLemma
  <2>3. reqCount[d] # 0
    BY <1>0, <2>1, CountQueues DEF LockInv
  <2>4. \A t \in Thread : Still(t)
    BY <1>0, <2>2, <2>3, StillGranted
  <2> QED BY <1>3, <1>6, <2>4 DEF PurgeStep, loopVars
<1> QED BY <1>1, <1>2, <1>4, <1>5, <1>6 DEF Loops

\* A thread that waits and lives is in the waiting list.
LEMMA WaiterLinked ==
    ASSUME NEW t \in Thread, Seat(t), wait[t] # NoWait, status[t] = "Waiting"
    PROVE  t \in Members(waiting)
BY DEF Seat, InLists

LEMMA WakePassivate ==
    ASSUME SigInv, SeatInv', NEW t \in Thread, Passivate(t), step = "run"
    PROVE  \A u \in Thread : Wake(u)'
<1>0. TypeOK /\ (\A u \in Thread : Wake(u)) /\ Thread \subseteq Waitable
  BY DEF SigInv, LockInv, SeatInv, ListInv, Waitable
<1>1. /\ status' = [status EXCEPT ![t] = "Terminated"]
      /\ wait' = [wait EXCEPT ![t] = NoWait]
      /\ SignalObject(t, waiting')
  BY DEF Passivate
<1>2. waiting' \in Seq(Thread) /\ \A u \in Thread : Seat(u)'
  BY DEF SeatInv, ListInv, TypeOK
<1>3. ASSUME NEW u \in Thread PROVE Wake(u)'
  <2>1. Still(u)
    BY <1>0, <1>1 DEF Still, TypeOK
  <2>2. status'[u] = "Waiting" /\ wait'[u] # NoWait => u \in Members(waiting')
    BY <1>2 DEF Seat, InLists
  <2> QED BY <1>0, <1>1, <1>2, <2>1, <2>2, WakeSignal
<1> QED BY <1>3

LEMMA WakeWait ==
    ASSUME SigInv, NEW t \in Thread, NEW w \in Wait, WaitForSignal(t, w)
    PROVE  \A u \in Thread : Wake(u)'
<1>0. TypeOK /\ (\A u \in Thread : Wake(u))
  BY DEF SigInv, LockInv, SeatInv, ListInv
<1>1. step = "run" /\ step' = "run"
  BY DEF WaitForSignal, InIL, loopVars
<1>2. CASE signaled' \in Taken(w) /\ UNCHANGED <<status, waitVars>>
  <2>1. AtMost(signaled', signaled)
    BY <1>0, <1>2, TakenLess DEF TypeOK
  <2>2. \A u \in Thread : Still(u)
    BY <1>2 DEF Still, waitVars
  <2> QED BY <1>0, <1>1, <2>1, <2>2, WakeStill
<1>3. CASE /\ ~Satisfied(w) /\ wait' = [wait EXCEPT ![t] = w]
           /\ status' = [status EXCEPT ![t] = "Waiting"] /\ UNCHANGED signaled
  <2>1. AtMost(signaled', signaled)
    BY <1>3 DEF AtMost
  <2>2. \A u \in Thread \ {t} : Still(u)
    BY <1>0, <1>3 DEF Still, TypeOK
  <2>3. \A u \in Thread \ {t} : Wake(u)'
    BY <1>0, <1>1, <2>1, <2>2, WakeStill
  <2>4. wait'[t] = w /\ ~SatBy(w, signaled')
    BY <1>0, <1>3 DEF TypeOK, Satisfied, SatBy
  <2>5. Wake(t)'
    BY <1>1, <2>4 DEF Wake
  <2> QED BY <2>3, <2>5
<1> QED BY <1>2, <1>3 DEF WaitForSignal, Block

LEMMA WakeStep ==
    ASSUME SigInv, SeatInv', [Next]_vars
    PROVE  \A t \in Thread : Wake(t)'
<1> DEFINE Goal == \A t \in Thread : Wake(t)'
<1>0. /\ TypeOK /\ ListsOK /\ LockInv /\ Calm /\ SuspendInv
      /\ (\A t \in Thread : Wake(t) /\ Seat(t)) /\ StepOK /\ NONE \notin Thread
  BY ThreadsAssumption DEF SigInv, LockInv, SeatInv, ListInv, ListsOK, TypeOK
<1>1. ASSUME \A u \in Thread : Still(u), step = "run", step' = "run",
             AtMost(signaled', signaled)
      PROVE  Goal
  BY <1>0, <1>1, WakeStill
<1>2. UNCHANGED signaled => AtMost(signaled', signaled)
  BY DEF AtMost
<1>3. ASSUME NEW t \in Thread, Engine(t) PROVE Goal
  <2>1. CASE Dispatch(t) \/ Leave(t) \/ NativeReturn(t) \/ Catch(t)
    <3>1. /\ step = "run" /\ UNCHANGED <<status, wait, signaled, step>>
      BY <2>1 DEF Dispatch, Leave, NativeReturn, Catch, InIL, flagVars, waitVars, loopVars
    <3>2. \A u \in Thread : Still(u)
      BY <3>1 DEF Still
    <3> QED BY <1>1, <1>2, <3>1, <3>2
  <2>2. CASE QuantumExpired(t)
    <3>1. Moved(t, status[t] = "Ready" /\ ~suspended[t])
      BY <1>0, <2>2, PutMoves DEF QuantumExpired, TypeOK
    <3>2. \A u \in Thread : Still(u)
      BY <1>0, <2>2, <3>1, StillMoved DEF QuantumExpired, flagVars
    <3> QED BY <1>1, <1>2, <2>2, <3>2 DEF QuantumExpired, loopVars
  <2>3. CASE SleepExpired(t) \/ WaitExpired(t)
    <3>1. PICK b \in BOOLEAN : Restart(t, b)
      BY <2>3 DEF SleepExpired, WaitExpired
    <3>2. status' = [status EXCEPT ![t] = "Ready"] /\ Moved(t, ~suspended[t])
      BY <1>0, <3>1, RestartMoves
    <3>3. \A u \in Thread : Still(u)
      BY <1>0, <3>2, StillMoved
    <3> QED BY <1>1, <1>2, <2>3, <3>3 DEF SleepExpired, WaitExpired, loopVars
  <2>4. CASE ThreadExit(t)
    BY <2>4, WakePassivate DEF ThreadExit
  <2> QED BY <1>3, <2>1, <2>2, <2>3, <2>4 DEF Engine
<1>4. ASSUME NEW t \in Thread, Kill(t) PROVE Goal
  BY <1>4, WakePassivate DEF Kill
<1>5. ASSUME NEW t \in Thread, NEW o \in Obj,
             EnterFree(t, o) \/ EnterRecursive(t, o) \/ ExitNotOwner(t, o)
      PROVE  Goal
  <2>1. step = "run" /\ UNCHANGED <<status, wait, signaled, step>>
    BY <1>5 DEF EnterFree, EnterRecursive, ExitNotOwner, InIL, flagVars, waitVars, loopVars
  <2>2. \A u \in Thread : Still(u)
    BY <2>1 DEF Still
  <2> QED BY <1>1, <1>2, <2>1, <2>2
<1>6. ASSUME NEW t \in Thread, step = "run", UNCHANGED step, UNCHANGED signaled,
             status' = [status EXCEPT ![t] = "Waiting"], t \in ready, UNCHANGED wait
      PROVE  Goal
  <2>1. wait'[t] = NoWait
    BY <1>0, <1>6 DEF Seat
  <2>2. \A u \in Thread : Still(u)
    BY <1>0, <1>6, <2>1 DEF Still, TypeOK
  <2> QED BY <1>1, <1>2, <1>6, <2>2
<1>7. ASSUME NEW t \in Thread, NEW o \in Obj, EnterQueued(t, o) PROVE Goal
  <2>1. t \in ready
    BY <1>0, <1>7 DEF EnterQueued, InIL, StepOK
  <2> QED BY <1>6, <1>7, <2>1 DEF EnterQueued, Block, InIL, waitVars, loopVars
<1>8. ASSUME NEW t \in Thread, NEW o \in Obj, Exit(t, o) PROVE Goal
  <2>1. step = "run" /\ UNCHANGED <<signaled, step>>
    BY <1>8 DEF Exit, InIL, loopVars
  <2>2. CASE UNCHANGED <<status, wait>>
    BY <1>1, <1>2, <2>1, <2>2 DEF Still
  <2>3. CASE ChangeOwner(o)
    BY <1>0, <1>1, <1>2, <2>1, <2>3, StillChangeOwner
  <2> QED BY <1>8, <2>2, <2>3 DEF Exit
<1>9. ASSUME NEW t \in Thread, EventCall(t) PROVE Goal
  <2>1. CASE WaitEvent(t)
    <3>1. PICK es \in SUBSET Event \ {{}}, all \in BOOLEAN, timed \in BOOLEAN :
            WaitForSignal(t, [objects |-> es, all |-> all, timed |-> timed])
      BY <2>1 DEF WaitEvent
    <3>2. [objects |-> es, all |-> all, timed |-> timed] \in Wait
      BY DEF Wait, Waitable
    <3> QED BY <3>1, <3>2, WakeWait
  <2>2. ASSUME NEW e \in Event, Set(t, e) PROVE Goal
    <3>1. /\ step = "run" /\ SignalObject(e, waiting') /\ UNCHANGED <<status, wait, waiting>>
          /\ e \in Waitable
      BY <2>2 DEF Set, InIL, flagVars, listVars, waitVars, SignalObject, Waitable
    <3>2. \A u \in Thread : Still(u)
      BY <3>1 DEF Still
    <3>3. \A u \in Thread : status'[u] = "Waiting" /\ wait'[u] # NoWait => u \in Members(waiting')
      BY <1>0, <3>1, WaiterLinked
    <3>4. waiting' \in Seq(Thread)
      BY <1>0, <3>1 DEF TypeOK
    <3> QED BY <1>0, <3>1, <3>2, <3>3, <3>4, WakeSignal
  <2>3. ASSUME NEW e \in Event, Reset(t, e) PROVE Goal
    <3>1. step = "run" /\ signaled' = [signaled EXCEPT ![e] = FALSE]
          /\ UNCHANGED <<status, wait, step>>
      BY <2>3 DEF Reset, InIL, flagVars, waitVars, loopVars
    <3>2. AtMost(signaled', signaled)
      BY <1>0, <3>1 DEF AtMost, TypeOK
    <3>3. \A u \in Thread : Still(u)
      BY <3>1 DEF Still
    <3> QED BY <1>1, <3>1, <3>2, <3>3
  <2> QED BY <1>9, <2>1, <2>2, <2>3 DEF EventCall
<1>10. ASSUME NEW t \in Thread, Sleep(t) PROVE Goal
  <2>1. t \in ready
    BY <1>0, <1>10 DEF Sleep, InIL, StepOK
  <2> QED BY <1>6, <1>10, <2>1 DEF Sleep, Block, InIL, loopVars
<1>11. ASSUME NEW t \in Thread, NEW u \in Thread, Start(t, u) PROVE Goal
  <2>1. /\ step = "run" /\ status' = [status EXCEPT ![u] = "Ready"]
        /\ signaled' = [signaled EXCEPT ![u] = FALSE] /\ UNCHANGED step
        /\ Moved(u, TRUE)
    BY <1>0, <1>11, InsertReadyMoves DEF Start, InIL, loopVars
  <2>2. AtMost(signaled', signaled)
    BY <1>0, <2>1 DEF AtMost, TypeOK
  <2>3. \A v \in Thread : Still(v)
    BY <1>0, <2>1, StillMoved
  <2> QED BY <1>1, <2>1, <2>2, <2>3
<1>12. ASSUME NEW t \in Thread, NEW u \in Thread, Join(t, u) PROVE Goal
  <2>1. PICK timed \in BOOLEAN :
          WaitForSignal(t, [objects |-> {u}, all |-> FALSE, timed |-> timed])
    BY <1>12 DEF Join
  <2>2. [objects |-> {u}, all |-> FALSE, timed |-> timed] \in Wait
    BY DEF Wait, Waitable
  <2> QED BY <2>1, <2>2, WakeWait
<1>13. ASSUME NEW t \in Thread, NEW u \in Thread, Suspend(t, u) \/ Resume(t, u) PROVE Goal
  <2>1. PICK b \in BOOLEAN : PutInProperList(u, status[u], b)
    BY <1>13 DEF Suspend, Resume
  <2>2. Moved(u, status[u] = "Ready" /\ ~b)
    BY <1>0, <2>1, PutMoves
  <2>3. step = "run" /\ UNCHANGED <<status, signaled, step>>
    BY <1>13 DEF Suspend, Resume, InIL, loopVars
  <2>4. \A v \in Thread : Still(v)
    BY <1>0, <2>2, <2>3, StillMoved
  <2> QED BY <1>1, <1>2, <2>3, <2>4
<1>14. ASSUME NEW t \in Thread, NEW u \in Thread, Abort(t, u) PROVE Goal
  <2>1. status' = [status EXCEPT ![u] = "Ready"] /\ Moved(u, ~suspended[u])
    BY <1>0, <1>14, RestartMoves DEF Abort
  <2>2. \A v \in Thread : Still(v)
    BY <1>0, <2>1, StillMoved
  <2> QED BY <1>1, <1>2, <1>14, <2>2 DEF Abort, InIL, loopVars
<1>15. CASE UNCHANGED vars
  BY <1>0, <1>15 DEF vars, flagVars, listVars, waitVars, loopVars, Wake, Before, SatBy
<1>16. ASSUME NEW t \in Thread, MonitorCall(t) PROVE Goal
  BY <1>5, <1>7, <1>8, <1>16 DEF MonitorCall
<1>17. ASSUME NEW t \in Thread, ThreadCall(t) PROVE Goal
  BY <1>10, <1>11, <1>12, <1>13, <1>14, <1>17 DEF ThreadCall
<1> QED BY <1>3, <1>4, <1>9, <1>15, <1>16, <1>17, WakeLoops DEF Next

-----------------------------------------------------------------------------
(* What ends a wait *)

\* t goes on in the wait it is in.
Awake(t) ==
    frame[t] = "wait" /\ ~exc[t] /\ ~aborted[t] /\ (status[t] = "Ready" \/ t \in ready)

Woken(t) == Awake(t) => waitResult[t] # "init"

WokenInv == LockInv /\ \A t \in Thread : Woken(t)

\* The step wakes nobody up, or says why.
LEMMA WokenKept ==
    ASSUME NEW t \in Thread, Woken(t),
           Awake(t)' => Awake(t) /\ waitResult'[t] = waitResult[t]
    PROVE  Woken(t)'
BY DEF Woken

LEMMA WokenAlone ==
    ASSUME NEW t \in Thread, Woken(t), Alone(t), waitResult'[t] = waitResult[t]
    PROVE  Woken(t)'
BY DEF Woken, Awake, Alone

\* A request ends in Enter, whatever the queues, so that a grant ends no wait.
LEMMA WokenGranted ==
    ASSUME WokenInv, NEW t \in Thread, Granted(t), reqCount[t] # 0, step # "signal",
           UNCHANGED <<frame, entering, exc, aborted, waitResult>>
    PROVE  \A u \in Thread : Woken(u)'
<1>0. /\ TypeOK /\ StepOK /\ Claim(t) /\ Seat(t) /\ (\A u \in Thread : Woken(u))
      /\ NONE \notin Thread
  BY ThreadsAssumption DEF WokenInv, LockInv, SeatInv, ListInv
<1>1. frame[t] = "wait" => dying # t
  BY <1>0 DEF StepOK, TypeOK
<1>2. frame[t] = "wait" => aborted[t]
  BY <1>0, <1>1 DEF Claim, Fresh
<1>3. Woken(t)'
  BY <1>2 DEF Woken, Awake
<1>4. \A u \in Thread \ {t} : Alone(u)
  BY <1>0 DEF Granted, Moved, Relinked, Alone, TypeOK
<1> QED BY <1>0, <1>3, <1>4, WokenAlone

LEMMA WokenChangeOwner ==
    ASSUME WokenInv, NEW o \in Obj, ChangeOwner(o), step # "signal",
           UNCHANGED <<frame, entering, exc, aborted, waitResult>>
    PROVE  \A u \in Thread : Woken(u)'
<1>0. TypeOK /\ ListsOK /\ CountInv /\ \A u \in Thread : Woken(u)
  BY DEF WokenInv, LockInv, SeatInv, ListInv, TypeOK, ListsOK
<1>1. CASE Freed(o)
  BY <1>0, <1>1, WokenAlone DEF Freed, Alone
<1>2. ASSUME NEW u \in Thread, Handed(o, u) PROVE \A t \in Thread : Woken(t)'
  <2>1. Granted(u) /\ reqCount[u] # 0
    BY <1>0, <1>2, CountQueues DEF Handed
  <2> QED BY <2>1, WokenGranted
<1> QED BY <1>0, <1>1, <1>2, ChangeOwnerCases

LEMMA WokenPassivate ==
    ASSUME WokenInv, NEW t \in Thread, Passivate(t)
    PROVE  \A u \in Thread : Woken(u)'
<1>0. TypeOK /\ \A u \in Thread : Woken(u)
  BY DEF WokenInv, LockInv, SeatInv, ListInv
<1>1. \A u \in Thread \ {t} : Alone(u) /\ waitResult'[u] = waitResult[u]
  BY <1>0 DEF Passivate, codeVars, Alone, TypeOK
<1>2. ~Awake(t)'
  BY <1>0 DEF Passivate, Awake, TypeOK
<1> QED BY <1>0, <1>1, <1>2, WokenAlone DEF Woken

LEMMA WokenBlock ==
    ASSUME WokenInv, NEW t \in Thread, NEW native, Block(t, native),
           UNCHANGED <<exc, aborted>>,
           \A u \in Thread \ {t} : entering'[u] = entering[u] /\ waitResult'[u] = waitResult[u]
    PROVE  \A u \in Thread : Woken(u)'
<1>0. TypeOK /\ \A u \in Thread : Woken(u)
  BY DEF WokenInv, LockInv, SeatInv, ListInv
<1>1. \A u \in Thread \ {t} : Alone(u)
  BY <1>0 DEF Block, LinkWaiting, Alone, TypeOK
<1>2. ~Awake(t)'
  BY <1>0 DEF Block, LinkWaiting, Awake, TypeOK
<1> QED BY <1>0, <1>1, <1>2, WokenAlone DEF Woken

LEMMA WokenWait ==
    ASSUME WokenInv, NEW t \in Thread, NEW w, WaitForSignal(t, w)
    PROVE  \A u \in Thread : Woken(u)'
<1>0. TypeOK /\ \A u \in Thread : Woken(u)
  BY DEF WokenInv, LockInv, SeatInv, ListInv
<1>1. CASE UNCHANGED <<status, codeVars, listVars, current, waitVars>>
  BY <1>0, <1>1, WokenAlone DEF WaitForSignal, codeVars, listVars, waitVars, Alone
<1>2. CASE /\ waitResult' = [waitResult EXCEPT ![t] = "init"]
           /\ Block(t, "wait") /\ UNCHANGED entering
  BY <1>0, <1>2, WokenBlock DEF WaitForSignal, TypeOK
<1> QED BY <1>1, <1>2 DEF WaitForSignal

\* A thread that is moved is not woken up, unless it is said why.
LEMMA WokenMoved ==
    ASSUME WokenInv, NEW t \in Thread, NEW b, Moved(t, b),
           status' = status \/ status' = [status EXCEPT ![t] = "Ready"],
           UNCHANGED codeVars,
           \A u \in Thread \ {t} : /\ exc'[u] = exc[u] /\ aborted'[u] = aborted[u]
                                   /\ waitResult'[u] = waitResult[u],
           Woken(t)'
    PROVE  \A u \in Thread : Woken(u)'
<1>0. TypeOK /\ \A u \in Thread : Woken(u)
  BY DEF WokenInv, LockInv, SeatInv, ListInv
<1>1. \A u \in Thread \ {t} : Alone(u)
  BY <1>0 DEF Moved, Relinked, Alone, TypeOK, codeVars
<1> QED BY <1>0, <1>1, WokenAlone

LEMMA WokenEngine ==
    ASSUME WokenInv, NEW t \in Thread, Engine(t) \/ Kill(t)
    PROVE  \A u \in Thread : Woken(u)'
<1> DEFINE Goal == \A u \in Thread : Woken(u)'
<1>0. /\ TypeOK /\ ListsOK /\ StepOK /\ NONE \notin Thread
      /\ \A u \in Thread : Woken(u) /\ Seat(u)
  BY ThreadsAssumption DEF WokenInv, LockInv, SeatInv, ListInv, ListsOK, TypeOK
<1>1. CASE Dispatch(t)
  BY <1>0, <1>1, WokenAlone DEF Dispatch, flagVars, codeVars, listVars, waitVars, Alone
<1>2. CASE Leave(t)
  <2>1. \A u \in Thread \ {t} : Alone(u) /\ waitResult'[u] = waitResult[u]
    BY <1>0, <1>2 DEF Leave, codeVars, listVars, waitVars, Alone, TypeOK
  <2>2. ~Awake(t)'
    BY <1>0, <1>2 DEF Leave, Awake, TypeOK
  <2> QED BY <1>0, <2>1, <2>2, WokenAlone DEF Woken
<1>3. CASE NativeReturn(t) \/ Catch(t)
  <2>1. \A u \in Thread \ {t} : Alone(u) /\ waitResult'[u] = waitResult[u]
    BY <1>0, <1>3 DEF NativeReturn, Catch, flagVars, listVars, Alone, TypeOK
  <2>2. ~Awake(t)'
    BY <1>0, <1>3 DEF NativeReturn, Catch, Awake, TypeOK
  <2> QED BY <1>0, <2>1, <2>2, WokenAlone DEF Woken
<1>4. CASE QuantumExpired(t)
  <2>1. Moved(t, status[t] = "Ready" /\ ~suspended[t]) /\ t \in ready
    BY <1>0, <1>4, PutMoves DEF QuantumExpired, TypeOK, StepOK
  <2>2. UNCHANGED <<flagVars, codeVars, waitResult>>
    BY <1>4 DEF QuantumExpired
  <2>3. Woken(t)'
    BY <1>0, <2>1, <2>2 DEF Woken, Awake, flagVars, codeVars
  <2> QED BY <2>1, <2>2, <2>3, WokenMoved DEF flagVars
<1>5. CASE SleepExpired(t)
  <2>1. status' = [status EXCEPT ![t] = "Ready"] /\ Moved(t, ~suspended[t])
    BY <1>0, <1>5, RestartMoves DEF SleepExpired
  <2>2. UNCHANGED <<aborted, exc, codeVars, waitResult>> /\ frame[t] = "sleep"
    BY <1>0, <1>5 DEF SleepExpired, Seat
  <2>3. Woken(t)'
    BY <2>2 DEF Woken, Awake, codeVars
  <2> QED BY <2>1, <2>2, <2>3, WokenMoved
<1>6. CASE WaitExpired(t)
  <2>1. status' = [status EXCEPT ![t] = "Ready"] /\ Moved(t, ~suspended[t])
    BY <1>0, <1>6, RestartMoves DEF WaitExpired
  <2>2. /\ UNCHANGED <<aborted, exc, codeVars>>
        /\ waitResult' = [waitResult EXCEPT ![t] = "timeout"]
    BY <1>6 DEF WaitExpired
  <2>3. Woken(t)' /\ \A u \in Thread \ {t} : waitResult'[u] = waitResult[u]
    BY <1>0, <2>2 DEF Woken, TypeOK
  <2> QED BY <2>1, <2>2, <2>3, WokenMoved
<1>7. CASE ThreadExit(t) \/ Kill(t)
  BY <1>7, WokenPassivate DEF ThreadExit, Kill
<1> QED BY <1>1, <1>2, <1>3, <1>4, <1>5, <1>6, <1>7 DEF Engine

LEMMA WokenMonitor ==
    ASSUME WokenInv, NEW t \in Thread, MonitorCall(t)
    PROVE  \A u \in Thread : Woken(u)'
<1>0. TypeOK /\ \A u \in Thread : Woken(u)
  BY DEF WokenInv, LockInv, SeatInv, ListInv
<1>1. PICK o \in Obj : \/ EnterFree(t, o) \/ EnterRecursive(t, o)
                       \/ EnterQueued(t, o) \/ Exit(t, o) \/ ExitNotOwner(t, o)
  BY DEF MonitorCall
<1>2. CASE EnterFree(t, o) \/ EnterRecursive(t, o)
  BY <1>0, <1>2, WokenAlone DEF EnterFree, EnterRecursive, flagVars, codeVars, listVars,
     waitVars, Alone
<1>3. CASE ExitNotOwner(t, o)
  <2>1. \A u \in Thread \ {t} : Alone(u) /\ waitResult'[u] = waitResult[u]
    BY <1>0, <1>3 DEF ExitNotOwner, codeVars, listVars, waitVars, Alone, TypeOK
  <2>2. ~Awake(t)'
    BY <1>0, <1>3 DEF ExitNotOwner, Awake, TypeOK
  <2> QED BY <1>0, <2>1, <2>2, WokenAlone DEF Woken
<1>4. CASE EnterQueued(t, o)
  <2>1. /\ Block(t, "enter") /\ UNCHANGED <<aborted, exc, waitVars>>
        /\ \A u \in Thread \ {t} : entering'[u] = entering[u]
    BY <1>0, <1>4 DEF EnterQueued, TypeOK
  <2> QED BY <2>1, WokenBlock DEF waitVars
<1>5. CASE Exit(t, o)
  <2>1. step = "run" /\ UNCHANGED <<frame, entering, exc, aborted, waitResult>>
    BY <1>5 DEF Exit, InIL, codeVars
  <2>2. CASE UNCHANGED <<status, listVars>>
    BY <1>0, <2>1, <2>2, WokenAlone DEF listVars, Alone
  <2>3. CASE ChangeOwner(o)
    BY <2>1, <2>3, WokenChangeOwner
  <2> QED BY <1>5, <2>2, <2>3 DEF Exit
<1> QED BY <1>1, <1>2, <1>3, <1>4, <1>5

LEMMA WokenCall ==
    ASSUME WokenInv, NEW t \in Thread, EventCall(t) \/ ThreadCall(t)
    PROVE  \A u \in Thread : Woken(u)'
<1> DEFINE Goal == \A u \in Thread : Woken(u)'
<1>0. TypeOK /\ ListsOK /\ (\A u \in Thread : Woken(u)) /\ SuspendInv
  BY DEF WokenInv, LockInv, SeatInv, ListInv, ListsOK, TypeOK
<1>1. ASSUME EventCall(t) PROVE Goal
  <2>1. CASE WaitEvent(t)
    BY <2>1, WokenWait DEF WaitEvent
  <2>2. ASSUME NEW e \in Event, Set(t, e) \/ Reset(t, e) PROVE Goal
    BY <1>0, <2>2, WokenAlone DEF Set, Reset, flagVars, codeVars, listVars, waitVars, Alone
  <2> QED BY <1>1, <2>1, <2>2 DEF EventCall
<1>2. ASSUME Sleep(t) PROVE Goal
  BY <1>0, <1>2, WokenBlock DEF Sleep
<1>3. ASSUME NEW u \in Thread, Start(t, u) PROVE Goal
  <2>1. \A v \in Thread \ {u} : Alone(v) /\ waitResult'[v] = waitResult[v]
    BY <1>0, <1>3 DEF Start, InsertReady, Alone, TypeOK
  <2>2. ~Awake(u)'
    BY <1>0, <1>3 DEF Start, Awake, TypeOK
  <2> QED BY <1>0, <2>1, <2>2, WokenAlone DEF Woken
<1>4. ASSUME NEW u \in Thread, Join(t, u) PROVE Goal
  BY <1>4, WokenWait DEF Join
<1>5. ASSUME NEW u \in Thread, Suspend(t, u) \/ Resume(t, u) PROVE Goal
  <2>1. PICK b \in BOOLEAN : PutInProperList(u, status[u], b)
    BY <1>5 DEF Suspend, Resume
  <2>2. Moved(u, status[u] = "Ready" /\ ~b)
    BY <1>0, <2>1, PutMoves
  <2>3. UNCHANGED <<status, aborted, exc, codeVars, waitResult>>
    BY <1>5 DEF Suspend, Resume
  <2>4. u \in ready' => status[u] = "Ready"
    BY <2>2 DEF Moved, Relinked
  <2>5. Woken(u)'
    BY <1>0, <2>3, <2>4 DEF Woken, Awake, codeVars
  <2> QED BY <2>2, <2>3, <2>5, WokenMoved
<1>6. ASSUME NEW u \in Thread, Abort(t, u) PROVE Goal
  <2>1. status' = [status EXCEPT ![u] = "Ready"] /\ Moved(u, ~suspended[u])
    BY <1>0, <1>6, RestartMoves DEF Abort
  <2>2. /\ UNCHANGED <<codeVars, waitResult>> /\ exc'[u]
        /\ \A v \in Thread \ {u} : exc'[v] = exc[v] /\ aborted'[v] = aborted[v]
    BY <1>0, <1>6 DEF Abort, TypeOK
  <2>3. Woken(u)'
    BY <2>2 DEF Woken, Awake
  <2> QED BY <2>1, <2>2, <2>3, WokenMoved
<1>7. ThreadCall(t) => Goal
  BY <1>2, <1>3, <1>4, <1>5, <1>6 DEF ThreadCall
<1> QED BY <1>1, <1>7

LEMMA WokenLoops ==
    ASSUME WokenInv, Loops
    PROVE  \A u \in Thread : Woken(u)'
<1>0. /\ TypeOK /\ ListsOK /\ CountInv /\ LoopOK /\ NONE \notin Thread
      /\ \A u \in Thread : Woken(u)
  BY ThreadsAssumption DEF WokenInv, LockInv, SeatInv, ListInv, ListsOK, TypeOK
<1>1. CASE SignalStep
  <2>0. PICK c \in Thread : c = cursor
    BY <1>0, <1>1 DEF SignalStep, TypeOK
  <2>1. UNCHANGED <<aborted, exc, codeVars>>
    BY <1>1 DEF SignalStep
  <2>2. CASE waitResult' = [waitResult EXCEPT ![c] = "handle"] /\ Restart(c, TRUE)
    <3>1. status' = [status EXCEPT ![c] = "Ready"] /\ Moved(c, ~suspended[c])
      BY <1>0, <2>2, RestartMoves
    <3>2. Woken(c)' /\ \A u \in Thread \ {c} : waitResult'[u] = waitResult[u]
      BY <1>0, <2>2 DEF Woken, TypeOK
    <3> QED BY <2>1, <3>1, <3>2, WokenMoved
  <2>3. CASE UNCHANGED <<status, listVars, waitVars>>
    BY <1>0, <2>1, <2>3, WokenAlone DEF codeVars, listVars, waitVars, Alone
  <2> QED BY <1>1, <2>0, <2>2, <2>3 DEF SignalStep
<1>2. CASE SignalDone
  <2>1. UNCHANGED <<flagVars, listVars, waitVars>>
    BY <1>2 DEF SignalDone
  <2>2. \A u \in Thread : frame'[u] = frame[u] \/ frame'[u] = "none"
    BY <1>0, <1>2 DEF SignalDone, codeVars, TypeOK
  <2> QED BY <1>0, <2>1, <2>2 DEF Woken, Awake, flagVars, listVars, waitVars
<1>3. CASE ReleaseDone \/ PurgeDone
  BY <1>0, <1>3, WokenAlone DEF ReleaseDone, PurgeDone, flagVars, codeVars, listVars,
     waitVars, Alone
<1>4. ASSUME NEW o \in Obj, ReleaseStep(o) PROVE \A u \in Thread : Woken(u)'
  BY <1>4, WokenChangeOwner DEF ReleaseStep, codeVars
<1>5. ASSUME NEW o \in Obj, NEW i \in 1..Len(requests[o]), PurgeStep(o, i)
      PROVE  \A u \in Thread : Woken(u)'
  <2>0. PICK d \in Thread : d = dying
    BY <1>0, <1>5 DEF PurgeStep, LoopOK
  <2>1. d \in Members(requests[o]) /\ DropLockRequest(d)
    BY <1>5, <2>0 DEF PurgeStep, Members
  <2>2. Granted(d)
    BY <1>0, <2>1, GrantedLemma
  <2>3. reqCount[d] # 0
    BY <1>0, <2>1, CountQueues
  <2> QED BY <1>5, <2>2, <2>3, WokenGranted DEF PurgeStep, codeVars
<1> QED BY <1>1, <1>2, <1>3, <1>4, <1>5 DEF Loops

LEMMA WokenStep ==
    ASSUME WokenInv, [Next]_vars
    PROVE  \A t \in Thread : Woken(t)'
<1>1. CASE UNCHANGED vars
  BY <1>1 DEF WokenInv, Woken, Awake, vars, flagVars, codeVars, listVars, waitVars
<1> QED BY <1>1, WokenEngine, WokenMonitor, WokenCall, WokenLoops DEF Next

-----------------------------------------------------------------------------
(* Joins *)

\* A thread that has ended is signaled, and who joins it waits for nothing else.
JoinOK ==
    /\ \A u \in Thread : status[u] = "Terminated" => signaled[u]
    /\ \A t, u \in Thread : u \in wait[t].objects => wait[t].objects = {u}

JoinInv == SeatInv /\ JoinOK

\* Waits may end, and no thread does.
Tame ==
    /\ \A t \in Thread : wait'[t] = wait[t] \/ wait'[t] = NoWait
    /\ \A t \in Thread : status'[t] = "Terminated" => status[t] = "Terminated"
    /\ \A t \in Thread : signaled[t] => signaled'[t]

LEMMA JoinKept ==
    ASSUME JoinOK, Tame
    PROVE  JoinOK'
BY DEF JoinOK, Tame, NoWait

LEMMA JoinMoved ==
    ASSUME JoinInv, NEW t \in Thread, NEW b, Moved(t, b), UNCHANGED signaled,
           NEW st, st # "Terminated",
           status' = status \/ status' = [status EXCEPT ![t] = st]
    PROVE  JoinOK'
<1>1. TypeOK
  BY DEF JoinInv, SeatInv, ListInv
<1>2. Tame
  BY <1>1 DEF Tame, Moved, TypeOK
<1> QED BY <1>2, JoinKept DEF JoinInv

LEMMA JoinGranted ==
    ASSUME JoinInv, NEW t \in Thread, Granted(t), UNCHANGED signaled
    PROVE  JoinOK'
<1>0. TypeOK
  BY DEF JoinInv, SeatInv, ListInv
<1>1. CASE status' = [status EXCEPT ![t] = "Ready"] /\ Moved(t, ~suspended[t])
  BY <1>1, JoinMoved
<1>2. CASE status' = [status EXCEPT ![t] = "Waiting"] /\ UNCHANGED wait
  <2>1. Tame
    BY <1>0, <1>2 DEF Tame, TypeOK
  <2> QED BY <2>1, JoinKept DEF JoinInv
<1> QED BY <1>1, <1>2 DEF Granted

LEMMA JoinChangeOwner ==
    ASSUME JoinInv, NEW o \in Obj, ChangeOwner(o), UNCHANGED signaled
    PROVE  JoinOK'
<1>0. TypeOK /\ ListsOK
  BY DEF JoinInv, SeatInv, ListInv, TypeOK, ListsOK
<1>1. CASE Freed(o)
  <2>1. Tame
    BY <1>1 DEF Tame, Freed
  <2> QED BY <2>1, JoinKept DEF JoinInv
<1>2. ASSUME NEW u \in Thread, Handed(o, u) PROVE JoinOK'
  BY <1>2, JoinGranted DEF Handed
<1> QED BY <1>0, <1>1, <1>2, ChangeOwnerCases

LEMMA JoinPassivate ==
    ASSUME JoinInv, NEW t \in Thread, Passivate(t)
    PROVE  JoinOK'
<1>0. TypeOK /\ t \in Waitable
  BY DEF JoinInv, SeatInv, ListInv, Waitable
<1>1. /\ status' = [status EXCEPT ![t] = "Terminated"]
      /\ wait' = [wait EXCEPT ![t] = NoWait]
      /\ signaled' = [signaled EXCEPT ![t] = TRUE]
  BY DEF Passivate, SignalObject
<1>2. \A u \in Thread : status'[u] = "Terminated" => signaled'[u]
  BY <1>0, <1>1 DEF JoinInv, JoinOK, TypeOK
<1>3. \A u \in Thread : wait'[u] = wait[u] \/ wait'[u] = NoWait
  BY <1>0, <1>1 DEF TypeOK
<1> QED BY <1>2, <1>3 DEF JoinInv, JoinOK, NoWait

LEMMA JoinWait ==
    ASSUME JoinInv, NEW t \in Thread, NEW w \in Wait, WaitForSignal(t, w),
           \A u \in Thread : u \in w.objects => w.objects = {u}
    PROVE  JoinOK'
<1>0. TypeOK
  BY DEF JoinInv, SeatInv, ListInv
<1>1. CASE signaled' \in Taken(w) /\ UNCHANGED <<status, waitVars>>
  <2>1. Tame
    BY <1>0, <1>1, TakenLess DEF Tame, waitVars, TypeOK
  <2> QED BY <2>1, JoinKept DEF JoinInv
<1>2. CASE /\ wait' = [wait EXCEPT ![t] = w] /\ UNCHANGED signaled
           /\ status' = [status EXCEPT ![t] = "Waiting"]
  <2>1. \A u \in Thread : status'[u] = "Terminated" => signaled'[u]
    BY <1>0, <1>2 DEF JoinInv, JoinOK, TypeOK
  <2>2. \A v, u \in Thread : u \in wait'[v].objects => wait'[v].objects = {u}
    BY <1>0, <1>2 DEF JoinInv, JoinOK, TypeOK
  <2> QED BY <2>1, <2>2 DEF JoinOK
<1> QED BY <1>1, <1>2 DEF WaitForSignal, Block

LEMMA JoinStep ==
    ASSUME JoinInv, [Next]_vars
    PROVE  JoinOK'
<1>0. /\ TypeOK /\ ListsOK /\ JoinOK /\ LoopOK
      /\ Thread \cap Event = {} /\ NONE \notin Thread
  BY ThreadsAssumption DEF JoinInv, SeatInv, ListInv, ListsOK, TypeOK
<1>1. UNCHANGED <<status, wait, signaled>> => JoinOK'
  BY <1>0 DEF JoinOK
<1>2. ASSUME NEW t \in Thread, Engine(t) \/ Kill(t) PROVE JoinOK'
  <2>1. CASE Dispatch(t) \/ Leave(t) \/ NativeReturn(t) \/ Catch(t)
    BY <1>1, <2>1 DEF Dispatch, Leave, NativeReturn, Catch, flagVars, waitVars
  <2>2. CASE QuantumExpired(t)
    <3>1. Moved(t, status[t] = "Ready" /\ ~suspended[t])
      BY <1>0, <2>2, PutMoves DEF QuantumExpired, TypeOK
    <3> QED BY <2>2, <3>1, JoinMoved DEF QuantumExpired, flagVars
  <2>3. CASE SleepExpired(t) \/ WaitExpired(t)
    <3>1. PICK b \in BOOLEAN : Restart(t, b)
      BY <2>3 DEF SleepExpired, WaitExpired
    <3>2. status' = [status EXCEPT ![t] = "Ready"] /\ Moved(t, ~suspended[t])
      BY <1>0, <3>1, RestartMoves
    <3> QED BY <2>3, <3>2, JoinMoved DEF SleepExpired, WaitExpired
  <2>4. CASE ThreadExit(t) \/ Kill(t)
    BY <2>4, JoinPassivate DEF ThreadExit, Kill
  <2> QED BY <1>2, <2>1, <2>2, <2>3, <2>4 DEF Engine
<1>3. ASSUME NEW t \in Thread, MonitorCall(t) PROVE JoinOK'
  <2>1. PICK o \in Obj : \/ EnterFree(t, o) \/ EnterRecursive(t, o)
                         \/ EnterQueued(t, o) \/ Exit(t, o) \/ ExitNotOwner(t, o)
    BY <1>3 DEF MonitorCall
  <2>2. CASE EnterFree(t, o) \/ EnterRecursive(t, o) \/ ExitNotOwner(t, o)
    BY <1>1, <2>2 DEF EnterFree, EnterRecursive, ExitNotOwner, flagVars, waitVars
  <2>3. CASE EnterQueued(t, o)
    <3>1. Tame
      BY <1>0, <2>3 DEF EnterQueued, Block, waitVars, Tame, TypeOK
    <3> QED BY <1>0, <3>1, JoinKept
  <2>4. CASE Exit(t, o)
    BY <1>1, <2>4, JoinChangeOwner DEF Exit
  <2> QED BY <2>1, <2>2, <2>3, <2>4
<1>4. ASSUME NEW t \in Thread, EventCall(t) PROVE JoinOK'
  <2>1. CASE WaitEvent(t)
    <3>1. PICK es \in SUBSET Event \ {{}}, all \in BOOLEAN, timed \in BOOLEAN :
            WaitForSignal(t, [objects |-> es, all |-> all, timed |-> timed])
      BY <2>1 DEF WaitEvent
    <3>2. PICK w : w = [objects |-> es, all |-> all, timed |-> timed]
      OBVIOUS
    <3>3. w \in Wait /\ w.objects = es
      BY <3>2 DEF Wait, Waitable
    <3>4. \A u \in Thread : u \in w.objects => w.objects = {u}
      BY <1>0, <3>1, <3>3
    <3> QED BY <3>1, <3>2, <3>3, <3>4, JoinWait
  <2>2. ASSUME NEW e \in Event, Set(t, e) \/ Reset(t, e) PROVE JoinOK'
    <3>1. UNCHANGED <<status, wait>> /\ \A u \in Thread : signaled'[u] = signaled[u]
      BY <1>0, <2>2 DEF Set, Reset, SignalObject, flagVars, waitVars, TypeOK, Waitable
    <3>2. Tame
      BY <3>1 DEF Tame
    <3> QED BY <1>0, <3>2, JoinKept
  <2> QED BY <1>4, <2>1, <2>2 DEF EventCall
<1>5. ASSUME NEW t \in Thread, Sleep(t) PROVE JoinOK'
  <2>1. Tame
    BY <1>0, <1>5 DEF Sleep, Block, Tame, TypeOK
  <2> QED BY <1>0, <2>1, JoinKept
<1>6. ASSUME NEW t \in Thread, NEW u \in Thread, Start(t, u) PROVE JoinOK'
  <2>1. /\ status' = [status EXCEPT ![u] = "Ready"]
        /\ signaled' = [signaled EXCEPT ![u] = FALSE]
        /\ wait' = [wait EXCEPT ![u] = NoWait]
    BY <1>6 DEF Start, InsertReady
  <2>2. \A v \in Thread : status'[v] = "Terminated" => signaled'[v]
    BY <1>0, <2>1 DEF JoinOK, TypeOK
  <2>3. \A v \in Thread : wait'[v] = wait[v] \/ wait'[v] = NoWait
    BY <1>0, <2>1 DEF TypeOK
  <2> QED BY <1>0, <2>2, <2>3 DEF JoinOK, NoWait
<1>7. ASSUME NEW t \in Thread, NEW u \in Thread, Join(t, u) PROVE JoinOK'
  <2>1. PICK timed \in BOOLEAN :
          WaitForSignal(t, [objects |-> {u}, all |-> FALSE, timed |-> timed])
    BY <1>7 DEF Join
  <2>2. PICK w : w = [objects |-> {u}, all |-> FALSE, timed |-> timed]
    OBVIOUS
  <2>3. w \in Wait /\ w.objects = {u}
    BY <2>2 DEF Wait, Waitable
  <2> QED BY <2>1, <2>2, <2>3, JoinWait
<1>8. ASSUME NEW t \in Thread, NEW u \in Thread, Suspend(t, u) \/ Resume(t, u) PROVE JoinOK'
  <2>1. PICK b \in BOOLEAN : PutInProperList(u, status[u], b)
    BY <1>8 DEF Suspend, Resume
  <2>2. Moved(u, status[u] = "Ready" /\ ~b)
    BY <1>0, <2>1, PutMoves
  <2> QED BY <1>8, <2>2, JoinMoved DEF Suspend, Resume
<1>9. ASSUME NEW t \in Thread, NEW u \in Thread, Abort(t, u) PROVE JoinOK'
  <2>1. status' = [status EXCEPT ![u] = "Ready"] /\ Moved(u, ~suspended[u])
    BY <1>0, <1>9, RestartMoves DEF Abort
  <2> QED BY <1>9, <2>1, JoinMoved DEF Abort
<1>10. ASSUME NEW t \in Thread, ThreadCall(t) PROVE JoinOK'
  BY <1>5, <1>6, <1>7, <1>8, <1>9, <1>10 DEF ThreadCall
<1>11. CASE Loops
  <2>1. CASE SignalStep
    <3>0. PICK c \in Thread : c = cursor
      BY <1>0, <2>1 DEF SignalStep, TypeOK
    <3>1. CASE signaled' \in Taken(wait[c]) /\ Restart(c, TRUE)
      <4>1. status' = [status EXCEPT ![c] = "Ready"] /\ Moved(c, ~suspended[c])
        BY <1>0, <3>1, RestartMoves
      <4>2. wait[c] \in Wait /\ signaled \in [Waitable -> BOOLEAN]
        BY <1>0 DEF TypeOK
      <4>3. \A u \in Thread : signaled[u] => signaled'[u]
        BY <3>1, <4>2, TakenLess
      <4>4. Tame
        BY <1>0, <4>1, <4>3 DEF Tame, Moved, TypeOK
      <4> QED BY <1>0, <4>4, JoinKept
    <3> QED BY <1>1, <2>1, <3>0, <3>1 DEF SignalStep, waitVars
  <2>2. CASE SignalDone \/ ReleaseDone \/ PurgeDone
    BY <1>1, <2>2 DEF SignalDone, ReleaseDone, PurgeDone, flagVars, waitVars
  <2>3. ASSUME NEW o \in Obj, ReleaseStep(o) PROVE JoinOK'
    BY <2>3, JoinChangeOwner DEF ReleaseStep
  <2>4. ASSUME NEW o \in Obj, NEW i \in 1..Len(requests[o]), PurgeStep(o, i) PROVE JoinOK'
    <3>0. PICK d \in Thread : d = dying
      BY <1>0, <2>4 DEF PurgeStep, LoopOK
    <3>1. Granted(d)
      BY <1>0, <2>4, <3>0, GrantedLemma DEF PurgeStep
    <3> QED BY <2>4, <3>1, JoinGranted DEF PurgeStep
  <2> QED BY <1>11, <2>1, <2>2, <2>3, <2>4 DEF Loops
<1>12. CASE UNCHANGED vars
  BY <1>1, <1>12 DEF vars, flagVars, waitVars
<1> QED BY <1>2, <1>3, <1>4, <1>10, <1>11, <1>12 DEF Next

-----------------------------------------------------------------------------
(* The theorems *)

LEMMA InitSigInv ==
    ASSUME Init
    PROVE  /\ \A t \in Thread : /\ ~aborted[t] /\ reqCount[t] = 0
                                /\ Rest(t) /\ Wake(t) /\ Woken(t)
           /\ JoinOK
<1>1. \A t \in Thread : ~aborted[t] /\ reqCount[t] = 0
  BY DEF Init
<1>2. \A t \in Thread : Rest(t)
  BY <1>1, ThreadsAssumption DEF Init, Rest
<1>3. \A t \in Thread : Wake(t)
  BY DEF Init, Wake
<1>4. \A t \in Thread : Woken(t)
  BY DEF Init, Woken, Awake
<1>5. JoinOK
  BY DEF Init, JoinOK, NoWait
<1> QED BY <1>1, <1>2, <1>3, <1>4, <1>5

\* A wait goes on until it is satisfied or timed out or its thread is aborted:
\* no grant of a lock, no suspension and no resumption ends it.
THEOREM WaitsEndForAReason == Spec => []NoSpuriousWakeup
<1>1. Init => WokenInv
  BY InitLockInv, InitSigInv DEF WokenInv
<1>2. WokenInv /\ [Next]_vars => WokenInv'
  BY LockStep, WokenStep DEF WokenInv
<1>3. WokenInv => NoSpuriousWakeup
  BY ThreadsAssumption DEF WokenInv, Woken, Awake, NoSpuriousWakeup, LockInv, SeatInv, StepOK
<1> QED BY <1>1, <1>2, <1>3, PTL DEF Spec

\* What a program that never aborts, or that uses no monitor, never has.
CalmOps ==
    /\ "abort" \notin Ops => \A t \in Thread : ~aborted[t]
    /\ "monitor" \notin Ops => \A t \in Thread : reqCount[t] = 0

\* No signal is lost and none is invented, in programs that do not both abort
\* threads and use monitors: a stale request of an aborted thread may leave it
\* Waiting after its wait was satisfied.
THEOREM SignalsStayExact ==
    ASSUME ~({"abort", "monitor"} \subseteq Ops)
    PROVE  Spec => []SignalsExact
<1>1. CalmOps => Calm
  BY DEF CalmOps, Calm
<1>2. Init => SigInv /\ CalmOps
  BY <1>1, InitLockInv, InitSigInv DEF SigInv, CalmOps
<1>3. SigInv /\ CalmOps /\ [Next]_vars => SigInv' /\ CalmOps'
  <2> SUFFICES ASSUME SigInv, CalmOps, [Next]_vars PROVE SigInv' /\ CalmOps'
    OBVIOUS
  <2>1. LockInv' /\ SeatInv'
    BY LockStep DEF SigInv, LockInv
  <2>2. CalmOps'
    BY CalmStep DEF SigInv, CalmOps
  <2>3. \A t \in Thread : Wake(t)'
    BY <2>1, WakeStep
  <2>4. Calm'
    BY <2>2 DEF CalmOps, Calm
  <2> QED BY <2>1, <2>2, <2>3, <2>4 DEF SigInv
<1>4. SigInv => NoLostSignal
  BY DEF SigInv, Wake, NoLostSignal, Satisfied, SatBy
<1> QED BY <1>2, <1>3, <1>4, WaitsEndForAReason, PTL DEF Spec, SignalsExact

\* Without Abort, a request for a lock ends with the wait it belongs to and with
\* its thread: who runs has none, and who dies leaves no lock, no request and
\* nobody who has joined it behind.
THEOREM RequestsEndWithWaits ==
    ASSUME "abort" \notin Ops
    PROVE  Spec => []RequestsEnd
<1>1. Init => RestInv
  BY InitLockInv, InitSigInv DEF RestInv
<1>2. RestInv /\ [Next]_vars => RestInv'
  <2> SUFFICES ASSUME RestInv, [Next]_vars PROVE RestInv'
    OBVIOUS
  <2>1. LockInv'
    BY LockStep DEF RestInv
  <2> QED BY <2>1, RestStep DEF RestInv, LockInv
<1>3. Init => JoinInv
  BY InitSeatInv, InitSigInv DEF JoinInv
<1>4. JoinInv /\ SeatInv' /\ [Next]_vars => JoinInv'
  BY JoinStep DEF JoinInv
<1>5. RestInv => SeatInv
  BY DEF RestInv, LockInv
<1>6. RestInv => RunningHasNoRequest
  <2> SUFFICES ASSUME RestInv, NEW t \in Thread, t = current PROVE reqCount[t] = 0
    BY DEF RunningHasNoRequest, RestInv, LockInv, SeatInv, ListInv, TypeOK
  <2>1. t \in ready /\ dying = NONE
    BY ThreadsAssumption DEF RestInv, LockInv, SeatInv, StepOK, ListInv, TypeOK
  <2>2. CASE frame[t] = "none"
    BY <2>1, <2>2, ThreadsAssumption DEF RestInv, Rest, Late
  <2>3. CASE frame[t] # "none"
    BY <2>1, <2>3, RestFresh, ThreadsAssumption
  <2> QED BY <2>2, <2>3
<1>7. RestInv => DeadOwnsNoLock
  <2> SUFFICES ASSUME RestInv, step = "run", NEW o \in Obj, owner[o] # NONE,
                      frame[owner[o]] = "none"
               PROVE  FALSE
    BY DEF DeadOwnsNoLock
  <2>1. PICK t \in Thread : t = owner[o]
    BY DEF RestInv, LockInv, SeatInv, ListInv, TypeOK
  <2> QED BY <2>1 DEF RestInv, Rest
<1>8. RestInv => DeadRequestsNothing
  <2> SUFFICES ASSUME RestInv, step = "run", NEW o \in Obj, NEW t \in Members(requests[o]),
                      frame[t] = "none"
               PROVE  FALSE
    BY DEF DeadRequestsNothing
  <2>1. t \in Thread /\ CountInv
    BY DEF RestInv, LockInv, SeatInv, ListInv, TypeOK, Members
  <2>2. reqCount[t] = 0
    BY <2>1 DEF RestInv, Rest, Late
  <2> QED BY <2>1, <2>2, CountQueues
<1>9. SeatInv /\ JoinInv /\ SignalsExact => NoStrandedJoiner
  <2> SUFFICES ASSUME SeatInv, JoinInv, SignalsExact, step = "run",
                      NEW t \in Thread, NEW u \in Thread, status[u] = "Terminated",
                      status[t] = "Waiting", u \in wait[t].objects
               PROVE  FALSE
    BY DEF NoStrandedJoiner
  <2>1. wait[t].objects = {u} /\ signaled[u]
    BY DEF JoinInv, JoinOK
  <2>2. wait[t] # NoWait
    BY <2>1 DEF NoWait
  <2>3. t \in Members(waiting)
    BY <2>2, WaiterLinked DEF SeatInv
  <2>4. Satisfied(wait[t])
    BY <2>1 DEF Satisfied
  <2> QED BY <2>3, <2>4 DEF SignalsExact, NoLostSignal
<1>10. Spec => []SignalsExact
  BY SignalsStayExact
<1>11. RunningHasNoRequest /\ DeadOwnsNoLock /\ DeadRequestsNothing /\ NoStrandedJoiner
         => RequestsEnd
  BY DEF RequestsEnd, DeadLeavesNothing
<1> QED BY <1>1, <1>2, <1>3, <1>4, <1>5, <1>6, <1>7, <1>8, <1>9, <1>10, <1>11, PTL DEF Spec

=============================================================================
