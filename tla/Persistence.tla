---------------------------- MODULE Persistence ----------------------------
(***************************************************************************)
(* Extended weak references and CLR_RT_Persistence_Manager, which keeps    *)
(* their objects in two banks of flash.  Bank A is the bank in use.  The   *)
(* manager writes the objects behind it, the header of a record first and  *)
(* then its data.  An object that is set again or dropped has its record   *)
(* marked deleted.  When bank A is full and there is something to gain,    *)
(* the manager erases bank B, copies the live records, takes back to RAM   *)
(* what was not copied, and makes bank B the bank in use by giving it the  *)
(* next sequence number.                                                   *)
(*                                                                         *)
(* One iteration of the loop in AdvanceState is one step or two (header,   *)
(* then data); between two iterations the manager may return for lack of   *)
(* idle time, and the program and the garbage collector run.  The power    *)
(* may fail between two steps and in the middle of a write or an erase.    *)
(* All records have the same length and all references WR_SurvivePowerdown.*)
(***************************************************************************)
EXTENDS Integers, Sequences, FiniteSets, Lists

CONSTANTS
    Id,               \* identities: m_selectorHash and m_id
    Value,            \* serialized objects
    NONE,
    Priority,         \* m_priority of each identity
    Slots,            \* records that fit in a bank
    Safe,             \* m_totalSafeBytes, in records
    Blocks,           \* erase blocks of a bank
    Erased,           \* 0xFFFFFFFF, the largest sequence number
    ResetWhileCopying,\* the power may fail while a bank has no sequence number yet
    CollectReverted,  \* the collector may find the reference dead that is being reverted
    MaxWrites, MaxResets, MaxFaults   \* bounds on what the environment does

ASSUME PersistenceAssumption ==
    /\ NONE \notin Id /\ NONE \notin Value
    /\ Priority \in [Id -> Int]
    /\ Slots \in Nat \ {0} /\ Blocks \in 1..Slots
    /\ Safe \in 1..(Slots + 1)
    /\ Erased \in Nat \ {0, 1}
    /\ ResetWhileCopying \in BOOLEAN /\ CollectReverted \in BOOLEAN
    /\ MaxWrites \in Nat /\ MaxResets \in Nat /\ MaxFaults \in Nat

VARIABLES
    flash,     \* of each bank its m_sequenceNumber, 0 without a good header, and its records
    bankA,     \* the bank m_bankA stands for
    state,     \* m_state, or a phase of Initialize
    pending,   \* m_pending_object
    header,    \* m_pending_header: bank and slot
    eraseIndex,\* m_eraseIndex
    alloc,     \* STATE_CopyBackToRam is in CreateInstance, which may collect garbage
    weak,      \* m_weakReferences
    val,       \* the object behind m_targetSerialized
    at,        \* the slot of bank A m_targetSerialized points to (WR_Persisted), 0 for RAM
    copied,    \* m_targetCopied: a slot of bank B or 0
    restored,  \* the references with WR_Restored
    held,      \* the references the program can reach
    phase,     \* running, or how far Reboot has come
    writes, resets, faults

bankVars == <<flash, bankA>>
managerVars == <<state, pending, header, eraseIndex, alloc>>
weakVars == <<weak, val, at, copied, restored, held>>
counters == <<writes, resets, faults>>
vars == <<bankVars, managerVars, weakVars, phase, counters>>

Bank == {1, 2}
bankB == 3 - bankA
NoHeader == <<0, 0>>

-----------------------------------------------------------------------------
(* Banks *)

Free == [st |-> "free", id |-> NONE, val |-> NONE]
Dead == [st |-> "dead", id |-> NONE, val |-> NONE]   \* deleted, torn or given up
Open == [st |-> "open", id |-> NONE, val |-> NONE]   \* good header, data not all there
Good(i, v) == [st |-> "good", id |-> i, val |-> v]

Record == {Free, Dead, Open} \cup {Good(i, v) : i \in Id, v \in Value}

BankIsGood(b) == flash[b].seq # 0

\* m_current, as Bank::Initialize finds it and WriteHeader moves it on: behind
\* everything that is not erased.
InUse(b) == {s \in 1..Slots : flash[b].slot[s] # Free}
Current(b) == CHOOSE s \in 1..(Slots + 1) :
    /\ \A t \in InUse(b) : t < s
    /\ s = 1 \/ s - 1 \in InUse(b)

HasRoom_OffByOne(b) == Current(b) <= Slots + 1

\* WriteHeader finds room for one more record.
HasRoom(b) == Current(b) <= Slots

Put(b, s, r) == [flash EXCEPT ![b].slot[s] = r]

\* The slots of block k.
BlockSlots(k) == {s \in 1..Slots : ((s - 1) * Blocks) \div Slots = k}

Erase(slot, k) == [s \in 1..Slots |-> IF s \in BlockSlots(k) THEN Free ELSE slot[s]]

\* The records Initialize restores from bank b.
Live(b) == {s \in 1..Slots : flash[b].slot[s].st = "good"}

Chosen_Lower == IF BankIsGood(1) THEN 1 ELSE 2

\* The bank Initialize takes: the physical bank A, unless B has a newer number.
Chosen ==
    IF BankIsGood(2) /\ (~BankIsGood(1) \/ flash[1].seq < flash[2].seq) THEN 2 ELSE 1

-----------------------------------------------------------------------------
(* The list of weak references *)

\* InsertInPriorityOrder: before the first reference that is not more important.
InsertInPriorityOrder(list, i) ==
    LET rest == Unlink(list, i)
        k == CHOOSE n \in 1..(Len(rest) + 1) :
                /\ \A m \in 1..(n - 1) : Priority[rest[m]] > Priority[i]
                /\ n <= Len(rest) => Priority[rest[n]] <= Priority[i]
    IN InsertBefore(rest, k, i)

\* The first reference of S in the list, and what it and those before it use.
First(S) ==
    LET hits == {n \in 1..Len(weak) : weak[n] \in S}
    IN IF hits = {} THEN 0 ELSE CHOOSE n \in hits : \A m \in hits : n <= m

Used(n) == Cardinality({m \in 1..n : val[weak[m]] # NONE})

Unsaved(i) == val[i] # NONE /\ at[i] = 0
Uncopied(i) == val[i] # NONE /\ at[i] # 0 /\ copied[i] = 0

\* MarkWeak keeps what the program reaches, and what was restored and not yet claimed.
Alive(i) == i \in held \/ (i \in restored /\ val[i] # NONE)

Running == state \notin {"Boot", "Format"}

-----------------------------------------------------------------------------
(* Actions of the manager.  In Reboot, AdvanceState is called with force,  *)
(* nothing else runs, and each of two calls ends where the code returns.   *)

\* After the first return Reboot starts from STATE_FlushNextObject again.
Return(s) ==
    IF phase = "flush" THEN state' = "Flush" /\ phase' = "reflush"
    ELSE IF phase = "reflush" THEN state' = s /\ phase' = "down"
    ELSE state' = s /\ UNCHANGED phase

Manager == phase # "down" /\ ~alloc

NextUnsaved == First({i \in Id : Unsaved(i)})

\* An unsaved object and room in bank A: WriteHeader.
FlushHeader ==
    /\ Manager /\ state = "Flush" /\ pending = NONE
    /\ NextUnsaved # 0 /\ HasRoom(bankA)
    /\ pending' = weak[NextUnsaved]
    /\ header' = <<bankA, Current(bankA)>>
    /\ flash' = Put(bankA, Current(bankA), Open)
    /\ UNCHANGED <<bankA, state, eraseIndex, alloc, weakVars, phase, counters>>

FlushData_NotMarked ==
    /\ Manager /\ state = "Flush" /\ pending # NONE
    /\ flash' = Put(bankA, header[2], Good(pending, val[pending]))
    /\ pending' = NONE
    /\ header' = NoHeader
    /\ UNCHANGED <<bankA, state, eraseIndex, alloc, weakVars, phase, counters>>

\* The last burst of data: from now on the object is in flash.
FlushData ==
    /\ Manager /\ state = "Flush" /\ pending # NONE
    /\ flash' = Put(bankA, header[2], Good(pending, val[pending]))
    /\ at' = [at EXCEPT ![pending] = header[2]]
    /\ pending' = NONE
    /\ header' = NoHeader
    /\ UNCHANGED <<bankA, state, eraseIndex, alloc, weak, val, copied, restored, held, phase, counters>>

FlushFull_GivesUp ==
    /\ Manager /\ state = "Flush" /\ pending = NONE
    /\ NextUnsaved # 0 /\ ~HasRoom(bankA)
    /\ Used(NextUnsaved) < Safe
    /\ Return("Idle")
    /\ UNCHANGED <<bankVars, pending, header, eraseIndex, alloc, weakVars, counters>>

\* "We found a non-persisted object that would fit in the storage if we compact."
FlushFull ==
    /\ Manager /\ state = "Flush" /\ pending = NONE
    /\ NextUnsaved # 0 /\ ~HasRoom(bankA)
    /\ Used(NextUnsaved) < Safe
    /\ Return("Erase")
    /\ UNCHANGED <<bankVars, pending, header, eraseIndex, alloc, weakVars, counters>>

\* Nothing to save, or nothing to gain from a bank switch.
FlushDone ==
    /\ Manager /\ state = "Flush" /\ pending = NONE
    /\ NextUnsaved # 0 => ~HasRoom(bankA) /\ Used(NextUnsaved) >= Safe
    /\ Return("Idle")
    /\ UNCHANGED <<bankVars, pending, header, eraseIndex, alloc, weakVars, counters>>

\* AdvanceState returns at once; only Reboot calls it here.
Idle ==
    /\ Manager /\ state = "Idle" /\ phase # "run"
    /\ Return("Idle")
    /\ UNCHANGED <<bankVars, pending, header, eraseIndex, alloc, weakVars, counters>>

StartErase ==
    /\ Manager /\ state = "Erase"
    /\ copied' = [i \in Id |-> 0]
    /\ pending' = NONE
    /\ header' = NoHeader
    /\ eraseIndex' = 0
    /\ state' = "EraseSector"
    /\ UNCHANGED <<bankVars, alloc, weak, val, at, restored, held, phase, counters>>

\* Erase of one block; when it succeeds the bank is formatted.
EraseSector ==
    /\ Manager /\ state = "EraseSector" /\ eraseIndex < Blocks
    /\ flash' = [flash EXCEPT ![bankB] =
                    [seq |-> Erased, slot |-> Erase(flash[bankB].slot, eraseIndex)]]
    /\ eraseIndex' = eraseIndex + 1
    /\ state' = "Copy"
    /\ UNCHANGED <<bankA, pending, header, alloc, weakVars, phase, counters>>

NextUncopied == First({i \in Id : Uncopied(i)})

CopyHeader ==
    /\ Manager /\ state = "Copy" /\ pending = NONE
    /\ NextUncopied # 0 /\ Used(NextUncopied) < Safe /\ HasRoom(bankB)
    /\ pending' = weak[NextUncopied]
    /\ header' = <<bankB, Current(bankB)>>
    /\ flash' = Put(bankB, Current(bankB), Open)
    /\ UNCHANGED <<bankA, state, eraseIndex, alloc, weakVars, phase, counters>>

CopyData ==
    /\ Manager /\ state = "Copy" /\ pending # NONE
    /\ flash' = Put(bankB, header[2], Good(pending, val[pending]))
    /\ copied' = [copied EXCEPT ![pending] = header[2]]
    /\ pending' = NONE
    /\ header' = NoHeader
    /\ UNCHANGED <<bankA, state, eraseIndex, alloc, weak, val, at, restored, held, phase, counters>>

\* All copied, or the first that is not does not fit.
CopyDone ==
    /\ Manager /\ state = "Copy" /\ pending = NONE
    /\ NextUncopied # 0 => Used(NextUncopied) >= Safe \/ ~HasRoom(bankB)
    /\ state' = "CopyBack"
    /\ UNCHANGED <<bankVars, pending, header, eraseIndex, alloc, weakVars, phase, counters>>

\* Before CreateInstance of the array that takes back an object.
RevertStart ==
    /\ Manager /\ state = "CopyBack" /\ NextUncopied # 0
    /\ LET i == weak[NextUncopied]
       IN /\ pending' = i
          /\ header' = <<bankA, at[i]>>
    /\ alloc' = TRUE
    /\ UNCHANGED <<bankVars, state, eraseIndex, weakVars, phase, counters>>

\* After it: the object is in RAM and its record is deleted.
Revert ==
    /\ alloc /\ pending # NONE
    /\ at' = [at EXCEPT ![pending] = 0]
    /\ flash' = Put(header[1], header[2], Dead)
    /\ alloc' = FALSE
    /\ pending' = NONE
    /\ header' = NoHeader
    /\ UNCHANGED <<bankA, state, eraseIndex, weak, val, copied, restored, held, phase, counters>>

RevertDone ==
    /\ Manager /\ state = "CopyBack" /\ NextUncopied = 0
    /\ state' = "Switch"
    /\ UNCHANGED <<bankVars, pending, header, eraseIndex, alloc, weakVars, phase, counters>>

\* SetSequence of bank B, which is bank A from now on.
SwitchBank ==
    /\ Manager /\ state = "Switch"
    /\ at' = [i \in Id |-> IF copied[i] # 0 THEN copied[i] ELSE at[i]]
    /\ copied' = [i \in Id |-> 0]
    /\ flash' = [flash EXCEPT ![bankB].seq = (flash[bankA].seq + 1) % (Erased + 1)]
    /\ bankA' = bankB
    /\ state' = "Flush"
    /\ UNCHANGED <<pending, header, eraseIndex, alloc, weak, val, restored, held, phase, counters>>

-----------------------------------------------------------------------------
(* Faults of the media and of the heap *)

Fault ==
    /\ faults < MaxFaults
    /\ faults' = faults + 1
    /\ UNCHANGED <<writes, resets>>

\* The header cannot be written: WriteHeader gives the place up and tries the next.
HeaderFault ==
    /\ Manager /\ pending = NONE /\ Fault
    /\ \E b \in Bank :
          /\ \/ state = "Flush" /\ b = bankA /\ NextUnsaved # 0
             \/ state = "Copy" /\ b = bankB /\ NextUncopied # 0 /\ Used(NextUncopied) < Safe
          /\ HasRoom(b)
          /\ flash' = Put(b, Current(b), Dead)
    /\ UNCHANGED <<bankA, managerVars, weakVars, phase>>

\* The data cannot be written: the header is deleted and the object tried again.
DataFault ==
    /\ Manager /\ state \in {"Flush", "Copy"} /\ pending # NONE /\ Fault
    /\ flash' = Put(header[1], header[2], Dead)
    /\ pending' = NONE
    /\ header' = NoHeader
    /\ UNCHANGED <<bankA, state, eraseIndex, alloc, weakVars, phase>>

\* A block cannot be erased: the next iteration goes on with the next block.
EraseFault ==
    /\ Manager /\ state = "EraseSector" /\ eraseIndex < Blocks /\ Fault
    /\ flash' = [flash EXCEPT ![bankB].seq = 0]
    /\ eraseIndex' = eraseIndex + 1
    /\ UNCHANGED <<bankA, state, pending, header, alloc, weakVars, phase>>

\* No memory for the array: "abort the copy and restart everything".
RevertFault ==
    /\ alloc /\ pending # NONE /\ Fault
    /\ alloc' = FALSE
    /\ Return("Erase")
    /\ pending' = IF phase = "flush" THEN NONE ELSE pending
    /\ UNCHANGED <<bankVars, header, eraseIndex, weakVars>>

-----------------------------------------------------------------------------
(* Actions of the program and of the garbage collector *)

Program == phase = "run" /\ Running /\ ~alloc

\* InvalidateEntry gives up the record that is being written.
Aborts(S) == pending \in S

Doomed_None(S) == {}

\* The records InvalidateEntry of the references in S deletes.
Doomed(S) ==
    {<<bankA, at[i]>> : i \in {j \in S : at[j] # 0}} \cup (IF Aborts(S) THEN {header} ELSE {})

AfterInvalidate_NoWake == IF state \in {"Copy", "CopyBack", "Switch"} THEN "Erase" ELSE state

\* It wakes the manager, and a copy has to start again.
AfterInvalidate ==
    CASE state = "Idle" -> "Flush"
      [] state \in {"Copy", "CopyBack", "Switch"} -> "Erase"
      [] OTHER -> state

\* InvalidateEntry, but for m_targetSerialized and WR_Restored, which the
\* callers set.
Invalidate(S) ==
    /\ flash' = [b \in Bank |-> [flash[b] EXCEPT !.slot =
                    [s \in 1..Slots |-> IF <<b, s>> \in Doomed(S) THEN Dead ELSE @[s]]]]
    /\ pending' = IF Aborts(S) THEN NONE ELSE pending
    /\ header' = IF Aborts(S) THEN NoHeader ELSE header
    /\ state' = AfterInvalidate
    /\ at' = [i \in Id |-> IF i \in S THEN 0 ELSE at[i]]
    /\ UNCHANGED <<bankA, eraseIndex, alloc, copied>>

\* RecoverOrCreate finds a restored object.
Recover(i) ==
    /\ Program /\ i \in Members(weak) /\ i \in restored /\ val[i] # NONE
    /\ restored' = restored \ {i}
    /\ held' = held \cup {i}
    /\ UNCHANGED <<bankVars, managerVars, weak, val, at, copied, phase, counters>>

\* RecoverOrCreate makes a reference without an object.
Create(i) ==
    /\ Program /\ i \notin Members(weak)
    /\ weak' = InsertInPriorityOrder(weak, i)
    /\ held' = held \cup {i}
    /\ UNCHANGED <<bankVars, managerVars, val, at, copied, restored, phase, counters>>

\* Target is set; nothing is invalidated when the object did not change.
SetTarget(i, v) ==
    /\ Program /\ i \in held /\ writes < MaxWrites
    /\ writes' = writes + 1
    /\ IF v = val[i] THEN UNCHANGED <<bankVars, managerVars, val, at, copied, restored>>
       ELSE /\ Invalidate({i})
            /\ val' = [val EXCEPT ![i] = v]
            /\ restored' = restored \ {i}
    /\ weak' = InsertInPriorityOrder(weak, i)
    /\ UNCHANGED <<held, phase, resets, faults>>

PushBackIntoRecoverList(i) ==
    /\ Program /\ i \in held
    /\ restored' = restored \cup {i}
    /\ UNCHANGED <<bankVars, managerVars, weak, val, at, copied, held, phase, counters>>

\* The program loses its last reference to the weak reference.
Release(i) ==
    /\ Program /\ i \in held
    /\ held' = held \ {i}
    /\ UNCHANGED <<bankVars, managerVars, weak, val, at, copied, restored, phase, counters>>

\* The collector runs between two actions, or in the allocation of a revert.
Collector == phase # "down" /\ Running /\ (alloc \/ phase = "run")

\* MarkWeak: a reference nobody reaches loses its record and is unlinked.
MarkWeak(i) ==
    /\ Collector /\ i \in Members(weak) /\ ~Alive(i)
    /\ alloc /\ pending = i => CollectReverted
    /\ Invalidate({i})
    /\ weak' = Unlink(weak, i)
    /\ val' = [val EXCEPT ![i] = NONE]
    /\ restored' = restored \ {i}
    /\ UNCHANGED <<held, phase, counters>>

\* CheckMemoryPressure: the restored objects nobody has claimed, or one other.
Pressure(S) ==
    /\ Collector /\ S # {}
    /\ \/ S = {i \in Members(weak) : i \in restored /\ val[i] # NONE}
       \/ \E i \in Members(weak) : val[i] # NONE /\ S = {i} /\ \A j \in restored : val[j] = NONE
    /\ alloc /\ pending \in S => CollectReverted
    /\ Invalidate(S)
    /\ val' = [i \in Id |-> IF i \in S THEN NONE ELSE val[i]]
    /\ restored' = restored \ S
    /\ UNCHANGED <<weak, held, phase, counters>>

-----------------------------------------------------------------------------
(* Resets *)

Reboot_NoFlush ==
    /\ Program /\ resets < MaxResets
    /\ phase' = "down"
    /\ UNCHANGED <<bankVars, managerVars, weakVars, counters>>

\* Reboot(fHard) flushes twice and then resets.
Reboot ==
    /\ Program /\ resets < MaxResets
    /\ phase' = "flush"
    /\ UNCHANGED <<bankVars, managerVars, weakVars, counters>>

\* Whether a bank has a header and no sequence number yet.
Numberless == \E b \in Bank : flash[b].seq = Erased

PowerMayFail == ResetWhileCopying \/ ~Numberless

\* What is left of the step the power failed in: a torn header, a half erased bank.
Torn ==
    {flash} \cup
    (IF state = "Flush" /\ pending = NONE /\ NextUnsaved # 0 /\ HasRoom(bankA)
     THEN {Put(bankA, Current(bankA), Dead)} ELSE {}) \cup
    (IF state = "EraseSector" /\ eraseIndex < Blocks
     THEN {[flash EXCEPT ![bankB] = [seq |-> 0, slot |-> Erase(flash[bankB].slot, eraseIndex)]]} ELSE {})

\* RecoverObjects finds in the heap what the RAM retained of unsaved objects.
Reset ==
    /\ PowerMayFail
    /\ resets < MaxResets
    /\ resets' = resets + 1
    /\ flash' \in Torn
    /\ \E S \in SUBSET {i \in Members(weak) : Unsaved(i)} :
          /\ \E q \in [1..Cardinality(S) -> S] :
                /\ S = Members(q)
                /\ \A m, n \in 1..Len(q) : m < n => Priority[q[m]] >= Priority[q[n]]
                /\ weak' = q
          /\ val' = [i \in Id |-> IF i \in S THEN val[i] ELSE NONE]
          /\ restored' = S
    /\ at' = [i \in Id |-> 0]
    /\ copied' = [i \in Id |-> 0]
    /\ held' = {}
    /\ bankA' = 1
    /\ state' = "Boot"
    /\ pending' = NONE
    /\ header' = NoHeader
    /\ eraseIndex' = 0
    /\ alloc' = FALSE
    /\ phase' = "run"
    /\ UNCHANGED <<writes, faults>>

\* The list once the records of the first s slots of bank b are restored.
Restored(b) ==
    LET list[s \in 0..Slots] ==
            IF s = 0 THEN weak
            ELSE IF s \in Live(b) THEN InsertInPriorityOrder(list[s - 1], flash[b].slot[s].id)
            ELSE list[s - 1]
    IN list[Slots]

\* The slot of bank b that holds i, 0 if none does.
SlotOf(b, i) ==
    LET hits == {s \in Live(b) : flash[b].slot[s].id = i}
    IN IF hits = {} THEN 0 ELSE CHOOSE s \in hits : \A t \in hits : t <= s

Stored(b) == [i \in Id |-> IF SlotOf(b, i) = 0 THEN NONE ELSE flash[b].slot[SlotOf(b, i)].val]

\* Initialize with a good bank.
Initialize ==
    /\ state = "Boot" /\ BankIsGood(Chosen)
    /\ bankA' = Chosen
    /\ weak' = Restored(Chosen)
    /\ at' = [i \in Id |-> SlotOf(Chosen, i)]
    /\ val' = [i \in Id |-> IF SlotOf(Chosen, i) # 0 THEN Stored(Chosen)[i] ELSE val[i]]
    /\ restored' = restored \cup {i \in Id : SlotOf(Chosen, i) # 0}
    /\ state' = "Flush"
    /\ UNCHANGED <<flash, pending, header, eraseIndex, alloc, copied, held, phase, counters>>

\* Initialize without one: EraseAll and Format, then SetSequence.
Format ==
    /\ state = "Boot" /\ ~BankIsGood(Chosen)
    /\ bankA' = 1
    /\ flash' = [flash EXCEPT ![1] = [seq |-> Erased, slot |-> [s \in 1..Slots |-> Free]]]
    /\ state' = "Format"
    /\ UNCHANGED <<pending, header, eraseIndex, alloc, weakVars, phase, counters>>

SetFirstSequence ==
    /\ state = "Format"
    /\ flash' = [flash EXCEPT ![1].seq = 1]
    /\ state' = "Flush"
    /\ UNCHANGED <<bankA, pending, header, eraseIndex, alloc, weakVars, phase, counters>>

-----------------------------------------------------------------------------
Init ==
    /\ flash = [b \in Bank |-> [seq |-> 0, slot |-> [s \in 1..Slots |-> Free]]]
    /\ bankA = 1
    /\ state = "Boot"
    /\ pending = NONE /\ header = NoHeader /\ eraseIndex = 0 /\ alloc = FALSE
    /\ weak = <<>>
    /\ val = [i \in Id |-> NONE]
    /\ at = [i \in Id |-> 0] /\ copied = [i \in Id |-> 0]
    /\ restored = {} /\ held = {}
    /\ phase = "run"
    /\ writes = 0 /\ resets = 0 /\ faults = 0

ManagerStep ==
    \/ FlushHeader \/ FlushData \/ FlushFull \/ FlushDone \/ Idle
    \/ StartErase \/ EraseSector
    \/ CopyHeader \/ CopyData \/ CopyDone
    \/ RevertStart \/ Revert \/ RevertDone
    \/ SwitchBank

FaultStep == HeaderFault \/ DataFault \/ EraseFault \/ RevertFault

ProgramStep ==
    \E i \in Id :
        \/ Recover(i) \/ Create(i) \/ PushBackIntoRecoverList(i) \/ Release(i)
        \/ \E v \in Value \cup {NONE} : SetTarget(i, v)

CollectorStep == (\E i \in Id : MarkWeak(i)) \/ \E S \in SUBSET Id : Pressure(S)

BootStep == Initialize \/ Format \/ SetFirstSequence

Next == ManagerStep \/ FaultStep \/ ProgramStep \/ CollectorStep \/ Reboot \/ Reset \/ BootStep

Spec == Init /\ [][Next]_vars

\* The completion calls the manager again while there is something to do, and
\* the device is idle often enough for it.
FairSpec == Spec /\ WF_vars(ManagerStep) /\ WF_vars(BootStep)

-----------------------------------------------------------------------------
(* Properties *)

\* Types: the banks hold records of the sizes and marks of the source, and the
\* manager's pointers (pending, header, the RAM references of an object) lead to
\* slots of a bank.
TypeOK ==
    /\ flash \in [Bank -> [seq : 0..Erased, slot : [1..Slots -> Record]]]
    /\ bankA \in Bank
    /\ state \in {"Boot", "Format", "Flush", "Idle", "Erase", "EraseSector", "Copy", "CopyBack", "Switch"}
    /\ pending \in Id \cup {NONE} /\ header \in (Bank \X (1..Slots)) \cup {NoHeader}
    /\ eraseIndex \in 0..Blocks /\ alloc \in BOOLEAN
    /\ weak \in Seq(Id)
    /\ val \in [Id -> Value \cup {NONE}]
    /\ at \in [Id -> 0..Slots] /\ copied \in [Id -> 0..Slots]
    /\ restored \subseteq Id /\ held \subseteq Id
    /\ phase \in {"run", "flush", "reflush", "down"}
    /\ writes \in 0..MaxWrites /\ resets \in 0..MaxResets /\ faults \in 0..MaxFaults

\* Wherever the power may fail, Initialize would find exactly the objects that
\* are marked WR_Persisted, with their present contents and in one record each:
\* through faults, aborted copies and resets none is lost, no deleted object and
\* no old version comes back.
Durable ==
    /\ Running /\ PowerMayFail =>
           Stored(Chosen) = [i \in Id |-> IF at[i] # 0 THEN val[i] ELSE NONE]
    /\ Running => \A s, t \in Live(bankA) :
           flash[bankA].slot[s].id = flash[bankA].slot[t].id => s = t

\* The manager goes to sleep, and Reboot goes down, with an unsaved object only
\* if bank A is full.
SavedWhenDone ==
    (state = "Idle" \/ phase = "down") /\ HasRoom(bankA) => \A i \in Members(weak) : ~Unsaved(i)

\* CopyBackToRam finds its header again after the allocation, in which the
\* collector may have invalidated entries.
HeaderSurvivesAllocation ==
    alloc => pending # NONE /\ header = <<bankA, at[pending]>> /\ at[pending] # 0

\* The specification of the store: what is in flash is what a reset brings back.
storedNow == IF Running THEN Stored(bankA) ELSE Stored(Chosen)
cacheNow ==
    IF state = "Boot" /\ BankIsGood(Chosen)
    THEN [i \in Id |-> IF Stored(Chosen)[i] # NONE THEN Stored(Chosen)[i] ELSE val[i]]
    ELSE val
Store == INSTANCE DurableStore WITH cache <- cacheNow, stored <- storedNow
ImplementsStore == Store!Spec

\* The object is important enough for the safe part of a bank.
Fits(i) ==
    /\ Running /\ phase = "run" /\ i \in Members(weak)
    /\ val[i] # NONE /\ Used(Position(weak, i)) < Safe

\* After a block could not be erased EraseSector makes no progress.
Stuck == state = "EraseSector" /\ eraseIndex >= Blocks

\* An object that fits in the safe part of a bank gets there while the manager
\* is awake, unless it is changed or becomes less important than others.  This
\* needs a collector that leaves off at some time: every weak reference it
\* finds dead makes InvalidateEntry abort the copy that is under way.
EventuallySaved ==
    <>[][~CollectorStep]_vars =>
        \A i \in Id : (Fits(i) /\ state # "Idle") ~> (at[i] # 0 \/ ~Fits(i) \/ Stuck)

=============================================================================
