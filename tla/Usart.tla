-------------------------------- MODULE Usart --------------------------------
(***************************************************************************)
(* A serial port: the USART driver of the PAL (USART_Driver), the driver   *)
(* of the AT91 under it with its interrupt, and the calls of the managed   *)
(* SerialPort above it with their waits for events.                        *)
(*                                                                         *)
(* The engine runs one native call at a time, so at most one call is in    *)
(* progress; the interrupt may come between any two of its steps.  A step  *)
(* is what the code does under one GLOBAL_LOCK.  The application has a     *)
(* handler for data events; the error events (TXFULL, RXOVER) only post a  *)
(* notice to it and are left out.                                          *)
(***************************************************************************)
EXTENDS Integers, Sequences, FiniteSets, HalQueue

CONSTANTS
    TxSize,     \* TX_USART_BUFFER_SIZE
    RxSize,     \* RX_USART_BUFFER_SIZE
    Bytes,      \* the bytes that are sent and received
    MaxRead,    \* bound: the count of one Read
    MaxWrite,   \* bound: the count of one Write
    Flows       \* the flow control of the ports that are opened

SW_IN  == "RX_SWFLOW_CTRL"
SW_OUT == "TX_SWFLOW_CTRL"
HW_IN  == "RX_HWFLOW_CTRL"
FlowBits == {SW_IN, SW_OUT, HW_IN}

\* Handshake.None, XOnXOff and RequestToSend
HandshakeNone == {}
XOnXOff == {SW_IN, SW_OUT}
RequestToSend == {HW_IN}

ASSUME UsartAssumption ==
    /\ {TxSize, RxSize, MaxRead, MaxWrite} \subseteq Nat \ {0}
    /\ Bytes \subseteq Nat
    /\ Flows \subseteq SUBSET FlowBits

VARIABLES
    port,       \* HAL_USART_STATE, the registers and the reference flags
    com,        \* SYSTEM_EVENT_FLAG_COM_IN or _COM_OUT is set
    raised,     \* c_Event_SerialPort is in m_raisedEvents
    call,       \* the native call in progress
    thread,     \* the managed threads that read and write
    stopped,    \* an XOFF stopped the peer, since the port was opened
    stream      \* what the queues ought to hold: the bytes that were accepted
                \* and not yet passed on, in order

vars == <<port, com, raised, call, thread, stopped, stream>>

HighWaterMark == (RxSize * 3) \div 4
LowWaterMark  == RxSize \div 4

None == "none"
FULL == "XOFF_FLAG_FULL"
HALT == "XOFF_CLOCK_HALT"
XoffBits == {FULL, HALT}

FlagBits == FlowBits \cup XoffBits \cup
    {"TX_BUFFERXOFF", "TX_BUFFERXON", "TX_XON_STATE", "POWERSAVE",
     "INITIALIZED"}

Has(p, bit)  == bit \in p.Flag
Set(p, bit)  == [p EXCEPT !.Flag = @ \cup {bit}]
Clear(p, bit) == [p EXCEPT !.Flag = @ \ {bit}]

Initialized(p) == Has(p, "INITIALIZED")
PowerSaved(p)  == Has(p, "POWERSAVE")
RxXoffState(p) == p.Flag \cap XoffBits

(***************************************************************************)
(* The driver of the AT91.  refs is m_RefFlags, imr the interrupt mask,    *)
(* rhr and thr the receiver and the transmitter: a holding register with   *)
(* its shift register.                                                     *)
(***************************************************************************)

\* TxBufferEmpty and TxShiftRegisterEmpty: there is nothing to wait for when
\* the transmitter's flag is clear, also if that was done a moment ago
TxBufferEmpty(p) == "Tx" \in p.refs => p.thr = None
InterruptState(p, r) == r \in p.refs /\ r \in p.imr

\* The driver is told when the last flag goes and when the first one comes
ToldPowerSave(before, p) ==
    IF p.refs = {} /\ before.refs # {} THEN Set(p, "POWERSAVE")
    ELSE IF p.refs # {} /\ before.refs = {} THEN Clear(p, "POWERSAVE")
    ELSE p

\* TxBufferEmptyInterruptEnable and RxBufferFullInterruptEnable
InterruptOn(p, r) ==
    IF InterruptState(p, r) THEN p
    ELSE ToldPowerSave(p, [p EXCEPT !.refs = @ \cup {r}, !.imr = @ \cup {r}])

InterruptOff(p, r) ==
    IF ~InterruptState(p, r) THEN p
    ELSE ToldPowerSave(p, [p EXCEPT !.refs = @ \ {r}, !.imr = @ \ {r}])

(***************************************************************************)
(* The driver of the PAL.                                                  *)
(***************************************************************************)

\* A mutation: the interrupt that would send the character stays off.
SendXOFF_NoInterrupt(p, bit) ==
    IF PowerSaved(p) THEN p
    ELSE Set(IF RxXoffState(p) = {} THEN Set(p, "TX_BUFFERXOFF") ELSE p, bit)

SendXOFF(p, bit) ==
    IF PowerSaved(p) THEN p
    ELSE Set(IF RxXoffState(p) = {}
             THEN InterruptOn(Set(p, "TX_BUFFERXOFF"), "Tx") ELSE p, bit)

SendXON(p, bit) ==
    IF PowerSaved(p) THEN p
    ELSE LET q == Clear(p, bit)
         IN  IF RxXoffState(q) = {}
             THEN InterruptOn(Set(q, "TX_BUFFERXON"), "Tx") ELSE q

\* SetEvent for USART_EVENT_DATA_CHARS; posted: the application has been
\* told since its last Read began
SetDataEvent(p) ==
    IF p.fDataEventSet THEN p
    ELSE [p EXCEPT !.fDataEventSet = TRUE, !.posted = TRUE]

\* The receiver is held off, or let go again, as the flow control asks
HoldOff(p) ==
    LET q == IF Has(p, SW_IN) THEN SendXOFF(p, FULL) ELSE p
    IN  IF Has(p, HW_IN) THEN InterruptOff(q, "Rx") ELSE q

LetGo(p) ==
    LET q == IF Has(p, SW_IN) THEN SendXON(p, FULL) ELSE p
    IN  IF Has(p, HW_IN) THEN InterruptOn(q, "Rx") ELSE q

AddCharToRxBuffer(p, c, byte) ==
    IF Has(p, SW_OUT) /\ c = "XOFF" THEN Clear(p, "TX_XON_STATE")
    ELSE IF Has(p, SW_OUT) /\ c = "XON" THEN Set(p, "TX_XON_STATE")
    ELSE IF p.RxQueue.full THEN p
    ELSE LET q == [p EXCEPT !.RxQueue = Push(@, <<byte>>)]
         IN  SetDataEvent(IF NumberOfElements(q.RxQueue) >= HighWaterMark
                          THEN HoldOff(q) ELSE q)

\* The character RemoveCharFromTxBuffer returns, and what it leaves
NextChar(p) ==
    IF Has(p, "TX_BUFFERXOFF") THEN "XOFF"
    ELSE IF Has(p, "TX_BUFFERXON") THEN "XON"
    ELSE IF ~IsEmpty(p.TxQueue) THEN "data"
    ELSE None

RemoveCharFromTxBuffer(p) ==
    CASE NextChar(p) = "XOFF" -> Clear(p, "TX_BUFFERXOFF")
      [] NextChar(p) = "XON"  -> Clear(p, "TX_BUFFERXON")
      [] NextChar(p) = "data" -> [p EXCEPT !.TxQueue = Pop(@, 1)]
      [] OTHER -> p

\* RemoveCharFromTxBuffer and WriteCharToTxBuffer
SendNextChar(p) == [RemoveCharFromTxBuffer(p) EXCEPT !.thr = NextChar(p)]

ProtectPins(p, on) ==
    IF on THEN InterruptOff(InterruptOff(p, "Rx"), "Tx")
    ELSE InterruptOn(InterruptOn(p, "Tx"), "Rx")

\* The transmitter and the receiver are reset and masked
CPU_USART_Initialize(p) ==
    ProtectPins([p EXCEPT !.imr = {}, !.rhr = None, !.thr = None],
                FALSE)

\* The pins become inputs, and what is in the transmitter does not reach the
\* line any more
CPU_USART_Uninitialize(p) ==
    [ProtectPins(p, TRUE) EXCEPT !.thr = None]

InitializePort(p, flow) ==
    CPU_USART_Initialize(
        [p EXCEPT !.Flag = {"INITIALIZED", "TX_XON_STATE"} \cup flow,
                  !.fDataEventSet = FALSE,
                  !.TxQueue = Initialize(TxSize),
                  !.RxQueue = Initialize(RxSize)])

UninitializePort(p) ==
    IF ~Initialized(p) THEN p
    ELSE CPU_USART_Uninitialize(
            [Clear(p, "INITIALIZED") EXCEPT !.fDataEventSet = FALSE])

DrainQueue(q) ==
    LET once == Pop(q, NumberOfElements(q))
    IN  Pop(once, NumberOfElements(once))

DiscardRx(p) == LetGo([p EXCEPT !.RxQueue = DrainQueue(@)])
DiscardTx(p) == [p EXCEPT !.TxQueue = DrainQueue(@)]

-----------------------------------------------------------------------------
(***************************************************************************)
(* The interrupt, the line and the peer.                                   *)
(***************************************************************************)

\* What is left of a stream when its first k bytes are gone
Rest(bytes, k) == SubSeq(bytes, k + 1, Len(bytes))

Accepts(p, c) == ~(Has(p, SW_OUT) /\ c \in {"XON", "XOFF"}) /\ ~p.RxQueue.full

\* The stream of the transmitter when NextChar has been taken
TakeNext(p, bytes) == IF NextChar(p) = "data" THEN Rest(bytes, 1) ELSE bytes

Receive(byte) ==
    IF port.rhr = None THEN port
    ELSE [AddCharToRxBuffer(port, port.rhr, byte) EXCEPT !.rhr = None]

Interrupt(byte) ==
    /\ \/ port.rhr # None /\ "Rx" \in port.imr
       \/ port.thr = None /\ "Tx" \in port.imr
    /\ LET received == port.rhr # None
           p == Receive(byte)
           sends == port.thr = None /\ "Tx" \in p.refs
       IN  /\ port' = IF ~sends THEN p
                      ELSE IF NextChar(p) = None THEN InterruptOff(p, "Tx")
                      ELSE SendNextChar(p)
           /\ stream' =
                [rx |-> IF received /\ Accepts(port, port.rhr)
                        THEN Append(stream.rx, byte) ELSE stream.rx,
                 tx |-> IF sends THEN TakeNext(p, stream.tx) ELSE stream.tx]
           /\ com' = (com \/ received \/ sends)
           /\ UNCHANGED <<raised, call, thread, stopped>>

\* Whether the peer is stopped when it gets c
Outcome(before, c) == c = "XOFF" \/ (before /\ c # "XON")

\* The character reaches the peer
Transmit ==
    /\ port.thr # None
    /\ port' = [port EXCEPT !.thr = None]
    /\ stopped' = Outcome(stopped, port.thr)
    /\ UNCHANGED <<com, raised, call, thread, stream>>

\* The peer sends; when it was told to stop, only XON and XOFF.  A character
\* that meets a full holding register is lost and the driver never sees it.
Arrive(c) ==
    /\ Initialized(port) /\ port.rhr = None
    /\ c = "data" => ~stopped
    /\ c # "data" => Has(port, SW_OUT)
    /\ port' = [port EXCEPT !.rhr = c]
    /\ UNCHANGED <<com, raised, call, thread, stopped, stream>>

-----------------------------------------------------------------------------
(***************************************************************************)
(* Events and threads of the engine.                                       *)
(***************************************************************************)

NoCall == [op |-> None, pc |-> None, left |-> 0, done |-> 0, round |-> 0,
           flags |-> {}]

Idle == [state |-> "idle", left |-> 0]
Running == [state |-> "running", left |-> 0]
Roles == {"read", "write"}
MaxCount(r) == IF r = "read" THEN MaxRead ELSE MaxWrite

Woken(ts) == [r \in Roles |->
                IF ts[r].state = "waiting"
                THEN [ts[r] EXCEPT !.state = "ready"] ELSE ts[r]]

\* ProcessActivity and SignalEvents
ProcessActivity ==
    /\ call = NoCall /\ com
    /\ com' = FALSE
    /\ raised' = TRUE
    /\ thread' = Woken(thread)
    /\ UNCHANGED <<port, call, stopped, stream>>

\* A Read or Write is called, or goes on after its wait
Begin(r, n) ==
    /\ call = NoCall
    /\ call' = [NoCall EXCEPT !.op = r, !.pc = "enter", !.left = n]

StartCall(r, n) ==
    /\ thread[r].state = "idle"
    /\ Begin(r, n)
    /\ thread' = [thread EXCEPT ![r] = Running]
    /\ UNCHANGED <<port, com, raised, stopped, stream>>

GoOn(r) ==
    /\ thread[r].state = "ready"
    /\ Begin(r, thread[r].left)
    /\ thread' = [thread EXCEPT ![r] = Running]
    /\ UNCHANGED <<port, com, raised, stopped, stream>>

\* The time-out of a Read or Write is over
WaitExpires(r) ==
    /\ call = NoCall /\ thread[r].state = "waiting"
    /\ thread' = [thread EXCEPT ![r].state = "ready"]
    /\ UNCHANGED <<port, com, raised, call, stopped, stream>>

\* USART_Read or USART_Write returned: the rest of the loop in SerialPort,
\* with WaitEvents, which does not wait when the time is over already
Returned(r, n) ==
    IF n = 0 /\ ~raised
    THEN /\ call' = NoCall
         /\ \/ thread' = [thread EXCEPT ![r] = [state |-> "waiting",
                                               left |-> call.left]]
            \/ thread' = [thread EXCEPT ![r] = Idle]
         /\ UNCHANGED raised
    ELSE /\ raised' = (raised /\ n # 0)
         /\ IF n = call.left
            THEN call' = NoCall /\ thread' = [thread EXCEPT ![r] = Idle]
            ELSE /\ call' = [NoCall EXCEPT !.op = r, !.pc = "enter",
                                           !.left = call.left - n]
                 /\ UNCHANGED thread

\* USART_Read or USART_Write refused the call and SerialPort raises
Refused(r) ==
    /\ call' = NoCall
    /\ thread' = [thread EXCEPT ![r] = Idle]
    /\ UNCHANGED raised

-----------------------------------------------------------------------------
(***************************************************************************)
(* USART_Driver::Read.                                                     *)
(***************************************************************************)

ReadEnter ==
    /\ call.op = "read" /\ call.pc = "enter"
    /\ IF PowerSaved(port) \/ ~Initialized(port)
       THEN Refused("read") /\ UNCHANGED port
       ELSE /\ call' = [call EXCEPT !.pc = "loop"]
            /\ port' = [port EXCEPT !.posted = FALSE]
            /\ UNCHANGED <<raised, thread>>
    /\ UNCHANGED <<com, stopped, stream>>

\* A mutation: the mark itself does not count.
PassesLowWaterMark_Below(q, n) ==
    /\ NumberOfElements(q) > LowWaterMark
    /\ NumberOfElements(Pop(q, n)) < LowWaterMark

PassesLowWaterMark(q, n) ==
    /\ NumberOfElements(q) > LowWaterMark
    /\ NumberOfElements(Pop(q, n)) <= LowWaterMark

ReadStops(k, n) == k \in {0, n}

ReadLoop ==
    /\ call.op = "read" /\ call.pc = "loop"
    /\ LET n == call.left - call.done
           k == Given(port.RxQueue, n)
           p == [port EXCEPT !.RxQueue = Pop(@, n)]
       IN  /\ port' = IF PassesLowWaterMark(port.RxQueue, n)
                      THEN LetGo(p) ELSE p
           /\ call' = [call EXCEPT !.done = @ + k,
                                   !.pc = IF ReadStops(k, n) THEN "end" ELSE @]
           /\ stream' = [stream EXCEPT !.rx = Rest(@, k)]
    /\ UNCHANGED <<com, raised, thread, stopped>>

\* A mutation: what is left in the queue is not announced again.
ReadEnd_Silent ==
    /\ call.op = "read" /\ call.pc = "end"
    /\ port' = [port EXCEPT !.fDataEventSet = FALSE]
    /\ Returned("read", call.done)
    /\ UNCHANGED <<com, stopped, stream>>

ReadEnd ==
    /\ call.op = "read" /\ call.pc = "end"
    /\ LET p == [port EXCEPT !.fDataEventSet = FALSE]
       IN  port' = IF IsEmpty(p.RxQueue) THEN p ELSE SetDataEvent(p)
    /\ Returned("read", call.done)
    /\ UNCHANGED <<com, stopped, stream>>

(***************************************************************************)
(* USART_Driver::Write.  The flag that ends the XOFF state is set without  *)
(* the lock: the word is loaded in one step and stored in another.         *)
(***************************************************************************)

TxStopped(p) == Has(p, SW_OUT) /\ ~Has(p, "TX_XON_STATE")

WriteEnter ==
    /\ call.op = "write" /\ call.pc = "enter"
    /\ IF PowerSaved(port) \/ ~Initialized(port) THEN Refused("write")
       ELSE IF ~TxStopped(port)
       THEN /\ call' = [call EXCEPT !.pc = "loop"]
            /\ UNCHANGED <<raised, thread>>
       ELSE \/ /\ call' = [call EXCEPT !.pc = "store", !.flags = port.Flag]
               /\ UNCHANGED <<raised, thread>>
            \/ Returned("write", 0)
    /\ UNCHANGED <<port, com, stopped, stream>>

WriteStore ==
    /\ call.op = "write" /\ call.pc = "store"
    /\ port' = [port EXCEPT !.Flag = call.flags \cup {"TX_XON_STATE"}]
    /\ call' = [call EXCEPT !.pc = "loop", !.flags = {}]
    /\ UNCHANGED <<com, raised, thread, stopped, stream>>

WriteLoop ==
    /\ call.op = "write" /\ call.pc = "loop"
    /\ LET k == Room(port.TxQueue, call.left - call.done)
           stop == \/ call.round = 1
                   \/ call.done + k = call.left
                   \/ k = 0 /\ ~Has(port, HW_IN)
       IN  /\ \E data \in [1..k -> Bytes] :
                /\ port' = IF k = 0 THEN port
                           ELSE [port EXCEPT !.TxQueue = Push(@, data)]
                /\ stream' = [stream EXCEPT !.tx = @ \o data]
           /\ call' = [call EXCEPT !.done = @ + k,
                                   !.round = IF stop THEN 0 ELSE 1,
                                   !.pc = IF stop THEN "end" ELSE @]
    /\ UNCHANGED <<com, raised, thread, stopped>>

\* A mutation: the transmit interrupt is left as it is.
WriteEnd_Lazy ==
    /\ call.op = "write" /\ call.pc = "end"
    /\ Returned("write", call.done)
    /\ UNCHANGED <<port, com, stopped, stream>>

WriteEnd ==
    /\ call.op = "write" /\ call.pc = "end"
    /\ port' = IF PowerSaved(port) THEN port ELSE InterruptOn(port, "Tx")
    /\ Returned("write", call.done)
    /\ UNCHANGED <<com, stopped, stream>>

(***************************************************************************)
(* USART_Driver::Flush, which Open and Close begin with: which of the      *)
(* three was called shows when it has ended.  Whether the interrupt is     *)
(* disabled in the interrupt controller is left open: the index that Flush *)
(* asks about is a placeholder in most solutions.                          *)
(***************************************************************************)

StartFlush ==
    /\ call = NoCall
    /\ call' = [NoCall EXCEPT !.op = "flush", !.pc = "enter"]
    /\ UNCHANGED <<port, com, raised, thread, stopped, stream>>

Goto(pc) == call' = [call EXCEPT !.pc = pc]

FlushEnter ==
    /\ call.op = "flush" /\ call.pc = "enter"
    /\ Goto(IF PowerSaved(port) \/ ~Initialized(port) \/ TxStopped(port)
            THEN "flushed" ELSE "drain")
    /\ UNCHANGED <<port, com, raised, thread, stopped, stream>>

\* With interrupts off, Flush feeds the transmitter itself
FlushPoll ==
    /\ call.op = "flush" /\ call.pc = "drain"
    /\ ~IsEmpty(port.TxQueue) /\ ~PowerSaved(port) /\ TxBufferEmpty(port)
    /\ port' = SendNextChar(port)
    /\ com' = (com \/ NextChar(port) = "data")
    /\ stream' = [stream EXCEPT !.tx = TakeNext(port, @)]
    /\ UNCHANGED <<raised, call, thread, stopped>>

FlushDrained ==
    /\ call.op = "flush"
    /\ \/ /\ call.pc = "drain"
          /\ \/ IsEmpty(port.TxQueue) /\ ~PowerSaved(port) /\ Goto("holding")
             \/ PowerSaved(port) /\ Goto("flushed")
       \/ call.pc = "holding" /\ TxBufferEmpty(port) /\ Goto("flushed")
    /\ UNCHANGED <<port, com, raised, thread, stopped, stream>>

FlushReturns ==
    /\ call.op = "flush" /\ call.pc = "flushed"
    /\ call' = NoCall
    /\ UNCHANGED <<port, com, raised, thread, stopped, stream>>

\* InternalOpen and InternalClose after the Flush.  What was not read or
\* sent is gone.
Open(flow) ==
    /\ call.op = "flush" /\ call.pc = "flushed"
    /\ port' = InitializePort(UninitializePort(port), flow)
    /\ stream' = [rx |-> <<>>, tx |-> <<>>]
    /\ stopped' = FALSE
    /\ call' = NoCall
    /\ UNCHANGED <<com, raised, thread>>

Close ==
    /\ call.op = "flush" /\ call.pc = "flushed"
    /\ port' = UninitializePort(port)
    /\ raised' = TRUE
    /\ thread' = Woken(thread)
    /\ call' = NoCall
    /\ UNCHANGED <<com, stopped, stream>>

(***************************************************************************)
(* The calls that take one step.                                           *)
(***************************************************************************)

Discard(fRx) ==
    /\ call = NoCall
    /\ port' = IF fRx THEN DiscardRx(port) ELSE DiscardTx(port)
    /\ stream' = IF fRx THEN [stream EXCEPT !.rx = <<>>]
                        ELSE [stream EXCEPT !.tx = <<>>]
    /\ UNCHANGED <<com, raised, call, thread, stopped>>

PrepareForClockStop ==
    /\ call = NoCall
    /\ Has(port, SW_IN) /\ ~Has(port, HALT)
    /\ port' = SendXOFF(port, HALT)
    /\ UNCHANGED <<com, raised, call, thread, stopped, stream>>

ClockStopFinished ==
    /\ call = NoCall
    /\ Has(port, SW_IN) /\ Has(port, HALT)
    /\ port' = SendXON(port, HALT)
    /\ UNCHANGED <<com, raised, call, thread, stopped, stream>>

-----------------------------------------------------------------------------
Init ==
    /\ port = [Flag |-> {}, fDataEventSet |-> FALSE, posted |-> FALSE,
               TxQueue |-> Initialize(TxSize),
               RxQueue |-> Initialize(RxSize), refs |-> {}, imr |-> {},
               rhr |-> None, thr |-> None]
    /\ com = FALSE
    /\ raised = FALSE
    /\ call = NoCall
    /\ thread = [r \in Roles |-> Idle]
    /\ stopped = FALSE
    /\ stream = [rx |-> <<>>, tx |-> <<>>]

CallSteps ==
    \/ ReadEnter \/ ReadLoop \/ ReadEnd
    \/ WriteEnter \/ WriteStore \/ WriteLoop \/ WriteEnd
    \/ FlushEnter \/ FlushPoll \/ FlushDrained
    \/ FlushReturns \/ (\E flow \in Flows : Open(flow)) \/ Close

Environment ==
    \/ \E c \in {"data", "XON", "XOFF"} : Arrive(c)
    \/ \E r \in Roles : \E n \in 1..MaxCount(r) : StartCall(r, n)
    \/ \E r \in Roles : WaitExpires(r)
    \/ StartFlush
    \/ \E fRx \in BOOLEAN : Discard(fRx)
    \/ PrepareForClockStop \/ ClockStopFinished

Next ==
    \/ \E byte \in Bytes : Interrupt(byte)
    \/ Transmit
    \/ ProcessActivity \/ \E r \in Roles : GoOn(r)
    \/ CallSteps \/ Environment

Spec == Init /\ [][Next]_vars

-----------------------------------------------------------------------------
Char == {None, "data", "XON", "XOFF"}

PortType ==
    [Flag : SUBSET FlagBits, fDataEventSet : BOOLEAN, posted : BOOLEAN,
     TxQueue : QueueType(TxSize, Bytes),
     RxQueue : QueueType(RxSize, Bytes),
     refs : SUBSET {"Rx", "Tx"}, imr : SUBSET {"Rx", "Tx"},
     rhr : Char, thr : Char]

Counts == (0..MaxRead) \cup (0..MaxWrite)

CallType ==
    [op : {None, "read", "write", "flush"},
     pc : {None, "enter", "loop", "store", "end", "drain", "holding", "flushed"},
     left : Counts, done : Counts, round : 0..1,
     flags : SUBSET FlagBits]

\* Types of the variables
TypeOK ==
    /\ port \in PortType
    /\ com \in BOOLEAN /\ raised \in BOOLEAN /\ stopped \in BOOLEAN
    /\ call \in CallType
    /\ call.done <= call.left
    /\ thread \in [Roles -> [state : {"idle", "running", "waiting", "ready"},
                             left : Counts]]
    /\ stream \in [rx : Seq(Bytes), tx : Seq(Bytes)]

(***************************************************************************)
(* The queues lose, invent and reorder nothing, wherever in the ring they  *)
(* begin and end, however Push and Pop are cut at the end of the buffer    *)
(* and whenever Pop moves an empty queue to its start: a queue holds the   *)
(* bytes that were accepted and not passed on, and what a caller would get *)
(* next are the first of them (Hal_Queue_UnknownSize, Write, Read).        *)
(***************************************************************************)
Carries(q, bytes) ==
    /\ Contents(q) = bytes
    /\ \A n \in Counts : Front(q, n) = SubSeq(bytes, 1, Given(q, n))

StreamsIntact ==
    /\ Carries(port.TxQueue, stream.tx)
    /\ Carries(port.RxQueue, stream.rx)

(***************************************************************************)
(* While something is to be sent, the transmit interrupt is on and will    *)
(* send it; only a Write that is still under way may not have turned it on *)
(* yet, when the interrupt emptied the queue between its steps.            *)
(***************************************************************************)
Pending(p) == NextChar(p) # None

TransmitterRuns ==
    Pending(port)
        => InterruptState(port, "Tx") \/ (call.op = "write" /\ call.pc # "enter")

(***************************************************************************)
(* A port that is open goes on working: what is to be sent is sent, and it *)
(* is not in power-save mode, in which Read and Write refuse every call.   *)
(* The driver of the chip turns the mode on when both interrupts are off.  *)
(* RTS/CTS is an exception, since that flow control turns the receiver's   *)
(* interrupt off without a look at the other one.                          *)
(***************************************************************************)
PortGoesOn ==
    (Initialized(port) /\ ~Has(port, HW_IN)) =>
        TransmitterRuns /\ ~PowerSaved(port)

\* What the peer will have been told last, when all is sent
WillBeStopped ==
    /\ ~Has(port, "TX_BUFFERXON")
    /\ \/ Has(port, "TX_BUFFERXOFF")
       \/ Outcome(stopped, port.thr)

(***************************************************************************)
(* A peer that this session of the port stopped is not forgotten: either   *)
(* the clock is halted and its restart will release the peer, or there is  *)
(* so much to read that reading it passes the low water mark and releases  *)
(* the peer.  This holds although Write stores the flags without the lock. *)
(***************************************************************************)
ReadingReleases ==
    (Initialized(port) /\ WillBeStopped) =>
        Has(port, HALT) \/ NumberOfElements(port.RxQueue) > LowWaterMark

(***************************************************************************)
(* While there is something to read, the application has had a data event  *)
(* since it last read: fDataEventSet holds back no event that is needed    *)
(* (SetEvent in AddCharToRxBuffer and at the end of Read).                 *)
(***************************************************************************)
DataAnnounced ==
    (Initialized(port) /\ ~IsEmpty(port.RxQueue) /\ call.op # "read")
        => port.posted

(***************************************************************************)
(* A Read that waits although there are bytes, or a Write that waits       *)
(* although there is room, is about to be woken: the event is set, or the  *)
(* transmit interrupt is on and will set it.  Between the test of the      *)
(* queue and WaitEvents the interrupt may come.                            *)
(***************************************************************************)
NoLostWakeup ==
    /\ (thread["read"].state = "waiting" /\ ~IsEmpty(port.RxQueue)) => com
    /\ (thread["write"].state = "waiting" /\ ~port.TxQueue.full
            /\ ~TxStopped(port)) => com \/ InterruptState(port, "Tx")
=============================================================================
