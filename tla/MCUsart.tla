------------------------------ MODULE MCUsart ------------------------------
(***************************************************************************)
(* Usart for TLC, with rings that Push and Pop meet the end of and with    *)
(* two bytes to tell apart.  XON and XOFF multiply the states, so a port   *)
(* with that handshake is bounded further: the bytes are 0, a Write is of  *)
(* one byte, and events and waits, of which the port knows nothing, occur  *)
(* only while a Write waits for the peer's XON or for room.                *)
(***************************************************************************)
EXTENDS Usart, Functions

Handshakes == {HandshakeNone, XOnXOff, RequestToSend}

AllZero == Range(stream.rx) \cup Range(stream.tx) \subseteq {0}

OneThread == \E r \in Roles : thread[r] = Idle

Waits(r) == thread[r].state \in {"waiting", "ready"}

NoEvents == ~(\E r \in Roles : Waits(r)) /\ (raised => ~Initialized(port))

\* The peer sends nothing but XON and XOFF, and gets nothing but data.
WriteOnly ==
    /\ ~Waits("read") /\ ~stopped
    /\ IsEmpty(port.RxQueue) /\ port.rhr # "data"
    /\ port.Flag \cap {FULL, HALT, "TX_BUFFERXOFF", "TX_BUFFERXON"} = {}

\* bounds: the states that are explored with XON/XOFF and without
SoftBound ==
    /\ AllZero
    /\ call.op = "write" => call.left = 1
    /\ NoEvents \/ WriteOnly

HardBound == AllZero \/ OneThread

MCNext == Next /\ IF Has(port, SW_IN)' THEN SoftBound' ELSE HardBound'

MCSpec == Init /\ [][MCNext]_vars
=============================================================================
