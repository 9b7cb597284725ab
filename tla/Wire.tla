-------------------------------- MODULE Wire --------------------------------
(***************************************************************************)
(* The wire protocol between a device and the debugger on the host: the    *)
(* receivers of both sides (WP_Message::Process, MessageReassembler), the  *)
(* device's cache of replies (CLR_Messaging) and the host's requests with  *)
(* their retries (Engine.Request).  The line between them may lose or      *)
(* garble what it carries.                                                 *)
(*                                                                         *)
(* A line carries units: the signature, the rest of the header, and the    *)
(* m_size parts of the payload.  A receiver reads a unit where the code    *)
(* reads the same number of bytes, so a lost unit is made up for with one  *)
(* of the next message, as lost bytes are.  A CRC is taken to detect every *)
(* difference.  Time passes in steps of the host's retry time-out.         *)
(***************************************************************************)
EXTENDS Lists, FiniteSetsExt, Functions

CONSTANTS
    Cmd,            \* the commands the host sends
    NoCachingCmd,   \* those sent with c_NoCaching (Deployment_Status)
    Size,           \* Size[c]: parts of the payload of request c
    ReplySize,      \* ReplySize[c]: parts of the payload of the reply to c
    Ping,           \* c_Monitor_Ping, also the command of a bad-packet notice
    Retries,        \* Retries[c]: how often request c is sent again
    CacheLife,      \* 3 s, in time-outs of a request
    MaxCacheSize,   \* c_MaxCacheSize, in parts (a header counts for one)
    MaxRequests,    \* bound: requests the host makes
    MaxFaults,      \* bound: faults of the line, the port and the heap
    MaxLate         \* bound: time-outs while there is unread input

ASSUME WireAssumption ==
    /\ NoCachingCmd \subseteq Cmd
    /\ Ping \notin Cmd
    /\ Size \in [Cmd -> Nat]
    /\ ReplySize \in [Cmd -> Nat]
    /\ Retries \in [Cmd -> Nat]
    /\ {CacheLife, MaxCacheSize, MaxRequests, MaxFaults, MaxLate} \subseteq Nat

VARIABLES
    toDevice,   \* the units on the way to the device
    toHost,     \* the units on the way to the host
    device,     \* the device's receiver
    host,       \* the host's receiver
    cache,      \* m_cacheSubordinate, the entry used last in front
    request,    \* the host's outstanding request (m_ReqSyncLock: one)
    asked,      \* the commands of the requests made so far
    answer,     \* answer[i]: what request i got
    executed,   \* how often the device executed request i
    forgotten,  \* how often the device lost its reply to request i
    expired,    \* an outstanding request's reply was purged for its age
    faults,     \* faults so far
    late        \* time-outs that passed while there was unread input

vars == <<toDevice, toHost, device, host, cache, request, asked, answer,
          executed, forgotten, expired, faults, late>>

Ids == 1..MaxRequests

(***************************************************************************)
(* Messages.  "of" stands for the contents: the request the message is, or *)
(* the one it answers.  The device's own m_seq is never looked at.  The    *)
(* host numbers its messages (16 bits); no number comes again while the    *)
(* device has the reply to its first use, so the number of a request is    *)
(* its index and the numbers other messages take are left out.             *)
(***************************************************************************)

Message(cmd, seq, seqReply, flags, size, of) ==
    [cmd |-> cmd, seq |-> seq, seqReply |-> seqReply, flags |-> flags,
     size |-> size, of |-> of]

Signature == [unit |-> "signature"]
Noise     == [unit |-> "noise"]
Header(m) == [unit |-> "header", msg |-> m]
Part(m,i) == [unit |-> "part", msg |-> m, part |-> i]

Parts(m) == [i \in 1..m.size |-> Part(m, i)]
Units(m) == <<Signature, Header(m)>> \o Parts(m)

PrepareRequest(c, i) ==
    Message(c, i, 0,
            IF c \in NoCachingCmd THEN {"NoCaching"} ELSE {}, Size[c], i)

PrepareReply(m, flags, size) ==
    Message(m.cmd, 0, m.seq, flags \cup {"Reply"}, size, m.of)

BadPacket == Message(Ping, 0, 0, {"NonCritical", "NACK"}, 0, 0)

PingReply(m) == Message(Ping, 0, m.seq, {"NonCritical", "Reply"}, 1, 0)

(***************************************************************************)
(* A receiver: the state, the header read and the parts of the payload.    *)
(***************************************************************************)

NoMessage == Message(Ping, 0, 0, {}, 0, 0)

PrepareReception == [state |-> "WaitingForHeader", header |-> NoMessage,
                     payload |-> <<>>]

ReadingHeader == [PrepareReception EXCEPT !.state = "ReadingHeader"]

ReadingPayload(m) == [state |-> "ReadingPayload", header |-> m,
                      payload |-> <<>>]

VerifyHeader(u) == u.unit = "header"

Filled(r, u) == [r EXCEPT !.payload = Append(@, u)]

Complete(r) == Len(r.payload) = r.header.size

VerifyPayload(r) == r.payload = Parts(r.header)

WaitingForHeader(r, u) == IF u = Signature THEN ReadingHeader ELSE r

(***************************************************************************)
(* The device's replies.  A handler replies itself when it has something   *)
(* to say; ProcessPayload then replies with the handler's result.          *)
(***************************************************************************)

Entry(m) == [msg |-> m, age |-> 0]

\* A mutation: the request is not marked as answered.
ReplyToCommand_NotMarked(s, size) ==
    IF "NonCritical" \in s.msg.flags
      THEN s
      ELSE LET reply == PrepareReply(s.msg, {"NonCritical", "ACK"}, size)
           IN  [s EXCEPT !.units = @ \o Units(reply), !.entries = <<Entry(reply)>> \o @]

\* The reply is sent and linked at the front of the cache (TransmitMessage).
ReplyToCommand(s, size) ==
    IF "NonCritical" \in s.msg.flags
      THEN s
      ELSE LET reply == PrepareReply(s.msg,
                                     (s.msg.flags \cap {"NoCaching"})
                                       \cup {"NonCritical", "ACK"},
                                     size)
           IN  [msg     |-> [s.msg EXCEPT !.flags = @ \cup {"NonCritical"}],
                units   |-> s.units \o Units(reply),
                entries |-> IF "NoCaching" \in reply.flags
                              THEN s.entries ELSE <<Entry(reply)>> \o s.entries]

Execute(m) ==
    LET s == [msg |-> m, units |-> <<>>, entries |-> <<>>]
        handled == IF ReplySize[m.cmd] > 0
                     THEN ReplyToCommand(s, ReplySize[m.cmd])
                     ELSE s
    IN  ReplyToCommand(handled, 0)

\* A mutation: the reply's own number is compared.
Answers_OwnSeq(e, m) == e.msg.cmd = m.cmd /\ e.msg.seq = m.seq

Answers(e, m) == e.msg.cmd = m.cmd /\ e.msg.seqReply = m.seq

Hits(m) == {i \in 1..Len(cache) : Answers(cache[i], m)}

FirstHit(m) == CHOOSE i \in Hits(m) : \A j \in Hits(m) : i <= j

\* A mutation: m_lastSeen is not brought up to date.
Used_NotSeen(c, i) == <<c[i]>> \o Drop(c, i)

Used(c, i) == <<[c[i] EXCEPT !.age = 0]>> \o Drop(c, i)

Fault == faults < MaxFaults /\ faults' = faults + 1

Forget(is) == forgotten' = [i \in Ids |-> forgotten[i] + IF i \in is THEN 1 ELSE 0]

(***************************************************************************)
(* Device: WP_Message::Process, a unit at a time.                          *)
(***************************************************************************)

Incoming == toDevice /= <<>> /\ toDevice' = Tail(toDevice)

HostVars == <<host, request, asked, answer, late>>

DeviceSync ==
    /\ device.state = "WaitingForHeader"
    /\ Incoming
    /\ device' = WaitingForHeader(device, Head(toDevice))
    /\ UNCHANGED <<toHost, cache, executed, forgotten, expired, faults, HostVars>>

\* CompleteHeader of a header that is fine, with a payload to come.
DeviceHeader ==
    /\ device.state = "ReadingHeader"
    /\ Incoming
    /\ VerifyHeader(Head(toDevice))
    /\ Head(toDevice).msg.size > 0
    /\ device' = ReadingPayload(Head(toDevice).msg)
    /\ UNCHANGED <<toHost, cache, executed, forgotten, expired, faults, HostVars>>

\* CompleteHeader of a bad header: the garbled flags decide about the notice.
DeviceBadHeader ==
    /\ device.state = "ReadingHeader"
    /\ Incoming
    /\ ~VerifyHeader(Head(toDevice))
    /\ device' = PrepareReception
    /\ toHost' \in {toHost, toHost \o Units(BadPacket)}
    /\ UNCHANGED <<cache, executed, forgotten, expired, faults, HostVars>>

\* App_ProcessHeader finds no memory for the payload.
DeviceNoBuffer ==
    /\ device.state = "ReadingHeader"
    /\ Incoming
    /\ VerifyHeader(Head(toDevice))
    /\ Head(toDevice).msg.size > 0
    /\ Fault
    /\ device' = PrepareReception
    /\ toHost' = IF "NonCritical" \in Head(toDevice).msg.flags
                   THEN toHost ELSE toHost \o Units(BadPacket)
    /\ UNCHANGED <<cache, executed, forgotten, expired, HostVars>>

DevicePart ==
    /\ device.state = "ReadingPayload"
    /\ Incoming
    /\ device' = Filled(device, Head(toDevice))
    /\ ~Complete(device')
    /\ UNCHANGED <<toHost, cache, executed, forgotten, expired, faults, HostVars>>

DeviceBadPayload ==
    /\ device.state = "ReadingPayload"
    /\ Incoming
    /\ LET r == Filled(device, Head(toDevice))
       IN  Complete(r) /\ ~VerifyPayload(r)
    /\ device' = PrepareReception
    /\ toHost' = toHost \o Units(BadPacket)
    /\ UNCHANGED <<cache, executed, forgotten, expired, faults, HostVars>>

\* Process is called again c_PayloadTimeout after it was last called.
DevicePayloadTimeout ==
    /\ device.state = "ReadingPayload"
    /\ Fault
    /\ device' = PrepareReception
    /\ UNCHANGED <<toDevice, toHost, cache, executed, forgotten, expired, HostVars>>

\* CompletePayload: m is a message with a good header and a good payload.
Received(m) ==
    /\ Incoming
    /\ device' = PrepareReception
    /\ \/ /\ device.state = "ReadingHeader"
          /\ VerifyHeader(Head(toDevice))
          /\ m = Head(toDevice).msg
          /\ m.size = 0
       \/ /\ device.state = "ReadingPayload"
          /\ m = device.header
          /\ LET r == Filled(device, Head(toDevice))
             IN  Complete(r) /\ VerifyPayload(r)

IsRequest(m) == m.flags \cap {"NACK", "Reply"} = {}

\* The message being received, if it is complete.
Arriving == IF device.state = "ReadingPayload" THEN device.header
                                               ELSE Head(toDevice).msg

\* ProcessPayload of a notice or of a reply to a ping: nothing is sent.
ProcessReply ==
    /\ Received(Arriving)
    /\ ~IsRequest(Arriving)
    /\ UNCHANGED <<toHost, cache, executed, forgotten, expired, faults, HostVars>>

\* A mutation: a request that was answered before is dropped.
Retransmit_Drop ==
    /\ Received(Arriving)
    /\ IsRequest(Arriving)
    /\ Hits(Arriving) /= {}
    /\ cache' = Used(cache, FirstHit(Arriving))
    /\ UNCHANGED <<toHost, executed, forgotten, expired, faults, HostVars>>

\* ProcessPayload of a request whose reply is cached.
Retransmit ==
    /\ Received(Arriving)
    /\ IsRequest(Arriving)
    /\ Hits(Arriving) /= {}
    /\ cache' = Used(cache, FirstHit(Arriving))
    /\ toHost' = toHost \o Units(cache[FirstHit(Arriving)].msg)
    /\ UNCHANGED <<executed, forgotten, expired, faults, HostVars>>

New == /\ Received(Arriving)
       /\ IsRequest(Arriving)
       /\ Hits(Arriving) = {}
       /\ executed' = [executed EXCEPT ![Arriving.of] = @ + 1]

ProcessRequest ==
    /\ New
    /\ LET s == Execute(Arriving)
       IN  /\ toHost' = toHost \o s.units
           /\ cache' = s.entries \o cache
           /\ Forget(IF s.entries = <<>> THEN {Arriving.of} ELSE {})
    /\ UNCHANGED <<expired, faults, HostVars>>

\* The reply is sent but there is no memory to cache it.
ProcessRequestNoMemory ==
    /\ New
    /\ Fault
    /\ toHost' = toHost \o Execute(Arriving).units
    /\ Forget({Arriving.of})
    /\ UNCHANGED <<cache, expired, HostVars>>

\* DebuggerPort_Write fails for the header or for the payload: not cached.
ProcessRequestNoPort ==
    /\ New
    /\ Fault
    /\ LET us == Execute(Arriving).units
       IN  \E k \in 0..(Len(us) - 1) : toHost' = toHost \o SubSeq(us, 1, k)
    /\ Forget({Arriving.of})
    /\ UNCHANGED <<cache, expired, HostVars>>

(***************************************************************************)
(* PurgeCache, from the entry used least recently to the one used last.    *)
(***************************************************************************)

EntrySize(e) == 1 + e.msg.size

TotalSize(S) == MapThenSumSet(LAMBDA i : EntrySize(cache[i]), S)

Old(e) == e.age > CacheLife

Waiting == request.state = "waiting"

\* The i-th entry is looked at when those behind it that are not in K are gone.
Stays(i, K) ==
    /\ ~Old(cache[i])
    /\ TotalSize({j \in K : j > i} \cup 1..i) <= MaxCacheSize

\* The entries at the places K stay, in their order.
Keep(K) ==
    \E f \in Bijection(1..Cardinality(K), K) :
        /\ \A i, j \in 1..Cardinality(K) : i < j => f[i] < f[j]
        /\ cache' = [i \in 1..Cardinality(K) |-> cache[f[i]]]

PurgeCache ==
    \E K \in SUBSET (1..Len(cache)) :
        LET gone == {cache[i] : i \in (1..Len(cache)) \ K}
        IN  /\ \A i \in 1..Len(cache) : i \in K <=> Stays(i, K)
            /\ gone /= {}
            /\ Keep(K)
            /\ Forget({e.msg.of : e \in gone})
            /\ expired' = (expired \/ \E e \in gone : /\ Old(e)
                                                      /\ Waiting
                                                      /\ e.msg.of = request.msg.of)
            /\ UNCHANGED <<toDevice, toHost, device, executed, faults, HostVars>>

(***************************************************************************)
(* Host: a request and its retries (Engine.Request).                       *)
(***************************************************************************)

DeviceVars == <<device, cache, executed, forgotten, expired>>

AsyncRequest(c) ==
    /\ ~Waiting
    /\ Len(asked) < MaxRequests
    /\ asked' = Append(asked, c)
    /\ LET m == PrepareRequest(c, Len(asked) + 1)
       IN  /\ request' = [state |-> "waiting", msg |-> m,
                          retries |-> Retries[c], waited |-> 0]
           /\ toDevice' = toDevice \o Units(m)
    /\ UNCHANGED <<toHost, host, answer, faults, late, DeviceVars>>

\* A time-out passes.  The device may be busy, or the line slow.
TimePasses ==
    IF toDevice = <<>> /\ toHost = <<>>
      THEN UNCHANGED late
      ELSE late < MaxLate /\ late' = late + 1

Aged == cache' = [i \in 1..Len(cache) |->
                     [cache[i] EXCEPT !.age = IF @ > CacheLife THEN @ ELSE @ + 1]]

\* m_timeoutWait, in time-outs.
TimeoutWait == LET n == Retries[request.msg.cmd] IN IF n = 0 THEN 1 ELSE 2 * n

\* A mutation: the retries left are not looked at.
Retry_Unlimited ==
    /\ Waiting /\ TimePasses
    /\ request.waited + 1 < TimeoutWait
    /\ toDevice' = toDevice \o Units(request.msg)
    /\ request' = [request EXCEPT !.waited = @ + 1, !.retries = @ - 1]
    /\ Aged
    /\ UNCHANGED <<toHost, device, executed, forgotten, expired, host, asked, answer,
                   faults>>

\* Wait: the event is not signalled in time and the request is sent again.
Retry ==
    /\ Waiting /\ TimePasses
    /\ request.waited + 1 < TimeoutWait
    /\ request.retries > 0
    /\ \/ /\ toDevice' = toDevice \o Units(request.msg)
          /\ request' = [request EXCEPT !.waited = @ + 1, !.retries = @ - 1]
          /\ UNCHANGED faults
       \/ /\ Fault   \* Send returns false
          /\ request' = [request EXCEPT !.waited = @ + 1]
          /\ UNCHANGED toDevice
    /\ Aged
    /\ UNCHANGED <<toHost, device, executed, forgotten, expired, host, asked, answer>>

\* Wait gives up, and CancelRequest.
Cancel ==
    /\ Waiting /\ TimePasses
    /\ request.waited + 1 >= TimeoutWait \/ request.retries = 0
    /\ request' = [request EXCEPT !.state = "cancelled"]
    /\ Aged
    /\ UNCHANGED <<toDevice, toHost, device, executed, forgotten, expired, host,
                   asked, answer, faults>>

\* Time passes while the host has no request.
Pass ==
    /\ ~Waiting /\ TimePasses
    /\ \E e \in Members(cache) : ~Old(e)
    /\ Aged
    /\ UNCHANGED <<toDevice, toHost, device, executed, forgotten, expired, host,
                   request, asked, answer, faults>>

(***************************************************************************)
(* Host: MessageReassembler.Process.                                       *)
(***************************************************************************)

Arrived == toHost /= <<>>

HostSync ==
    /\ host.state = "WaitingForHeader"
    /\ Arrived
    /\ host' = WaitingForHeader(host, Head(toHost))
    /\ toHost' = Tail(toHost)
    /\ UNCHANGED <<toDevice, request, asked, answer, faults, late, DeviceVars>>

HostHeader ==
    /\ host.state = "ReadingHeader"
    /\ Arrived
    /\ VerifyHeader(Head(toHost))
    /\ Head(toHost).msg.size > 0
    /\ host' = ReadingPayload(Head(toHost).msg)
    /\ toHost' = Tail(toHost)
    /\ UNCHANGED <<toDevice, request, asked, answer, faults, late, DeviceVars>>

\* When the garbled flags ask for a notice, ReplyBadPacket fails for want of
\* a Converter and the port is closed: what is on the way may be lost.
HostBadHeader ==
    /\ host.state = "ReadingHeader"
    /\ Arrived
    /\ ~VerifyHeader(Head(toHost))
    /\ host' = PrepareReception
    /\ toHost' \in {Tail(toHost), <<>>}
    /\ UNCHANGED <<toDevice, request, asked, answer, faults, late, DeviceVars>>

HostPart ==
    /\ host.state = "ReadingPayload"
    /\ Arrived
    /\ host' = Filled(host, Head(toHost))
    /\ ~Complete(host')
    /\ toHost' = Tail(toHost)
    /\ UNCHANGED <<toDevice, request, asked, answer, faults, late, DeviceVars>>

\* All the device sends is NonCritical: no notice.
HostBadPayload ==
    /\ host.state = "ReadingPayload"
    /\ Arrived
    /\ LET r == Filled(host, Head(toHost)) IN Complete(r) /\ ~VerifyPayload(r)
    /\ host' = PrepareReception
    /\ toHost' = Tail(toHost)
    /\ UNCHANGED <<toDevice, request, asked, answer, faults, late, DeviceVars>>

\* A mutation: only the command is compared.
MatchesReply_AnySeq(m) == Waiting /\ request.msg.cmd = m.cmd

MatchesReply(m) ==
    Waiting /\ request.msg.cmd = m.cmd /\ request.msg.seq = m.seqReply

\* ProcessMessage.  A bad-packet notice has the command of a ping and is
\* answered as one.
ProcessMessage(m) ==
    /\ Arrived
    /\ toHost' = Tail(toHost)
    /\ host' = PrepareReception
    /\ IF "Reply" \in m.flags
         THEN /\ IF MatchesReply(m)
                   THEN /\ request' = [request EXCEPT !.state = "answered"]
                        /\ answer' = [answer EXCEPT ![request.msg.of] = m.of]
                   ELSE UNCHANGED <<request, answer>>
              /\ UNCHANGED toDevice
         ELSE /\ toDevice' = toDevice \o Units(PingReply(m))
              /\ UNCHANGED <<request, answer>>
    /\ UNCHANGED <<asked, faults, late, DeviceVars>>

HostMessage ==
    \/ /\ host.state = "ReadingHeader"
       /\ Arrived
       /\ VerifyHeader(Head(toHost))
       /\ Head(toHost).msg.size = 0
       /\ ProcessMessage(Head(toHost).msg)
    \/ /\ host.state = "ReadingPayload"
       /\ Arrived
       /\ LET r == Filled(host, Head(toHost)) IN Complete(r) /\ VerifyPayload(r)
       /\ ProcessMessage(host.header)

(***************************************************************************)
(* The line loses or garbles a unit (of either direction).                 *)
(***************************************************************************)

LoseToDevice ==
    /\ toDevice /= <<>> /\ Fault
    /\ toDevice' \in {Tail(toDevice), <<Noise>> \o Tail(toDevice)}
    /\ UNCHANGED <<toHost, HostVars, DeviceVars>>

LoseToHost ==
    /\ toHost /= <<>> /\ Fault
    /\ toHost' \in {Tail(toHost), <<Noise>> \o Tail(toHost)}
    /\ UNCHANGED <<toDevice, HostVars, DeviceVars>>

-----------------------------------------------------------------------------

Init ==
    /\ toDevice = <<>> /\ toHost = <<>>
    /\ device = PrepareReception /\ host = PrepareReception
    /\ cache = <<>>
    /\ request = [state |-> "none", msg |-> NoMessage, retries |-> 0, waited |-> 0]
    /\ asked = <<>>
    /\ answer = [i \in Ids |-> 0]
    /\ executed = [i \in Ids |-> 0]
    /\ forgotten = [i \in Ids |-> 0]
    /\ expired = FALSE
    /\ faults = 0
    /\ late = 0

DeviceStep == \/ DeviceSync \/ DeviceHeader \/ DeviceBadHeader \/ DevicePart
              \/ DeviceBadPayload \/ ProcessReply \/ Retransmit \/ ProcessRequest

HostStep == HostSync \/ HostHeader \/ HostBadHeader \/ HostPart \/ HostBadPayload
            \/ HostMessage

Time == Retry \/ Cancel \/ Pass

Faulty == \/ DeviceNoBuffer \/ DevicePayloadTimeout \/ ProcessRequestNoMemory
          \/ ProcessRequestNoPort \/ LoseToDevice \/ LoseToHost

Next == \/ DeviceStep \/ PurgeCache \/ HostStep \/ Time \/ Faulty
        \/ \E c \in Cmd : AsyncRequest(c)

Spec == Init /\ [][Next]_vars

\* ProcessActivity runs for ever and takes what came in; the host's reading
\* thread blocks for input; a wait with a time-out ends.
FairSpec == Spec /\ WF_vars(DeviceStep) /\ WF_vars(HostStep) /\ WF_vars(Time)

-----------------------------------------------------------------------------

MessageType ==
    [cmd : Cmd \cup {Ping}, seq : 0..MaxRequests, seqReply : 0..MaxRequests,
     flags : SUBSET {"NonCritical", "NoCaching", "NACK", "ACK", "Reply"},
     size : Nat, of : 0..MaxRequests]

IsUnit(u) ==
    \/ u \in {Signature, Noise}
    \/ u.unit = "header" /\ u.msg \in MessageType
    \/ u.unit = "part" /\ u.msg \in MessageType /\ u.part \in 1..u.msg.size

IsReceiver(r) ==
    /\ r.state \in {"WaitingForHeader", "ReadingHeader", "ReadingPayload"}
    /\ r.header \in MessageType
    /\ \A i \in 1..Len(r.payload) : IsUnit(r.payload[i])
    /\ r.state = "ReadingPayload" => Len(r.payload) < r.header.size

\* The types of the variables: every receiver has room for what it reads next,
\* and the retries of a request count down to zero and no further.
TypeOK ==
    /\ \A u \in Members(toDevice) \cup Members(toHost) : IsUnit(u)
    /\ IsReceiver(device) /\ IsReceiver(host)
    /\ \A e \in Members(cache) : e.msg \in MessageType /\ e.age \in 0..(CacheLife + 1)
    /\ request.state \in {"none", "waiting", "answered", "cancelled"}
    /\ request.msg \in MessageType
    /\ request.retries \in Nat /\ request.waited \in Nat
    /\ Len(asked) <= MaxRequests /\ Members(asked) \subseteq Cmd
    /\ answer \in [Ids -> 0..MaxRequests]
    /\ executed \in [Ids -> Nat] /\ forgotten \in [Ids -> Nat]
    /\ expired \in BOOLEAN /\ late \in 0..MaxLate
    /\ faults \in 0..MaxFaults

\* However often a request arrives, the device executes it (a memory write,
\* an erase, a resume) once, and again only after it lost the reply it had
\* sent: a failed write of the reply, no memory for it, a purge, NoCaching.
\* And it keeps one reply to it ("Make sure we reply only once!"), the
\* handler's or the one ProcessPayload sends afterwards.
AtMostOnce ==
    /\ \A i \in Ids : executed[i] <= 1 + forgotten[i]
    /\ \A i, j \in 1..Len(cache) :
          cache[i].msg.cmd = cache[j].msg.cmd
            /\ cache[i].msg.seqReply = cache[j].msg.seqReply => i = j

\* The host takes no reply for the answer to another request, also when the
\* reply to a request it gave up comes late, and it takes none for a request
\* the device did not execute.
AnswersItsRequest ==
    \A i \in Ids : answer[i] /= 0 => answer[i] = i /\ executed[i] >= 1

\* An answered request was executed, once as far as the device can remember,
\* and answered by its own reply.
ExactlyOnce == AtMostOnce /\ AnswersItsRequest

\* While the host goes on asking, the reply does not grow too old for the
\* cache: each retry that gets through makes it new, and one fault keeps at
\* most two in a row from getting through.  The first fault is the one that
\* made the host ask again; before it, only time-outs that pass while there
\* is unread input make the reply older.
RetriesKeepReply ==
    expired => late > CacheLife \/ 2 * (faults - 1) + late >= CacheLife

Patient(i) == Len(asked) >= i /\ Retries[asked[i]] >= 2 * MaxFaults + MaxLate

\* After faults the two receivers find the start of a message again before
\* the retries are used up: a request that may be sent again twice for every
\* fault and once for every late answer is answered.
EventuallyAnswered == \A i \in Ids : Patient(i) ~> answer[i] = i
=============================================================================
