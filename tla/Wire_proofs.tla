---------------------------- MODULE Wire_proofs ----------------------------
(* The wire protocol executes a request once and answers it with its own   *)
(* reply, and keeps the reply while the host asks for it, for every number *)
(* of requests, retries and faults.                                        *)
EXTENDS Wire, Lists_proofs, FiniteSetTheorems

-----------------------------------------------------------------------------
(* What is on the line *)

MessageUnits(m) == {Header(m)} \cup {Part(m, i) : i \in 1..m.size}

\* What a line that carries the messages M may carry.
UnitsOf(M) == {Signature, Noise} \cup UNION {MessageUnits(m) : m \in M}

\* A receiver of a line that carries the messages M.
Receives(r, M) ==
    /\ r \in [state   : {"WaitingForHeader", "ReadingHeader", "ReadingPayload"},
              header  : M \cup {NoMessage},
              payload : Seq(UnitsOf(M))]
    /\ r.state = "ReadingPayload" =>
          r.header \in M /\ Len(r.payload) < r.header.size

Requests(a) == {PrepareRequest(a[i], i) : i \in 1..Len(a)}

\* m answers one of the requests a, and the device executed that one.
IsReply(m, a, e) ==
    /\ "Reply" \in m.flags
    /\ m.of \in 1..Len(a)
    /\ m.seqReply = m.of
    /\ m.cmd = a[m.of]
    /\ e[m.of] >= 1

Replies(a, e) == {m \in MessageType : IsReply(m, a, e)}

DeviceMessages(a) == Requests(a) \cup {PingReply(BadPacket)}

HostMessages(a, e) == Replies(a, e) \cup {BadPacket}

-----------------------------------------------------------------------------
(* Units and receivers *)

LEMMA MoreMessages ==
    ASSUME NEW M, NEW N, M \subseteq N
    PROVE  /\ UnitsOf(M) \subseteq UnitsOf(N)
           /\ \A s \in Seq(UnitsOf(M)) : s \in Seq(UnitsOf(N))
           /\ \A r : Receives(r, M) => Receives(r, N)
<1>1. UnitsOf(M) \subseteq UnitsOf(N)
  BY DEF UnitsOf
<1>2. ASSUME NEW s \in Seq(UnitsOf(M)) PROVE s \in Seq(UnitsOf(N))
  BY <1>1
<1>3. ASSUME NEW r, Receives(r, M) PROVE Receives(r, N)
  BY <1>2, <1>3 DEF Receives
<1> QED BY <1>1, <1>2, <1>3

\* A message is sent as units of its own.
LEMMA UnitsSent ==
    ASSUME NEW M, NEW m \in M, m.size \in Nat
    PROVE  Units(m) \in Seq(UnitsOf(M)) /\ Len(Units(m)) = m.size + 2
<1>1. Parts(m) \in Seq(UnitsOf(M)) /\ Len(Parts(m)) = m.size
  BY DEF Parts, UnitsOf, MessageUnits
<1>2. <<Signature, Header(m)>> \in Seq(UnitsOf(M))
  BY DEF UnitsOf, MessageUnits
<1> QED BY <1>1, <1>2 DEF Units

\* Only a header has a good header's checksum.
LEMMA HeaderOfMessage ==
    ASSUME NEW M, NEW u \in UnitsOf(M), VerifyHeader(u)
    PROVE  u.msg \in M
BY DEF UnitsOf, MessageUnits, VerifyHeader, Signature, Noise, Header, Part

LEMMA UnitsHaveType ==
    ASSUME NEW M, M \subseteq MessageType, NEW u \in UnitsOf(M)
    PROVE  IsUnit(u)
<1>1. CASE u \in {Signature, Noise}
  BY <1>1 DEF IsUnit
<1>2. ASSUME NEW m \in M, u = Header(m) PROVE IsUnit(u)
  BY <1>2 DEF IsUnit, Header
<1>3. ASSUME NEW m \in M, NEW i \in 1..m.size, u = Part(m, i) PROVE IsUnit(u)
  BY <1>3 DEF IsUnit, Part
<1> QED BY <1>1, <1>2, <1>3 DEF UnitsOf, MessageUnits

LEMMA NewReception ==
    ASSUME NEW M
    PROVE  Receives(PrepareReception, M) /\ Receives(ReadingHeader, M)
<1>1. <<>> \in Seq(UnitsOf(M))
  OBVIOUS
<1>2. ReadingHeader = [state |-> "ReadingHeader", header |-> NoMessage,
                       payload |-> <<>>]
  BY DEF ReadingHeader, PrepareReception
<1> QED BY <1>1, <1>2 DEF Receives, PrepareReception

LEMMA Synchronising ==
    ASSUME NEW M, NEW r, Receives(r, M), NEW u
    PROVE  Receives(WaitingForHeader(r, u), M)
BY NewReception DEF WaitingForHeader

LEMMA PayloadStarts ==
    ASSUME NEW M, M \subseteq MessageType,
           NEW u \in UnitsOf(M), VerifyHeader(u), u.msg.size > 0
    PROVE  Receives(ReadingPayload(u.msg), M)
<1>1. u.msg \in M
  BY HeaderOfMessage
<1>2. <<>> \in Seq(UnitsOf(M)) /\ Len(<<>>) = 0
  OBVIOUS
<1> QED BY <1>1, <1>2 DEF Receives, ReadingPayload

LEMMA PayloadGoesOn ==
    ASSUME NEW M, M \subseteq MessageType, NEW r, Receives(r, M),
           r.state = "ReadingPayload", NEW u \in UnitsOf(M),
           ~Complete(Filled(r, u))
    PROVE  Receives(Filled(r, u), M)
<1>1. r.payload \in Seq(UnitsOf(M)) /\ r.header \in M /\ r.header.size \in Nat
      /\ Len(r.payload) < r.header.size
  BY DEF Receives, MessageType
<1>2. /\ Append(r.payload, u) \in Seq(UnitsOf(M))
      /\ Len(Append(r.payload, u)) = Len(r.payload) + 1
      /\ Len(r.payload) \in Nat
  BY <1>1
<1>3. Filled(r, u) = [state |-> r.state, header |-> r.header,
                      payload |-> Append(r.payload, u)]
  BY DEF Filled, Receives
<1>4. Len(Append(r.payload, u)) # r.header.size
  BY <1>3 DEF Complete
<1>5. Len(Append(r.payload, u)) < r.header.size
  BY <1>1, <1>2, <1>4
<1> QED BY <1>1, <1>2, <1>3, <1>5 DEF Receives

LEMMA ReceiversHaveType ==
    ASSUME NEW M, M \subseteq MessageType, NEW r, Receives(r, M)
    PROVE  IsReceiver(r)
<1>1. NoMessage \in MessageType
  BY WireAssumption DEF NoMessage, Message, MessageType
<1>2. \A i \in 1..Len(r.payload) : IsUnit(r.payload[i])
  BY UnitsHaveType DEF Receives
<1> QED BY <1>1, <1>2 DEF IsReceiver, Receives

-----------------------------------------------------------------------------
(* The messages *)

LEMMA MessagesHaveType ==
    ASSUME NEW a \in Seq(Cmd), Len(a) <= MaxRequests, NEW e
    PROVE  /\ DeviceMessages(a) \subseteq MessageType
           /\ HostMessages(a, e) \subseteq MessageType
           /\ BadPacket \in HostMessages(a, e)
<1>1. PingReply(BadPacket) \in MessageType /\ BadPacket \in MessageType
  BY WireAssumption DEF PingReply, BadPacket, Message, MessageType
<1>2. ASSUME NEW i \in 1..Len(a) PROVE PrepareRequest(a[i], i) \in MessageType
  <2>1. a[i] \in Cmd /\ Size[a[i]] \in Nat /\ i \in 0..MaxRequests
    BY WireAssumption
  <2> QED BY <2>1, WireAssumption DEF PrepareRequest, Message, MessageType
<1> QED BY <1>1, <1>2 DEF DeviceMessages, HostMessages, Requests, Replies

\* What was sent stays right when the host asks more and the device executes more.
LEMMA MessagesStay ==
    ASSUME NEW a \in Seq(Cmd), NEW b \in Seq(Cmd), Len(a) <= Len(b),
           Len(b) <= MaxRequests,
           \A i \in 1..Len(a) : b[i] = a[i],
           NEW e \in [Ids -> Nat], NEW f \in [Ids -> Nat],
           \A i \in Ids : e[i] <= f[i]
    PROVE  /\ Requests(a) \subseteq Requests(b)
           /\ DeviceMessages(a) \subseteq DeviceMessages(b)
           /\ Replies(a, e) \subseteq Replies(b, f)
           /\ HostMessages(a, e) \subseteq HostMessages(b, f)
<1>1. Requests(a) \subseteq Requests(b)
  BY DEF Requests
<1>2. ASSUME NEW m, IsReply(m, a, e) PROVE IsReply(m, b, f)
  <2> DEFINE i == m.of
  <2>1. i \in 1..Len(a) /\ i \in 1..Len(b) /\ i \in Ids
    <3>1. Len(a) \in Nat /\ Len(b) \in Nat /\ MaxRequests \in Nat
      BY WireAssumption
    <3>2. \A k \in 1..Len(a) : k \in 1..Len(b) /\ k \in 1..MaxRequests
      BY <3>1
    <3> QED BY <1>2, <3>2 DEF IsReply, Ids
  <2>2. e[i] \in Nat /\ f[i] \in Nat /\ e[i] >= 1 /\ e[i] <= f[i]
    BY <1>2, <2>1 DEF IsReply
  <2>3. f[i] >= 1
    BY <2>2
  <2> QED BY <1>2, <2>1, <2>3 DEF IsReply
<1> QED BY <1>1, <1>2 DEF DeviceMessages, HostMessages, Replies

-----------------------------------------------------------------------------
(* The replies and their cache *)

Entries(a, e) == [msg : Replies(a, e), age : 0..(CacheLife + 1)]

OneReply(c) ==
    \A i, j \in 1..Len(c) : c[i].msg.of = c[j].msg.of => i = j

Cached(c, n) == \E i \in 1..Len(c) : c[i].msg.of = n

\* Every execution left a reply that is cached or was lost.
RepliesCounted(c, e, f) ==
    \A n \in Ids : e[n] = f[n] + (IF Cached(c, n) THEN 1 ELSE 0)

\* The device sends one reply to a request, and may cache that one.
LEMMA OneReplySent ==
    ASSUME NEW a \in Seq(Cmd), Len(a) <= MaxRequests, NEW n \in 1..Len(a),
           NEW e \in [Ids -> Nat], e[n] >= 1
    PROVE  \E r \in Replies(a, e) :
              LET s == Execute(PrepareRequest(a[n], n))
              IN  /\ r.of = n
                  /\ s.units = Units(r)
                  /\ s.entries \in {<<>>, <<Entry(r)>>}
<1> DEFINE m == PrepareRequest(a[n], n)
           s0 == [msg |-> m, units |-> <<>>, entries |-> <<>>]
           flags == (m.flags \cap {"NoCaching"}) \cup {"NonCritical", "ACK"}
           reply(k) == PrepareReply(m, flags, k)
<1>1. a[n] \in Cmd /\ n \in 0..MaxRequests
  BY WireAssumption
<1>2. /\ m.flags \subseteq {"NoCaching"} /\ m.cmd = a[n] /\ m.of = n /\ m.seq = n
      /\ ReplySize[m.cmd] \in Nat
  BY <1>1, WireAssumption DEF PrepareRequest, Message
<1>3. ASSUME NEW k \in Nat
      PROVE  /\ reply(k) \in Replies(a, e) /\ reply(k).of = n
             /\ <<>> \o Units(reply(k)) = Units(reply(k))
  <2>1. reply(k) = [cmd |-> a[n], seq |-> 0, seqReply |-> n,
                    flags |-> flags \cup {"Reply"}, size |-> k, of |-> n]
    BY <1>2 DEF PrepareReply, Message
  <2>2. flags \cup {"Reply"} \subseteq {"NonCritical", "NoCaching", "NACK", "ACK", "Reply"}
    OBVIOUS
  <2>3. reply(k) \in MessageType
    <3>1. 0 \in 0..MaxRequests /\ n \in 0..MaxRequests /\ a[n] \in Cmd \cup {Ping}
      BY <1>1, WireAssumption
    <3> HIDE DEF flags, reply
    <3> QED BY <2>1, <2>2, <3>1 DEF MessageType
  <2>4. IsReply(reply(k), a, e)
    BY <2>1 DEF IsReply
  <2>5. Units(reply(k)) \in Seq(UnitsOf({reply(k)}))
    <3>1. reply(k) \in {reply(k)} /\ reply(k).size \in Nat
      BY <2>1
    <3> HIDE DEF reply
    <3> QED BY <3>1, UnitsSent
  <2>6. <<>> \o Units(reply(k)) = Units(reply(k))
    BY <2>5
  <2> QED BY <2>1, <2>3, <2>4, <2>6 DEF Replies
<1>4. ASSUME NEW k \in Nat
      PROVE  LET s == ReplyToCommand(s0, k)
             IN  /\ "NonCritical" \in s.msg.flags
                 /\ s.units = Units(reply(k))
                 /\ s.entries \in {<<>>, <<Entry(reply(k))>>}
  <2>1. "NonCritical" \notin s0.msg.flags
    BY <1>2
  <2>2. ReplyToCommand(s0, k) =
          [msg     |-> [m EXCEPT !.flags = @ \cup {"NonCritical"}],
           units   |-> <<>> \o Units(reply(k)),
           entries |-> IF "NoCaching" \in reply(k).flags
                         THEN <<>> ELSE <<Entry(reply(k))>> \o <<>>]
    BY <2>1 DEF ReplyToCommand
  <2>3. "NonCritical" \in [m EXCEPT !.flags = @ \cup {"NonCritical"}].flags
    BY DEF PrepareRequest, Message
  <2>4. <<Entry(reply(k))>> \o <<>> = <<Entry(reply(k))>>
    OBVIOUS
  <2> DEFINE t == ReplyToCommand(s0, k)
  <2> HIDE DEF s0, reply, m
  <2>5. "NonCritical" \in t.msg.flags
    <3>1. t.msg = [m EXCEPT !.flags = @ \cup {"NonCritical"}]
      BY <2>2
    <3> QED BY <2>3, <3>1
  <2>6. t.units = Units(reply(k))
    BY <2>2, <1>3
  <2>7. t.entries \in {<<>>, <<Entry(reply(k))>>}
    BY <2>2, <2>4
  <2> QED BY <2>5, <2>6, <2>7
<1>5. ASSUME NEW s, "NonCritical" \in s.msg.flags PROVE ReplyToCommand(s, 0) = s
  BY <1>5 DEF ReplyToCommand
<1>6. Execute(m) = IF ReplySize[m.cmd] > 0
                     THEN ReplyToCommand(ReplyToCommand(s0, ReplySize[m.cmd]), 0)
                     ELSE ReplyToCommand(s0, 0)
  BY DEF Execute
<1> HIDE DEF s0, reply
<1>7. \E k \in Nat : Execute(m) = ReplyToCommand(s0, k)
  <2> HIDE DEF m
  <2>1. CASE ReplySize[m.cmd] > 0
    BY <2>1, <1>2, <1>4, <1>5, <1>6
  <2>2. CASE ~(ReplySize[m.cmd] > 0)
    BY <2>2, <1>6
  <2> QED BY <2>1, <2>2
<1>8. PICK k \in Nat : Execute(m) = ReplyToCommand(s0, k)
  BY <1>7
<1> QED BY <1>3, <1>4, <1>8

LEMMA FrontLemma ==
    ASSUME NEW S, NEW s \in Seq(S), NEW x \in S
    PROVE  LET t == <<x>> \o s
           IN  /\ t \in Seq(S)
               /\ Len(t) = Len(s) + 1
               /\ t[1] = x
               /\ \A i \in 1..Len(s) : t[i + 1] = s[i]
OBVIOUS

\* A cache with some of the replies of another one.
LEMMA CacheRearranged ==
    ASSUME NEW c, OneReply(c), NEW d, NEW g \in [1..Len(d) -> 1..Len(c)],
           \A i, j \in 1..Len(d) : g[i] = g[j] => i = j,
           \A i \in 1..Len(d) : d[i].msg = c[g[i]].msg
    PROVE  /\ OneReply(d)
           /\ \A n : Cached(d, n) <=> \E i \in 1..Len(d) : c[g[i]].msg.of = n
<1>1. OneReply(d)
  <2> SUFFICES ASSUME NEW i \in 1..Len(d), NEW j \in 1..Len(d),
                      d[i].msg.of = d[j].msg.of
               PROVE  i = j
    BY DEF OneReply
  <2>1. /\ g[i] \in 1..Len(c) /\ g[j] \in 1..Len(c)
        /\ c[g[i]].msg.of = c[g[j]].msg.of
    OBVIOUS
  <2>2. g[i] = g[j]
    BY <2>1 DEF OneReply
  <2> QED BY <2>2
<1>2. \A n : Cached(d, n) <=> \E i \in 1..Len(d) : c[g[i]].msg.of = n
  BY DEF Cached
<1> QED BY <1>1, <1>2

\* A reply that is used again comes to the front.
LEMMA UsedLemma ==
    ASSUME NEW a, NEW e, NEW c \in Seq(Entries(a, e)), NEW i \in 1..Len(c),
           OneReply(c)
    PROVE  /\ Used(c, i) \in Seq(Entries(a, e))
           /\ OneReply(Used(c, i))
           /\ \A n : Cached(Used(c, i), n) <=> Cached(c, n)
<1> DEFINE d == Used(c, i)
           x == [c[i] EXCEPT !.age = 0]
           g == [k \in 1..Len(c) |-> IF k = 1 THEN i ELSE IF k - 1 < i THEN k - 1 ELSE k]
<1>1. c[i] \in Entries(a, e)
  OBVIOUS
<1>2. x \in Entries(a, e) /\ x.msg = c[i].msg
  <2>1. x = [msg |-> c[i].msg, age |-> 0] /\ 0 \in 0..(CacheLife + 1)
    <3>1. c[i] = [msg |-> c[i].msg, age |-> c[i].age]
      BY <1>1 DEF Entries
    <3>2. [c[i] EXCEPT !.age = 0] = [msg |-> c[i].msg, age |-> 0]
      BY <3>1
    <3>3. CacheLife \in Nat
      BY WireAssumption
    <3> QED BY <3>2, <3>3
  <2>2. c[i].msg \in Replies(a, e)
    BY <1>1 DEF Entries
  <2> HIDE DEF x
  <2> QED BY <2>1, <2>2 DEF Entries
<1>3. Drop(c, i) \in Seq(Entries(a, e)) /\ Len(Drop(c, i)) = Len(c) - 1
  BY DropLemma
<1>4. /\ d \in Seq(Entries(a, e)) /\ Len(d) = Len(c) /\ d[1] = x
      /\ \A k \in 1..(Len(c) - 1) : d[k + 1] = Drop(c, i)[k]
  <2> HIDE DEF x
  <2>1. d = <<x>> \o Drop(c, i)
    BY DEF Used, x
  <2>2. Len(c) \in Nat
    OBVIOUS
  <2> HIDE DEF d
  <2> QED BY <1>2, <1>3, <2>1, <2>2, FrontLemma
<1>5. \A k \in 1..(Len(c) - 1) : Drop(c, i)[k] = IF k < i THEN c[k] ELSE c[k + 1]
  BY DEF Drop
<1>6. ASSUME NEW k \in 1..Len(d) PROVE d[k].msg = c[g[k]].msg
  <2> HIDE DEF d, x
  <2>1. CASE k = 1
    BY <2>1, <1>2, <1>4
  <2>2. CASE k # 1
    <3>1. k - 1 \in 1..(Len(c) - 1) /\ (k - 1) + 1 = k
      BY <2>2, <1>4
    <3>2. d[k] = IF k - 1 < i THEN c[k - 1] ELSE c[k]
      BY <3>1, <1>4, <1>5
    <3> QED BY <2>2, <3>2, <1>4
  <2> QED BY <2>1, <2>2
<1> HIDE DEF d, x
<1>7. g \in [1..Len(d) -> 1..Len(c)]
  BY <1>4
<1>8. \A k, j \in 1..Len(d) : g[k] = g[j] => k = j
  BY <1>4
<1>9. \A j \in 1..Len(c) : \E k \in 1..Len(d) : g[k] = j
  <2> SUFFICES ASSUME NEW j \in 1..Len(c) PROVE \E k \in 1..Len(c) : g[k] = j
    BY <1>4
  <2>1. CASE j = i
    <3>1. 1 \in 1..Len(c) /\ g[1] = j
      BY <2>1
    <3> QED BY <3>1
  <2>2. CASE j < i
    <3>1. j + 1 \in 1..Len(c) /\ g[j + 1] = j
      BY <2>2
    <3> QED BY <3>1
  <2>3. CASE j > i
    <3>1. g[j] = j
      BY <2>3
    <3> QED BY <3>1
  <2> QED BY <2>1, <2>2, <2>3
<1> HIDE DEF g
<1>10. OneReply(d) /\ \A n : Cached(d, n) <=> \E k \in 1..Len(d) : c[g[k]].msg.of = n
  <2>1. \A k \in 1..Len(d) : d[k].msg = c[g[k]].msg
    BY <1>6
  <2>2. OneReply(d)
    BY <2>1, <1>7, <1>8, CacheRearranged
  <2>3. \A n : Cached(d, n) <=> \E k \in 1..Len(d) : c[g[k]].msg.of = n
    BY <2>1 DEF Cached
  <2> QED BY <2>2, <2>3
<1>11. ASSUME NEW n PROVE Cached(d, n) <=> Cached(c, n)
  <2>1. ASSUME NEW k \in 1..Len(d), c[g[k]].msg.of = n PROVE Cached(c, n)
    BY <1>7, <2>1 DEF Cached
  <2>2. ASSUME NEW j \in 1..Len(c), c[j].msg.of = n
        PROVE  \E k \in 1..Len(d) : c[g[k]].msg.of = n
    BY <1>9, <2>2
  <2>3. Cached(c, n) <=> \E j \in 1..Len(c) : c[j].msg.of = n
    BY DEF Cached
  <2> QED BY <1>10, <2>1, <2>2, <2>3
<1> QED BY <1>4, <1>10, <1>11 DEF d

LEMMA AgedLemma ==
    ASSUME NEW a, NEW e, NEW c \in Seq(Entries(a, e)), OneReply(c)
    PROVE  LET d == [i \in 1..Len(c) |->
                        [c[i] EXCEPT !.age = IF @ > CacheLife THEN @ ELSE @ + 1]]
           IN  /\ d \in Seq(Entries(a, e))
               /\ OneReply(d)
               /\ \A n : Cached(d, n) <=> Cached(c, n)
<1> DEFINE older(x) == [x EXCEPT !.age = IF @ > CacheLife THEN @ ELSE @ + 1]
           d == [i \in 1..Len(c) |-> older(c[i])]
<1>1. ASSUME NEW x \in Entries(a, e)
      PROVE  older(x) \in Entries(a, e) /\ older(x).msg = x.msg
  <2>1. x.age \in 0..(CacheLife + 1) /\ CacheLife \in Nat
    BY WireAssumption DEF Entries
  <2>2. (IF x.age > CacheLife THEN x.age ELSE x.age + 1) \in 0..(CacheLife + 1)
    BY <2>1
  <2>3. older(x) = [msg |-> x.msg,
                    age |-> IF x.age > CacheLife THEN x.age ELSE x.age + 1]
    BY DEF Entries
  <2> QED BY <2>2, <2>3 DEF Entries
<1> HIDE DEF older
<1>2. d \in Seq(Entries(a, e)) /\ Len(d) = Len(c)
  BY <1>1
<1>3. \A i \in 1..Len(c) : d[i].msg = c[i].msg
  BY <1>1
<1> HIDE DEF d
<1>4. OneReply(d) /\ \A n : Cached(d, n) <=> Cached(c, n)
  BY <1>2, <1>3 DEF OneReply, Cached
<1> QED BY <1>2, <1>4 DEF d, older

\* The purge keeps the replies at the places K.
LEMMA KeepLemma ==
    ASSUME NEW a, NEW e, cache \in Seq(Entries(a, e)), OneReply(cache),
           NEW K \in SUBSET (1..Len(cache)), Keep(K)
    PROVE  /\ cache' \in Seq(Entries(a, e))
           /\ OneReply(cache')
           /\ \A n : Cached(cache', n) <=> \E i \in K : cache[i].msg.of = n
<1>1. Cardinality(K) \in Nat
  <2>1. IsFiniteSet(1..Len(cache))
    BY FS_Interval
  <2>2. IsFiniteSet(K)
    BY <2>1, FS_Subset
  <2> QED BY <2>2, FS_CardinalityType
<1> DEFINE size == Cardinality(K)
<1>2. PICK f \in Bijection(1..size, K) : cache' = [i \in 1..size |-> cache[f[i]]]
  BY DEF Keep
<1>3. /\ f \in [1..size -> K]
      /\ \A i, j \in 1..size : f[i] = f[j] => i = j
      /\ \A k \in K : \E i \in 1..size : f[i] = k
  BY DEF Bijection, Injection, Surjection, IsInjective
<1> HIDE DEF size
<1>4. \A i \in 1..size : f[i] \in 1..Len(cache) /\ cache[f[i]] \in Entries(a, e)
  <2>1. \A i \in 1..size : f[i] \in 1..Len(cache)
    BY <1>3
  <2>2. \A i \in 1..Len(cache) : cache[i] \in Entries(a, e)
    OBVIOUS
  <2> QED BY <2>1, <2>2
<1>5. /\ cache' \in Seq(Entries(a, e)) /\ Len(cache') = size
      /\ \A i \in 1..size : cache'[i] = cache[f[i]]
  BY <1>1, <1>2, <1>4 DEF size
<1>6. OneReply(cache')
  BY <1>3, <1>4, <1>5 DEF OneReply
<1>7. ASSUME NEW n PROVE Cached(cache', n) <=> \E i \in K : cache[i].msg.of = n
  <2>1. ASSUME NEW i \in 1..size, cache'[i].msg.of = n
        PROVE  \E k \in K : cache[k].msg.of = n
    <3>1. f[i] \in K /\ cache[f[i]].msg.of = n
      BY <1>3, <1>5, <2>1
    <3> QED BY <3>1
  <2>2. ASSUME NEW k \in K, cache[k].msg.of = n
        PROVE  \E i \in 1..size : cache'[i].msg.of = n
    BY <1>3, <1>5, <2>2
  <2>3. Cached(cache', n) <=> \E i \in 1..size : cache'[i].msg.of = n
    BY <1>5 DEF Cached
  <2> QED BY <2>1, <2>2, <2>3
<1> QED BY <1>5, <1>6, <1>7

\* A reply to a request that has none in the cache.
LEMMA NewEntryLemma ==
    ASSUME NEW a, NEW e, NEW c \in Seq(Entries(a, e)), OneReply(c),
           NEW r \in Replies(a, e), ~Cached(c, r.of)
    PROVE  LET d == <<Entry(r)>> \o c
           IN  /\ d \in Seq(Entries(a, e))
               /\ OneReply(d)
               /\ \A n : Cached(d, n) <=> n = r.of \/ Cached(c, n)
<1>1. Entry(r) \in Entries(a, e) /\ Entry(r).msg = r
  BY WireAssumption DEF Entry, Entries
<1> DEFINE d == <<Entry(r)>> \o c
<1>2. /\ d \in Seq(Entries(a, e)) /\ Len(d) = Len(c) + 1 /\ d[1] = Entry(r)
      /\ \A i \in 1..Len(c) : d[i + 1] = c[i]
  BY <1>1, FrontLemma
<1> HIDE DEF d
<1>3. ASSUME NEW i \in 1..Len(d)
      PROVE  \/ i = 1 /\ d[i].msg = r
             \/ i - 1 \in 1..Len(c) /\ d[i] = c[i - 1]
  <2>1. CASE i = 1
    BY <2>1, <1>1, <1>2
  <2>2. CASE i # 1
    <3>1. i - 1 \in 1..Len(c) /\ (i - 1) + 1 = i
      BY <2>2, <1>2
    <3>2. d[(i - 1) + 1] = c[i - 1]
      BY <3>1, <1>2
    <3> QED BY <3>1, <3>2
  <2> QED BY <2>1, <2>2
<1>4. \A i \in 1..Len(c) : c[i].msg.of # r.of
  BY DEF Cached
<1>5. OneReply(d)
  <2> SUFFICES ASSUME NEW i \in 1..Len(d), NEW j \in 1..Len(d),
                      d[i].msg.of = d[j].msg.of
               PROVE  i = j
    BY DEF OneReply
  <2>1. CASE i = 1 \/ j = 1
    <3>1. \A k \in 1..Len(d) : k # 1 => d[k].msg.of # r.of
      <4> SUFFICES ASSUME NEW k \in 1..Len(d), k # 1 PROVE d[k].msg.of # r.of
        OBVIOUS
      <4>1. k - 1 \in 1..Len(c) /\ d[k] = c[k - 1]
        BY <1>3
      <4> QED BY <1>4, <4>1
    <3>2. \A k \in 1..Len(d) : k = 1 => d[k].msg.of = r.of
      BY <1>1, <1>2
    <3> QED BY <2>1, <3>1, <3>2
  <2>2. CASE i # 1 /\ j # 1
    <3>1. /\ i - 1 \in 1..Len(c) /\ j - 1 \in 1..Len(c)
          /\ c[i - 1].msg.of = c[j - 1].msg.of
      BY <2>2, <1>3
    <3>2. i - 1 = j - 1
      BY <3>1 DEF OneReply
    <3> QED BY <3>2
  <2> QED BY <2>1, <2>2
<1>6. ASSUME NEW n PROVE Cached(d, n) <=> n = r.of \/ Cached(c, n)
  <2>1. ASSUME Cached(d, n) PROVE n = r.of \/ Cached(c, n)
    <3>1. PICK i \in 1..Len(d) : d[i].msg.of = n
      BY <2>1 DEF Cached
    <3> QED BY <3>1, <1>3 DEF Cached
  <2>2. Cached(d, r.of)
    <3>1. 1 \in 1..Len(d) /\ d[1].msg.of = r.of
      BY <1>1, <1>2
    <3> QED BY <3>1 DEF Cached
  <2>3. ASSUME Cached(c, n) PROVE Cached(d, n)
    <3>1. PICK i \in 1..Len(c) : c[i].msg.of = n
      BY <2>3 DEF Cached
    <3>2. i + 1 \in 1..Len(d) /\ d[i + 1].msg.of = n
      BY <3>1, <1>2
    <3> QED BY <3>2 DEF Cached
  <2> QED BY <2>1, <2>2, <2>3
<1> QED BY <1>2, <1>5, <1>6 DEF d

\* The first cached reply to a request is one, and without one there is none.
LEMMA HitsLemma ==
    ASSUME NEW a \in Seq(Cmd), NEW e, cache \in Seq(Entries(a, e)),
           NEW n \in 1..Len(a)
    PROVE  LET m == PrepareRequest(a[n], n)
           IN  /\ Hits(m) # {} => /\ FirstHit(m) \in 1..Len(cache)
                                  /\ cache[FirstHit(m)].msg.of = n
               /\ Hits(m) = {} => ~Cached(cache, n)
<1> DEFINE m == PrepareRequest(a[n], n)
<1>1. ASSUME Hits(m) # {}
      PROVE  FirstHit(m) \in 1..Len(cache) /\ cache[FirstHit(m)].msg.of = n
  <2>1. Hits(m) \subseteq 1..Len(cache) /\ Hits(m) \in SUBSET Nat
    BY DEF Hits
  <2> HIDE DEF m
  <2>2. \E i \in Hits(m) : \A j \in Hits(m) : i <= j
    BY <1>1, <2>1, LeastPlace
  <2>3. FirstHit(m) \in Hits(m)
    BY <2>2 DEF FirstHit
  <2>4. FirstHit(m) \in 1..Len(cache) /\ Answers(cache[FirstHit(m)], m)
    BY <2>3 DEF Hits
  <2>5. cache[FirstHit(m)] \in Entries(a, e)
    BY <2>4
  <2>6. cache[FirstHit(m)].msg.seqReply = n
    BY <2>4 DEF Answers, m, PrepareRequest, Message
  <2> QED BY <2>4, <2>5, <2>6 DEF Entries, Replies, IsReply
<1>2. ASSUME NEW i \in 1..Len(cache), cache[i].msg.of = n
      PROVE  i \in Hits(m)
  <2>1. cache[i] \in Entries(a, e)
    OBVIOUS
  <2>2. cache[i].msg.cmd = a[n] /\ cache[i].msg.seqReply = n
    BY <1>2, <2>1 DEF Entries, Replies, IsReply
  <2> QED BY <2>2 DEF Hits, Answers, PrepareRequest, Message
<1>3. Hits(m) = {} => ~Cached(cache, n)
  BY <1>2 DEF Cached
<1> QED BY <1>1, <1>3

-----------------------------------------------------------------------------
(* The invariant *)

Typed ==
    /\ asked \in Seq(Cmd) /\ Len(asked) <= MaxRequests
    /\ answer \in [Ids -> 0..MaxRequests]
    /\ executed \in [Ids -> Nat] /\ forgotten \in [Ids -> Nat]
    /\ expired \in BOOLEAN /\ late \in 0..MaxLate /\ faults \in 0..MaxFaults
    /\ request \in [state   : {"none", "waiting", "answered", "cancelled"},
                    msg     : MessageType,
                    retries : Nat,
                    waited  : Nat]
    /\ Waiting => request.msg \in Requests(asked)

LineSound ==
    /\ toDevice \in Seq(UnitsOf(DeviceMessages(asked)))
    /\ toHost \in Seq(UnitsOf(HostMessages(asked, executed)))
    /\ Receives(device, DeviceMessages(asked))
    /\ Receives(host, HostMessages(asked, executed))

CacheSound ==
    /\ cache \in Seq(Entries(asked, executed))
    /\ OneReply(cache)
    /\ RepliesCounted(cache, executed, forgotten)

\* What is on the line towards the device are requests that were made; what is
\* on the line towards the host, in its receiver and in the cache are replies
\* to requests that were executed, one in the cache to each, and for every
\* execution there is a reply in the cache or one that was lost.
IInv == Typed /\ LineSound /\ CacheSound /\ AnswersItsRequest

LEMMA InitIInv == Init => IInv
<1> SUFFICES ASSUME Init PROVE IInv
  OBVIOUS
<1> USE DEF Init
<1>1. NoMessage \in MessageType
  BY WireAssumption DEF NoMessage, Message, MessageType
<1>2. /\ 0 \in 0..MaxRequests /\ 0 \in 0..MaxLate /\ 0 \in 0..MaxFaults
      /\ <<>> \in Seq(Cmd) /\ Len(<<>>) = 0
      /\ MaxRequests \in Nat
  BY WireAssumption
<1>3. Typed
  <2>1. /\ request = [state |-> "none", msg |-> NoMessage, retries |-> 0, waited |-> 0]
        /\ ~Waiting
    BY DEF Waiting
  <2>2. /\ answer \in [Ids -> 0..MaxRequests]
        /\ executed \in [Ids -> Nat] /\ forgotten \in [Ids -> Nat]
    BY <1>2
  <2>3. asked \in Seq(Cmd) /\ Len(asked) <= MaxRequests
    BY <1>2
  <2>4. expired \in BOOLEAN /\ late \in 0..MaxLate /\ faults \in 0..MaxFaults
    BY <1>2
  <2>5. request \in [state   : {"none", "waiting", "answered", "cancelled"},
                    msg     : MessageType,
                    retries : Nat,
                    waited  : Nat]
    BY <1>1, <2>1
  <2> QED BY <2>1, <2>2, <2>3, <2>4, <2>5 DEF Typed
<1>4. LineSound
  BY NewReception DEF LineSound
<1>5. CacheSound
  BY <1>2 DEF CacheSound, OneReply, RepliesCounted, Cached
<1>6. AnswersItsRequest
  BY DEF AnswersItsRequest
<1> QED BY <1>3, <1>4, <1>5, <1>6 DEF IInv

\* What the device receives and has not seen is a request that was made.
LEMMA ArrivingLemma ==
    ASSUME IInv, Received(Arriving)
    PROVE  Arriving \in DeviceMessages(asked)
<1>1. Receives(device, DeviceMessages(asked))
  BY DEF IInv, LineSound
<1>2. CASE device.state = "ReadingPayload"
  BY <1>1, <1>2 DEF Receives, Arriving
<1>3. CASE device.state # "ReadingPayload"
  <2>1. VerifyHeader(Head(toDevice)) /\ toDevice # <<>> /\ Arriving = Head(toDevice).msg
    BY <1>3 DEF Received, Incoming, Arriving
  <2>2. Head(toDevice) \in UnitsOf(DeviceMessages(asked))
    BY <2>1 DEF IInv, LineSound
  <2> QED BY <2>1, <2>2, HeaderOfMessage
<1> QED BY <1>2, <1>3

LEMMA ArrivingRequest ==
    ASSUME IInv, Received(Arriving), IsRequest(Arriving)
    PROVE  \E n \in 1..Len(asked) : n \in Ids /\ Arriving = PrepareRequest(asked[n], n)
<1>1. Arriving # PingReply(BadPacket)
  BY DEF IsRequest, PingReply, BadPacket, Message
<1>2. Arriving \in Requests(asked)
  BY <1>1, ArrivingLemma DEF DeviceMessages
<1>3. \A n \in 1..Len(asked) : n \in Ids
  BY WireAssumption DEF IInv, Typed, Ids
<1> QED BY <1>2, <1>3 DEF Requests

\* A request that the device executes has no reply in the cache, and the reply
\* it is sent answers it.
LEMMA NewLemma ==
    ASSUME IInv, New, UNCHANGED asked
    PROVE  /\ executed' \in [Ids -> Nat]
           /\ Requests(asked) \subseteq Requests(asked')
           /\ DeviceMessages(asked) \subseteq DeviceMessages(asked')
           /\ Replies(asked, executed) \subseteq Replies(asked', executed')
           /\ HostMessages(asked, executed) \subseteq HostMessages(asked', executed')
           /\ \A i \in Ids : executed'[i] = executed[i] + IF i = Arriving.of THEN 1 ELSE 0
           /\ ~Cached(cache, Arriving.of)
           /\ Arriving.of \in Ids
           /\ \E r \in Replies(asked', executed') :
                 /\ r.of = Arriving.of
                 /\ Execute(Arriving).units = Units(r)
                 /\ Execute(Arriving).entries \in {<<>>, <<Entry(r)>>}
                 /\ Units(r) \in Seq(UnitsOf(HostMessages(asked', executed')))
                 /\ Len(Units(r)) \in Nat
<1>1. PICK n \in 1..Len(asked) : n \in Ids /\ Arriving = PrepareRequest(asked[n], n)
  BY ArrivingRequest DEF New
<1>2. Arriving.of = n
  BY <1>1 DEF PrepareRequest, Message
<1>3. /\ asked \in Seq(Cmd) /\ Len(asked) <= MaxRequests
      /\ executed \in [Ids -> Nat]
      /\ cache \in Seq(Entries(asked, executed))
  BY DEF IInv, Typed, CacheSound
<1>4. executed' = [executed EXCEPT ![n] = @ + 1]
  BY <1>2 DEF New
<1> DEFINE f == executed'
<1>5. f \in [Ids -> Nat]
  BY <1>1, <1>3, <1>4
<1>6. \A i \in Ids : f[i] = executed[i] + IF i = n THEN 1 ELSE 0
  BY <1>1, <1>3, <1>4
<1>7. \A i \in Ids : executed[i] <= f[i] /\ executed[i] \in Nat
  BY <1>3, <1>6
<1>8. f[n] >= 1
  BY <1>1, <1>6, <1>7
<1> HIDE DEF f
<1>9. /\ Requests(asked) \subseteq Requests(asked)
      /\ DeviceMessages(asked) \subseteq DeviceMessages(asked)
      /\ Replies(asked, executed) \subseteq Replies(asked, f)
      /\ HostMessages(asked, executed) \subseteq HostMessages(asked, f)
  <2>1. Len(asked) <= Len(asked) /\ Len(asked) <= MaxRequests
    BY <1>3
  <2>2. \A i \in 1..Len(asked) : asked[i] = asked[i]
    OBVIOUS
  <2> QED BY <1>3, <1>5, <1>7, <2>1, <2>2, MessagesStay, Zenon
<1>10. ~Cached(cache, n)
  BY <1>1, <1>3, HitsLemma DEF New
<1>11. PICK r \in Replies(asked, f) :
          /\ r.of = n
          /\ Execute(Arriving).units = Units(r)
          /\ Execute(Arriving).entries \in {<<>>, <<Entry(r)>>}
  BY <1>1, <1>3, <1>5, <1>8, OneReplySent
<1>12. r \in HostMessages(asked, f) /\ r.size \in Nat
  BY <1>11 DEF HostMessages, Replies, MessageType
<1>13. Units(r) \in Seq(UnitsOf(HostMessages(asked, f))) /\ Len(Units(r)) \in Nat
  BY <1>12, UnitsSent
<1> QED BY <1>1, <1>2, <1>5, <1>6, <1>9, <1>10, <1>11, <1>13 DEF f

\* What the host receives is a reply to an executed request, or a notice.
LEMMA HostArriving ==
    ASSUME IInv, HostMessage
    PROVE  \E m \in HostMessages(asked, executed) : ProcessMessage(m)
<1>1. /\ Receives(host, HostMessages(asked, executed))
      /\ toHost \in Seq(UnitsOf(HostMessages(asked, executed)))
  BY DEF IInv, LineSound
<1>2. CASE host.state = "ReadingPayload"
  <2>1. host.header \in HostMessages(asked, executed)
    BY <1>1, <1>2 DEF Receives
  <2> QED BY <1>2, <2>1 DEF HostMessage
<1>3. CASE host.state # "ReadingPayload"
  <2>1. /\ VerifyHeader(Head(toHost)) /\ toHost # <<>>
        /\ ProcessMessage(Head(toHost).msg)
    BY <1>3 DEF HostMessage, Arrived
  <2>2. Head(toHost) \in UnitsOf(HostMessages(asked, executed))
    BY <1>1, <2>1
  <2> QED BY <2>1, <2>2, HeaderOfMessage
<1> QED BY <1>2, <1>3

LEMMA TypedStep ==
    ASSUME IInv, [Next]_vars
    PROVE  Typed'
<1> USE DEF HostVars, DeviceVars
<1> DEFINE RequestType == [state   : {"none", "waiting", "answered", "cancelled"},
                           msg     : MessageType,
                           retries : Nat,
                           waited  : Nat]
<1>1. /\ asked \in Seq(Cmd) /\ Len(asked) <= MaxRequests
      /\ answer \in [Ids -> 0..MaxRequests]
      /\ executed \in [Ids -> Nat] /\ forgotten \in [Ids -> Nat]
      /\ expired \in BOOLEAN /\ late \in 0..MaxLate /\ faults \in 0..MaxFaults
      /\ request \in RequestType
      /\ Waiting => request.msg \in Requests(asked)
  BY DEF IInv, Typed
<1>2. MaxFaults \in Nat /\ MaxLate \in Nat /\ MaxRequests \in Nat
  BY WireAssumption
<1>3. ASSUME Fault PROVE faults' \in 0..MaxFaults
  BY <1>1, <1>2, <1>3 DEF Fault
<1>4. ASSUME TimePasses PROVE late' \in 0..MaxLate
  BY <1>1, <1>2, <1>4 DEF TimePasses
<1>5. ASSUME NEW is, Forget(is) PROVE forgotten' \in [Ids -> Nat]
  BY <1>1, <1>5 DEF Forget
<1>6. ASSUME UNCHANGED <<asked, answer, executed, forgotten, expired, late, faults,
                         request>>
      PROVE  Typed'
  BY <1>1, <1>6 DEF Typed, Waiting
<1>7. ASSUME Fault, UNCHANGED <<asked, answer, executed, forgotten, expired, late,
                                request>>
      PROVE  Typed'
  BY <1>1, <1>3, <1>7 DEF Typed, Waiting
<1>8. ASSUME New, NEW is, Forget(is), UNCHANGED <<expired, HostVars>>,
             Fault \/ UNCHANGED faults
      PROVE  Typed'
  <2>1. executed' \in [Ids -> Nat]
    BY <1>8, NewLemma
  <2>2. faults' \in 0..MaxFaults
    BY <1>1, <1>3, <1>8
  <2>3. forgotten' \in [Ids -> Nat]
    BY <1>5, <1>8
  <2> QED BY <1>1, <1>8, <2>1, <2>2, <2>3 DEF Typed, Waiting
<1>9. ASSUME DeviceStep PROVE Typed'
  <2>1. CASE DeviceSync \/ DeviceHeader \/ DeviceBadHeader \/ DevicePart
             \/ DeviceBadPayload \/ ProcessReply \/ Retransmit
    BY <1>6, <2>1 DEF DeviceSync, DeviceHeader, DeviceBadHeader, DevicePart,
                      DeviceBadPayload, ProcessReply, Retransmit
  <2>2. CASE ProcessRequest
    BY <1>8, <2>2 DEF ProcessRequest
  <2> QED BY <1>9, <2>1, <2>2 DEF DeviceStep
<1>10. ASSUME PurgeCache PROVE Typed'
  <2>1. forgotten' \in [Ids -> Nat] /\ expired' \in BOOLEAN
    BY <1>5, <1>10 DEF PurgeCache
  <2>2. UNCHANGED <<executed, faults, HostVars>>
    BY <1>10 DEF PurgeCache
  <2> QED BY <1>1, <2>1, <2>2 DEF Typed, Waiting
<1>11. ASSUME HostStep PROVE Typed'
  <2>1. CASE HostSync \/ HostHeader \/ HostBadHeader \/ HostPart \/ HostBadPayload
    BY <1>6, <2>1 DEF HostSync, HostHeader, HostBadHeader, HostPart, HostBadPayload
  <2>2. CASE HostMessage
    <3>1. PICK m \in HostMessages(asked, executed) : ProcessMessage(m)
      BY <2>2, HostArriving
    <3>2. m \in MessageType
      BY <1>1, <3>1, MessagesHaveType
    <3>3. m.of \in 0..MaxRequests
      BY <3>2 DEF MessageType
    <3>4. CASE UNCHANGED <<request, answer>>
      BY <1>6, <3>1, <3>4 DEF ProcessMessage
    <3>5. CASE /\ request' = [request EXCEPT !.state = "answered"]
               /\ answer' = [answer EXCEPT ![request.msg.of] = m.of]
      <4>1. request' \in RequestType /\ request'.state = "answered"
        BY <1>1, <3>5
      <4>2. answer' \in [Ids -> 0..MaxRequests]
        BY <1>1, <3>3, <3>5
      <4>3. UNCHANGED <<asked, executed, forgotten, expired, late, faults>>
        BY <3>1 DEF ProcessMessage
      <4> QED BY <1>1, <4>1, <4>2, <4>3 DEF Typed, Waiting
    <3> QED BY <3>1, <3>4, <3>5 DEF ProcessMessage
  <2> QED BY <1>11, <2>1, <2>2 DEF HostStep
<1>12. ASSUME Time PROVE Typed'
  <2>1. /\ TimePasses
        /\ UNCHANGED <<asked, answer, executed, forgotten, expired>>
    BY <1>12 DEF Time, Retry, Cancel, Pass
  <2>2. late' \in 0..MaxLate
    BY <1>4, <2>1
  <2>3. faults' \in 0..MaxFaults
    BY <1>1, <1>3, <1>12 DEF Time, Retry, Cancel, Pass
  <2>4. request' \in RequestType /\ (Waiting' => request'.msg \in Requests(asked))
    <3>1. CASE Retry
      <4>1. /\ request.retries > 0 /\ Waiting
            /\ \/ request' = [request EXCEPT !.waited = @ + 1, !.retries = @ - 1]
               \/ request' = [request EXCEPT !.waited = @ + 1]
        BY <3>1 DEF Retry
      <4>2. request.retries - 1 \in Nat /\ request.waited + 1 \in Nat
        BY <1>1, <4>1
      <4> QED BY <1>1, <4>1, <4>2
    <3>2. CASE Cancel
      BY <1>1, <3>2 DEF Cancel, Waiting
    <3>3. CASE Pass
      BY <1>1, <3>3 DEF Pass, Waiting
    <3> QED BY <1>12, <3>1, <3>2, <3>3 DEF Time
  <2> QED BY <1>1, <2>1, <2>2, <2>3, <2>4 DEF Typed
<1>13. ASSUME Faulty PROVE Typed'
  <2>1. CASE DeviceNoBuffer \/ DevicePayloadTimeout \/ LoseToDevice \/ LoseToHost
    BY <1>7, <2>1 DEF DeviceNoBuffer, DevicePayloadTimeout, LoseToDevice, LoseToHost
  <2>2. CASE ProcessRequestNoMemory
    BY <1>8, <2>2 DEF ProcessRequestNoMemory
  <2>3. CASE ProcessRequestNoPort
    BY <1>8, <2>3 DEF ProcessRequestNoPort
  <2> QED BY <1>13, <2>1, <2>2, <2>3 DEF Faulty
<1>14. ASSUME NEW c \in Cmd, AsyncRequest(c) PROVE Typed'
  <2> DEFINE i == Len(asked) + 1
  <2>1. /\ asked' = Append(asked, c) /\ Len(asked) < MaxRequests
        /\ request' = [state |-> "waiting", msg |-> PrepareRequest(c, i),
                       retries |-> Retries[c], waited |-> 0]
        /\ UNCHANGED <<answer, executed, forgotten, expired, late, faults>>
    BY <1>14 DEF AsyncRequest
  <2>2. /\ asked' \in Seq(Cmd) /\ Len(asked') = i /\ i <= MaxRequests
        /\ asked'[i] = c /\ i \in 1..Len(asked')
    BY <1>1, <1>2, <2>1
  <2>3. PrepareRequest(c, i) \in Requests(asked')
    BY <2>2 DEF Requests
  <2>4. Requests(asked') \subseteq MessageType
    BY <2>2, MessagesHaveType DEF DeviceMessages
  <2>5. request' \in RequestType
    BY <2>1, <2>3, <2>4, WireAssumption
  <2> QED BY <1>1, <2>1, <2>2, <2>3, <2>5 DEF Typed
<1>15. CASE UNCHANGED vars
  BY <1>6, <1>15 DEF vars
<1> QED BY <1>9, <1>10, <1>11, <1>12, <1>13, <1>14, <1>15 DEF Next

LEMMA LineStep ==
    ASSUME IInv, [Next]_vars
    PROVE  LineSound'
<1> USE DEF HostVars, DeviceVars
<1> DEFINE D == DeviceMessages(asked)
           H == HostMessages(asked, executed)
           DU == UnitsOf(D)
           HU == UnitsOf(H)
<1>1. /\ toDevice \in Seq(DU) /\ toHost \in Seq(HU)
      /\ Receives(device, D) /\ Receives(host, H)
  BY DEF IInv, LineSound
<1>2. /\ asked \in Seq(Cmd) /\ Len(asked) <= MaxRequests
      /\ executed \in [Ids -> Nat]
  BY DEF IInv, Typed
<1>3. D \subseteq MessageType /\ H \subseteq MessageType /\ BadPacket \in H
  BY <1>2, MessagesHaveType
<1>4. /\ toDevice # <<>> => Head(toDevice) \in DU /\ Tail(toDevice) \in Seq(DU)
      /\ toHost # <<>> => Head(toHost) \in HU /\ Tail(toHost) \in Seq(HU)
  BY <1>1
<1>5. ASSUME NEW m \in H PROVE toHost \o Units(m) \in Seq(HU)
  <2>1. m.size \in Nat
    BY <1>3, <1>5 DEF MessageType
  <2>2. Units(m) \in Seq(HU)
    BY <1>5, <2>1, UnitsSent
  <2> QED BY <1>1, <2>2
<1>6. ASSUME NEW m \in D PROVE toDevice \o Units(m) \in Seq(DU)
  <2>1. m.size \in Nat
    BY <1>3, <1>6 DEF MessageType
  <2>2. Units(m) \in Seq(DU)
    BY <1>6, <2>1, UnitsSent
  <2> QED BY <1>1, <2>2
<1>7. Receives(PrepareReception, D) /\ Receives(PrepareReception, H)
  BY NewReception
<1>8. Noise \in DU /\ Noise \in HU /\ <<>> \in Seq(HU)
  BY DEF UnitsOf
<1> HIDE DEF DU, HU
<1>9. ASSUME UNCHANGED <<asked, executed>>,
             toDevice' \in Seq(DU), toHost' \in Seq(HU),
             Receives(device', D), Receives(host', H)
      PROVE  LineSound'
  BY <1>9 DEF LineSound, DU, HU
<1> HIDE DEF D, H
<1>10. ASSUME New, UNCHANGED HostVars,
              \A S : /\ toHost \in Seq(S)
                     /\ Execute(Arriving).units \in Seq(S)
                     /\ Len(Execute(Arriving).units) \in Nat
                     => toHost' \in Seq(S)
       PROVE  LineSound'
  <2> DEFINE E == HostMessages(asked', executed')
  <2>1. /\ D \subseteq DeviceMessages(asked') /\ H \subseteq E
        /\ Execute(Arriving).units \in Seq(UnitsOf(E))
        /\ Len(Execute(Arriving).units) \in Nat
    BY <1>10, NewLemma DEF D, H
  <2> HIDE DEF E
  <2>2. toHost \in Seq(UnitsOf(E)) /\ Receives(host, E)
    BY <1>1, <2>1, MoreMessages DEF HU
  <2>3. toHost' \in Seq(UnitsOf(E)) /\ Receives(host', E)
    BY <1>10, <2>1, <2>2
  <2>4. /\ toDevice # <<>> /\ toDevice' = Tail(toDevice)
        /\ device' = PrepareReception /\ asked' = asked
    BY <1>10 DEF New, Received, Incoming
  <2>5. toDevice' \in Seq(UnitsOf(DeviceMessages(asked')))
    BY <1>4, <2>4 DEF DU, D
  <2>6. Receives(device', DeviceMessages(asked'))
    BY <2>4, NewReception
  <2> QED BY <2>3, <2>5, <2>6 DEF LineSound, E
<1>11. ASSUME DeviceStep PROVE LineSound'
  <2>1. CASE DeviceSync
    <3>1. /\ toDevice # <<>> /\ toDevice' = Tail(toDevice)
          /\ device' = WaitingForHeader(device, Head(toDevice))
          /\ UNCHANGED <<asked, executed, toHost, host>>
      BY <2>1 DEF DeviceSync, Incoming
    <3>2. Receives(device', D)
      BY <1>1, <3>1, Synchronising
    <3> QED BY <1>1, <1>4, <1>9, <3>1, <3>2
  <2>2. CASE DeviceHeader
    <3>1. /\ toDevice # <<>> /\ toDevice' = Tail(toDevice)
          /\ VerifyHeader(Head(toDevice)) /\ Head(toDevice).msg.size > 0
          /\ device' = ReadingPayload(Head(toDevice).msg)
          /\ UNCHANGED <<asked, executed, toHost, host>>
      BY <2>2 DEF DeviceHeader, Incoming
    <3>2. Receives(device', D)
      BY <1>3, <1>4, <3>1, PayloadStarts DEF DU
    <3> QED BY <1>1, <1>4, <1>9, <3>1, <3>2
  <2>3. CASE DeviceBadHeader \/ DeviceBadPayload
    <3>1. /\ toDevice # <<>> /\ toDevice' = Tail(toDevice)
          /\ toHost' \in {toHost, toHost \o Units(BadPacket)}
          /\ device' = PrepareReception
          /\ UNCHANGED <<asked, executed, host>>
      BY <2>3 DEF DeviceBadHeader, DeviceBadPayload, Incoming
    <3>2. toHost' \in Seq(HU)
      BY <1>1, <1>3, <1>5, <3>1
    <3> QED BY <1>1, <1>4, <1>7, <1>9, <3>1, <3>2
  <2>4. CASE DevicePart
    <3>1. /\ toDevice # <<>> /\ toDevice' = Tail(toDevice)
          /\ device.state = "ReadingPayload"
          /\ device' = Filled(device, Head(toDevice))
          /\ ~Complete(Filled(device, Head(toDevice)))
          /\ UNCHANGED <<asked, executed, toHost, host>>
      BY <2>4 DEF DevicePart, Incoming, Complete
    <3>2. Receives(device', D)
      BY <1>1, <1>3, <1>4, <3>1, PayloadGoesOn DEF DU
    <3> QED BY <1>1, <1>4, <1>9, <3>1, <3>2
  <2>5. CASE ProcessReply
    <3>1. /\ toDevice # <<>> /\ toDevice' = Tail(toDevice)
          /\ device' = PrepareReception
          /\ UNCHANGED <<asked, executed, toHost, host>>
      BY <2>5 DEF ProcessReply, Received, Incoming
    <3> QED BY <1>1, <1>4, <1>7, <1>9, <3>1
  <2>6. CASE Retransmit
    <3>1. /\ toDevice # <<>> /\ toDevice' = Tail(toDevice)
          /\ device' = PrepareReception
          /\ toHost' = toHost \o Units(cache[FirstHit(Arriving)].msg)
          /\ UNCHANGED <<asked, executed, host>>
      BY <2>6 DEF Retransmit, Received, Incoming
    <3>2. FirstHit(Arriving) \in 1..Len(cache)
      <4>1. PICK n \in 1..Len(asked) : Arriving = PrepareRequest(asked[n], n)
        BY <2>6, ArrivingRequest DEF Retransmit
      <4> QED BY <1>2, <2>6, <4>1, HitsLemma DEF Retransmit, IInv, CacheSound
    <3>3. cache[FirstHit(Arriving)] \in Entries(asked, executed)
      BY <3>2 DEF IInv, CacheSound
    <3>4. cache[FirstHit(Arriving)].msg \in H
      BY <3>3 DEF Entries, H, HostMessages
    <3>5. toHost' \in Seq(HU)
      BY <1>5, <3>1, <3>4
    <3> QED BY <1>1, <1>4, <1>7, <1>9, <3>1, <3>5
  <2>7. CASE ProcessRequest
    <3>1. New /\ UNCHANGED HostVars /\ toHost' = toHost \o Execute(Arriving).units
      BY <2>7 DEF ProcessRequest
    <3> QED BY <1>10, <3>1
  <2> QED BY <1>11, <2>1, <2>2, <2>3, <2>4, <2>5, <2>6, <2>7 DEF DeviceStep
<1>12. ASSUME PurgeCache PROVE LineSound'
  <2>1. UNCHANGED <<toDevice, toHost, device, executed, host, asked>>
    BY <1>12 DEF PurgeCache
  <2> QED BY <1>1, <1>9, <2>1
<1>13. ASSUME HostStep PROVE LineSound'
  <2>1. CASE HostSync
    <3>1. /\ toHost # <<>> /\ toHost' = Tail(toHost)
          /\ host' = WaitingForHeader(host, Head(toHost))
          /\ UNCHANGED <<asked, executed, toDevice, device>>
      BY <2>1 DEF HostSync, Arrived
    <3>2. Receives(host', H)
      BY <1>1, <3>1, Synchronising
    <3> QED BY <1>1, <1>4, <1>9, <3>1, <3>2
  <2>2. CASE HostHeader
    <3>1. /\ toHost # <<>> /\ toHost' = Tail(toHost)
          /\ VerifyHeader(Head(toHost)) /\ Head(toHost).msg.size > 0
          /\ host' = ReadingPayload(Head(toHost).msg)
          /\ UNCHANGED <<asked, executed, toDevice, device>>
      BY <2>2 DEF HostHeader, Arrived
    <3>2. Receives(host', H)
      BY <1>3, <1>4, <3>1, PayloadStarts DEF HU
    <3> QED BY <1>1, <1>4, <1>9, <3>1, <3>2
  <2>3. CASE HostBadHeader \/ HostBadPayload
    <3>1. /\ toHost # <<>> /\ toHost' \in {Tail(toHost), <<>>}
          /\ host' = PrepareReception
          /\ UNCHANGED <<asked, executed, toDevice, device>>
      BY <2>3 DEF HostBadHeader, HostBadPayload, Arrived
    <3> QED BY <1>1, <1>4, <1>7, <1>8, <1>9, <3>1
  <2>4. CASE HostPart
    <3>1. /\ toHost # <<>> /\ toHost' = Tail(toHost)
          /\ host.state = "ReadingPayload"
          /\ host' = Filled(host, Head(toHost))
          /\ ~Complete(Filled(host, Head(toHost)))
          /\ UNCHANGED <<asked, executed, toDevice, device>>
      BY <2>4 DEF HostPart, Arrived, Complete
    <3>2. Receives(host', H)
      BY <1>1, <1>3, <1>4, <3>1, PayloadGoesOn DEF HU
    <3> QED BY <1>1, <1>4, <1>9, <3>1, <3>2
  <2>5. CASE HostMessage
    <3>1. PICK m \in H : ProcessMessage(m)
      BY <2>5, HostArriving DEF H
    <3>2. /\ toHost # <<>> /\ toHost' = Tail(toHost) /\ host' = PrepareReception
          /\ \/ toDevice' = toDevice
             \/ "Reply" \notin m.flags /\ toDevice' = toDevice \o Units(PingReply(m))
          /\ UNCHANGED <<asked, executed, device>>
      BY <3>1 DEF ProcessMessage, Arrived
    <3>3. "Reply" \notin m.flags => PingReply(m) \in D
      BY <3>1 DEF H, D, HostMessages, DeviceMessages, Replies, IsReply
    <3>4. toDevice' \in Seq(DU)
      BY <1>1, <1>6, <3>2, <3>3
    <3> QED BY <1>1, <1>4, <1>7, <1>9, <3>2, <3>4
  <2> QED BY <1>13, <2>1, <2>2, <2>3, <2>4, <2>5 DEF HostStep
<1>14. ASSUME Time PROVE LineSound'
  <2>1. /\ toDevice' = toDevice \/ (Waiting /\ toDevice' = toDevice \o Units(request.msg))
        /\ UNCHANGED <<asked, executed, toHost, host, device>>
    BY <1>14 DEF Time, Retry, Cancel, Pass
  <2>2. Waiting => request.msg \in D
    BY DEF IInv, Typed, D, DeviceMessages
  <2>3. toDevice' \in Seq(DU)
    BY <1>1, <1>6, <2>1, <2>2
  <2> QED BY <1>1, <1>9, <2>1, <2>3
<1>15. ASSUME Faulty PROVE LineSound'
  <2>1. CASE DeviceNoBuffer
    <3>1. /\ toDevice # <<>> /\ toDevice' = Tail(toDevice)
          /\ toHost' \in {toHost, toHost \o Units(BadPacket)}
          /\ device' = PrepareReception
          /\ UNCHANGED <<asked, executed, host>>
      BY <2>1 DEF DeviceNoBuffer, Incoming
    <3>2. toHost' \in Seq(HU)
      BY <1>1, <1>3, <1>5, <3>1
    <3> QED BY <1>1, <1>4, <1>7, <1>9, <3>1, <3>2
  <2>2. CASE DevicePayloadTimeout
    <3>1. /\ device' = PrepareReception
          /\ UNCHANGED <<asked, executed, host, toDevice, toHost>>
      BY <2>2 DEF DevicePayloadTimeout
    <3> QED BY <1>1, <1>7, <1>9, <3>1
  <2>3. CASE LoseToDevice
    <3>1. /\ toDevice # <<>>
          /\ toDevice' \in {Tail(toDevice), <<Noise>> \o Tail(toDevice)}
          /\ UNCHANGED <<asked, executed, host, device, toHost>>
      BY <2>3 DEF LoseToDevice
    <3>2. <<Noise>> \o Tail(toDevice) \in Seq(DU)
      BY <1>4, <1>8, <3>1, FrontLemma
    <3>3. toDevice' \in Seq(DU)
      BY <1>4, <3>1, <3>2
    <3> QED BY <1>1, <1>9, <3>1, <3>3
  <2>4. CASE LoseToHost
    <3>1. /\ toHost # <<>>
          /\ toHost' \in {Tail(toHost), <<Noise>> \o Tail(toHost)}
          /\ UNCHANGED <<asked, executed, host, device, toDevice>>
      BY <2>4 DEF LoseToHost
    <3>2. <<Noise>> \o Tail(toHost) \in Seq(HU)
      BY <1>4, <1>8, <3>1, FrontLemma
    <3>3. toHost' \in Seq(HU)
      BY <1>4, <3>1, <3>2
    <3> QED BY <1>1, <1>9, <3>1, <3>3
  <2>5. CASE ProcessRequestNoMemory
    <3>1. New /\ UNCHANGED HostVars /\ toHost' = toHost \o Execute(Arriving).units
      BY <2>5 DEF ProcessRequestNoMemory
    <3> QED BY <1>10, <3>1
  <2>6. CASE ProcessRequestNoPort
    <3> DEFINE us == Execute(Arriving).units
    <3>1. /\ New /\ UNCHANGED HostVars
          /\ \E k \in 0..(Len(us) - 1) : toHost' = toHost \o SubSeq(us, 1, k)
      BY <2>6 DEF ProcessRequestNoPort
    <3> HIDE DEF us
    <3>2. PICK k \in 0..(Len(us) - 1) : toHost' = toHost \o SubSeq(us, 1, k)
      BY <3>1
    <3>3. ASSUME NEW S, toHost \in Seq(S), us \in Seq(S), Len(us) \in Nat
          PROVE  toHost' \in Seq(S)
      <4>1. \A j \in 1..k : us[j] \in S
        BY <3>2, <3>3
      <4>2. SubSeq(us, 1, k) \in Seq(S)
        BY <3>2, <3>3, <4>1
      <4> QED BY <3>2, <3>3, <4>2
    <3> QED BY <1>10, <3>1, <3>3 DEF us
  <2> QED BY <1>15, <2>1, <2>2, <2>3, <2>4, <2>5, <2>6 DEF Faulty
<1>16. ASSUME NEW c \in Cmd, AsyncRequest(c) PROVE LineSound'
  <2> DEFINE i == Len(asked) + 1
             A == DeviceMessages(asked')
             E == HostMessages(asked', executed')
  <2>1. /\ asked' = Append(asked, c) /\ Len(asked) < MaxRequests
        /\ toDevice' = toDevice \o Units(PrepareRequest(c, i))
        /\ UNCHANGED <<toHost, host, executed, device>>
    BY <1>16 DEF AsyncRequest
  <2>2. /\ asked' \in Seq(Cmd) /\ Len(asked') = i /\ i <= MaxRequests
        /\ Len(asked) <= i
        /\ asked'[i] = c /\ i \in 1..Len(asked')
        /\ \A j \in 1..Len(asked) : asked'[j] = asked[j]
    BY <1>2, <2>1, WireAssumption
  <2>3. PrepareRequest(c, i) \in A
    BY <2>2 DEF Requests, DeviceMessages
  <2>4. /\ A \subseteq MessageType /\ D \subseteq A /\ H \subseteq E
    <3>1. A \subseteq MessageType
      BY <2>2, MessagesHaveType
    <3>2. \A j \in Ids : executed[j] <= executed'[j]
      BY <1>2, <2>1
    <3>3. executed' \in [Ids -> Nat]
      BY <1>2, <2>1
    <3> HIDE DEF i
    <3> QED BY <1>2, <2>2, <3>1, <3>2, <3>3, MessagesStay DEF D, H
  <2>5. PrepareRequest(c, i).size \in Nat
    BY <2>3, <2>4 DEF MessageType
  <2> HIDE DEF A, E, i
  <2>6. Units(PrepareRequest(c, i)) \in Seq(UnitsOf(A))
    BY <2>3, <2>5, UnitsSent
  <2>7. /\ toDevice \in Seq(UnitsOf(A)) /\ Receives(device, A)
        /\ toHost \in Seq(UnitsOf(E)) /\ Receives(host, E)
    BY <1>1, <2>4, MoreMessages DEF DU, HU
  <2>8. toDevice' \in Seq(UnitsOf(A))
    BY <2>1, <2>6, <2>7
  <2> QED BY <2>1, <2>7, <2>8 DEF LineSound, A, E
<1>17. CASE UNCHANGED vars
  BY <1>1, <1>9, <1>17 DEF vars
<1> QED BY <1>11, <1>12, <1>13, <1>14, <1>15, <1>16, <1>17 DEF Next

LEMMA CacheStep ==
    ASSUME IInv, [Next]_vars
    PROVE  CacheSound'
<1> USE DEF HostVars, DeviceVars
<1>1. /\ asked \in Seq(Cmd) /\ Len(asked) <= MaxRequests
      /\ executed \in [Ids -> Nat] /\ forgotten \in [Ids -> Nat]
  BY DEF IInv, Typed
<1>2. /\ cache \in Seq(Entries(asked, executed))
      /\ OneReply(cache)
      /\ RepliesCounted(cache, executed, forgotten)
  BY DEF IInv, CacheSound
<1>3. ASSUME UNCHANGED <<cache, asked, executed, forgotten>> PROVE CacheSound'
  BY <1>2, <1>3 DEF CacheSound
<1>4. ASSUME UNCHANGED <<asked, executed, forgotten>>,
             cache' \in Seq(Entries(asked, executed)), OneReply(cache'),
             \A n : Cached(cache', n) <=> Cached(cache, n)
      PROVE  CacheSound'
  BY <1>2, <1>4 DEF CacheSound, RepliesCounted
<1>5. ASSUME New, UNCHANGED HostVars
      PROVE  cache \in Seq(Entries(asked', executed'))
  <2>1. Entries(asked, executed) \subseteq Entries(asked', executed')
    BY <1>5, NewLemma DEF Entries
  <2> QED BY <1>2, <2>1
\* The reply is not cached.
<1>6. ASSUME New, UNCHANGED <<cache, HostVars>>, Forget({Arriving.of})
      PROVE  CacheSound'
  <2>1. \A n \in Ids : executed'[n] = executed[n] + IF n = Arriving.of THEN 1 ELSE 0
    BY <1>6, NewLemma
  <2>2. \A n \in Ids : forgotten'[n] = forgotten[n] + IF n = Arriving.of THEN 1 ELSE 0
    BY <1>6 DEF Forget
  <2>3. RepliesCounted(cache', executed', forgotten')
    <3> SUFFICES ASSUME NEW n \in Ids
                 PROVE  executed'[n] = forgotten'[n] + IF Cached(cache, n) THEN 1 ELSE 0
      BY <1>6 DEF RepliesCounted
    <3>1. executed[n] = forgotten[n] + IF Cached(cache, n) THEN 1 ELSE 0
      BY <1>2 DEF RepliesCounted
    <3>2. executed[n] \in Nat /\ forgotten[n] \in Nat
      BY <1>1
    <3> QED BY <2>1, <2>2, <3>1, <3>2
  <2> QED BY <1>2, <1>5, <1>6, <2>3 DEF CacheSound
<1>7. ASSUME ProcessRequest PROVE CacheSound'
  <2>1. /\ New /\ UNCHANGED HostVars
        /\ cache' = Execute(Arriving).entries \o cache
        /\ Forget(IF Execute(Arriving).entries = <<>> THEN {Arriving.of} ELSE {})
    BY <1>7 DEF ProcessRequest
  <2>2. PICK r \in Replies(asked', executed') :
           /\ r.of = Arriving.of
           /\ Execute(Arriving).entries \in {<<>>, <<Entry(r)>>}
    BY <2>1, NewLemma
  <2>3. CASE Execute(Arriving).entries = <<>>
    <3>1. <<>> \o cache = cache
      BY <1>2
    <3>2. cache' = cache /\ Forget({Arriving.of})
      BY <2>1, <2>3, <3>1
    <3> QED BY <1>6, <2>1, <3>2
  <2>4. CASE Execute(Arriving).entries = <<Entry(r)>>
    <3>1. cache' = <<Entry(r)>> \o cache /\ Forget({})
      <4>1. <<Entry(r)>> # <<>>
        OBVIOUS
      <4> QED BY <2>1, <2>4, <4>1
    <3>2. ~Cached(cache, r.of)
      BY <2>1, <2>2, NewLemma
    <3>3. cache \in Seq(Entries(asked', executed'))
      BY <1>5, <2>1
    <3>4. /\ cache' \in Seq(Entries(asked', executed')) /\ OneReply(cache')
          /\ \A n : Cached(cache', n) <=> n = r.of \/ Cached(cache, n)
      <4> DEFINE a == asked'
                 e == executed'
                 d == <<Entry(r)>> \o cache
      <4> HIDE DEF a, e, d
      <4>1. r \in Replies(a, e) /\ cache \in Seq(Entries(a, e))
        BY <2>2, <3>3 DEF a, e
      <4>2. d \in Seq(Entries(a, e)) /\ OneReply(d)
            /\ \A n : Cached(d, n) <=> n = r.of \/ Cached(cache, n)
        BY <1>2, <3>2, <4>1, NewEntryLemma DEF d
      <4> QED BY <3>1, <4>2 DEF a, e, d
    <3>5. RepliesCounted(cache', executed', forgotten')
      <4> SUFFICES ASSUME NEW n \in Ids
                   PROVE  executed'[n] = forgotten'[n]
                                           + IF Cached(cache', n) THEN 1 ELSE 0
        BY DEF RepliesCounted
      <4>1. executed[n] = forgotten[n] + IF Cached(cache, n) THEN 1 ELSE 0
        BY <1>2 DEF RepliesCounted
      <4>2. executed[n] \in Nat /\ forgotten[n] \in Nat
        BY <1>1
      <4>3. executed'[n] = executed[n] + IF n = r.of THEN 1 ELSE 0
        BY <2>1, <2>2, NewLemma
      <4>4. forgotten'[n] = forgotten[n]
        BY <3>1, <4>2 DEF Forget
      <4>5. Cached(cache', n) <=> n = r.of \/ Cached(cache, n)
        BY <3>4
      <4> QED BY <3>2, <4>1, <4>2, <4>3, <4>4, <4>5
    <3> QED BY <3>4, <3>5 DEF CacheSound
  <2> QED BY <2>2, <2>3, <2>4
<1>8. ASSUME Retransmit PROVE CacheSound'
  <2>1. PICK n \in 1..Len(asked) : Arriving = PrepareRequest(asked[n], n)
    BY <1>8, ArrivingRequest DEF Retransmit
  <2>2. FirstHit(Arriving) \in 1..Len(cache)
    BY <1>1, <1>2, <1>8, <2>1, HitsLemma DEF Retransmit
  <2>3. cache' = Used(cache, FirstHit(Arriving)) /\ UNCHANGED <<asked, executed, forgotten>>
    BY <1>8 DEF Retransmit
  <2> QED BY <1>2, <1>4, <2>2, <2>3, UsedLemma
<1>9. ASSUME PurgeCache PROVE CacheSound'
  <2> DEFINE gone(K) == {cache[i] : i \in (1..Len(cache)) \ K}
  <2>1. PICK K \in SUBSET (1..Len(cache)) :
           /\ Keep(K)
           /\ Forget({x.msg.of : x \in gone(K)})
           /\ UNCHANGED <<asked, executed>>
    BY <1>9 DEF PurgeCache
  <2>2. /\ cache' \in Seq(Entries(asked, executed)) /\ OneReply(cache')
        /\ \A n : Cached(cache', n) <=> \E i \in K : cache[i].msg.of = n
    BY <1>2, <2>1, KeepLemma
  <2>3. RepliesCounted(cache', executed', forgotten')
    <3> SUFFICES ASSUME NEW n \in Ids
                 PROVE  executed'[n] = forgotten'[n]
                                         + IF Cached(cache', n) THEN 1 ELSE 0
      BY DEF RepliesCounted
    <3> DEFINE is == {x.msg.of : x \in gone(K)}
    <3>1. executed[n] = forgotten[n] + IF Cached(cache, n) THEN 1 ELSE 0
      BY <1>2 DEF RepliesCounted
    <3>2. executed[n] \in Nat /\ forgotten[n] \in Nat
      BY <1>1
    <3>3. executed'[n] = executed[n]
          /\ forgotten'[n] = forgotten[n] + IF n \in is THEN 1 ELSE 0
      BY <2>1 DEF Forget
    <3>4. n \in is <=> \E i \in (1..Len(cache)) \ K : cache[i].msg.of = n
      OBVIOUS
    <3> HIDE DEF is
    <3>5. Cached(cache', n) <=> \E i \in K : cache[i].msg.of = n
      BY <2>2
    <3>6. CASE Cached(cache, n)
      <4>1. PICK i \in 1..Len(cache) : cache[i].msg.of = n
        BY <3>6 DEF Cached
      <4>2. \A j \in 1..Len(cache) : cache[j].msg.of = n => j = i
        BY <1>2, <4>1 DEF OneReply
      <4>3. n \in is <=> ~Cached(cache', n)
        BY <3>4, <3>5, <4>1, <4>2
      <4> QED BY <3>1, <3>2, <3>3, <3>6, <4>3
    <3>7. CASE ~Cached(cache, n)
      <4>1. \A j \in 1..Len(cache) : cache[j].msg.of # n
        BY <3>7 DEF Cached
      <4>2. n \notin is /\ ~Cached(cache', n)
        BY <3>4, <3>5, <4>1
      <4> QED BY <3>1, <3>2, <3>3, <3>7, <4>2
    <3> QED BY <3>6, <3>7
  <2> QED BY <2>1, <2>2, <2>3 DEF CacheSound
<1>10. ASSUME Time PROVE CacheSound'
  <2>1. Aged /\ UNCHANGED <<asked, executed, forgotten>>
    BY <1>10 DEF Time, Retry, Cancel, Pass
  <2> QED BY <1>2, <1>4, <2>1, AgedLemma DEF Aged
<1>11. ASSUME NEW c \in Cmd, AsyncRequest(c) PROVE CacheSound'
  <2>1. /\ asked' = Append(asked, c) /\ Len(asked) < MaxRequests
        /\ UNCHANGED <<cache, executed, forgotten>>
    BY <1>11 DEF AsyncRequest
  <2>2. /\ asked' \in Seq(Cmd) /\ Len(asked) <= Len(asked') /\ Len(asked') <= MaxRequests
        /\ \A j \in 1..Len(asked) : asked'[j] = asked[j]
    BY <1>1, <2>1, WireAssumption
  <2>3. \A j \in Ids : executed[j] <= executed[j]
    BY <1>1
  <2>4. Replies(asked, executed) \subseteq Replies(asked', executed)
    BY <1>1, <2>2, <2>3, MessagesStay
  <2>5. Entries(asked, executed) \subseteq Entries(asked', executed)
    BY <2>4 DEF Entries
  <2>6. cache \in Seq(Entries(asked', executed))
    BY <1>2, <2>5
  <2> QED BY <1>2, <2>1, <2>6 DEF CacheSound
<1>12. ASSUME DeviceStep PROVE CacheSound'
  <2>1. CASE DeviceSync \/ DeviceHeader \/ DeviceBadHeader \/ DevicePart
             \/ DeviceBadPayload \/ ProcessReply
    BY <1>3, <2>1 DEF DeviceSync, DeviceHeader, DeviceBadHeader, DevicePart,
                      DeviceBadPayload, ProcessReply
  <2> QED BY <1>7, <1>8, <1>12, <2>1 DEF DeviceStep
<1>13. ASSUME HostStep PROVE CacheSound'
  BY <1>3, <1>13 DEF HostStep, HostSync, HostHeader, HostBadHeader, HostPart,
                     HostBadPayload, HostMessage, ProcessMessage
<1>14. ASSUME Faulty PROVE CacheSound'
  <2>1. CASE DeviceNoBuffer \/ DevicePayloadTimeout \/ LoseToDevice \/ LoseToHost
    BY <1>3, <2>1 DEF DeviceNoBuffer, DevicePayloadTimeout, LoseToDevice, LoseToHost
  <2>2. CASE ProcessRequestNoMemory
    BY <1>6, <2>2 DEF ProcessRequestNoMemory
  <2>3. CASE ProcessRequestNoPort
    BY <1>6, <2>3 DEF ProcessRequestNoPort
  <2> QED BY <1>14, <2>1, <2>2, <2>3 DEF Faulty
<1>15. CASE UNCHANGED vars
  BY <1>3, <1>15 DEF vars
<1> QED BY <1>9, <1>10, <1>11, <1>12, <1>13, <1>14, <1>15 DEF Next

LEMMA AnswersStep ==
    ASSUME IInv, [Next]_vars
    PROVE  AnswersItsRequest'
<1> USE DEF HostVars, DeviceVars
<1>1. /\ answer \in [Ids -> 0..MaxRequests] /\ executed \in [Ids -> Nat]
      /\ AnswersItsRequest
  BY DEF IInv, Typed
<1>2. ASSUME UNCHANGED answer, \A i \in Ids : executed'[i] \in Nat /\ executed'[i] >= executed[i]
      PROVE  AnswersItsRequest'
  <2> SUFFICES ASSUME NEW i \in Ids, answer[i] # 0
               PROVE  answer[i] = i /\ executed'[i] >= 1
    BY <1>2 DEF AnswersItsRequest
  <2>1. answer[i] = i /\ executed[i] >= 1 /\ executed[i] \in Nat
    BY <1>1 DEF AnswersItsRequest
  <2> QED BY <1>2, <2>1
<1>3. ASSUME UNCHANGED <<answer, executed>> PROVE AnswersItsRequest'
  BY <1>1, <1>3 DEF AnswersItsRequest
<1>4. ASSUME New, UNCHANGED HostVars PROVE AnswersItsRequest'
  <2>1. \A i \in Ids : executed'[i] = executed[i] + IF i = Arriving.of THEN 1 ELSE 0
    BY <1>4, NewLemma
  <2>2. \A i \in Ids : executed'[i] \in Nat /\ executed'[i] >= executed[i]
    BY <1>1, <2>1
  <2> QED BY <1>2, <1>4, <2>2
<1>5. ASSUME DeviceStep PROVE AnswersItsRequest'
  <2>1. CASE DeviceSync \/ DeviceHeader \/ DeviceBadHeader \/ DevicePart
             \/ DeviceBadPayload \/ ProcessReply \/ Retransmit
    BY <1>3, <2>1 DEF DeviceSync, DeviceHeader, DeviceBadHeader, DevicePart,
                      DeviceBadPayload, ProcessReply, Retransmit
  <2>2. CASE ProcessRequest
    BY <1>4, <2>2 DEF ProcessRequest
  <2> QED BY <1>5, <2>1, <2>2 DEF DeviceStep
<1>6. ASSUME HostMessage PROVE AnswersItsRequest'
  <2>1. PICK m \in HostMessages(asked, executed) : ProcessMessage(m)
    BY <1>6, HostArriving
  <2>2. CASE UNCHANGED answer
    BY <1>3, <2>1, <2>2 DEF ProcessMessage
  <2>3. CASE answer' # answer
    <3>1. /\ "Reply" \in m.flags /\ MatchesReply(m) /\ UNCHANGED executed
          /\ answer' = [answer EXCEPT ![request.msg.of] = m.of]
      BY <2>1, <2>3 DEF ProcessMessage
    <3>2. IsReply(m, asked, executed)
      BY <2>1, <3>1 DEF HostMessages, Replies, BadPacket, Message
    <3>3. request.msg \in Requests(asked) /\ request.msg.seq = m.seqReply
      BY <3>1 DEF MatchesReply, IInv, Typed
    <3>4. request.msg.of = request.msg.seq
      BY <3>3 DEF Requests, PrepareRequest, Message
    <3>5. answer' = [answer EXCEPT ![m.of] = m.of] /\ executed[m.of] >= 1
      BY <3>1, <3>2, <3>3, <3>4 DEF IsReply
    <3> QED BY <1>1, <3>1, <3>5 DEF AnswersItsRequest
  <2> QED BY <2>2, <2>3
<1>7. ASSUME HostStep PROVE AnswersItsRequest'
  BY <1>3, <1>6, <1>7 DEF HostStep, HostSync, HostHeader, HostBadHeader, HostPart,
                          HostBadPayload
<1>8. ASSUME PurgeCache \/ Time PROVE AnswersItsRequest'
  BY <1>3, <1>8 DEF PurgeCache, Time, Retry, Cancel, Pass
<1>9. ASSUME Faulty PROVE AnswersItsRequest'
  <2>1. CASE DeviceNoBuffer \/ DevicePayloadTimeout \/ LoseToDevice \/ LoseToHost
    BY <1>3, <2>1 DEF DeviceNoBuffer, DevicePayloadTimeout, LoseToDevice, LoseToHost
  <2>2. CASE ProcessRequestNoMemory \/ ProcessRequestNoPort
    BY <1>4, <2>2 DEF ProcessRequestNoMemory, ProcessRequestNoPort
  <2> QED BY <1>9, <2>1, <2>2 DEF Faulty
<1>10. ASSUME NEW c \in Cmd, AsyncRequest(c) PROVE AnswersItsRequest'
  BY <1>3, <1>10 DEF AsyncRequest
<1>11. CASE UNCHANGED vars
  BY <1>3, <1>11 DEF vars
<1> QED BY <1>5, <1>7, <1>8, <1>9, <1>10, <1>11 DEF Next

LEMMA NextIInv == IInv /\ [Next]_vars => IInv'
BY TypedStep, LineStep, CacheStep, AnswersStep DEF IInv

LEMMA SpecIInv == Spec => []IInv
<1> QED BY InitIInv, NextIInv, PTL DEF Spec

-----------------------------------------------------------------------------

\* What is on the line are messages and noise, each receiver has room for what
\* it reads next, and a request's retries do not go below zero.
THEOREM TypeCorrect == Spec => []TypeOK
<1>1. IInv => TypeOK
  <2> SUFFICES ASSUME IInv PROVE TypeOK
    OBVIOUS
  <2> DEFINE D == DeviceMessages(asked)
             H == HostMessages(asked, executed)
  <2>1. /\ asked \in Seq(Cmd) /\ Len(asked) <= MaxRequests
        /\ D \subseteq MessageType /\ H \subseteq MessageType
    BY MessagesHaveType DEF IInv, Typed
  <2>2. /\ toDevice \in Seq(UnitsOf(D)) /\ toHost \in Seq(UnitsOf(H))
        /\ Receives(device, D) /\ Receives(host, H)
    BY DEF IInv, LineSound
  <2> HIDE DEF D, H
  <2>3. IsReceiver(device) /\ IsReceiver(host)
    BY <2>1, <2>2, ReceiversHaveType
  <2>4. \A u \in Members(toDevice) : IsUnit(u)
    <3>1. \A u \in Members(toDevice) : u \in UnitsOf(D)
      BY <2>2 DEF Members
    <3> QED BY <2>1, <3>1, UnitsHaveType
  <2>5. \A u \in Members(toHost) : IsUnit(u)
    <3>1. \A u \in Members(toHost) : u \in UnitsOf(H)
      BY <2>2 DEF Members
    <3> QED BY <2>1, <3>1, UnitsHaveType
  <2>6. \A e \in Members(cache) : e.msg \in MessageType /\ e.age \in 0..(CacheLife + 1)
    <3>1. \A e \in Members(cache) : e \in Entries(asked, executed)
      BY DEF IInv, CacheSound, Members
    <3> QED BY <3>1 DEF Entries, Replies
  <2>7. Members(asked) \subseteq Cmd
    BY <2>1 DEF Members
  <2> QED BY <2>1, <2>3, <2>4, <2>5, <2>6, <2>7 DEF TypeOK, IInv, Typed
<1> QED BY <1>1, SpecIInv, PTL

\* A request is executed once for every reply to it that was lost, and once
\* more; the cache has one reply to it; and the host takes for the answer to a
\* request its own reply, after the device executed it: for any number of
\* requests, retries, faults and time-outs, and any sizes of the payloads and
\* of the cache.
THEOREM ExactlyOnceHolds == Spec => []ExactlyOnce
<1>1. IInv => ExactlyOnce
  <2> SUFFICES ASSUME IInv PROVE ExactlyOnce
    OBVIOUS
  <2>1. ASSUME NEW i \in Ids PROVE executed[i] <= 1 + forgotten[i]
    <3>1. executed[i] \in Nat /\ forgotten[i] \in Nat
      BY DEF IInv, Typed
    <3>2. executed[i] = forgotten[i] + IF Cached(cache, i) THEN 1 ELSE 0
      BY DEF IInv, CacheSound, RepliesCounted
    <3> QED BY <3>1, <3>2
  <2>2. ASSUME NEW i \in 1..Len(cache), NEW j \in 1..Len(cache),
               cache[i].msg.seqReply = cache[j].msg.seqReply
        PROVE  i = j
    <3>1. cache[i] \in Entries(asked, executed) /\ cache[j] \in Entries(asked, executed)
      BY DEF IInv, CacheSound
    <3>2. cache[i].msg.of = cache[j].msg.of
      BY <2>2, <3>1 DEF Entries, Replies, IsReply
    <3> QED BY <3>2 DEF IInv, CacheSound, OneReply
  <2>3. AtMostOnce
    BY <2>1, <2>2 DEF AtMostOnce
  <2> QED BY <2>3 DEF ExactlyOnce, IInv
<1> QED BY <1>1, SpecIInv, PTL

-----------------------------------------------------------------------------
(* How old a cached reply grows while the host waits for it *)

\* The units the receiver takes without looking for the start of a message.
Swallowed(r) ==
    IF r.state = "ReadingPayload" THEN r.header.size - Len(r.payload)
    ELSE IF r.state = "ReadingHeader" THEN 1 ELSE 0

\* What follows the k-th part of m (its header, if k = 0) at the place i.
Rest(t, e, i, m, k) ==
    /\ i + (m.size - k) <= e
    /\ \A j \in 1..(m.size - k) : t[i + j] = Part(m, k + j)
    /\ i + (m.size - k) = e \/ t[i + (m.size - k) + 1] = Signature

\* The i-th of the first e units is followed by the rest of its message.
WholeAt(t, e, i) ==
    /\ t[i] = Signature => i < e /\ VerifyHeader(t[i + 1])
    /\ VerifyHeader(t[i]) => Rest(t, e, i, t[i].msg, 0)
    /\ t[i].unit = "part" => Rest(t, e, i, t[i].msg, t[i].part)

\* The first e units are messages that are whole, but for the start of the first.
Whole(t, e) == \A i \in 1..e : WholeAt(t, e, i)

\* The receiver takes the next unit for what it is.
Aligned(r, t, e) ==
    \/ r.state = "WaitingForHeader" /\ (e = 0 \/ t[1] = Signature)
    \/ r.state = "ReadingHeader" /\ e >= 1 /\ VerifyHeader(t[1])
    \/ /\ r.state = "ReadingPayload" /\ e >= 1
       /\ \A i \in 1..Len(r.payload) : r.payload[i] = Part(r.header, i)
       /\ t[1] = Part(r.header, Len(r.payload) + 1)

\* At p begins a message of (or a reply to) request n.
Starts(t, p, n) ==
    t[p] = Signature /\ VerifyHeader(t[p + 1]) /\ t[p + 1].msg.of = n

\* It is being received.
Receiving(r, t, e, n) ==
    /\ Aligned(r, t, e)
    /\ \/ r.state = "ReadingHeader" /\ t[1].msg.of = n
       \/ r.state = "ReadingPayload" /\ r.header.of = n

\* It will be received, if nothing is lost.
Coming(r, t, e, n) ==
    \/ \E p \in 1..(e - 1) : p > Swallowed(r) /\ Starts(t, p, n)
    \/ Receiving(r, t, e, n)

\* The units the receiver will take of messages that are not yet on the line.
Missing(r, t) == IF Swallowed(r) > Len(t) THEN Swallowed(r) - Len(t) ELSE 0

\* How many more of the host's time-outs may pass while nothing is under way
\* before request n is received, if there is no other fault.
Debt(r, t, n) == Missing(r, t) + IF Coming(r, t, Len(t), n) THEN 0 ELSE 1

\* The host will receive a reply to request n, if nothing is lost.
ReplyComing(r, t, n) ==
    \E e \in 0..Len(t) : Whole(t, e) /\ Aligned(r, t, e) /\ Coming(r, t, e, n)

\* How old a cached reply to the outstanding request may be after f faults and
\* l late time-outs: each fault makes up for two time-outs, but for the first
\* one, which pays for the loss of a reply that is still under way.
InTime(a, f, l, coming, debt) ==
    \/ f = 0 /\ coming /\ a <= l
    \/ f >= 1 /\ coming /\ a <= 2 * (f - 1) + l /\ a + debt <= 2 * f + l
    \/ f >= 1 /\ a + debt <= 2 * f + l - 1

\* Without a fault both receivers take every unit for what it is.
CleanLine ==
    faults = 0 => /\ Missing(device, toDevice) = 0
                  /\ Whole(toHost, Len(toHost))
                  /\ Aligned(host, toHost, Len(toHost))

FreshReply ==
    Waiting => \A k \in 1..Len(cache) :
        cache[k].msg.of = request.msg.of =>
            InTime(cache[k].age, faults, late,
                   ReplyComing(host, toHost, request.msg.of),
                   Debt(device, toDevice, request.msg.of))

\* The invariant of the cache's age: what is on the line are whole messages,
\* but for the first, so that a fault costs the host two retries at most.
RInv == /\ Whole(toDevice, Len(toDevice))
        /\ CleanLine
        /\ FreshReply
        /\ RetriesKeepReply

-----------------------------------------------------------------------------
(* Lines of whole messages *)

\* The receiver after it takes the unit u.
Taken(r, u) ==
    IF r.state = "WaitingForHeader" THEN WaitingForHeader(r, u)
    ELSE IF r.state = "ReadingHeader"
      THEN IF VerifyHeader(u) /\ u.msg.size > 0
             THEN ReadingPayload(u.msg) ELSE PrepareReception
    ELSE IF Complete(Filled(r, u)) THEN PrepareReception ELSE Filled(r, u)

\* The unit u completes a message of (or a reply to) request n.
Completes(r, u, n) ==
    \/ /\ r.state = "ReadingHeader"
       /\ VerifyHeader(u) /\ u.msg.size = 0 /\ u.msg.of = n
    \/ /\ r.state = "ReadingPayload"
       /\ Complete(Filled(r, u)) /\ VerifyPayload(Filled(r, u)) /\ r.header.of = n

LEMMA UnitKinds ==
    ASSUME NEW M, NEW u \in UnitsOf(M)
    PROVE  /\ u = Signature \/ u = Noise \/ VerifyHeader(u) \/ u.unit = "part"
           /\ VerifyHeader(u) => u.msg \in M /\ u = Header(u.msg)
           /\ u.unit = "part" => /\ u.msg \in M /\ u.part \in 1..u.msg.size
                                 /\ u = Part(u.msg, u.part)
<1>1. CASE u \in {Signature, Noise}
  BY <1>1 DEF Signature, Noise, VerifyHeader
<1>2. ASSUME NEW m \in M, u = Header(m)
      PROVE  u.unit = "header" /\ u.msg = m
  BY <1>2 DEF Header
<1>3. ASSUME NEW m \in M, NEW i \in 1..m.size, u = Part(m, i)
      PROVE  u.unit = "part" /\ u.msg = m /\ u.part = i
  BY <1>3 DEF Part
<1> QED BY <1>1, <1>2, <1>3 DEF UnitsOf, MessageUnits, VerifyHeader

LEMMA KindsDiffer ==
    /\ ~VerifyHeader(Signature) /\ Signature.unit # "part"
    /\ Noise # Signature /\ ~VerifyHeader(Noise) /\ Noise.unit # "part"
    /\ \A m : /\ Header(m) # Signature /\ VerifyHeader(Header(m))
              /\ Header(m).unit # "part" /\ Header(m).msg = m
    /\ \A m, i : /\ Part(m, i) # Signature /\ ~VerifyHeader(Part(m, i))
                 /\ Part(m, i).unit = "part"
                 /\ Part(m, i).msg = m /\ Part(m, i).part = i
BY DEF Signature, Noise, Header, Part, VerifyHeader

\* The rest of a message at another place of another line.
LEMMA RestMoves ==
    ASSUME NEW t, NEW s, NEW e \in Nat, NEW f \in Nat, NEW d \in Int,
           NEW i \in 1..e, NEW m, m.size \in Nat, NEW k \in 0..m.size,
           e + d <= f, e + d = f \/ s[e + d + 1] = Signature,
           \A x \in i..e : s[x + d] = t[x],
           Rest(t, e, i, m, k)
    PROVE  Rest(s, f, i + d, m, k)
<1> DEFINE n == m.size - k
<1>1. n \in Nat
  OBVIOUS
<1>2. /\ i + n <= e
      /\ \A j \in 1..n : t[i + j] = Part(m, k + j)
      /\ i + n = e \/ t[i + n + 1] = Signature
  BY DEF Rest
<1> HIDE DEF n
<1>3. i + d + n <= f
  BY <1>1, <1>2
<1>4. ASSUME NEW j \in 1..n PROVE s[i + d + j] = Part(m, k + j)
  <2>1. i + j \in i..e /\ (i + j) + d = i + d + j
    BY <1>1, <1>2
  <2>2. s[(i + j) + d] = t[i + j]
    BY <2>1
  <2> QED BY <1>2, <2>1, <2>2
<1>5. i + d + n = f \/ s[i + d + n + 1] = Signature
  <2>1. CASE i + n = e
    <3>1. e + d = i + d + n /\ e + d + 1 = i + d + n + 1
      BY <1>1, <2>1
    <3> QED BY <3>1
  <2>2. CASE i + n # e
    <3>1. i + n + 1 \in i..e /\ (i + n + 1) + d = i + d + n + 1
      BY <1>1, <1>2, <2>2
    <3>2. s[(i + n + 1) + d] = t[i + n + 1]
      BY <3>1
    <3> QED BY <1>2, <2>2, <3>1, <3>2
  <2> QED BY <2>1, <2>2
<1> QED BY <1>3, <1>4, <1>5 DEF Rest, n

LEMMA WholeMoves ==
    ASSUME NEW M, M \subseteq MessageType, NEW t, NEW s,
           NEW e \in Nat, NEW f \in Nat, NEW d \in Int, NEW i \in 1..e,
           t[i] \in UnitsOf(M),
           e + d <= f, e + d = f \/ s[e + d + 1] = Signature,
           \A x \in i..e : s[x + d] = t[x],
           WholeAt(t, e, i)
    PROVE  WholeAt(s, f, i + d)
<1>1. s[i + d] = t[i]
  OBVIOUS
<1>2. ASSUME t[i] = Signature PROVE i + d < f /\ VerifyHeader(s[i + d + 1])
  <2>1. i < e /\ VerifyHeader(t[i + 1])
    BY <1>2 DEF WholeAt
  <2>2. i + 1 \in i..e /\ (i + 1) + d = i + d + 1 /\ i + d < f
    BY <2>1
  <2>3. s[(i + 1) + d] = t[i + 1]
    BY <2>2
  <2> QED BY <2>1, <2>2, <2>3
<1>3. ASSUME VerifyHeader(t[i]) PROVE Rest(s, f, i + d, t[i].msg, 0)
  <2>1. Rest(t, e, i, t[i].msg, 0)
    BY <1>3 DEF WholeAt
  <2>2. t[i].msg.size \in Nat /\ 0 \in 0..t[i].msg.size
    BY <1>3, UnitKinds DEF MessageType
  <2> QED BY <2>1, <2>2, RestMoves
<1>4. ASSUME t[i].unit = "part" PROVE Rest(s, f, i + d, t[i].msg, t[i].part)
  <2>1. Rest(t, e, i, t[i].msg, t[i].part)
    BY <1>4 DEF WholeAt
  <2>2. t[i].msg.size \in Nat /\ t[i].part \in 0..t[i].msg.size
    <3>1. t[i].msg \in MessageType /\ t[i].part \in 1..t[i].msg.size
      BY <1>4, UnitKinds
    <3> QED BY <3>1 DEF MessageType
  <2> QED BY <2>1, <2>2, RestMoves
<1> QED BY <1>1, <1>2, <1>3, <1>4 DEF WholeAt

LEMMA WholeTail ==
    ASSUME NEW M, M \subseteq MessageType, NEW t \in Seq(UnitsOf(M)),
           NEW e \in 1..Len(t), Whole(t, e)
    PROVE  Whole(Tail(t), e - 1)
<1>1. Len(t) \in Nat /\ e \in Nat /\ e - 1 \in Nat /\ t # <<>> /\ -1 \in Int
  OBVIOUS
<1>2. \A x \in 2..Len(t) : Tail(t)[x + (-1)] = t[x]
  BY <1>1
<1> SUFFICES ASSUME NEW k \in 1..(e - 1) PROVE WholeAt(Tail(t), e - 1, k)
  BY DEF Whole
<1> DEFINE i == k + 1
<1>3. /\ i \in 1..e /\ i + (-1) = k /\ e + (-1) = e - 1
      /\ \A x \in i..e : x \in 2..Len(t)
  BY <1>1
<1>4. t[i] \in UnitsOf(M) /\ WholeAt(t, e, i)
  BY <1>3 DEF Whole
<1> DEFINE s == Tail(t)
           d == -1
           f == e - 1
<1>5. /\ d \in Int /\ f \in Nat /\ e + d <= f /\ e + d = f
      /\ \A x \in i..e : s[x + d] = t[x]
  BY <1>1, <1>2, <1>3
<1> HIDE DEF s, d, f, i
<1>6. WholeAt(s, f, i + d)
  BY <1>1, <1>3, <1>4, <1>5, WholeMoves
<1> QED BY <1>3, <1>6 DEF s, d, f

LEMMA WholeGarbled ==
    ASSUME NEW M, M \subseteq MessageType, NEW t \in Seq(UnitsOf(M)), t # <<>>,
           Whole(t, Len(t))
    PROVE  Whole(<<Noise>> \o Tail(t), Len(t))
<1> DEFINE s == <<Noise>> \o Tail(t)
<1>1. /\ Len(t) \in Nat /\ s[1] = Noise
      /\ \A x \in 2..Len(t) : s[x] = t[x]
  OBVIOUS
<1> HIDE DEF s
<1> SUFFICES ASSUME NEW i \in 1..Len(t) PROVE WholeAt(s, Len(t), i)
  BY DEF Whole, s
<1>2. CASE i = 1
  <2>1. s[i] = Noise
    BY <1>1, <1>2
  <2> QED BY <2>1, KindsDiffer DEF WholeAt
<1>3. CASE i # 1
  <2> DEFINE d == 0
             e == Len(t)
  <2>1. /\ t[i] \in UnitsOf(M) /\ WholeAt(t, e, i)
        /\ e \in Nat /\ i \in 1..e /\ d \in Int /\ e + d <= e /\ e + d = e /\ i + d = i
        /\ \A x \in i..e : s[x + d] = t[x]
    BY <1>1, <1>3 DEF Whole
  <2> HIDE DEF d, e
  <2>2. WholeAt(s, e, i + d)
    BY <2>1, WholeMoves
  <2> QED BY <2>1, <2>2 DEF e
<1> QED BY <1>2, <1>3

LEMMA UnitsAre ==
    ASSUME NEW m, m.size \in Nat
    PROVE  /\ Len(Units(m)) = m.size + 2
           /\ Units(m)[1] = Signature
           /\ Units(m)[2] = Header(m)
           /\ \A j \in 1..m.size : Units(m)[j + 2] = Part(m, j)
<1>1. /\ Parts(m) \in Seq({Part(m, j) : j \in 1..m.size}) /\ Len(Parts(m)) = m.size
      /\ \A j \in 1..m.size : Parts(m)[j] = Part(m, j)
  BY DEF Parts
<1> DEFINE p == Parts(m)
           h == Header(m)
           g == Signature
<1> HIDE DEF p, h, g
<1>2. LET u == <<g, h>> \o p
      IN  /\ Len(u) = m.size + 2
          /\ u[1] = g /\ u[2] = h
          /\ \A j \in 1..m.size : u[j + 2] = p[j]
  BY <1>1 DEF p
<1> QED BY <1>1, <1>2 DEF Units, p, h, g

LEMMA UnitsWhole ==
    ASSUME NEW m \in MessageType
    PROVE  Whole(Units(m), m.size + 2)
<1>1. m.size \in Nat
  BY DEF MessageType
<1> DEFINE t == Units(m)
           e == m.size + 2
<1>2. /\ t[1] = Signature /\ t[2] = Header(m)
      /\ \A j \in 1..m.size : t[j + 2] = Part(m, j)
  BY <1>1, UnitsAre
<1> HIDE DEF t
<1>3. WholeAt(t, e, 1)
  BY <1>1, <1>2, KindsDiffer DEF WholeAt
<1>4. WholeAt(t, e, 2)
  <2>1. \A j \in 1..(m.size - 0) : t[2 + j] = Part(m, 0 + j)
    BY <1>1, <1>2
  <2>2. Rest(t, e, 2, m, 0)
    BY <1>1, <2>1 DEF Rest
  <2> QED BY <1>2, <2>2, KindsDiffer DEF WholeAt
<1>5. ASSUME NEW k \in 1..m.size PROVE WholeAt(t, e, k + 2)
  <2>1. \A j \in 1..(m.size - k) : k + j \in 1..m.size /\ k + 2 + j = (k + j) + 2
    BY <1>1
  <2>2. \A j \in 1..(m.size - k) : t[k + 2 + j] = Part(m, k + j)
    BY <1>2, <2>1
  <2>3. Rest(t, e, k + 2, m, k)
    BY <1>1, <2>2 DEF Rest
  <2> QED BY <1>2, <2>3, KindsDiffer DEF WholeAt
<1>6. \A i \in 1..e : i = 1 \/ i = 2 \/ (i - 2 \in 1..m.size /\ (i - 2) + 2 = i)
  BY <1>1
<1> QED
  <2> SUFFICES ASSUME NEW i \in 1..e PROVE WholeAt(t, e, i)
    BY DEF Whole, t
  <2>1. CASE i = 1 \/ i = 2
    BY <1>3, <1>4, <2>1
  <2>2. CASE i # 1 /\ i # 2
    <3>1. WholeAt(t, e, (i - 2) + 2)
      BY <1>5, <1>6, <2>2
    <3> QED BY <1>6, <2>2, <3>1
  <2> QED BY <2>1, <2>2

LEMMA Joined ==
    ASSUME NEW S, NEW t \in Seq(S), NEW u \in Seq(S)
    PROVE  /\ t \o u \in Seq(S) /\ Len(t \o u) = Len(t) + Len(u)
           /\ \A i \in 1..Len(t) : (t \o u)[i] = t[i]
           /\ \A i \in 1..Len(u) : (t \o u)[i + Len(t)] = u[i]
OBVIOUS

\* What comes behind the first e units does not matter to them.
LEMMA WholePrefix ==
    ASSUME NEW M, M \subseteq MessageType, NEW t \in Seq(UnitsOf(M)),
           NEW s, NEW e \in 0..Len(t), Whole(t, e),
           \A i \in 1..e : s[i] = t[i]
    PROVE  Whole(s, e)
<1> SUFFICES ASSUME NEW i \in 1..e PROVE WholeAt(s, e, i)
  BY DEF Whole
<1> DEFINE d == 0
<1>1. /\ t[i] \in UnitsOf(M) /\ WholeAt(t, e, i) /\ e \in Nat
      /\ d \in Int /\ e + d <= e /\ e + d = e /\ i + d = i
      /\ \A x \in i..e : s[x + d] = t[x]
  BY DEF Whole
<1> HIDE DEF d
<1>2. WholeAt(s, e, i + d)
  BY <1>1, WholeMoves
<1> QED BY <1>1, <1>2

LEMMA WholeAppended ==
    ASSUME NEW M, M \subseteq MessageType, NEW t \in Seq(UnitsOf(M)), NEW m \in M,
           Whole(t, Len(t))
    PROVE  Whole(t \o Units(m), Len(t \o Units(m)))
<1>1. m \in MessageType /\ m.size \in Nat
  BY DEF MessageType
<1> DEFINE u == Units(m)
           s == t \o u
<1>2. u \in Seq(UnitsOf(M)) /\ Len(u) = m.size + 2 /\ u[1] = Signature
  BY <1>1, UnitsSent, UnitsAre
<1>3. Whole(u, Len(u))
  BY <1>1, <1>2, UnitsWhole
<1> HIDE DEF u
<1>4. /\ Len(s) = Len(t) + Len(u) /\ Len(s) \in Nat /\ Len(t) \in Nat /\ Len(u) \in Nat
      /\ \A i \in 1..Len(t) : s[i] = t[i]
      /\ \A i \in 1..Len(u) : s[i + Len(t)] = u[i]
      /\ s[Len(t) + 1] = Signature
  BY <1>1, <1>2, Joined
<1> HIDE DEF s
<1>5. ASSUME NEW i \in 1..Len(t) PROVE WholeAt(s, Len(s), i)
  <2> DEFINE d == 0
             e == Len(t)
             f == Len(s)
  <2>1. /\ t[i] \in UnitsOf(M) /\ WholeAt(t, e, i) /\ e \in Nat /\ f \in Nat
        /\ i \in 1..e
        /\ d \in Int /\ e + d <= f /\ s[e + d + 1] = Signature /\ i + d = i
        /\ \A x \in i..e : s[x + d] = t[x]
    BY <1>1, <1>2, <1>4 DEF Whole
  <2> HIDE DEF d, e, f
  <2>2. WholeAt(s, f, i + d)
    BY <2>1, WholeMoves
  <2> QED BY <2>1, <2>2 DEF f
<1>6. ASSUME NEW i \in 1..Len(u) PROVE WholeAt(s, Len(s), i + Len(t))
  <2> DEFINE d == Len(t)
             e == Len(u)
             f == Len(s)
  <2>1. /\ u[i] \in UnitsOf(M) /\ WholeAt(u, e, i) /\ e \in Nat /\ f \in Nat
        /\ i \in 1..e
        /\ d \in Int /\ e + d <= f /\ e + d = f
        /\ \A x \in i..e : s[x + d] = u[x]
    <3>1. u[i] \in UnitsOf(M) /\ WholeAt(u, e, i)
      BY <1>2, <1>3 DEF Whole
    <3>2. /\ e \in Nat /\ f \in Nat /\ i \in 1..e
          /\ d \in Int /\ e + d <= f /\ e + d = f
      BY <1>4
    <3>3. \A x \in i..e : s[x + d] = u[x]
      BY <1>4
    <3> QED BY <3>1, <3>2, <3>3
  <2> HIDE DEF d, e, f
  <2>2. WholeAt(s, f, i + d)
    BY <2>1, WholeMoves
  <2> QED BY <2>2 DEF d, f
<1>7. \A i \in 1..Len(s) : \/ i \in 1..Len(t)
                           \/ i - Len(t) \in 1..Len(u) /\ (i - Len(t)) + Len(t) = i
  BY <1>4
<1>8. ASSUME NEW i \in 1..Len(s) PROVE WholeAt(s, Len(s), i)
  <2>1. CASE i \in 1..Len(t)
    BY <1>5, <2>1
  <2>2. CASE i \notin 1..Len(t)
    <3>1. WholeAt(s, Len(s), (i - Len(t)) + Len(t))
      BY <1>6, <1>7, <2>2
    <3> QED BY <1>7, <2>2, <3>1
  <2> QED BY <2>1, <2>2
<1> QED BY <1>8 DEF Whole, s, u

LEMMA ReceiverFacts ==
    ASSUME NEW M, M \subseteq MessageType, NEW r, Receives(r, M)
    PROVE  /\ Swallowed(r) \in Nat
           /\ r.state \in {"WaitingForHeader", "ReadingHeader", "ReadingPayload"}
           /\ r.state = "WaitingForHeader" => Swallowed(r) = 0
           /\ r.state = "ReadingHeader" => Swallowed(r) = 1
           /\ r.state = "ReadingPayload" =>
                 /\ r.header \in M /\ r.header.size \in Nat /\ Len(r.payload) \in Nat
                 /\ Len(r.payload) < r.header.size
                 /\ Swallowed(r) = r.header.size - Len(r.payload)
                 /\ Swallowed(r) >= 1
<1>1. /\ r.state \in {"WaitingForHeader", "ReadingHeader", "ReadingPayload"}
      /\ Len(r.payload) \in Nat
  BY DEF Receives
<1>2. ASSUME r.state = "ReadingPayload"
      PROVE  r.header \in M /\ r.header.size \in Nat /\ Len(r.payload) < r.header.size
  BY <1>2 DEF Receives, MessageType
<1> QED BY <1>1, <1>2 DEF Swallowed

LEMMA FilledFacts ==
    ASSUME NEW M, NEW r, Receives(r, M), NEW u
    PROVE  /\ Filled(r, u).state = r.state
           /\ Filled(r, u).header = r.header
           /\ Filled(r, u).payload = Append(r.payload, u)
           /\ r.payload \in Seq(UnitsOf(M))
BY DEF Receives, Filled

\* While the units are whole, what the receiver will take without looking is
\* there after it took one if it was there before.
LEMMA TakeSwallows ==
    ASSUME NEW M, M \subseteq MessageType, NEW r, Receives(r, M),
           NEW t \in Seq(UnitsOf(M)), NEW e \in 1..Len(t), Whole(t, e)
    PROVE  \/ Swallowed(Taken(r, t[1])) <= e - 1
           \/ Swallowed(Taken(r, t[1])) - (e - 1) <= Swallowed(r) - e
<1> DEFINE u == t[1]
           x == Taken(r, u)
<1>1. u \in UnitsOf(M) /\ WholeAt(t, e, 1) /\ e \in Nat /\ e >= 1
  BY DEF Whole
<1>2. Swallowed(PrepareReception) = 0 /\ Swallowed(ReadingHeader) = 1
  BY DEF Swallowed, PrepareReception, ReadingHeader
<1>3. CASE r.state = "WaitingForHeader"
  <2>1. x = IF u = Signature THEN ReadingHeader ELSE r
    BY <1>3 DEF Taken, WaitingForHeader
  <2>2. Swallowed(r) = 0
    BY <1>3, ReceiverFacts
  <2>3. u = Signature => 1 < e
    BY <1>1 DEF WholeAt
  <2> HIDE DEF x, u
  <2>4. Swallowed(x) <= e - 1
    BY <1>1, <1>2, <2>1, <2>2, <2>3
  <2> QED BY <2>4 DEF x, u
<1>4. CASE r.state = "ReadingHeader"
  <2>1. x = IF VerifyHeader(u) /\ u.msg.size > 0
              THEN ReadingPayload(u.msg) ELSE PrepareReception
    BY <1>4 DEF Taken
  <2>2. CASE VerifyHeader(u) /\ u.msg.size > 0
    <3>1. Rest(t, e, 1, u.msg, 0) /\ u.msg \in MessageType
      BY <1>1, <2>2, UnitKinds DEF WholeAt
    <3>2. u.msg.size <= e - 1
      BY <1>1, <3>1 DEF Rest, MessageType
    <3>3. Swallowed(ReadingPayload(u.msg)) = u.msg.size
      BY <3>1 DEF Swallowed, ReadingPayload, MessageType
    <3> QED BY <2>1, <2>2, <3>2, <3>3
  <2>3. CASE ~(VerifyHeader(u) /\ u.msg.size > 0)
    BY <1>1, <1>2, <2>1, <2>3
  <2> QED BY <2>2, <2>3
<1>5. CASE r.state = "ReadingPayload"
  <2>1. x = IF Complete(Filled(r, u)) THEN PrepareReception ELSE Filled(r, u)
    BY <1>5 DEF Taken
  <2>2. CASE Complete(Filled(r, u))
    BY <1>1, <1>2, <2>1, <2>2
  <2>3. CASE ~Complete(Filled(r, u))
    <3>1. /\ Filled(r, u).state = "ReadingPayload" /\ Filled(r, u).header = r.header
          /\ Len(Filled(r, u).payload) = Len(r.payload) + 1
      BY <1>1, <1>5, FilledFacts
    <3>2. Swallowed(Filled(r, u)) = r.header.size - (Len(r.payload) + 1)
      BY <3>1 DEF Swallowed
    <3>3. /\ Swallowed(r) = r.header.size - Len(r.payload)
          /\ r.header.size \in Nat /\ Len(r.payload) \in Nat
      BY <1>5, ReceiverFacts
    <3> QED BY <1>1, <2>1, <2>3, <3>2, <3>3
  <2> QED BY <2>2, <2>3
<1> QED BY <1>3, <1>4, <1>5, ReceiverFacts

LEMMA AlignedSwallows ==
    ASSUME NEW M, M \subseteq MessageType, NEW r, Receives(r, M),
           NEW t \in Seq(UnitsOf(M)), NEW e \in 0..Len(t), Whole(t, e),
           Aligned(r, t, e)
    PROVE  Swallowed(r) <= e
<1>1. CASE r.state # "ReadingPayload"
  BY <1>1, ReceiverFacts DEF Aligned
<1>2. CASE r.state = "ReadingPayload"
  <2> DEFINE j == Len(r.payload)
             m == r.header
  <2>1. e >= 1 /\ t[1] = Part(m, j + 1)
    BY <1>2 DEF Aligned
  <2>2. Rest(t, e, 1, m, j + 1)
    <3>1. WholeAt(t, e, 1)
      BY <2>1 DEF Whole
    <3> QED BY <2>1, <3>1, KindsDiffer DEF WholeAt
  <2>3. m.size \in Nat /\ j \in Nat /\ Swallowed(r) = m.size - j
    BY <1>2, ReceiverFacts
  <2> QED BY <2>2, <2>3 DEF Rest
<1> QED BY <1>1, <1>2

\* A receiver that takes units for what they are goes on doing so.
LEMMA TakeAligned ==
    ASSUME NEW M, M \subseteq MessageType, NEW r, Receives(r, M),
           NEW t \in Seq(UnitsOf(M)), NEW e \in 1..Len(t), Whole(t, e),
           Aligned(r, t, e)
    PROVE  Aligned(Taken(r, t[1]), Tail(t), e - 1)
<1> DEFINE u == t[1]
           x == Taken(r, u)
           v == Tail(t)
<1>1. /\ u \in UnitsOf(M) /\ WholeAt(t, e, 1) /\ e \in Nat /\ e >= 1
      /\ e > 1 => v[1] = t[2]
  BY DEF Whole
<1>2. /\ PrepareReception.state = "WaitingForHeader"
      /\ ReadingHeader.state = "ReadingHeader"
  BY DEF PrepareReception, ReadingHeader
<1>3. CASE r.state = "WaitingForHeader"
  <2>1. u = Signature
    BY <1>1, <1>3 DEF Aligned
  <2>2. x = ReadingHeader
    BY <1>3, <2>1 DEF Taken, WaitingForHeader
  <2>3. 1 < e /\ VerifyHeader(t[2])
    BY <1>1, <2>1 DEF WholeAt
  <2> QED BY <1>1, <1>2, <2>2, <2>3 DEF Aligned
<1>4. CASE r.state = "ReadingHeader"
  <2>1. VerifyHeader(u)
    BY <1>4 DEF Aligned
  <2>2. u.msg \in MessageType /\ u.msg.size \in Nat
    BY <1>1, <2>1, UnitKinds DEF MessageType
  <2>3. Rest(t, e, 1, u.msg, 0)
    BY <1>1, <2>1 DEF WholeAt
  <2>4. CASE u.msg.size > 0
    <3>1. x = ReadingPayload(u.msg)
      BY <1>4, <2>1, <2>4 DEF Taken
    <3>2. 1 \in 1..(u.msg.size - 0)
      BY <2>2, <2>4
    <3>3. t[1 + 1] = Part(u.msg, 0 + 1) /\ 1 + (u.msg.size - 0) <= e
      BY <2>3, <3>2 DEF Rest
    <3>4. e > 1 /\ v[1] = Part(u.msg, 1)
      BY <1>1, <2>2, <2>4, <3>3
    <3>5. /\ x.state = "ReadingPayload" /\ x.header = u.msg /\ x.payload = <<>>
          /\ Len(<<>>) = 0
      BY <3>1 DEF ReadingPayload
    <3> HIDE DEF x, v, u
    <3>6. \A i \in 1..Len(x.payload) : x.payload[i] = Part(x.header, i)
      BY <3>5
    <3>7. v[1] = Part(x.header, Len(x.payload) + 1) /\ e - 1 >= 1
      BY <1>1, <3>4, <3>5
    <3> QED BY <3>5, <3>6, <3>7 DEF Aligned, x, v, u
  <2>5. CASE ~(u.msg.size > 0)
    <3>1. x = PrepareReception
      BY <1>4, <2>5 DEF Taken
    <3>2. 1 = e \/ t[2] = Signature
      BY <1>1, <2>2, <2>3, <2>5 DEF Rest
    <3> QED BY <1>1, <1>2, <3>1, <3>2 DEF Aligned
  <2> QED BY <2>4, <2>5
<1>5. CASE r.state = "ReadingPayload"
  <2> DEFINE j == Len(r.payload)
             m == r.header
             f == Filled(r, u)
  <2>1. u = Part(m, j + 1) /\ \A i \in 1..j : r.payload[i] = Part(m, i)
    BY <1>5 DEF Aligned
  <2>2. m.size \in Nat /\ j \in Nat /\ j < m.size /\ r.payload \in Seq(UnitsOf(M))
    BY <1>5, ReceiverFacts, FilledFacts
  <2>3. Rest(t, e, 1, m, j + 1)
    BY <1>1, <2>1, KindsDiffer DEF WholeAt
  <2>4. /\ f.state = "ReadingPayload" /\ f.header = m
        /\ f.payload = Append(r.payload, u)
    BY <1>5, FilledFacts
  <2>5. /\ Len(f.payload) = j + 1
        /\ \A i \in 1..j : f.payload[i] = r.payload[i]
        /\ f.payload[j + 1] = u
    BY <1>1, <2>2, <2>4
  <2>6. x = IF Complete(f) THEN PrepareReception ELSE f
    BY <1>5 DEF Taken
  <2> HIDE DEF f, x, v, u
  <2>7. CASE Complete(f)
    <3>1. j + 1 = m.size
      BY <2>4, <2>5, <2>7 DEF Complete
    <3>2. 1 = e \/ t[2] = Signature
      BY <2>2, <2>3, <3>1 DEF Rest
    <3> QED BY <1>1, <1>2, <2>6, <2>7, <3>2 DEF Aligned, x, v, u
  <2>8. CASE ~Complete(f)
    <3>1. j + 1 < m.size
      BY <2>2, <2>4, <2>5, <2>8 DEF Complete
    <3>2. 1 \in 1..(m.size - (j + 1))
      BY <2>2, <3>1
    <3>3. t[1 + 1] = Part(m, j + 1 + 1) /\ 1 + (m.size - (j + 1)) <= e
      BY <2>3, <3>2 DEF Rest
    <3>4. e - 1 >= 1 /\ e > 1
      BY <1>1, <2>2, <3>1, <3>3
    <3>5. v[1] = Part(m, j + 1 + 1)
      BY <1>1, <3>3, <3>4
    <3>6. \A i \in 1..(j + 1) : f.payload[i] = Part(m, i)
      <4> SUFFICES ASSUME NEW i \in 1..(j + 1) PROVE f.payload[i] = Part(m, i)
        OBVIOUS
      <4>1. CASE i = j + 1
        BY <2>1, <2>5, <4>1
      <4>2. CASE i # j + 1
        <5>1. i \in 1..j
          BY <2>2, <4>2
        <5> QED BY <2>1, <2>5, <5>1
      <4> QED BY <4>1, <4>2
    <3> QED BY <2>4, <2>5, <2>6, <2>8, <3>4, <3>5, <3>6 DEF Aligned, x, v, u
  <2> QED BY <2>7, <2>8
<1> QED BY <1>3, <1>4, <1>5, ReceiverFacts

\* A message that will be received still will, unless it is received now.
LEMMA TakeComing ==
    ASSUME NEW M, M \subseteq MessageType, NEW r, Receives(r, M),
           NEW t \in Seq(UnitsOf(M)), NEW e \in 1..Len(t), Whole(t, e),
           NEW n, Coming(r, t, e, n)
    PROVE  Coming(Taken(r, t[1]), Tail(t), e - 1, n) \/ Completes(r, t[1], n)
<1> DEFINE u == t[1]
           x == Taken(r, u)
           v == Tail(t)
<1>1. /\ u \in UnitsOf(M) /\ WholeAt(t, e, 1) /\ e \in Nat /\ e >= 1 /\ Len(t) \in Nat
      /\ \A i \in 1..(e - 1) : v[i] = t[i + 1]
  BY DEF Whole
<1>2. /\ Swallowed(PrepareReception) = 0 /\ Swallowed(ReadingHeader) = 1
      /\ ReadingHeader.state = "ReadingHeader"
  BY DEF Swallowed, PrepareReception, ReadingHeader
<1>3. CASE Receiving(r, t, e, n)
  <2>1. Aligned(r, t, e) /\ Aligned(x, v, e - 1)
    BY <1>3, TakeAligned DEF Receiving
  <2>2. CASE r.state = "ReadingHeader"
    <3>1. VerifyHeader(u) /\ u.msg.of = n
      BY <1>3, <2>2 DEF Receiving, Aligned
    <3>2. u.msg.size \in Nat
      BY <1>1, <3>1, UnitKinds DEF MessageType
    <3>3. CASE u.msg.size = 0
      BY <2>2, <3>1, <3>3 DEF Completes
    <3>4. CASE u.msg.size > 0
      <4>1. x = ReadingPayload(u.msg)
        BY <2>2, <3>1, <3>4 DEF Taken
      <4>2. x.state = "ReadingPayload" /\ x.header = u.msg
        BY <4>1 DEF ReadingPayload
      <4> HIDE DEF x, v
      <4>3. Receiving(x, v, e - 1, n)
        BY <2>1, <3>1, <4>2 DEF Receiving
      <4> QED BY <4>3 DEF Coming, x, v
    <3> QED BY <3>2, <3>3, <3>4
  <2>3. CASE r.state = "ReadingPayload"
    <3> DEFINE f == Filled(r, u)
               m == r.header
               j == Len(r.payload)
    <3>1. m.of = n
      BY <1>3, <2>3 DEF Receiving
    <3>2. /\ f.state = "ReadingPayload" /\ f.header = m
          /\ f.payload = Append(r.payload, u) /\ r.payload \in Seq(UnitsOf(M))
          /\ m.size \in Nat /\ j \in Nat
      BY <2>3, FilledFacts, ReceiverFacts
    <3>3. u = Part(m, j + 1) /\ \A i \in 1..j : r.payload[i] = Part(m, i)
      BY <2>1, <2>3 DEF Aligned
    <3>4. x = IF Complete(f) THEN PrepareReception ELSE f
      BY <2>3 DEF Taken
    <3>5. CASE Complete(f)
      <4>1. f.payload \in Seq(UnitsOf(M)) /\ Len(f.payload) = j + 1
        BY <1>1, <3>2
      <4>2. \A i \in 1..(j + 1) : f.payload[i] = Part(m, i)
        <5> SUFFICES ASSUME NEW i \in 1..(j + 1) PROVE f.payload[i] = Part(m, i)
          OBVIOUS
        <5>1. CASE i = j + 1
          BY <1>1, <3>2, <3>3, <5>1
        <5>2. CASE i # j + 1
          <6>1. i \in 1..j
            BY <3>2, <5>2
          <6>2. f.payload[i] = r.payload[i]
            BY <1>1, <3>2, <6>1
          <6> QED BY <3>3, <6>1, <6>2
        <5> QED BY <5>1, <5>2
      <4>3. j + 1 = m.size
        BY <3>2, <3>5, <4>1 DEF Complete
      <4> HIDE DEF f, j, m
      <4>4. f.payload = [i \in 1..m.size |-> Part(m, i)]
        BY <4>1, <4>2, <4>3
      <4>5. VerifyPayload(f)
        BY <3>2, <4>4 DEF VerifyPayload, Parts
      <4> QED BY <2>3, <3>1, <3>5, <4>5 DEF Completes, f, m
    <3>6. CASE ~Complete(f)
      <4> HIDE DEF f, v
      <4>1. Receiving(f, v, e - 1, n)
        BY <2>1, <3>1, <3>2, <3>4, <3>6 DEF Receiving
      <4> QED BY <3>4, <3>6, <4>1 DEF Coming, v, f
    <3> QED BY <3>5, <3>6
  <2> QED BY <1>3, <2>2, <2>3 DEF Receiving
<1>4. ASSUME NEW p \in 1..(e - 1), p > Swallowed(r), Starts(t, p, n)
      PROVE  Coming(x, v, e - 1, n)
  <2>1. t[p] = Signature /\ VerifyHeader(t[p + 1]) /\ t[p + 1].msg.of = n
    BY <1>4 DEF Starts
  <2>2. ASSUME p - 1 >= 1, p - 1 > Swallowed(x) PROVE Coming(x, v, e - 1, n)
    <3>1. p - 1 \in 1..(e - 2) /\ p - 1 \in 1..(e - 1) /\ p \in 1..(e - 1)
          /\ p - 1 + 1 = p /\ e - 1 - 1 = e - 2
      BY <1>1, <2>2
    <3>2. v[p - 1] = t[p] /\ v[p] = t[p + 1]
      BY <1>1, <3>1
    <3>3. Starts(v, p - 1, n)
      BY <2>1, <3>1, <3>2 DEF Starts
    <3> HIDE DEF x, v
    <3> QED BY <2>2, <3>1, <3>3 DEF Coming
  <2>3. CASE r.state = "WaitingForHeader"
    <3>1. x = IF u = Signature THEN ReadingHeader ELSE r
      BY <2>3 DEF Taken, WaitingForHeader
    <3>2. CASE u = Signature /\ p = 1
      <4>1. x = ReadingHeader /\ e - 1 >= 1 /\ v[1] = t[2] /\ t[2] = t[p + 1]
        BY <1>1, <3>1, <3>2
      <4> HIDE DEF x, v
      <4>2. Aligned(x, v, e - 1)
        BY <1>2, <2>1, <4>1 DEF Aligned
      <4>3. Receiving(x, v, e - 1, n)
        BY <1>2, <2>1, <4>1, <4>2 DEF Receiving
      <4> QED BY <4>3 DEF Coming, x, v
    <3>3. CASE u = Signature /\ p # 1
      <4>1. VerifyHeader(t[2])
        BY <1>1, <3>3 DEF WholeAt
      <4>2. p # 2
        BY <2>1, <4>1, KindsDiffer
      <4>3. p - 1 >= 1 /\ p - 1 > Swallowed(x)
        BY <1>2, <3>1, <3>3, <4>2
      <4> QED BY <2>2, <4>3
    <3>4. CASE u # Signature
      <4>1. p # 1 /\ x = r /\ Swallowed(r) = 0
        BY <2>1, <2>3, <3>1, <3>4, ReceiverFacts
      <4> HIDE DEF x
      <4>2. p - 1 >= 1 /\ p - 1 > Swallowed(x)
        BY <4>1
      <4> QED BY <2>2, <4>2
    <3> QED BY <3>2, <3>3, <3>4
  <2>4. CASE r.state = "ReadingHeader"
    <3>1. x = IF VerifyHeader(u) /\ u.msg.size > 0
                THEN ReadingPayload(u.msg) ELSE PrepareReception
      BY <2>4 DEF Taken
    <3>2. p > 1
      BY <1>4, <2>4, ReceiverFacts
    <3>3. CASE VerifyHeader(u) /\ u.msg.size > 0
      <4> DEFINE m == u.msg
      <4>1. Rest(t, e, 1, m, 0) /\ m.size \in Nat
        BY <1>1, <3>3, UnitKinds DEF WholeAt, MessageType
      <4>2. Swallowed(x) = m.size
        BY <3>1, <3>3, <4>1 DEF Swallowed, ReadingPayload
      <4> HIDE DEF m
      <4>3. \A k \in 1..(m.size - 0) : t[1 + k] # Signature
        BY <4>1, KindsDiffer DEF Rest
      <4>4. ~(p - 1 <= m.size)
        <5> SUFFICES ASSUME p - 1 <= m.size PROVE FALSE
          OBVIOUS
        <5>1. p - 1 \in 1..(m.size - 0) /\ 1 + (p - 1) = p
          BY <3>2, <4>1
        <5>2. t[1 + (p - 1)] # Signature
          BY <4>3, <5>1
        <5> QED BY <2>1, <5>1, <5>2
      <4>5. p - 1 > m.size
        BY <4>1, <4>4
      <4> QED BY <2>2, <3>2, <4>2, <4>5
    <3>4. CASE ~(VerifyHeader(u) /\ u.msg.size > 0)
      <4>1. Swallowed(x) = 0
        BY <1>2, <3>1, <3>4
      <4> QED BY <2>2, <3>2, <4>1
    <3> QED BY <3>3, <3>4
  <2>5. CASE r.state = "ReadingPayload"
    <3>1. x = IF Complete(Filled(r, u)) THEN PrepareReception ELSE Filled(r, u)
      BY <2>5 DEF Taken
    <3>2. p > 1 /\ Swallowed(r) = r.header.size - Len(r.payload)
          /\ r.header.size \in Nat /\ Len(r.payload) \in Nat
      BY <1>4, <2>5, ReceiverFacts
    <3>3. CASE Complete(Filled(r, u))
      <4>1. Swallowed(x) = 0
        BY <1>2, <3>1, <3>3
      <4> QED BY <2>2, <3>2, <4>1
    <3>4. CASE ~Complete(Filled(r, u))
      <4>1. /\ Filled(r, u).state = "ReadingPayload" /\ Filled(r, u).header = r.header
            /\ Len(Filled(r, u).payload) = Len(r.payload) + 1
        BY <1>1, <2>5, FilledFacts
      <4>2. Swallowed(x) = r.header.size - (Len(r.payload) + 1)
        BY <3>1, <3>4, <4>1 DEF Swallowed
      <4> HIDE DEF x
      <4>3. p - 1 >= 1 /\ p - 1 > Swallowed(x)
        BY <1>4, <3>2, <4>2
      <4> QED BY <2>2, <4>3
    <3> QED BY <3>3, <3>4
  <2> QED BY <2>3, <2>4, <2>5, ReceiverFacts
<1> QED BY <1>3, <1>4 DEF Coming

\* What is appended does not change what will be received.
LEMMA ComingKept ==
    ASSUME NEW r, NEW t, NEW s, NEW e \in Nat, NEW f \in Nat, e <= f,
           \A i \in 1..e : s[i] = t[i], NEW n, Coming(r, t, e, n)
    PROVE  Coming(r, s, f, n)
<1>1. CASE Receiving(r, t, e, n)
  <2>1. r.state \in {"ReadingHeader", "ReadingPayload"} /\ e >= 1
    BY <1>1 DEF Receiving, Aligned
  <2>2. s[1] = t[1] /\ f >= 1
    BY <2>1
  <2>3. Receiving(r, s, f, n)
    BY <1>1, <2>1, <2>2 DEF Receiving, Aligned
  <2> QED BY <2>3 DEF Coming
<1>2. ASSUME NEW p \in 1..(e - 1), p > Swallowed(r), Starts(t, p, n)
      PROVE  Coming(r, s, f, n)
  <2>1. p \in 1..e /\ p + 1 \in 1..e /\ p \in 1..(f - 1)
    OBVIOUS
  <2>2. Starts(s, p, n)
    BY <1>2, <2>1 DEF Starts
  <2> QED BY <1>2, <2>1, <2>2 DEF Coming
<1> QED BY <1>1, <1>2 DEF Coming

LEMMA AlignedKept ==
    ASSUME NEW r, NEW t, NEW s, NEW e \in Nat, NEW f \in Nat, e <= f,
           \A i \in 1..e : s[i] = t[i], Aligned(r, t, e),
           e = 0 => f = 0 \/ s[1] = Signature
    PROVE  Aligned(r, s, f)
<1>1. CASE e = 0
  BY <1>1 DEF Aligned
<1>2. CASE e >= 1
  <2>1. s[1] = t[1] /\ f >= 1
    BY <1>2
  <2> QED BY <1>2, <2>1 DEF Aligned
<1> QED BY <1>1, <1>2

\* A message that is appended will be received, if the receiver has no more to
\* take than what is there.
LEMMA AppendedComes ==
    ASSUME NEW M, NEW t \in Seq(UnitsOf(M)), NEW m \in M, m.size \in Nat,
           NEW r, Swallowed(r) <= Len(t), Swallowed(r) \in Nat
    PROVE  Coming(r, t \o Units(m), Len(t \o Units(m)), m.of)
<1> DEFINE s == t \o Units(m)
           p == Len(t) + 1
<1>1. Units(m) \in Seq(UnitsOf(M)) /\ Len(Units(m)) = m.size + 2
  BY UnitsSent
<1>2. Units(m)[1] = Signature /\ Units(m)[2] = Header(m)
  BY UnitsAre
<1>3. /\ Len(s) = Len(t) + Len(Units(m)) /\ Len(t) \in Nat
      /\ \A i \in 1..Len(Units(m)) : s[i + Len(t)] = Units(m)[i]
  BY <1>1, Joined
<1>4. 1 \in 1..Len(Units(m)) /\ 2 \in 1..Len(Units(m))
      /\ 1 + Len(t) = p /\ 2 + Len(t) = p + 1
  BY <1>1, <1>3
<1>5. s[p] = Signature /\ s[p + 1] = Header(m)
  BY <1>2, <1>3, <1>4
<1>6. Starts(s, p, m.of)
  BY <1>5, KindsDiffer DEF Starts
<1>7. p \in 1..(Len(s) - 1) /\ p > Swallowed(r)
  BY <1>1, <1>3
<1> QED BY <1>6, <1>7 DEF Coming

-----------------------------------------------------------------------------
(* What a step does to the debt and to the reply that is coming *)

LEMMA DebtNat ==
    ASSUME NEW M, M \subseteq MessageType, NEW r, Receives(r, M),
           NEW t \in Seq(UnitsOf(M)), NEW n
    PROVE  /\ Missing(r, t) \in Nat /\ Debt(r, t, n) \in Nat
           /\ Missing(r, t) <= Debt(r, t, n) /\ Debt(r, t, n) <= Missing(r, t) + 1
<1>1. Swallowed(r) \in Nat /\ Len(t) \in Nat
  BY ReceiverFacts
<1>2. Missing(r, t) \in Nat
  BY <1>1 DEF Missing
<1> QED BY <1>2 DEF Debt

LEMMA DebtTaken ==
    ASSUME NEW M, M \subseteq MessageType, NEW r, Receives(r, M),
           NEW t \in Seq(UnitsOf(M)), t # <<>>, Whole(t, Len(t))
    PROVE  /\ Missing(Taken(r, t[1]), Tail(t)) <= Missing(r, t)
           /\ \A n : \/ Completes(r, t[1], n)
                     \/ Debt(Taken(r, t[1]), Tail(t), n) <= Debt(r, t, n)
<1> DEFINE x == Taken(r, t[1])
           v == Tail(t)
           e == Len(t)
<1>1. e \in Nat /\ e \in 1..Len(t) /\ Len(v) = e - 1
  OBVIOUS
<1>2. Swallowed(x) <= e - 1 \/ Swallowed(x) - (e - 1) <= Swallowed(r) - e
  BY <1>1, TakeSwallows
<1>3. Swallowed(r) \in Nat
  BY ReceiverFacts
<1>4. Swallowed(x) \in Int
  <2>1. Swallowed(PrepareReception) = 0 /\ Swallowed(ReadingHeader) = 1
    BY DEF Swallowed, PrepareReception, ReadingHeader
  <2>2. VerifyHeader(t[1]) => Swallowed(ReadingPayload(t[1].msg)) \in Int
    <3> SUFFICES ASSUME VerifyHeader(t[1])
                 PROVE  Swallowed(ReadingPayload(t[1].msg)) \in Int
      OBVIOUS
    <3>1. t[1].msg \in MessageType
      BY <1>1, UnitKinds
    <3> QED BY <3>1 DEF Swallowed, ReadingPayload, MessageType
  <2>3. r.state = "ReadingPayload" => Swallowed(Filled(r, t[1])) \in Int
    <3> SUFFICES ASSUME r.state = "ReadingPayload"
                 PROVE  Swallowed(Filled(r, t[1])) \in Int
      OBVIOUS
    <3>1. /\ Filled(r, t[1]).state = "ReadingPayload"
          /\ Filled(r, t[1]).header = r.header
          /\ Len(Filled(r, t[1]).payload) = Len(r.payload) + 1
      BY <1>1, FilledFacts
    <3>2. r.header.size \in Nat /\ Len(r.payload) \in Nat
      BY ReceiverFacts
    <3> QED BY <3>1, <3>2 DEF Swallowed
  <2> QED BY <2>1, <2>2, <2>3, <1>3, ReceiverFacts DEF Taken, WaitingForHeader
<1> HIDE DEF x, v, e
<1>5. Missing(x, v) <= Missing(r, t)
  BY <1>1, <1>2, <1>3, <1>4 DEF Missing, e
<1>6. Missing(x, v) \in Int /\ Missing(r, t) \in Int
  BY <1>1, <1>3, <1>4 DEF Missing, e
<1>7. ASSUME NEW n, ~Completes(r, t[1], n), Coming(r, t, Len(t), n)
      PROVE  Coming(x, v, Len(v), n)
  BY <1>1, <1>7, TakeComing DEF x, v, e
<1>8. ASSUME NEW n, ~Completes(r, t[1], n) PROVE Debt(x, v, n) <= Debt(r, t, n)
  <2>1. CASE Coming(r, t, Len(t), n)
    BY <1>5, <1>6, <1>7, <1>8, <2>1 DEF Debt
  <2>2. CASE ~Coming(r, t, Len(t), n)
    BY <1>5, <1>6, <2>2 DEF Debt
  <2> QED BY <2>1, <2>2
<1> QED BY <1>5, <1>8 DEF x, v

LEMMA DebtAppended ==
    ASSUME NEW M, M \subseteq MessageType, NEW r, Receives(r, M),
           NEW t \in Seq(UnitsOf(M)), NEW m \in M
    PROVE  /\ Missing(r, t \o Units(m)) <= Missing(r, t)
           /\ \A n : Debt(r, t \o Units(m), n) <= Debt(r, t, n)
<1> DEFINE s == t \o Units(m)
<1>1. m.size \in Nat
  BY DEF MessageType
<1>2. Units(m) \in Seq(UnitsOf(M)) /\ Len(Units(m)) = m.size + 2
  BY <1>1, UnitsSent
<1>3. /\ Len(s) \in Nat /\ Len(t) \in Nat /\ Len(t) <= Len(s)
      /\ \A i \in 1..Len(t) : s[i] = t[i]
  BY <1>1, <1>2, Joined
<1> HIDE DEF s
<1>4. Swallowed(r) \in Nat
  BY ReceiverFacts
<1>5. Missing(r, s) <= Missing(r, t) /\ Missing(r, s) \in Nat /\ Missing(r, t) \in Nat
  BY <1>3, <1>4 DEF Missing
<1>6. ASSUME NEW n PROVE Debt(r, s, n) <= Debt(r, t, n)
  <2>1. Coming(r, t, Len(t), n) => Coming(r, s, Len(s), n)
    BY <1>3, ComingKept
  <2> QED BY <1>5, <2>1 DEF Debt
<1> QED BY <1>5, <1>6 DEF s

\* A receiver that starts over owes at most the message it waits for.
LEMMA DebtStartsOver ==
    ASSUME NEW S, NEW t \in Seq(S), NEW n
    PROVE  Missing(PrepareReception, t) = 0 /\ Debt(PrepareReception, t, n) <= 1
<1>1. Swallowed(PrepareReception) = 0 /\ Len(t) \in Nat
  BY DEF Swallowed, PrepareReception
<1>2. Missing(PrepareReception, t) = 0
  BY <1>1 DEF Missing
<1> QED BY <1>2 DEF Debt

\* A unit that is lost or garbled.
LEMMA DebtOfFault ==
    ASSUME NEW M, M \subseteq MessageType, NEW r, Receives(r, M),
           NEW t \in Seq(UnitsOf(M)), t # <<>>, NEW n,
           NEW s \in {Tail(t), <<Noise>> \o Tail(t)}
    PROVE  Debt(r, s, n) <= Missing(r, t) + 2
<1>1. Swallowed(r) \in Nat /\ Len(t) \in Nat /\ (Len(s) = Len(t) - 1 \/ Len(s) = Len(t))
  <2>1. Swallowed(r) \in Nat /\ Len(t) \in Nat
    BY ReceiverFacts
  <2>2. CASE s = Tail(t)
    <3>1. Len(s) = Len(t) - 1
      BY <2>2
    <3> QED BY <2>1, <3>1
  <2>3. CASE s = <<Noise>> \o Tail(t)
    <3>1. Noise \in UnitsOf(M) /\ Tail(t) \in Seq(UnitsOf(M)) /\ Len(Tail(t)) = Len(t) - 1
      BY DEF UnitsOf
    <3>2. Len(s) = (Len(t) - 1) + 1
      BY <2>3, <3>1, FrontLemma
    <3> QED BY <2>1, <3>2
  <2> QED BY <2>2, <2>3
<1>2. Missing(r, s) <= Missing(r, t) + 1 /\ Missing(r, s) \in Nat /\ Missing(r, t) \in Nat
  BY <1>1 DEF Missing
<1> QED BY <1>2 DEF Debt

\* A request sent again while nothing is under way.
LEMMA DebtOfRetry ==
    ASSUME NEW M, M \subseteq MessageType, NEW r, Receives(r, M), NEW m \in M
    PROVE  Debt(r, <<>> \o Units(m), m.of) <= Debt(r, <<>>, m.of) - 1
<1> DEFINE t == <<>>
           s == t \o Units(m)
           n == m.of
<1>1. m.size \in Nat /\ t \in Seq(UnitsOf(M)) /\ Len(t) = 0
  BY DEF MessageType
<1>2. Units(m) \in Seq(UnitsOf(M)) /\ Len(Units(m)) = m.size + 2
  BY <1>1, UnitsSent
<1> HIDE DEF t
<1>3. Len(s) = m.size + 2
  BY <1>1, <1>2, Joined
<1>4. Swallowed(r) \in Nat
  BY ReceiverFacts
<1>5. ~Coming(r, t, Len(t), n)
  BY <1>1 DEF Coming, Receiving, Aligned
<1>6. Debt(r, t, n) = Swallowed(r) + 1
  BY <1>1, <1>4, <1>5 DEF Debt, Missing
<1>7. ASSUME Swallowed(r) = 0 PROVE Coming(r, s, Len(s), n)
  <2>1. Swallowed(r) <= Len(t)
    BY <1>1, <1>7
  <2> QED BY <1>1, <1>4, <2>1, AppendedComes
<1> HIDE DEF s, n
<1>8. Missing(r, s) = IF Swallowed(r) > m.size + 2 THEN Swallowed(r) - (m.size + 2) ELSE 0
  BY <1>3 DEF Missing
<1>9. Debt(r, s, n) <= Debt(r, t, n) - 1
  BY <1>1, <1>4, <1>6, <1>7, <1>8 DEF Debt
<1> QED BY <1>9 DEF t, s, n

LEMMA ReplyTaken ==
    ASSUME NEW M, M \subseteq MessageType, NEW r, Receives(r, M),
           NEW t \in Seq(UnitsOf(M)), NEW n, ReplyComing(r, t, n)
    PROVE  /\ t # <<>>
           /\ \/ Completes(r, t[1], n)
              \/ ReplyComing(Taken(r, t[1]), Tail(t), n)
<1>1. PICK e \in 0..Len(t) : Whole(t, e) /\ Aligned(r, t, e) /\ Coming(r, t, e, n)
  BY DEF ReplyComing
<1>2. e # 0
  BY <1>1 DEF Coming, Receiving, Aligned
<1>3. e \in 1..Len(t) /\ t # <<>> /\ e - 1 \in 0..Len(Tail(t))
  BY <1>2
<1>4. /\ Whole(Tail(t), e - 1)
      /\ Aligned(Taken(r, t[1]), Tail(t), e - 1)
      /\ \/ Completes(r, t[1], n)
         \/ Coming(Taken(r, t[1]), Tail(t), e - 1, n)
  BY <1>1, <1>3, WholeTail, TakeAligned, TakeComing
<1> QED BY <1>3, <1>4 DEF ReplyComing

LEMMA ReplyKept ==
    ASSUME NEW M, M \subseteq MessageType, NEW r, NEW t \in Seq(UnitsOf(M)),
           NEW u \in Seq(UnitsOf(M)), NEW n, ReplyComing(r, t, n)
    PROVE  ReplyComing(r, t \o u, n)
<1> DEFINE s == t \o u
<1>1. PICK e \in 0..Len(t) : Whole(t, e) /\ Aligned(r, t, e) /\ Coming(r, t, e, n)
  BY DEF ReplyComing
<1>2. e # 0
  BY <1>1 DEF Coming, Receiving, Aligned
<1>3. /\ Len(s) = Len(t) + Len(u) /\ Len(t) \in Nat /\ Len(u) \in Nat
      /\ \A i \in 1..Len(t) : s[i] = t[i]
  BY Joined
<1> HIDE DEF s
<1>4. e \in Nat /\ e \in 0..Len(s) /\ e <= e /\ \A i \in 1..e : s[i] = t[i]
  BY <1>3
<1>5. Whole(s, e)
  BY <1>1, <1>4, WholePrefix
<1>6. Aligned(r, s, e)
  BY <1>1, <1>2, <1>4, AlignedKept
<1>7. Coming(r, s, e, n)
  BY <1>1, <1>4, ComingKept
<1> QED BY <1>4, <1>5, <1>6, <1>7 DEF ReplyComing, s

\* A line without faults stays one when a message is sent on it.
LEMMA CleanAppended ==
    ASSUME NEW M, M \subseteq MessageType, NEW r, Receives(r, M),
           NEW t \in Seq(UnitsOf(M)), NEW m \in M,
           Whole(t, Len(t)), Aligned(r, t, Len(t))
    PROVE  LET s == t \o Units(m)
           IN  /\ Whole(s, Len(s))
               /\ Aligned(r, s, Len(s))
               /\ ReplyComing(r, s, m.of)
<1> DEFINE s == t \o Units(m)
<1>1. m.size \in Nat
  BY DEF MessageType
<1>2. Units(m) \in Seq(UnitsOf(M)) /\ Len(Units(m)) = m.size + 2 /\ Units(m)[1] = Signature
  BY <1>1, UnitsSent, UnitsAre
<1>3. /\ Len(s) = Len(t) + Len(Units(m)) /\ Len(t) \in Nat /\ Len(s) \in Nat
      /\ \A i \in 1..Len(t) : s[i] = t[i]
      /\ s[1 + Len(t)] = Signature
  <2>1. 1 \in 1..Len(Units(m))
    BY <1>1, <1>2
  <2> QED BY <1>1, <1>2, <2>1, Joined
<1>4. Whole(s, Len(s))
  BY WholeAppended
<1>5. Swallowed(r) \in Nat /\ Swallowed(r) <= Len(t)
  BY <1>3, ReceiverFacts, AlignedSwallows
<1>6. Coming(r, s, Len(s), m.of)
  BY <1>1, <1>5, AppendedComes
<1> HIDE DEF s
<1>7. Aligned(r, s, Len(s))
  <2>1. Len(t) = 0 => s[1] = Signature
    BY <1>3
  <2>2. Len(t) <= Len(s)
    BY <1>1, <1>2, <1>3
  <2> QED BY <1>3, <2>1, <2>2, AlignedKept
<1>8. Len(s) \in 0..Len(s)
  BY <1>3
<1> QED BY <1>4, <1>6, <1>7, <1>8 DEF ReplyComing, s

LEMMA CleanTaken ==
    ASSUME NEW M, M \subseteq MessageType, NEW r, Receives(r, M),
           NEW t \in Seq(UnitsOf(M)), t # <<>>,
           Whole(t, Len(t)), Aligned(r, t, Len(t))
    PROVE  /\ Whole(Tail(t), Len(Tail(t)))
           /\ Aligned(Taken(r, t[1]), Tail(t), Len(Tail(t)))
<1>1. Len(t) \in 1..Len(t) /\ Len(Tail(t)) = Len(t) - 1
  OBVIOUS
<1> QED BY <1>1, WholeTail, TakeAligned

-----------------------------------------------------------------------------
(* The steps, seen from the lines *)

\* What is on the lines and in the receivers, of the messages known after a step.
LEMMA LineFacts ==
    ASSUME IInv, [Next]_vars
    PROVE  LET D == DeviceMessages(asked')
               H == HostMessages(asked', executed')
           IN  /\ D \subseteq MessageType /\ H \subseteq MessageType
               /\ toDevice \in Seq(UnitsOf(D)) /\ toHost \in Seq(UnitsOf(H))
               /\ Receives(device, D) /\ Receives(host, H)
               /\ BadPacket \in H /\ PingReply(BadPacket) \in D
               /\ \A n \in 1..Len(asked) : n \in 1..Len(asked') /\ asked'[n] = asked[n]
<1> USE DEF HostVars, DeviceVars
<1>0. /\ UNCHANGED asked \/ \E c \in Cmd : asked' = Append(asked, c)
      /\ UNCHANGED executed \/ New
  <2>1. CASE DeviceStep
    BY <2>1 DEF DeviceStep, DeviceSync, DeviceHeader, DeviceBadHeader, DevicePart,
                DeviceBadPayload, ProcessReply, Retransmit, ProcessRequest
  <2>2. CASE HostStep
    BY <2>2 DEF HostStep, HostSync, HostHeader, HostBadHeader, HostPart,
                HostBadPayload, HostMessage, ProcessMessage
  <2>3. CASE Time \/ PurgeCache
    BY <2>3 DEF Time, Retry, Cancel, Pass, PurgeCache
  <2>4. CASE Faulty
    BY <2>4 DEF Faulty, DeviceNoBuffer, DevicePayloadTimeout, LoseToDevice,
                LoseToHost, ProcessRequestNoMemory, ProcessRequestNoPort
  <2>5. CASE \E c \in Cmd : AsyncRequest(c)
    BY <2>5 DEF AsyncRequest
  <2>6. CASE UNCHANGED vars
    BY <2>6 DEF vars
  <2> QED BY <2>1, <2>2, <2>3, <2>4, <2>5, <2>6 DEF Next
<1>1. /\ asked \in Seq(Cmd) /\ Len(asked) <= MaxRequests
      /\ executed \in [Ids -> Nat]
      /\ asked' \in Seq(Cmd) /\ Len(asked') <= MaxRequests
      /\ executed' \in [Ids -> Nat]
  BY TypedStep DEF IInv, Typed
<1>2. /\ toDevice \in Seq(UnitsOf(DeviceMessages(asked)))
      /\ toHost \in Seq(UnitsOf(HostMessages(asked, executed)))
      /\ Receives(device, DeviceMessages(asked))
      /\ Receives(host, HostMessages(asked, executed))
  BY DEF IInv, LineSound
<1>3. Len(asked) <= Len(asked') /\ \A n \in 1..Len(asked) : asked'[n] = asked[n]
  <2>1. CASE UNCHANGED asked
    BY <1>1, <2>1
  <2>2. CASE \E c \in Cmd : asked' = Append(asked, c)
    BY <1>1, <2>2
  <2> QED BY <1>0, <2>1, <2>2
<1>4. \A i \in Ids : executed[i] <= executed'[i]
  <2>1. CASE UNCHANGED executed
    BY <1>1, <2>1
  <2>2. CASE New
    <3>1. executed' = [executed EXCEPT ![Arriving.of] = @ + 1]
      BY <2>2 DEF New
    <3> QED BY <1>1, <3>1
  <2> QED BY <1>0, <2>1, <2>2
<1> DEFINE D == DeviceMessages(asked')
           H == HostMessages(asked', executed')
<1>5. DeviceMessages(asked) \subseteq D /\ HostMessages(asked, executed) \subseteq H
  BY <1>1, <1>3, <1>4, MessagesStay, Zenon
<1>6. D \subseteq MessageType /\ H \subseteq MessageType /\ BadPacket \in H
  BY <1>1, MessagesHaveType
<1>7. PingReply(BadPacket) \in D
  BY DEF DeviceMessages
<1>8. \A n \in 1..Len(asked) : n \in 1..Len(asked')
  BY <1>1, <1>3
<1> HIDE DEF D, H
<1>9. /\ toDevice \in Seq(UnitsOf(D)) /\ Receives(device, D)
      /\ toHost \in Seq(UnitsOf(H)) /\ Receives(host, H)
  BY <1>2, <1>5, MoreMessages
<1> QED BY <1>3, <1>6, <1>7, <1>8, <1>9 DEF D, H

LEMMA DeviceTakes ==
    ASSUME DeviceStep \/ New
    PROVE  /\ toDevice # <<>> /\ toDevice' = Tail(toDevice)
           /\ device' = Taken(device, toDevice[1])
<1>1. Head(toDevice) = toDevice[1]
  OBVIOUS
<1>2. ASSUME NEW m, Received(m)
      PROVE  /\ toDevice # <<>> /\ toDevice' = Tail(toDevice)
             /\ device' = Taken(device, toDevice[1])
  <2>1. CASE device.state = "ReadingHeader"
    BY <1>1, <1>2, <2>1 DEF Received, Incoming, Taken
  <2>2. CASE device.state = "ReadingPayload"
    BY <1>1, <1>2, <2>2 DEF Received, Incoming, Taken
  <2> QED BY <1>2, <2>1, <2>2 DEF Received
<1>3. CASE ProcessReply \/ Retransmit \/ ProcessRequest \/ New
  BY <1>2, <1>3 DEF ProcessReply, Retransmit, ProcessRequest, New
<1>4. CASE DeviceSync \/ DeviceHeader \/ DeviceBadHeader
  BY <1>1, <1>4 DEF DeviceSync, DeviceHeader, DeviceBadHeader, Incoming, Taken
<1>5. CASE DevicePart \/ DeviceBadPayload
  BY <1>1, <1>5 DEF DevicePart, DeviceBadPayload, Incoming, Taken
<1> QED BY <1>3, <1>4, <1>5 DEF DeviceStep

LEMMA HostTakes ==
    ASSUME HostStep
    PROVE  /\ toHost # <<>> /\ host' = Taken(host, toHost[1])
           /\ \/ toHost' = Tail(toHost)
              \/ /\ host.state = "ReadingHeader" /\ ~VerifyHeader(toHost[1])
                 /\ toHost' = <<>>
<1>1. Head(toHost) = toHost[1]
  OBVIOUS
<1>2. CASE HostMessage
  <2>1. CASE host.state = "ReadingHeader"
    BY <1>1, <1>2, <2>1 DEF HostMessage, ProcessMessage, Arrived, Taken
  <2>2. CASE host.state = "ReadingPayload"
    BY <1>1, <1>2, <2>2 DEF HostMessage, ProcessMessage, Arrived, Taken
  <2> QED BY <1>2, <2>1, <2>2 DEF HostMessage
<1>3. CASE HostSync \/ HostHeader \/ HostBadHeader
  BY <1>1, <1>3 DEF HostSync, HostHeader, HostBadHeader, Arrived, Taken
<1>4. CASE HostPart \/ HostBadPayload
  BY <1>1, <1>4 DEF HostPart, HostBadPayload, Arrived, Taken
<1> QED BY <1>2, <1>3, <1>4 DEF HostStep

\* What completes a request or a reply is received as one.
LEMMA DeviceCompletes ==
    ASSUME IInv, DeviceStep, NEW n, n # 0, Completes(device, toDevice[1], n)
    PROVE  Arriving.of = n /\ (Retransmit \/ ProcessRequest)
<1>1. Head(toDevice) = toDevice[1]
  OBVIOUS
<1>2. Arriving.of = n
  BY <1>1 DEF Completes, Arriving
<1>3. ~DeviceSync
  BY DEF DeviceSync, Completes
<1>4. ~DeviceHeader /\ ~DeviceBadHeader
  <2>1. CASE device.state = "ReadingHeader"
    BY <1>1, <2>1 DEF DeviceHeader, DeviceBadHeader, Completes
  <2>2. CASE device.state # "ReadingHeader"
    BY <2>2 DEF DeviceHeader, DeviceBadHeader
  <2> QED BY <2>1, <2>2
<1>5. ~DevicePart /\ ~DeviceBadPayload
  <2>1. CASE device.state = "ReadingPayload"
    BY <1>1, <2>1 DEF DevicePart, DeviceBadPayload, Completes
  <2>2. CASE device.state # "ReadingPayload"
    BY <2>2 DEF DevicePart, DeviceBadPayload
  <2> QED BY <2>1, <2>2
<1>6. ~ProcessReply
  <2> SUFFICES ASSUME ProcessReply PROVE FALSE
    OBVIOUS
  <2>1. Arriving \in DeviceMessages(asked) /\ ~IsRequest(Arriving)
    BY ArrivingLemma DEF ProcessReply
  <2>2. \A m \in Requests(asked) : IsRequest(m)
    BY DEF Requests, IsRequest, PrepareRequest, Message
  <2>3. Arriving = PingReply(BadPacket)
    BY <2>1, <2>2 DEF DeviceMessages
  <2>4. Arriving.of = 0
    BY <2>3 DEF PingReply, Message
  <2> QED BY <1>2, <2>4
<1> QED BY <1>2, <1>3, <1>4, <1>5, <1>6 DEF DeviceStep

\* The reply that is received is the answer to the request the host waits for.
LEMMA HostCompletes ==
    ASSUME IInv, HostStep, Waiting, Completes(host, toHost[1], request.msg.of)
    PROVE  ~Waiting'
<1> DEFINE n == request.msg.of
<1>1. Head(toHost) = toHost[1]
  OBVIOUS
<1>2. PICK i \in 1..Len(asked) : request.msg = PrepareRequest(asked[i], i)
  BY DEF IInv, Typed, Requests
<1>3. n = i /\ request.msg.seq = i /\ request.msg.cmd = asked[i]
  BY <1>2 DEF PrepareRequest, Message
<1>4. ~HostSync
  BY DEF HostSync, Completes
<1>5. ~HostHeader /\ ~HostBadHeader
  <2>1. CASE host.state = "ReadingHeader"
    BY <1>1, <2>1 DEF HostHeader, HostBadHeader, Completes
  <2>2. CASE host.state # "ReadingHeader"
    BY <2>2 DEF HostHeader, HostBadHeader
  <2> QED BY <2>1, <2>2
<1>6. ~HostPart /\ ~HostBadPayload
  <2>1. CASE host.state = "ReadingPayload"
    BY <1>1, <2>1 DEF HostPart, HostBadPayload, Completes
  <2>2. CASE host.state # "ReadingPayload"
    BY <2>2 DEF HostPart, HostBadPayload
  <2> QED BY <2>1, <2>2
<1>7. HostMessage
  BY <1>4, <1>5, <1>6 DEF HostStep
<1>8. /\ Receives(host, HostMessages(asked, executed))
      /\ toHost \in Seq(UnitsOf(HostMessages(asked, executed)))
  BY DEF IInv, LineSound
<1>9. \E m \in HostMessages(asked, executed) : ProcessMessage(m) /\ m.of = n
  <2>1. CASE host.state = "ReadingPayload"
    <3>1. host.header \in HostMessages(asked, executed)
      BY <1>8, <2>1 DEF Receives
    <3>2. ProcessMessage(host.header)
      BY <1>7, <2>1 DEF HostMessage
    <3>3. host.header.of = n
      BY <2>1 DEF Completes
    <3> QED BY <3>1, <3>2, <3>3
  <2>2. CASE host.state # "ReadingPayload"
    <3>1. /\ VerifyHeader(Head(toHost)) /\ toHost # <<>>
          /\ ProcessMessage(Head(toHost).msg)
      BY <1>7, <2>2 DEF HostMessage, Arrived
    <3>2. Head(toHost) \in UnitsOf(HostMessages(asked, executed))
      BY <1>8, <3>1
    <3>3. Head(toHost).msg.of = n
      BY <1>1, <2>2 DEF Completes
    <3>4. Head(toHost).msg \in HostMessages(asked, executed)
      BY <3>1, <3>2, HeaderOfMessage
    <3> QED BY <3>1, <3>3, <3>4
  <2> QED BY <2>1, <2>2
<1>10. PICK m \in HostMessages(asked, executed) : ProcessMessage(m) /\ m.of = n
  BY <1>9
<1>11. BadPacket.of = 0 /\ n # 0
  BY <1>3 DEF BadPacket, Message
<1>12. IsReply(m, asked, executed)
  BY <1>10, <1>11 DEF HostMessages, Replies
<1>13. "Reply" \in m.flags /\ MatchesReply(m)
  BY <1>3, <1>10, <1>12 DEF IsReply, MatchesReply
<1>14. request' = [request EXCEPT !.state = "answered"]
  BY <1>10, <1>13 DEF ProcessMessage
<1>15. request'.state = "answered"
  BY <1>14 DEF IInv, Typed
<1> QED BY <1>15 DEF Waiting

\* What the device sends.
LEMMA DeviceSends ==
    ASSUME IInv, DeviceStep
    PROVE  /\ \/ toHost' = toHost
              \/ \E m \in HostMessages(asked', executed') : toHost' = toHost \o Units(m)
           /\ UNCHANGED <<host, request, asked, late, faults>>
<1> USE DEF HostVars
<1>1. [Next]_vars /\ asked \in Seq(Cmd)
  BY DEF Next, IInv, Typed
<1>2. BadPacket \in HostMessages(asked', executed')
  BY DEF HostMessages
<1>3. CASE DeviceSync \/ DeviceHeader \/ DevicePart \/ ProcessReply
  BY <1>3 DEF DeviceSync, DeviceHeader, DevicePart, ProcessReply
<1>4. CASE DeviceBadHeader \/ DeviceBadPayload
  BY <1>2, <1>4 DEF DeviceBadHeader, DeviceBadPayload
<1>5. CASE Retransmit
  <2>1. PICK n \in 1..Len(asked) : Arriving = PrepareRequest(asked[n], n)
    BY <1>5, ArrivingRequest DEF Retransmit
  <2>2. FirstHit(Arriving) \in 1..Len(cache)
    BY <1>1, <1>5, <2>1, HitsLemma DEF Retransmit, IInv, CacheSound
  <2>3. cache[FirstHit(Arriving)] \in Entries(asked, executed)
    BY <2>2 DEF IInv, CacheSound
  <2>4. cache[FirstHit(Arriving)].msg \in HostMessages(asked, executed)
    BY <2>3 DEF Entries, HostMessages
  <2> QED BY <1>5, <2>4 DEF Retransmit
<1>6. CASE ProcessRequest
  <2>1. PICK r \in Replies(asked', executed') : Execute(Arriving).units = Units(r)
    BY <1>6, NewLemma DEF ProcessRequest
  <2>2. r \in HostMessages(asked', executed')
    BY DEF HostMessages
  <2> QED BY <1>6, <2>1, <2>2 DEF ProcessRequest
<1> QED BY <1>3, <1>4, <1>5, <1>6 DEF DeviceStep

\* What the host sends when it received something.
LEMMA HostSends ==
    ASSUME IInv, HostStep
    PROVE  /\ \/ toDevice' = toDevice
              \/ \E m \in DeviceMessages(asked') : toDevice' = toDevice \o Units(m)
           /\ UNCHANGED <<device, cache, asked, executed, expired, late, faults>>
           /\ request' = request \/ ~Waiting'
<1> USE DEF DeviceVars
<1>1. CASE HostSync \/ HostHeader \/ HostBadHeader \/ HostPart \/ HostBadPayload
  BY <1>1 DEF HostSync, HostHeader, HostBadHeader, HostPart, HostBadPayload
<1>2. CASE HostMessage
  <2>1. PICK m \in HostMessages(asked, executed) : ProcessMessage(m)
    BY <1>2, HostArriving
  <2>2. UNCHANGED <<device, cache, asked, executed, expired, late, faults>>
    BY <2>1 DEF ProcessMessage
  <2>3. request' = request \/ ~Waiting'
    <3>1. CASE request' = [request EXCEPT !.state = "answered"]
      <4>1. request'.state = "answered"
        BY <3>1 DEF IInv, Typed
      <4> QED BY <4>1 DEF Waiting
    <3> QED BY <2>1, <3>1 DEF ProcessMessage
  <2>4. CASE "Reply" \in m.flags
    BY <2>1, <2>2, <2>3, <2>4 DEF ProcessMessage
  <2>5. CASE "Reply" \notin m.flags
    <3>1. m = BadPacket
      BY <2>5 DEF HostMessages, Replies, IsReply
    <3>2. PingReply(m) \in DeviceMessages(asked')
      BY <3>1 DEF DeviceMessages
    <3>3. toDevice' = toDevice \o Units(PingReply(m))
      BY <2>1, <2>5 DEF ProcessMessage
    <3> QED BY <2>2, <2>3, <3>2, <3>3
  <2> QED BY <2>4, <2>5
<1> QED BY <1>1, <1>2 DEF HostStep

\* What a time-out changes.
LEMMA TimeSends ==
    ASSUME IInv, Time
    PROVE  /\ UNCHANGED <<toHost, device, host, asked, executed, expired>>
           /\ \/ toDevice' = toDevice
              \/ /\ Retry
                 /\ request.msg \in DeviceMessages(asked')
                 /\ toDevice' = toDevice \o Units(request.msg)
           /\ Fault \/ UNCHANGED faults
<1>1. Waiting => request.msg \in DeviceMessages(asked)
  BY DEF IInv, Typed, DeviceMessages
<1>2. CASE Retry
  BY <1>1, <1>2 DEF Retry
<1>3. CASE Cancel \/ Pass
  BY <1>3 DEF Cancel, Pass
<1> QED BY <1>2, <1>3 DEF Time

LEMMA WholeStep ==
    ASSUME IInv, Whole(toDevice, Len(toDevice)), [Next]_vars
    PROVE  Whole(toDevice', Len(toDevice'))
<1> DEFINE D == DeviceMessages(asked')
<1>1. D \subseteq MessageType /\ toDevice \in Seq(UnitsOf(D))
  BY LineFacts
<1>2. \/ toDevice' = toDevice
      \/ toDevice # <<>> /\ toDevice' = Tail(toDevice)
      \/ toDevice # <<>> /\ toDevice' = <<Noise>> \o Tail(toDevice)
      \/ \E m \in D : toDevice' = toDevice \o Units(m)
  <2> HIDE DEF D
  <2>1. CASE DeviceStep \/ ProcessRequestNoMemory \/ ProcessRequestNoPort
    BY <2>1, DeviceTakes DEF ProcessRequestNoMemory, ProcessRequestNoPort
  <2>2. CASE HostStep
    BY <2>2, HostSends DEF D
  <2>3. CASE Time
    BY <2>3, TimeSends DEF D
  <2>4. CASE PurgeCache
    BY <2>4 DEF PurgeCache
  <2>5. CASE DeviceNoBuffer \/ DevicePayloadTimeout \/ LoseToDevice \/ LoseToHost
    BY <2>5 DEF DeviceNoBuffer, Incoming, DevicePayloadTimeout, LoseToDevice, LoseToHost
  <2>6. ASSUME NEW c \in Cmd, AsyncRequest(c)
        PROVE  \E m \in D : toDevice' = toDevice \o Units(m)
    <3> DEFINE i == Len(asked) + 1
    <3>1. /\ asked' = Append(asked, c)
          /\ toDevice' = toDevice \o Units(PrepareRequest(c, i))
      BY <2>6 DEF AsyncRequest
    <3>2. asked'[i] = c /\ i \in 1..Len(asked')
      BY <3>1 DEF IInv, Typed
    <3>3. PrepareRequest(c, i) \in D
      BY <3>2 DEF D, DeviceMessages, Requests
    <3> QED BY <3>1, <3>3
  <2>7. CASE UNCHANGED vars
    BY <2>7 DEF vars
  <2> QED BY <2>1, <2>2, <2>3, <2>4, <2>5, <2>6, <2>7 DEF Next, Faulty
<1> HIDE DEF D
<1>3. CASE toDevice # <<>> /\ toDevice' = Tail(toDevice)
  <2>1. Len(toDevice) \in 1..Len(toDevice) /\ Len(Tail(toDevice)) = Len(toDevice) - 1
    BY <1>1, <1>3
  <2> QED BY <1>1, <1>3, <2>1, WholeTail
<1>4. CASE toDevice # <<>> /\ toDevice' = <<Noise>> \o Tail(toDevice)
  <2>1. Noise \in UnitsOf(D) /\ Tail(toDevice) \in Seq(UnitsOf(D))
        /\ Len(Tail(toDevice)) = Len(toDevice) - 1 /\ Len(toDevice) \in Nat
    BY <1>1, <1>4 DEF UnitsOf
  <2>2. Len(toDevice') = (Len(toDevice) - 1) + 1
    BY <1>4, <2>1, FrontLemma
  <2>3. Len(toDevice') = Len(toDevice)
    BY <2>1, <2>2
  <2> QED BY <1>1, <1>4, <2>3, WholeGarbled
<1>5. CASE \E m \in D : toDevice' = toDevice \o Units(m)
  BY <1>1, <1>5, WholeAppended
<1> QED BY <1>2, <1>3, <1>4, <1>5

LEMMA CleanStep ==
    ASSUME IInv, Whole(toDevice, Len(toDevice)), CleanLine, [Next]_vars
    PROVE  CleanLine'
<1> SUFFICES ASSUME faults' = 0
             PROVE  /\ Missing(device', toDevice') = 0
                    /\ Whole(toHost', Len(toHost'))
                    /\ Aligned(host', toHost', Len(toHost'))
  BY DEF CleanLine
<1> DEFINE D == DeviceMessages(asked')
           H == HostMessages(asked', executed')
<1>1. /\ D \subseteq MessageType /\ H \subseteq MessageType
      /\ toDevice \in Seq(UnitsOf(D)) /\ toHost \in Seq(UnitsOf(H))
      /\ Receives(device, D) /\ Receives(host, H)
  BY LineFacts
<1>2. faults \in Nat
  BY WireAssumption DEF IInv, Typed
<1>3. ~Fault
  BY <1>2 DEF Fault
<1>4. ~Faulty
  BY <1>3 DEF Faulty, DeviceNoBuffer, DevicePayloadTimeout, ProcessRequestNoMemory,
              ProcessRequestNoPort, LoseToDevice, LoseToHost
<1>5. ASSUME UNCHANGED faults
      PROVE  /\ Missing(device, toDevice) = 0
             /\ Whole(toHost, Len(toHost)) /\ Aligned(host, toHost, Len(toHost))
  BY <1>5 DEF CleanLine
<1> HIDE DEF D, H
<1>6. /\ Receives(device', DeviceMessages(asked'))
      /\ toDevice' \in Seq(UnitsOf(DeviceMessages(asked')))
  BY LineStep DEF LineSound
<1>7. /\ Missing(device, toDevice) \in Nat
      /\ Missing(device', toDevice') \in Nat
  BY <1>1, <1>6, DebtNat DEF D
<1>8. ASSUME toHost' = toHost \/ (\E m \in H : toHost' = toHost \o Units(m)),
             UNCHANGED <<host, faults>>
      PROVE  Whole(toHost', Len(toHost')) /\ Aligned(host', toHost', Len(toHost'))
  <2>1. CASE toHost' = toHost
    BY <1>5, <1>8, <2>1
  <2>2. CASE \E m \in H : toHost' = toHost \o Units(m)
    <3>1. PICK m \in H : toHost' = toHost \o Units(m)
      BY <2>2
    <3>2. /\ Whole(toHost \o Units(m), Len(toHost \o Units(m)))
          /\ Aligned(host, toHost \o Units(m), Len(toHost \o Units(m)))
      BY <1>1, <1>5, <1>8, CleanAppended
    <3> QED BY <1>8, <3>1, <3>2
  <2> QED BY <1>8, <2>1, <2>2
<1>9. ASSUME toDevice' = toDevice \/ (\E m \in D : toDevice' = toDevice \o Units(m)),
             UNCHANGED <<device, faults>>
      PROVE  Missing(device', toDevice') = 0
  <2>1. CASE toDevice' = toDevice
    BY <1>5, <1>9, <2>1
  <2>2. CASE \E m \in D : toDevice' = toDevice \o Units(m)
    <3>1. PICK m \in D : toDevice' = toDevice \o Units(m)
      BY <2>2
    <3>2. Missing(device, toDevice \o Units(m)) <= Missing(device, toDevice)
      BY <1>1, DebtAppended
    <3> QED BY <1>5, <1>7, <1>9, <3>1, <3>2
  <2> QED BY <1>9, <2>1, <2>2
<1>10. CASE DeviceStep
  <2>1. /\ toHost' = toHost \/ (\E m \in H : toHost' = toHost \o Units(m))
        /\ UNCHANGED <<host, faults>>
    BY <1>10, DeviceSends DEF H
  <2>2. /\ toDevice # <<>> /\ toDevice' = Tail(toDevice)
        /\ device' = Taken(device, toDevice[1])
    BY <1>10, DeviceTakes
  <2>3. Missing(device', toDevice') <= Missing(device, toDevice)
    BY <1>1, <2>2, DebtTaken
  <2>4. Missing(device', toDevice') = 0
    BY <1>5, <1>7, <2>1, <2>3
  <2> QED BY <1>8, <2>1, <2>4
<1>11. CASE HostStep
  <2>1. /\ toDevice' = toDevice \/ (\E m \in D : toDevice' = toDevice \o Units(m))
        /\ UNCHANGED <<device, faults>>
    BY <1>11, HostSends DEF D
  <2>2. /\ toHost # <<>> /\ host' = Taken(host, toHost[1])
        /\ \/ toHost' = Tail(toHost)
           \/ host.state = "ReadingHeader" /\ ~VerifyHeader(toHost[1])
    BY <1>11, HostTakes
  <2>3. toHost' = Tail(toHost)
    BY <1>5, <2>1, <2>2 DEF Aligned
  <2>4. Whole(toHost', Len(toHost')) /\ Aligned(host', toHost', Len(toHost'))
    BY <1>1, <1>5, <2>1, <2>2, <2>3, CleanTaken
  <2> QED BY <1>9, <2>1, <2>4
<1>12. CASE Time
  <2>1. /\ toDevice' = toDevice \/ (\E m \in D : toDevice' = toDevice \o Units(m))
        /\ UNCHANGED <<toHost, device, host, faults>>
    BY <1>3, <1>12, TimeSends DEF D
  <2> QED BY <1>8, <1>9, <2>1
<1>13. CASE PurgeCache \/ UNCHANGED vars
  <2>1. UNCHANGED <<toDevice, toHost, device, host, faults>>
    BY <1>13 DEF PurgeCache, HostVars, vars
  <2> QED BY <1>8, <1>9, <2>1
<1>14. ASSUME NEW c \in Cmd, AsyncRequest(c)
       PROVE  /\ toDevice' = toDevice \/ (\E m \in D : toDevice' = toDevice \o Units(m))
              /\ UNCHANGED <<toHost, device, host, faults>>
  <2> DEFINE i == Len(asked) + 1
  <2>1. /\ asked' = Append(asked, c)
        /\ toDevice' = toDevice \o Units(PrepareRequest(c, i))
        /\ UNCHANGED <<toHost, device, host, faults>>
    BY <1>14 DEF AsyncRequest, DeviceVars
  <2>2. asked'[i] = c /\ i \in 1..Len(asked')
    BY <2>1 DEF IInv, Typed
  <2>3. PrepareRequest(c, i) \in D
    BY <2>2 DEF D, DeviceMessages, Requests
  <2> QED BY <2>1, <2>3
<1>15. CASE \E c \in Cmd : AsyncRequest(c)
  BY <1>8, <1>9, <1>14, <1>15
<1> QED BY <1>4, <1>10, <1>11, <1>12, <1>13, <1>15 DEF Next

-----------------------------------------------------------------------------
(* The age of a cached reply *)

LEMMA FreshFacts ==
    ASSUME IInv, [Next]_vars, NEW n
    PROVE  /\ faults \in Nat /\ faults' \in Nat /\ late \in Nat /\ late' \in Nat
           /\ Missing(device, toDevice) \in Nat
           /\ Debt(device, toDevice, n) \in Nat /\ Debt(device', toDevice', n) \in Nat
           /\ Missing(device, toDevice) <= Debt(device, toDevice, n)
           /\ Debt(device, toDevice, n) <= Missing(device, toDevice) + 1
           /\ ReplyComing(host, toHost, n) \in BOOLEAN
           /\ ReplyComing(host', toHost', n) \in BOOLEAN
           /\ \A k \in 1..Len(cache) : cache[k].age \in Nat
           /\ \A k \in 1..Len(cache') : cache'[k].age \in Nat
<1>1. faults \in Nat /\ faults' \in Nat /\ late \in Nat /\ late' \in Nat
  BY TypedStep, WireAssumption DEF IInv, Typed
<1>2. /\ DeviceMessages(asked') \subseteq MessageType
      /\ Receives(device, DeviceMessages(asked'))
      /\ toDevice \in Seq(UnitsOf(DeviceMessages(asked')))
  BY LineFacts
<1>3. /\ Receives(device', DeviceMessages(asked'))
      /\ toDevice' \in Seq(UnitsOf(DeviceMessages(asked')))
  BY LineStep DEF LineSound
<1>4. /\ Missing(device, toDevice) \in Nat
      /\ Debt(device, toDevice, n) \in Nat
      /\ Missing(device, toDevice) <= Debt(device, toDevice, n)
      /\ Debt(device, toDevice, n) <= Missing(device, toDevice) + 1
  BY <1>2, DebtNat
<1>5. Debt(device', toDevice', n) \in Nat
  BY <1>2, <1>3, DebtNat
<1>6. /\ ReplyComing(host, toHost, n) \in BOOLEAN
      /\ ReplyComing(host', toHost', n) \in BOOLEAN
  BY DEF ReplyComing
<1>7. \A a, e : \A x \in Entries(a, e) : x.age \in Nat
  BY WireAssumption DEF Entries
<1>8. /\ cache \in Seq(Entries(asked, executed))
      /\ cache' \in Seq(Entries(asked', executed'))
  BY CacheStep DEF IInv, CacheSound
<1>9. \A k \in 1..Len(cache) : cache[k] \in Entries(asked, executed)
  BY <1>8
<1>10. \A k \in 1..Len(cache') : cache'[k] \in Entries(asked', executed')
  BY <1>8
<1> QED BY <1>1, <1>4, <1>5, <1>6, <1>7, <1>9, <1>10

\* Nothing gets worse for the reply to the outstanding request.
LEMMA FreshKept ==
    ASSUME IInv, FreshReply, [Next]_vars, UNCHANGED <<faults, late>>,
           Waiting' => LET n == request.msg.of
                       IN  /\ Waiting /\ request'.msg = request.msg
                           /\ \A k \in 1..Len(cache') :
                                 cache'[k].msg.of = n =>
                                    \E j \in 1..Len(cache) : cache'[k] = cache[j]
                           /\ Debt(device', toDevice', n) <= Debt(device, toDevice, n)
                           /\ ReplyComing(host, toHost, n) =>
                                 ReplyComing(host', toHost', n)
    PROVE  FreshReply'
<1> DEFINE n == request.msg.of
           b == ReplyComing(host', toHost', n)
           c == ReplyComing(host, toHost, n)
           e == Debt(device', toDevice', n)
           d == Debt(device, toDevice, n)
<1> SUFFICES ASSUME Waiting', NEW k \in 1..Len(cache'), cache'[k].msg.of = n,
                    request'.msg = request.msg
             PROVE  InTime(cache'[k].age, faults', late', b, e)
  BY DEF FreshReply
<1>1. PICK j \in 1..Len(cache) : cache'[k] = cache[j]
  OBVIOUS
<1>2. InTime(cache[j].age, faults, late, c, d)
  BY <1>1 DEF FreshReply
<1>3. /\ faults \in Nat /\ late \in Nat /\ d \in Nat /\ e \in Nat
      /\ c \in BOOLEAN /\ b \in BOOLEAN /\ cache[j].age \in Nat
  BY FreshFacts
<1>4. e <= d /\ (c => b) /\ faults' = faults /\ late' = late
  OBVIOUS
<1> HIDE DEF n, b, c, d, e
<1>5. InTime(cache[j].age, faults, late, b, e)
  <2>1. CASE faults = 0
    BY <1>2, <1>3, <1>4, <2>1 DEF InTime
  <2>2. CASE faults >= 1
    BY <1>2, <1>3, <1>4, <2>2 DEF InTime
  <2> QED BY <1>3, <2>1, <2>2
<1> QED BY <1>1, <1>4, <1>5

LEMMA FreshHost ==
    ASSUME IInv, FreshReply, HostStep
    PROVE  FreshReply'
<1> DEFINE n == request.msg.of
           D == DeviceMessages(asked')
           H == HostMessages(asked', executed')
<1>1. [Next]_vars
  BY DEF Next
<1>2. /\ D \subseteq MessageType /\ H \subseteq MessageType
      /\ toDevice \in Seq(UnitsOf(D)) /\ toHost \in Seq(UnitsOf(H))
      /\ Receives(device, D) /\ Receives(host, H)
  BY <1>1, LineFacts
<1>3. /\ toDevice' = toDevice \/ (\E m \in D : toDevice' = toDevice \o Units(m))
      /\ UNCHANGED <<device, cache, late, faults>>
      /\ request' = request \/ ~Waiting'
  BY HostSends
<1>4. /\ toHost # <<>> /\ host' = Taken(host, toHost[1])
      /\ \/ toHost' = Tail(toHost)
         \/ /\ host.state = "ReadingHeader" /\ ~VerifyHeader(toHost[1])
            /\ toHost' = <<>>
  BY HostTakes
<1> HIDE DEF D, H
<1>5. Debt(device', toDevice', n) <= Debt(device, toDevice, n)
  <2>1. CASE toDevice' = toDevice
    <3>1. Debt(device, toDevice, n) \in Nat
      BY <1>1, FreshFacts
    <3> QED BY <1>3, <2>1, <3>1
  <2>2. CASE \E m \in D : toDevice' = toDevice \o Units(m)
    BY <1>2, <1>3, <2>2, DebtAppended
  <2> QED BY <1>3, <2>1, <2>2
<1>6. ASSUME Waiting', ReplyComing(host, toHost, n) PROVE ReplyComing(host', toHost', n)
  <2>1. Waiting /\ request' = request
    BY <1>3, <1>6 DEF Waiting
  <2>2. ~Completes(host, toHost[1], n)
    BY <1>6, <2>1, HostCompletes
  <2>3. ReplyComing(Taken(host, toHost[1]), Tail(toHost), n)
    BY <1>2, <1>6, <2>2, ReplyTaken
  <2>4. ~(host.state = "ReadingHeader" /\ ~VerifyHeader(toHost[1]))
    <3>1. PICK e \in 0..Len(toHost) : Aligned(host, toHost, e)
      BY <1>6 DEF ReplyComing
    <3> QED BY <3>1 DEF Aligned
  <2> QED BY <1>4, <2>3, <2>4
<1>7. ASSUME Waiting' PROVE Waiting /\ request'.msg = request.msg
  BY <1>3, <1>7 DEF Waiting
<1> QED BY <1>1, <1>3, <1>5, <1>6, <1>7, FreshKept

LEMMA FreshPurge ==
    ASSUME IInv, FreshReply, PurgeCache
    PROVE  FreshReply'
<1> DEFINE n == request.msg.of
<1>1. [Next]_vars
  BY DEF Next
<1>2. UNCHANGED <<toDevice, toHost, device, host, request, faults, late>>
  BY DEF PurgeCache, HostVars
<1>3. PICK K \in SUBSET (1..Len(cache)) : Keep(K)
  BY DEF PurgeCache
<1>4. \A k \in 1..Len(cache') : \E j \in 1..Len(cache) : cache'[k] = cache[j]
  <2>1. Cardinality(K) \in Nat
    <3>1. IsFiniteSet(1..Len(cache))
      BY FS_Interval
    <3>2. IsFiniteSet(K)
      BY <3>1, FS_Subset
    <3> QED BY <3>2, FS_CardinalityType
  <2>2. PICK f \in Bijection(1..Cardinality(K), K) :
           cache' = [i \in 1..Cardinality(K) |-> cache[f[i]]]
    BY <1>3 DEF Keep
  <2>3. f \in [1..Cardinality(K) -> K]
    BY DEF Bijection, Injection
  <2>4. Len(cache') = Cardinality(K)
    BY <2>1, <2>2
  <2> QED BY <2>2, <2>3, <2>4
<1>5. Debt(device, toDevice, n) \in Nat
  BY <1>1, FreshFacts
<1>6. Waiting' = Waiting
  BY <1>2 DEF Waiting
<1> QED BY <1>1, <1>2, <1>4, <1>5, <1>6, FreshKept

\* A reply that is used again is as new as one that was just sent.
LEMMA UsedEntries ==
    ASSUME NEW S, NEW c \in Seq(S), NEW i \in 1..Len(c),
           NEW k \in 1..Len(Used(c, i))
    PROVE  \/ k = 1 /\ Used(c, i)[k] = [c[i] EXCEPT !.age = 0]
           \/ \E j \in 1..Len(c) : Used(c, i)[k] = c[j]
<1> DEFINE x == [c[i] EXCEPT !.age = 0]
           s == Drop(c, i)
           d == Used(c, i)
<1>1. /\ s \in Seq(S) /\ Len(s) = Len(c) - 1 /\ Len(c) \in Nat
      /\ \A j \in 1..(Len(c) - 1) : s[j] = IF j < i THEN c[j] ELSE c[j + 1]
  BY DropLemma DEF Drop
<1>2. d = <<x>> \o s
  BY DEF Used
<1> HIDE DEF x, s, d
<1>3. /\ Len(d) = Len(c) /\ d[1] = x
      /\ \A j \in 1..(Len(c) - 1) : d[j + 1] = s[j]
  <2>1. s \in Seq(S \cup {x}) /\ x \in S \cup {x}
    BY <1>1
  <2>2. /\ Len(d) = Len(s) + 1 /\ d[1] = x
        /\ \A j \in 1..Len(s) : d[j + 1] = s[j]
    BY <1>2, <2>1, FrontLemma
  <2> QED BY <1>1, <2>2
<1>4. CASE k = 1
  BY <1>3, <1>4 DEF d, x
<1>5. CASE k # 1
  <2>1. k - 1 \in 1..(Len(c) - 1) /\ (k - 1) + 1 = k /\ k \in 1..Len(c) /\ k - 1 \in 1..Len(c)
    BY <1>1, <1>3, <1>5 DEF d
  <2>2. d[k] = IF k - 1 < i THEN c[k - 1] ELSE c[k]
    BY <1>1, <1>3, <2>1
  <2> QED BY <2>1, <2>2 DEF d
<1> QED BY <1>4, <1>5

\* What the device does with a request.
LEMMA DeviceAnswers ==
    ASSUME IInv, Retransmit \/ ProcessRequest
    PROVE  LET n == Arriving.of
           IN  /\ \E m \in HostMessages(asked', executed') :
                     m.of = n /\ toHost' = toHost \o Units(m)
               /\ \A k \in 1..Len(cache') :
                     IF cache'[k].msg.of = n
                       THEN cache'[k].age = 0
                       ELSE \E j \in 1..Len(cache) : cache'[k] = cache[j]
               /\ device' = PrepareReception
<1> DEFINE n == Arriving.of
<1>1. device' = PrepareReception
  BY DEF Retransmit, ProcessRequest, New, Received
<1>2. /\ asked \in Seq(Cmd) /\ cache \in Seq(Entries(asked, executed))
  BY DEF IInv, Typed, CacheSound
<1>3. [Next]_vars
  BY DEF Next, DeviceStep
<1>4. CASE Retransmit
  <2>1. PICK i \in 1..Len(asked) : Arriving = PrepareRequest(asked[i], i)
    BY <1>4, ArrivingRequest DEF Retransmit
  <2>2. n = i
    BY <2>1 DEF PrepareRequest, Message
  <2> DEFINE h == FirstHit(Arriving)
  <2>3. h \in 1..Len(cache) /\ cache[h].msg.of = n
    BY <1>2, <1>4, <2>1, <2>2, HitsLemma DEF Retransmit
  <2>4. /\ cache' = Used(cache, h) /\ toHost' = toHost \o Units(cache[h].msg)
        /\ UNCHANGED <<asked, executed>>
    BY <1>4 DEF Retransmit, HostVars
  <2> HIDE DEF h, n
  <2>5. cache[h] \in Entries(asked, executed)
    BY <1>2, <2>3
  <2>6. cache[h].msg \in HostMessages(asked', executed')
    BY <2>4, <2>5 DEF Entries, HostMessages
  <2>7. ASSUME NEW k \in 1..Len(cache')
        PROVE  IF cache'[k].msg.of = n
                 THEN cache'[k].age = 0
                 ELSE \E j \in 1..Len(cache) : cache'[k] = cache[j]
    <3> DEFINE x == [cache[h] EXCEPT !.age = 0]
    <3>1. \/ k = 1 /\ cache'[k] = x
          \/ \E j \in 1..Len(cache) : cache'[k] = cache[j]
      BY <1>2, <2>3, <2>4, UsedEntries
    <3>2. x.age = 0 /\ x.msg.of = n
      BY <2>3, <2>5 DEF Entries
    <3>3. Len(cache') >= 1 /\ cache'[1] = x
      <4>1. cache' = <<x>> \o Drop(cache, h)
        BY <2>4 DEF Used
      <4>2. Drop(cache, h) \in Seq(Entries(asked, executed))
        BY <1>2, <2>3, DropLemma
      <4> HIDE DEF x
      <4>3. Drop(cache, h) \in Seq(Entries(asked, executed) \cup {x})
        BY <4>2
      <4>4. Len(cache') = Len(Drop(cache, h)) + 1 /\ cache'[1] = x
        BY <4>1, <4>3, FrontLemma
      <4>5. Len(Drop(cache, h)) \in Nat
        BY <4>2
      <4> QED BY <4>4, <4>5
    <3>4. OneReply(cache')
      BY <1>3, CacheStep DEF CacheSound
    <3> HIDE DEF x
    <3>5. CASE cache'[k].msg.of = n
      <4>1. 1 \in 1..Len(cache')
        BY <3>3
      <4>2. k = 1
        BY <3>2, <3>3, <3>4, <3>5, <4>1 DEF OneReply
      <4> QED BY <3>2, <3>3, <3>5, <4>2
    <3>6. CASE cache'[k].msg.of # n
      BY <3>1, <3>2, <3>6
    <3> QED BY <3>5, <3>6
  <2> QED BY <1>1, <2>3, <2>4, <2>6, <2>7 DEF n
<1>5. CASE ProcessRequest
  <2>1. New /\ UNCHANGED asked
    BY <1>5 DEF ProcessRequest, HostVars
  <2>2. PICK r \in Replies(asked', executed') :
           /\ r.of = n
           /\ Execute(Arriving).units = Units(r)
           /\ Execute(Arriving).entries \in {<<>>, <<Entry(r)>>}
    BY <2>1, NewLemma
  <2>3. /\ toHost' = toHost \o Units(r) /\ r \in HostMessages(asked', executed')
        /\ cache' = Execute(Arriving).entries \o cache
    BY <1>5, <2>2 DEF ProcessRequest, HostMessages
  <2>4. \A j \in 1..Len(cache) : cache[j].msg.of # n
    BY <2>1, NewLemma DEF Cached
  <2> HIDE DEF n
  <2>5. CASE Execute(Arriving).entries = <<>>
    <3>1. cache' = cache
      BY <1>2, <2>3, <2>5
    <3> QED BY <1>1, <2>2, <2>3, <2>4, <3>1 DEF n
  <2>6. CASE Execute(Arriving).entries = <<Entry(r)>>
    <3> DEFINE x == Entry(r)
    <3>1. x.age = 0 /\ x.msg.of = n
      BY <2>2 DEF Entry
    <3>2. cache' = <<x>> \o cache
      BY <2>3, <2>6
    <3> HIDE DEF x
    <3>3. cache \in Seq(Entries(asked, executed) \cup {x})
      BY <1>2
    <3>4. /\ Len(cache') = Len(cache) + 1 /\ cache'[1] = x
          /\ \A i \in 1..Len(cache) : cache'[i + 1] = cache[i]
      BY <3>2, <3>3, FrontLemma
    <3>5. ASSUME NEW k \in 1..Len(cache')
          PROVE  IF cache'[k].msg.of = n
                   THEN cache'[k].age = 0
                   ELSE \E j \in 1..Len(cache) : cache'[k] = cache[j]
      <4>1. CASE k = 1
        BY <3>1, <3>4, <4>1
      <4>2. CASE k # 1
        <5>1. k - 1 \in 1..Len(cache) /\ (k - 1) + 1 = k
          BY <1>2, <3>4, <4>2
        <5>2. cache'[k] = cache[k - 1]
          BY <3>4, <5>1
        <5> QED BY <2>4, <5>1, <5>2
      <4> QED BY <4>1, <4>2
    <3> QED BY <1>1, <2>2, <2>3, <3>5 DEF n
  <2> QED BY <2>2, <2>5, <2>6
<1> QED BY <1>4, <1>5

LEMMA FreshDevice ==
    ASSUME IInv, Whole(toDevice, Len(toDevice)), CleanLine, FreshReply, DeviceStep
    PROVE  FreshReply'
<1> DEFINE n == request.msg.of
           D == DeviceMessages(asked')
           H == HostMessages(asked', executed')
<1>1. [Next]_vars
  BY DEF Next
<1>2. /\ D \subseteq MessageType /\ H \subseteq MessageType
      /\ toDevice \in Seq(UnitsOf(D)) /\ toHost \in Seq(UnitsOf(H))
      /\ Receives(device, D) /\ Receives(host, H)
  BY <1>1, LineFacts
<1>3. /\ toHost' = toHost \/ (\E m \in H : toHost' = toHost \o Units(m))
      /\ UNCHANGED <<host, request, late, faults>>
  BY DeviceSends
<1>4. /\ toDevice # <<>> /\ toDevice' = Tail(toDevice)
      /\ device' = Taken(device, toDevice[1])
  BY DeviceTakes
<1>5. Waiting => n # 0
  BY DEF IInv, Typed, Requests, PrepareRequest, Message
<1> HIDE DEF D, H
<1>6. CASE (Retransmit \/ ProcessRequest) /\ Arriving.of = n
  <2>1. PICK m \in H : m.of = n /\ toHost' = toHost \o Units(m)
    BY <1>6, DeviceAnswers DEF H
  <2>2. device' = PrepareReception
    BY <1>6, DeviceAnswers
  <2> DEFINE b == ReplyComing(host', toHost', n)
             e == Debt(device', toDevice', n)
  <2> SUFFICES ASSUME NEW k \in 1..Len(cache'), cache'[k].msg.of = n
               PROVE  InTime(cache'[k].age, faults, late, b, e)
    BY <1>3 DEF FreshReply
  <2>3. cache'[k].age = 0
    BY <1>6, DeviceAnswers
  <2>4. faults \in Nat /\ late \in Nat /\ e \in Nat
    BY <1>1, FreshFacts
  <2>5. CASE faults = 0
    <3>1. Whole(toHost, Len(toHost)) /\ Aligned(host, toHost, Len(toHost))
      BY <2>5 DEF CleanLine
    <3>2. ReplyComing(host, toHost \o Units(m), m.of)
      BY <1>2, <3>1, CleanAppended
    <3>3. b
      BY <1>3, <2>1, <3>2
    <3> HIDE DEF b, e
    <3> QED BY <2>3, <2>4, <2>5, <3>3 DEF InTime
  <2>6. CASE faults >= 1
    <3>1. toDevice' \in Seq(UnitsOf(D))
      BY <1>2, <1>4
    <3>2. e <= 1
      BY <2>2, <3>1, DebtStartsOver
    <3> HIDE DEF b, e
    <3> QED BY <2>3, <2>4, <2>6, <3>2 DEF InTime
  <2> QED BY <2>4, <2>5, <2>6
<1>7. CASE ~((Retransmit \/ ProcessRequest) /\ Arriving.of = n)
  <2>1. \A k \in 1..Len(cache') :
           cache'[k].msg.of = n => \E j \in 1..Len(cache) : cache'[k] = cache[j]
    <3>1. CASE Retransmit \/ ProcessRequest
      BY <1>7, <3>1, DeviceAnswers
    <3>2. CASE ~(Retransmit \/ ProcessRequest)
      <4>1. cache' = cache
        BY <3>2 DEF DeviceStep, DeviceSync, DeviceHeader, DeviceBadHeader, DevicePart,
                    DeviceBadPayload, ProcessReply
      <4> QED BY <4>1
    <3> QED BY <3>1, <3>2
  <2>2. ASSUME Waiting PROVE Debt(device', toDevice', n) <= Debt(device, toDevice, n)
    <3>1. ~Completes(device, toDevice[1], n)
      BY <1>5, <1>7, <2>2, DeviceCompletes
    <3> QED BY <1>2, <1>4, <3>1, DebtTaken
  <2>3. ReplyComing(host, toHost, n) => ReplyComing(host', toHost', n)
    <3>1. CASE toHost' = toHost
      BY <1>3, <3>1
    <3>2. CASE \E m \in H : toHost' = toHost \o Units(m)
      <4>1. PICK m \in H : toHost' = toHost \o Units(m)
        BY <3>2
      <4>2. m.size \in Nat
        BY <1>2 DEF MessageType
      <4>3. Units(m) \in Seq(UnitsOf(H))
        BY <4>2, UnitsSent
      <4> QED BY <1>2, <1>3, <4>1, <4>3, ReplyKept
    <3> QED BY <1>3, <3>1, <3>2
  <2>4. Waiting' = Waiting /\ request'.msg = request.msg
    BY <1>3 DEF Waiting
  <2> QED BY <1>1, <1>3, <2>1, <2>2, <2>3, <2>4, FreshKept
<1> QED BY <1>6, <1>7

LEMMA FreshAsked ==
    ASSUME IInv, NEW c \in Cmd, AsyncRequest(c)
    PROVE  FreshReply'
<1> DEFINE i == Len(asked) + 1
<1>1. request'.msg = PrepareRequest(c, i) /\ cache' = cache
  BY DEF AsyncRequest, DeviceVars
<1>2. request'.msg.of = i
  BY <1>1 DEF PrepareRequest, Message
<1>3. \A k \in 1..Len(cache) : cache[k] \in Entries(asked, executed)
  BY DEF IInv, CacheSound
<1>4. \A k \in 1..Len(cache) : cache[k].msg.of \in 1..Len(asked)
  BY <1>3 DEF Entries, Replies, IsReply
<1>5. Len(asked) \in Nat
  BY DEF IInv, Typed
<1>6. \A k \in 1..Len(cache) : cache[k].msg.of # i
  BY <1>4, <1>5
<1> HIDE DEF i
<1> QED BY <1>1, <1>2, <1>6 DEF FreshReply

\* The entries grow older, and the request may be sent again.
LEMMA FreshTime ==
    ASSUME IInv, CleanLine, FreshReply, Time
    PROVE  FreshReply'
<1> DEFINE n == request.msg.of
           b == ReplyComing(host', toHost', n)
           c == ReplyComing(host, toHost, n)
           e == Debt(device', toDevice', n)
           d == Debt(device, toDevice, n)
           g == Missing(device, toDevice)
           D == DeviceMessages(asked')
           older(x) == [x EXCEPT !.age = IF @ > CacheLife THEN @ ELSE @ + 1]
<1>1. [Next]_vars
  BY DEF Next
<1>2. Waiting' => Retry
  <2>1. CASE Cancel
    <3>1. request'.state = "cancelled"
      BY <2>1 DEF Cancel, IInv, Typed
    <3> QED BY <3>1 DEF Waiting
  <2>2. CASE Pass
    BY <2>2 DEF Pass, Waiting
  <2> QED BY <2>1, <2>2 DEF Time
<1> SUFFICES ASSUME Retry, NEW k \in 1..Len(cache'), cache'[k].msg.of = request'.msg.of
             PROVE  InTime(cache'[k].age, faults', late',
                           ReplyComing(host', toHost', request'.msg.of),
                           Debt(device', toDevice', request'.msg.of))
  BY <1>2 DEF FreshReply
<1>3. request'.msg = request.msg /\ Waiting
  BY DEF Retry, IInv, Typed
<1>4. /\ Len(cache') = Len(cache) /\ cache'[k] = older(cache[k])
      /\ cache[k] \in Entries(asked, executed)
  <2>1. cache \in Seq(Entries(asked, executed))
    BY DEF IInv, CacheSound
  <2>2. cache' = [i \in 1..Len(cache) |-> older(cache[i])]
    BY DEF Retry, Aged
  <2> HIDE DEF older
  <2> QED BY <2>1, <2>2
<1> DEFINE a == cache[k].age
           z == cache'[k].age
<1>5. cache[k].msg.of = n /\ (z = a \/ z = a + 1) /\ a \in Nat
  <2>1. older(cache[k]) = [msg |-> cache[k].msg,
                           age |-> IF cache[k].age > CacheLife THEN cache[k].age
                                                               ELSE cache[k].age + 1]
    BY <1>4 DEF Entries
  <2>2. cache[k].age \in Nat
    BY <1>1, <1>4, FreshFacts
  <2> HIDE DEF older
  <2> QED BY <1>3, <1>4, <2>1, <2>2
<1>6. /\ faults \in Nat /\ late \in Nat /\ faults' \in Nat /\ late' \in Nat
      /\ g \in Nat /\ d \in Nat /\ e \in Nat /\ g <= d /\ d <= g + 1
      /\ c \in BOOLEAN /\ b \in BOOLEAN
  BY <1>1, FreshFacts
<1>7. InTime(a, faults, late, c, d)
  BY <1>3, <1>4, <1>5 DEF FreshReply
<1>8. faults = 0 => g = 0
  BY DEF CleanLine
<1>9. /\ D \subseteq MessageType /\ toDevice \in Seq(UnitsOf(D)) /\ Receives(device, D)
  BY <1>1, LineFacts
<1>10. /\ UNCHANGED <<toHost, device, host>>
       /\ request.msg \in D
  BY TimeSends DEF IInv, Typed, D, DeviceMessages, Retry
<1>11. \/ /\ toDevice' = toDevice \o Units(request.msg) /\ faults' = faults
       \/ /\ toDevice' = toDevice /\ faults' = faults + 1
  BY DEF Retry, Fault
<1>12. \/ late' = late + 1
       \/ toDevice = <<>> /\ toHost = <<>> /\ late' = late
  BY DEF Retry, TimePasses
<1>13. toHost = <<>> => ~c
  <2>1. ReplyComing(host, toHost, n) => toHost # <<>>
    BY <1>1, LineFacts, ReplyTaken
  <2> QED BY <2>1
<1>14. b = c
  BY <1>10
<1>15. toDevice' = toDevice => e = d
  BY <1>10
<1>16. toDevice' = toDevice \o Units(request.msg) =>
          e <= d /\ (toDevice = <<>> => e <= d - 1)
  <2> SUFFICES ASSUME toDevice' = toDevice \o Units(request.msg)
               PROVE  e <= d /\ (toDevice = <<>> => e <= d - 1)
    OBVIOUS
  <2>1. Debt(device, toDevice \o Units(request.msg), n) <= Debt(device, toDevice, n)
    BY <1>9, <1>10, DebtAppended
  <2>2. ASSUME toDevice = <<>> PROVE e <= d - 1
    <3>1. Debt(device, <<>> \o Units(request.msg), n) <= Debt(device, <<>>, n) - 1
      BY <1>9, <1>10, DebtOfRetry
    <3> QED BY <1>10, <2>2, <3>1
  <2> QED BY <1>10, <2>1, <2>2
<1> HIDE DEF n, a, z, b, c, d, e, g, D
<1>17. InTime(z, faults', late', b, e)
  <2>1. CASE toDevice' = toDevice /\ faults' = faults + 1 /\ late' = late + 1
    <3>1. CASE c
      <4>1. CASE faults = 0
        BY <1>5, <1>6, <1>7, <1>8, <1>14, <1>15, <2>1, <3>1, <4>1 DEF InTime
      <4>2. CASE faults >= 1
        BY <1>5, <1>6, <1>7, <1>14, <1>15, <2>1, <3>1, <4>2 DEF InTime
      <4> QED BY <1>6, <4>1, <4>2
    <3>2. CASE ~c
      BY <1>5, <1>6, <1>7, <1>14, <1>15, <2>1, <3>2 DEF InTime
    <3> QED BY <3>1, <3>2
  <2>2. CASE toDevice' = toDevice /\ faults' = faults + 1 /\ late' = late /\ ~c
    BY <1>5, <1>6, <1>7, <1>14, <1>15, <2>2 DEF InTime
  <2>3. CASE toDevice' = toDevice \o Units(request.msg) /\ faults' = faults
             /\ late' = late + 1
    <3>1. CASE c
      BY <1>5, <1>6, <1>7, <1>14, <1>16, <2>3, <3>1 DEF InTime
    <3>2. CASE ~c
      BY <1>5, <1>6, <1>7, <1>14, <1>16, <2>3, <3>2 DEF InTime
    <3> QED BY <3>1, <3>2
  <2>4. CASE toDevice' = toDevice \o Units(request.msg) /\ faults' = faults
             /\ late' = late /\ ~c /\ toDevice = <<>>
    BY <1>5, <1>6, <1>7, <1>14, <1>16, <2>4 DEF InTime
  <2> QED BY <1>11, <1>12, <1>13, <2>1, <2>2, <2>3, <2>4
<1> QED BY <1>3, <1>17 DEF n, z, b, e

LEMMA FreshFault ==
    ASSUME IInv, CleanLine, FreshReply, Faulty
    PROVE  FreshReply'
<1> DEFINE n == request.msg.of
           b == ReplyComing(host', toHost', n)
           c == ReplyComing(host, toHost, n)
           e == Debt(device', toDevice', n)
           d == Debt(device, toDevice, n)
           g == Missing(device, toDevice)
           D == DeviceMessages(asked')
           H == HostMessages(asked', executed')
<1> USE DEF HostVars, DeviceVars
<1>1. [Next]_vars
  BY DEF Next
<1>2. /\ D \subseteq MessageType /\ H \subseteq MessageType /\ BadPacket \in H
      /\ toDevice \in Seq(UnitsOf(D)) /\ toHost \in Seq(UnitsOf(H))
      /\ Receives(device, D) /\ Receives(host, H)
  BY <1>1, LineFacts
<1>3. /\ faults' = faults + 1
      /\ UNCHANGED <<host, request, late, cache>>
  BY DEF Faulty, DeviceNoBuffer, DevicePayloadTimeout, LoseToDevice, LoseToHost,
         ProcessRequestNoMemory, ProcessRequestNoPort, Fault
<1>4. toDevice' \in Seq(UnitsOf(D))
  BY <1>1, LineStep DEF LineSound
<1>5. device' = PrepareReception => e <= g + 2
  <2>1. device' = PrepareReception => e <= 1
    BY <1>4, DebtStartsOver
  <2>2. e \in Nat /\ g \in Nat
    BY <1>1, FreshFacts
  <2> HIDE DEF e, g
  <2> QED BY <2>1, <2>2
<1>6. ASSUME NEW u \in Seq(UnitsOf(H)), toHost' = toHost \o u PROVE c => b
  BY <1>2, <1>3, <1>6, ReplyKept
<1>7. \/ e = d
      \/ e <= g + 2 /\ (c => b)
  <2>1. CASE DeviceNoBuffer
    <3>1. /\ device' = PrepareReception
          /\ toHost' = toHost \/ toHost' = toHost \o Units(BadPacket)
      BY <2>1 DEF DeviceNoBuffer
    <3>2. BadPacket.size \in Nat
      BY DEF BadPacket, Message
    <3>3. Units(BadPacket) \in Seq(UnitsOf(H))
      BY <1>2, <3>2, UnitsSent
    <3>4. c => b
      <4>1. CASE toHost' = toHost
        BY <1>3, <4>1
      <4>2. CASE toHost' = toHost \o Units(BadPacket)
        BY <1>6, <3>3, <4>2
      <4> QED BY <3>1, <4>1, <4>2
    <3> QED BY <1>5, <3>1, <3>4
  <2>2. CASE DevicePayloadTimeout
    <3>1. device' = PrepareReception /\ toHost' = toHost
      BY <2>2 DEF DevicePayloadTimeout
    <3> QED BY <1>3, <1>5, <3>1
  <2>3. CASE LoseToDevice
    <3>1. /\ toDevice # <<>> /\ toHost' = toHost /\ device' = device
          /\ toDevice' \in {Tail(toDevice), <<Noise>> \o Tail(toDevice)}
      BY <2>3 DEF LoseToDevice
    <3>2. e <= g + 2
      BY <1>2, <3>1, DebtOfFault
    <3> QED BY <1>3, <3>1, <3>2
  <2>4. CASE LoseToHost
    <3>1. toDevice' = toDevice /\ device' = device
      BY <2>4 DEF LoseToHost
    <3> QED BY <3>1
  <2>5. CASE ProcessRequestNoMemory \/ ProcessRequestNoPort
    <3> DEFINE us == Execute(Arriving).units
    <3>1. /\ New /\ UNCHANGED asked
          /\ \/ toHost' = toHost \o us
             \/ \E k \in 0..(Len(us) - 1) : toHost' = toHost \o SubSeq(us, 1, k)
      BY <2>5 DEF ProcessRequestNoMemory, ProcessRequestNoPort
    <3>2. device' = PrepareReception
      BY <3>1 DEF New, Received
    <3>3. us \in Seq(UnitsOf(H))
      BY <3>1, NewLemma
    <3> HIDE DEF us
    <3>4. ASSUME NEW k \in 0..(Len(us) - 1) PROVE SubSeq(us, 1, k) \in Seq(UnitsOf(H))
      <4>1. \A j \in 1..k : us[j] \in UnitsOf(H)
        BY <3>3
      <4> QED BY <3>3, <4>1
    <3>5. c => b
      <4>1. CASE toHost' = toHost \o us
        BY <1>6, <3>3, <4>1
      <4>2. ASSUME NEW k \in 0..(Len(us) - 1), toHost' = toHost \o SubSeq(us, 1, k)
            PROVE  c => b
        BY <1>6, <3>4, <4>2
      <4> QED BY <3>1, <4>1, <4>2
    <3> QED BY <1>5, <3>2, <3>5
  <2> QED BY <2>1, <2>2, <2>3, <2>4, <2>5 DEF Faulty
<1> SUFFICES ASSUME Waiting, NEW k \in 1..Len(cache), cache[k].msg.of = n
             PROVE  InTime(cache[k].age, faults', late', b, e)
  BY <1>3 DEF FreshReply, Waiting
<1> DEFINE a == cache[k].age
<1>8. InTime(a, faults, late, c, d)
  BY DEF FreshReply
<1>9. /\ faults \in Nat /\ late \in Nat
      /\ g \in Nat /\ d \in Nat /\ e \in Nat /\ g <= d /\ d <= g + 1
      /\ c \in BOOLEAN /\ b \in BOOLEAN /\ a \in Nat
  BY <1>1, FreshFacts
<1>10. faults = 0 => g = 0
  BY DEF CleanLine
<1> HIDE DEF n, a, b, c, d, e, g
<1>11. ASSUME e = d PROVE InTime(a, faults', late', b, e)
  <2>1. CASE faults = 0
    BY <1>3, <1>8, <1>9, <1>10, <1>11, <2>1 DEF InTime
  <2>2. CASE faults >= 1
    BY <1>3, <1>8, <1>9, <1>11, <2>2 DEF InTime
  <2> QED BY <1>9, <2>1, <2>2
<1>12. ASSUME e <= g + 2, c => b PROVE InTime(a, faults', late', b, e)
  <2>1. CASE faults = 0
    BY <1>3, <1>8, <1>9, <1>10, <1>12, <2>1 DEF InTime
  <2>2. CASE faults >= 1
    BY <1>3, <1>8, <1>9, <1>12, <2>2 DEF InTime
  <2> QED BY <1>9, <2>1, <2>2
<1>13. InTime(a, faults', late', b, e)
  BY <1>7, <1>11, <1>12
<1> QED BY <1>13 DEF a

LEMMA FreshStep ==
    ASSUME IInv, RInv, [Next]_vars
    PROVE  FreshReply'
<1>1. Whole(toDevice, Len(toDevice)) /\ CleanLine /\ FreshReply
  BY DEF RInv
<1>2. CASE DeviceStep
  BY <1>1, <1>2, FreshDevice
<1>3. CASE PurgeCache
  BY <1>1, <1>3, FreshPurge
<1>4. CASE HostStep
  BY <1>1, <1>4, FreshHost
<1>5. CASE Time
  BY <1>1, <1>5, FreshTime
<1>6. CASE Faulty
  BY <1>1, <1>6, FreshFault
<1>7. CASE \E c \in Cmd : AsyncRequest(c)
  BY <1>7, FreshAsked
<1>8. CASE UNCHANGED vars
  BY <1>1, <1>8 DEF FreshReply, Waiting, vars
<1> QED BY <1>2, <1>3, <1>4, <1>5, <1>6, <1>7, <1>8 DEF Next

LEMMA LateEnough ==
    ASSUME NEW f \in Nat, NEW g \in Nat, f <= g, NEW k \in Nat, NEW l \in Nat, k <= l,
           NEW x \in Nat, k > x \/ 2 * (f - 1) + k >= x
    PROVE  l > x \/ 2 * (g - 1) + l >= x
<1>1. CASE k > x
  BY <1>1
<1>2. CASE 2 * (f - 1) + k >= x
  <2>1. 2 * (g - 1) >= 2 * (f - 1)
    OBVIOUS
  <2>2. 2 * (g - 1) + l >= 2 * (f - 1) + k
    BY <2>1
  <2> QED BY <1>2, <2>2
<1> QED BY <1>1, <1>2

\* A reply that is purged while the host waits was not too young.
LEMMA ExpiredStep ==
    ASSUME IInv, RInv, [Next]_vars
    PROVE  RetriesKeepReply'
<1> USE DEF HostVars, DeviceVars
<1>1. /\ faults \in Nat /\ faults' \in Nat /\ late \in Nat /\ late' \in Nat
  BY FreshFacts
<1>2. CacheLife \in Nat
  BY WireAssumption
<1>3. CASE PurgeCache
  <2>1. PICK K \in SUBSET (1..Len(cache)) :
           expired' = (expired \/ \E x \in {cache[i] : i \in (1..Len(cache)) \ K} :
                                     Old(x) /\ Waiting /\ x.msg.of = request.msg.of)
    BY <1>3 DEF PurgeCache
  <2>2. UNCHANGED <<faults, late>>
    BY <1>3 DEF PurgeCache
  <2>3. CASE expired
    BY <2>2, <2>3 DEF RInv, RetriesKeepReply
  <2>4. CASE expired' /\ ~expired
    <3>1. PICK i \in 1..Len(cache) :
             Old(cache[i]) /\ Waiting /\ cache[i].msg.of = request.msg.of
      BY <2>1, <2>4
    <3> DEFINE a == cache[i].age
               d == Debt(device, toDevice, request.msg.of)
               c == ReplyComing(host, toHost, request.msg.of)
    <3>2. InTime(a, faults, late, c, d)
      BY <3>1 DEF RInv, FreshReply
    <3>3. a \in Nat /\ d \in Nat
      BY FreshFacts
    <3>4. a > CacheLife
      BY <3>1 DEF Old
    <3> HIDE DEF a, d, c
    <3>5. late > CacheLife \/ 2 * (faults - 1) + late >= CacheLife
      BY <1>1, <1>2, <3>2, <3>3, <3>4 DEF InTime
    <3> QED BY <2>2, <3>5 DEF RetriesKeepReply
  <2>5. CASE ~expired'
    BY <2>5 DEF RetriesKeepReply
  <2> QED BY <2>3, <2>4, <2>5
<1>4. ASSUME ~PurgeCache PROVE RetriesKeepReply'
  <2>1. /\ expired' = expired
        /\ faults' = faults \/ faults' = faults + 1
        /\ late' = late \/ late' = late + 1
    <3>1. CASE DeviceStep
      BY <3>1 DEF DeviceStep, DeviceSync, DeviceHeader, DeviceBadHeader, DevicePart,
                  DeviceBadPayload, ProcessReply, Retransmit, ProcessRequest
    <3>2. CASE HostStep
      BY <3>2, HostSends
    <3>3. CASE Time
      BY <3>3 DEF Time, Retry, Cancel, Pass, TimePasses, Fault
    <3>4. CASE Faulty
      BY <3>4 DEF Faulty, DeviceNoBuffer, DevicePayloadTimeout, LoseToDevice,
                  LoseToHost, ProcessRequestNoMemory, ProcessRequestNoPort, Fault
    <3>5. CASE \E x \in Cmd : AsyncRequest(x)
      BY <3>5 DEF AsyncRequest
    <3>6. CASE UNCHANGED vars
      BY <3>6 DEF vars
    <3> QED BY <1>4, <3>1, <3>2, <3>3, <3>4, <3>5, <3>6 DEF Next
  <2>2. ASSUME late > CacheLife \/ 2 * (faults - 1) + late >= CacheLife
        PROVE  late' > CacheLife \/ 2 * (faults' - 1) + late' >= CacheLife
    <3>1. faults' >= faults /\ late' >= late
      BY <1>1, <2>1
    <3> QED BY <1>1, <1>2, <2>2, <3>1, LateEnough
  <2> QED BY <2>1, <2>2 DEF RInv, RetriesKeepReply
<1> QED BY <1>3, <1>4

LEMMA InitRInv == Init => RInv
<1> SUFFICES ASSUME Init PROVE RInv
  OBVIOUS
<1>1. /\ toDevice = <<>> /\ toHost = <<>> /\ Len(<<>>) = 0
      /\ device = PrepareReception /\ host = PrepareReception
      /\ expired = FALSE /\ ~Waiting
  BY DEF Init, Waiting
<1>2. Missing(device, toDevice) = 0
  BY <1>1 DEF Missing, Swallowed, PrepareReception
<1>3. Whole(toDevice, Len(toDevice)) /\ Whole(toHost, Len(toHost))
  BY <1>1 DEF Whole
<1>4. Aligned(host, toHost, Len(toHost))
  BY <1>1 DEF Aligned, PrepareReception
<1> QED BY <1>1, <1>2, <1>3, <1>4 DEF RInv, CleanLine, FreshReply, RetriesKeepReply

\* While the host goes on asking for the reply to its request, the device does
\* not purge it for its age (PurgeCache, 3 s), unless the host was late or
\* there were faults enough: for any numbers of requests, retries and faults,
\* any sizes of the messages and any life of the cache.
THEOREM ReplyStaysFresh == Spec => []RetriesKeepReply
<1>1. IInv /\ RInv /\ [Next]_vars => RInv'
  BY WholeStep, CleanStep, FreshStep, ExpiredStep DEF RInv
<1>2. RInv => RetriesKeepReply
  BY DEF RInv
<1> QED BY <1>1, <1>2, InitRInv, SpecIInv, PTL DEF Spec

=============================================================================
