----------------------------- MODULE IrpcProofs -----------------------------
(***************************************************************************)
(* Messages and calls for any number of processes, messages and calls: the *)
(* types, that nothing is forgotten in a queue (QueuesWatched), the order  *)
(* of messages (InOrder) and whose answer a call gets (OwnAnswer).         *)
(***************************************************************************)
EXTENDS IrpcInv, SubsequenceProofs

(* Sets of numbers *)

\* The lowest number that is not used.
LEMMA LowestFree ==
    ASSUME NEW U \in SUBSET Nat, IsFiniteSet(U)
    PROVE  \E i \in 0 .. Cardinality(U) : i \notin U /\ \A j \in 0 .. i - 1 : j \in U
<1>0. Cardinality(U) \in Nat
  BY FS_CardinalityType
<1>1. PICK n \in Nat : n = Cardinality(U)
  BY <1>0
<1>2. ~(0 .. n \subseteq U)
  <2> SUFFICES ASSUME 0 .. n \subseteq U
               PROVE  FALSE
    OBVIOUS
  <2>1. Cardinality(0 .. n) <= Cardinality(U)
    BY FS_Subset
  <2>2. Cardinality(0 .. n) = n + 1
    BY FS_Interval
  <2> QED
    BY <1>1, <2>1, <2>2
<1>3. PICK x \in Nat \ U : \A y \in Nat \ U : x <= y
  <2>1. (Nat \ U) \in SUBSET Nat /\ (Nat \ U) # {}
    BY <1>2
  <2> QED
    BY <2>1, LeastNat
<1>4. \A j \in 0 .. x - 1 : j \in U
  BY <1>3
<1>5. x <= n
  BY <1>2, <1>3
<1> QED
  BY <1>1, <1>3, <1>4, <1>5

\* The greatest number up to n of a set that has 0.
LEMMA GreatestUpTo ==
    ASSUME NEW n \in Nat, NEW T \in SUBSET Nat, 0 \in T
    PROVE  \E k \in 0 .. n : k \in T /\ \A j \in k + 1 .. n : j \notin T
<1> DEFINE D == {j \in Nat : j <= n /\ n - j \in T}
<1>1. D \in SUBSET Nat /\ n \in D
  OBVIOUS
<1>2. PICK x \in D : \A y \in D : x <= y
  <2> HIDE DEF D
  <2> QED
    BY <1>1, LeastNat
<1>3. n - x \in 0 .. n /\ n - x \in T
  BY <1>2
<1>4. ASSUME NEW j \in (n - x) + 1 .. n, j \in T
      PROVE  FALSE
  <2>1. n - j \in Nat /\ n - j <= n /\ n - (n - j) = j
    BY <1>2, <1>4
  <2>2. n - j \in D
    BY <1>4, <2>1
  <2> QED
    BY <1>2, <1>4, <2>2
<1> QED
  BY <1>3, <1>4

-----------------------------------------------------------------------------
(* Packets *)

\* The body of a request or a reply has an id and a call.
LEMMA CallBody ==
    ASSUME NEW b \in Body, b.kind \in {"request", "reply"}
    PROVE  b \in [kind: {"request", "reply"}, callid: Nat, of: Call] /\ b.callid \in Nat /\ b.of \in Call
BY DEF Body

\* irpc_send_reply turns the body of a request into that of its reply.
LEMMA ReplyBody ==
    ASSUME NEW b \in Body, b.kind = "request"
    PROVE  LET y == [b EXCEPT !.kind = "reply"]
           IN  y \in Body /\ y.kind = "reply" /\ y.of = b.of /\ y.callid = b.callid
<1>1. b \in [kind: {"request", "reply"}, callid: Nat, of: Call]
  BY CallBody
<1> QED
  BY <1>1 DEF Body

\* What is kept of a request that is still to be answered.
LEMMA AskedBody ==
    ASSUME NEW x \in Asked
    PROVE  x.from \in Proc /\ x.body \in Body /\ x.body.kind = "request"
BY DEF Asked, Body

\* The fields of a packet.
LEMMA PacketFields ==
    ASSUME NEW m \in Packet
    PROVE  /\ m.from \in Proc /\ m.to \in Proc /\ m.body \in Body /\ m.n \in Nat /\ m.late \in BOOLEAN
           /\ m.retries \in 0 .. Tries + 1
BY DEF Packet

\* A new message of p.
New(p, q, b, m) ==
    m \in Packet /\ m.from = p /\ m.to = q /\ m.body = b /\ m.n = sent[p] + 1 /\ m.late = FALSE

\* The record that messaging_send makes is the next message of its sender.
LEMMA MessageIsNew ==
    ASSUME sent \in [Proc -> Nat], NEW p \in Proc, NEW q \in Proc, NEW b \in Body
    PROVE  New(p, q, b, Message(p, q, b))
BY MessagingAssumption DEF New, Message, Packet

\* A message that was tried once more, and that is backed off.
LEMMA TriedPacket ==
    ASSUME NEW m \in Packet
    PROVE  LET y == [m EXCEPT !.retries = Min({m.retries, Tries}) + 1]
           IN  /\ y \in Packet /\ y.from = m.from /\ y.to = m.to /\ y.body = m.body /\ y.n = m.n
               /\ y.late = m.late
<1>1. m.retries \in Nat /\ Tries \in Nat
  BY MessagingAssumption DEF Packet
<1>2. Min({m.retries, Tries}) \in {m.retries, Tries} /\ Min({m.retries, Tries}) <= Tries
  BY <1>1, MinNat
<1>3. Min({m.retries, Tries}) + 1 \in 0 .. Tries + 1
  BY <1>1, <1>2
<1> HIDE DEF Min
<1> QED
  BY <1>3 DEF Packet

\* A message that is backed off stays the same message, and is marked.
LEMMA LatePacket ==
    ASSUME NEW m \in Packet
    PROVE  LET y == [m EXCEPT !.late = TRUE]
           IN  /\ y \in Packet /\ y.from = m.from /\ y.to = m.to /\ y.body = m.body /\ y.n = m.n
               /\ y.late = TRUE
BY DEF Packet

-----------------------------------------------------------------------------
(* What the operations of Messaging do to the queues *)

Queued == [Proc -> Seq(Packet)]

\* What the invariants look at, apart from being late, is the same.
Alike(a, b) == a.from = b.from /\ a.to = b.to /\ a.body = b.body /\ a.n = b.n

\* The queue t is s without its first k messages.
Shifted(t, s, k) ==
    /\ t \in Seq(Packet) /\ Len(t) = Len(s) - k
    /\ \A i \in DOMAIN t : i + k \in DOMAIN s /\ Alike(t[i], s[i + k]) /\ t[i].late = s[i + k].late

Sends(p, q, m, sock) ==
    /\ sent' = [sent EXCEPT ![p] = @ + 1]
    /\ UNCHANGED <<retry_queue, retry_te>>
    /\ \/ socket' = sock /\ UNCHANGED <<pending, writeable>>
       \/ /\ pending[p] = <<>> /\ Len(sock[q]) < Cap
          /\ socket' = [sock EXCEPT ![q] = Append(@, m)] /\ UNCHANGED <<pending, writeable>>
       \/ /\ socket' = sock /\ pending' = [pending EXCEPT ![p] = Append(@, m)]
          /\ \/ pending[p] # <<>> /\ UNCHANGED writeable
             \/ writeable' = [writeable EXCEPT ![p] = TRUE]

Took(p) ==
    /\ socket[p] # <<>> /\ socket' = Taken(p)
    /\ UNCHANGED <<pending, retry_queue, retry_te, writeable, sent>>

\* The first k messages of p have left its queue; the next one is tried again or
\* backed off.
PutOut(p, k) ==
    /\ k \in 0 .. Len(pending[p]) /\ UNCHANGED sent
    /\ socket' \in Queued /\ pending' \in Queued /\ retry_queue' \in Queued
    /\ \A q \in Proc : Len(socket'[q]) <= Cap
    /\ \A q \in Proc : \E t \in Seq(Packet) : \E I \in SUBSET Into(p, k, q) :
          socket'[q] = socket[q] \o t /\ Keeps(t, pending[p], I)
    /\ \A q \in Proc : q # p => pending'[q] = pending[q] /\ retry_queue'[q] = retry_queue[q]
    /\ \/ Shifted(pending'[p], pending[p], k) /\ retry_queue'[p] = retry_queue[p]
       \/ /\ k < Len(pending[p]) /\ Shifted(pending'[p], pending[p], k + 1)
          /\ \E y \in Packet : /\ retry_queue'[p] = Append(retry_queue[p], y)
                               /\ Alike(y, pending[p][k + 1]) /\ y.late = TRUE

Requeued(p) ==
    /\ pending' = [pending EXCEPT ![p] = @ \o retry_queue[p]]
    /\ retry_queue' = [retry_queue EXCEPT ![p] = <<>>]
    /\ UNCHANGED <<socket, sent>>

Vanished(p) ==
    /\ socket' = [socket EXCEPT ![p] = <<>>]
    /\ pending' = [pending EXCEPT ![p] = <<>>]
    /\ retry_queue' = [retry_queue EXCEPT ![p] = <<>>]
    /\ UNCHANGED sent

\* What messaging_send does to the queues and flags.
LEMMA SendSends ==
    ASSUME TypeOK, NEW p \in Proc, NEW q \in Proc, NEW b, NEW sock \in Queued,
           messaging_send(p, q, b, sock)
    PROVE  Sends(p, q, Message(p, q, b), sock)
<1> DEFINE m == Message(p, q, b)
           status == SendStatus(p, q, sock)
<1>0. writeable \in [Proc -> BOOLEAN] /\ pending \in Queued
  BY DEF TypeOK, Queued
<1>1. /\ sent' = [sent EXCEPT ![p] = @ + 1] /\ UNCHANGED <<retry_queue, retry_te>>
      /\ status = "ok" => socket' = [sock EXCEPT ![q] = Append(@, m)]
      /\ status # "ok" => socket' = sock
      /\ status = "full" => pending' = [pending EXCEPT ![p] = Append(@, m)]
      /\ status # "full" => pending' = pending
      /\ writeable' = [writeable EXCEPT ![p] = @ \/ (status = "full" /\ pending[p] = <<>>)]
  BY DEF messaging_send
<1> HIDE DEF m
<1>2. status = "ok" => pending[p] = <<>> /\ Len(sock[q]) < Cap
  BY MessagingAssumption DEF SendStatus, try_send, Queued
<1> HIDE DEF status
<1>3. CASE status = "full" /\ pending[p] = <<>>
  <2>1. writeable' = [writeable EXCEPT ![p] = TRUE]
    BY <1>0, <1>1, <1>3, Zenon
  <2> QED
    BY <1>1, <1>3, <2>1 DEF Sends, m
<1>4. CASE ~(status = "full" /\ pending[p] = <<>>)
  <2>1. \A w \in BOOLEAN : (w \/ (status = "full" /\ pending[p] = <<>>)) = w
    BY <1>4
  <2>2. writeable' = [writeable EXCEPT ![p] = writeable[p]]
    BY <1>0, <1>1, <2>1, Zenon
  <2>3. writeable' = writeable
    BY <1>0, <2>2
  <2> QED
    BY <1>1, <1>2, <1>4, <2>3 DEF Sends, m
<1> QED
  BY <1>3, <1>4

\* messaging_recv_handler takes one packet and leaves the other queues alone.
LEMMA TakeTakes ==
    ASSUME NEW p \in Proc, socket[p] # <<>>, Take(p)
    PROVE  Took(p)
BY DEF Take, Took

\* As many messages go out as the sockets hold.
LEMMA GoOutFits ==
    ASSUME TypeOK, NEW p \in Proc
    PROVE  /\ GoOut(p) \in 0 .. Len(pending[p])
           /\ \A q \in up : Len(socket[q]) + Cardinality(Into(p, GoOut(p), q)) <= Cap
<1> DEFINE fits(k) == \A q \in up : Len(socket[q]) + Cardinality(Into(p, k, q)) <= Cap
           n == Len(pending[p])
           T == {k \in Nat : fits(k)}
<1>0. n \in Nat
  BY DEF TypeOK
<1>1. fits(0)
  <2> SUFFICES ASSUME NEW q \in up
               PROVE  Len(socket[q]) + Cardinality(Into(p, 0, q)) <= Cap
    OBVIOUS
  <2>1. Len(socket[q]) <= Cap /\ Len(socket[q]) \in Nat
    BY DEF TypeOK
  <2>2. Into(p, 0, q) = {}
    BY DEF Into
  <2>3. Cardinality(Into(p, 0, q)) = 0
    BY <2>2, FS_EmptySet
  <2> QED
    BY <2>1, <2>3
<1>2. T \in SUBSET Nat /\ 0 \in T
  BY <1>1
<1>3. \E k \in 0 .. n : k \in T /\ \A j \in k + 1 .. n : j \notin T
  <2> HIDE DEF T, n
  <2> QED
    BY <1>0, <1>2, GreatestUpTo
<1>4. \E k \in 0 .. n : fits(k) /\ \A j \in k + 1 .. n : ~ fits(j)
  <2>1. PICK k \in 0 .. n : k \in T /\ \A j \in k + 1 .. n : j \notin T
    BY <1>3
  <2>2. \A j \in k + 1 .. n : ~fits(j)
    <3> TAKE j \in k + 1 .. n
    <3>1. j \in Nat
      BY <1>0, <2>1
    <3> QED
      BY <2>1, <3>1
  <2> QED
    BY <2>1, <2>2
<1>5. GoOut(p) = CHOOSE k \in 0 .. n : fits(k) /\ \A j \in k + 1 .. n : ~ fits(j)
  BY DEF GoOut
<1> HIDE DEF fits
<1>6. GoOut(p) \in 0 .. n /\ fits(GoOut(p))
  BY <1>4, <1>5
<1> QED
  BY <1>6 DEF fits

\* The sockets without the first packet of p.
LEMMA TakenQueues ==
    ASSUME TypeOK, NEW p \in Proc, socket[p] # <<>>
    PROVE  /\ Taken(p) \in Queued /\ Shifted(Taken(p)[p], socket[p], 1)
           /\ \A q \in Proc : Len(Taken(p)[q]) <= Cap /\ (q # p => Taken(p)[q] = socket[q])
<1>0. socket \in Queued /\ \A q \in Proc : Len(socket[q]) <= Cap /\ Len(socket[q]) \in Nat
  BY DEF TypeOK, Queued
<1>1. socket[p] \in Seq(Packet)
  BY <1>0 DEF Queued
<1>2. /\ Tail(socket[p]) \in Seq(Packet) /\ Len(Tail(socket[p])) = Len(socket[p]) - 1
      /\ \A i \in 1 .. Len(socket[p]) - 1 : Tail(socket[p])[i] = socket[p][i + 1]
  BY <1>1
<1>3. Shifted(Tail(socket[p]), socket[p], 1)
  BY <1>1, <1>2 DEF Shifted, Alike
<1>4. /\ Taken(p) \in Queued /\ Taken(p)[p] = Tail(socket[p])
      /\ \A q \in Proc : q # p => Taken(p)[q] = socket[q]
  BY <1>0, <1>2 DEF Taken, Queued
<1>5. Len(Taken(p)[p]) <= Cap
  BY <1>0, <1>2, <1>4, MessagingAssumption
<1> QED
  BY <1>0, <1>3, <1>4, <1>5

\* What is left of a queue, with the first message of it tried once more.
LEMMA RestQueue ==
    ASSUME NEW s \in Seq(Packet), NEW k \in 0 .. Len(s)
    PROVE  LET rest == SubSeq(s, k + 1, Len(s))
               tried == [Head(rest) EXCEPT !.retries = Min({@, Tries}) + 1]
           IN  /\ rest = <<>> => Shifted(<<>>, s, k) /\ k = Len(s)
               /\ rest # <<>> =>
                    /\ k < Len(s) /\ tried \in Packet /\ Alike(tried, s[k + 1])
                    /\ tried.late = s[k + 1].late
                    /\ Shifted(<<tried>> \o Tail(rest), s, k)
                    /\ Shifted(Tail(rest), s, k + 1)
<1> DEFINE rest == SubSeq(s, k + 1, Len(s))
           tried == [Head(rest) EXCEPT !.retries = Min({@, Tries}) + 1]
<1>1. /\ rest \in Seq(Packet) /\ Len(rest) = Len(s) - k
      /\ \A i \in 1 .. Len(s) - k : rest[i] = s[i + k]
  OBVIOUS
<1>2. ASSUME rest = <<>>
      PROVE  Shifted(<<>>, s, k) /\ k = Len(s)
  <2>1. Len(s) - k = 0
    BY <1>1, <1>2
  <2> QED
    BY <2>1 DEF Shifted
<1>3. ASSUME rest # <<>>
      PROVE  /\ k < Len(s) /\ tried \in Packet /\ Alike(tried, s[k + 1])
             /\ tried.late = s[k + 1].late
             /\ Shifted(<<tried>> \o Tail(rest), s, k)
             /\ Shifted(Tail(rest), s, k + 1)
  <2> HIDE DEF rest
  <2>1. k < Len(s) /\ Head(rest) \in Packet /\ Head(rest) = s[k + 1] /\ k + 1 \in DOMAIN s
    BY <1>1, <1>3
  <2>2. PICK h \in Packet : h = Head(rest)
    BY <2>1
  <2>3. tried = [h EXCEPT !.retries = Min({h.retries, Tries}) + 1]
    BY <2>2
  <2>4. tried \in Packet /\ Alike(tried, h) /\ tried.late = h.late
    BY <2>3, TriedPacket DEF Alike
  <2>5. tried \in Packet /\ Alike(tried, s[k + 1]) /\ tried.late = s[k + 1].late
    BY <2>1, <2>2, <2>4
  <2> HIDE DEF tried
  <2>6. /\ Tail(rest) \in Seq(Packet) /\ Len(Tail(rest)) = Len(s) - (k + 1)
        /\ \A i \in 1 .. Len(s) - (k + 1) : Tail(rest)[i] = s[i + (k + 1)]
    BY <1>1, <2>1
  <2>7. Shifted(Tail(rest), s, k + 1)
    <3>1. ASSUME NEW i \in DOMAIN Tail(rest)
          PROVE  i + (k + 1) \in DOMAIN s /\ Tail(rest)[i] = s[i + (k + 1)]
      <4>1. i \in 1 .. Len(s) - (k + 1)
        BY <2>6, <3>1
      <4>2. i + (k + 1) \in DOMAIN s
        BY <2>1, <4>1
      <4>3. Tail(rest)[i] = s[i + (k + 1)]
        BY <2>6, <4>1, Zenon
      <4> QED
        BY <4>2, <4>3
    <3> QED
      BY <2>6, <3>1 DEF Shifted, Alike
  <2> DEFINE t == <<tried>> \o Tail(rest)
  <2>8. /\ t \in Seq(Packet) /\ Len(t) = Len(s) - k
        /\ t[1] = tried /\ \A i \in 2 .. Len(s) - k : t[i] = s[i + k]
    <3>1. t \in Seq(Packet) /\ Len(t) = Len(s) - k
      BY <2>1, <2>5, <2>6
    <3>2. t[1] = tried
      BY <2>5, <2>6
    <3>3. ASSUME NEW i \in 2 .. Len(s) - k
          PROVE  t[i] = s[i + k]
      <4>1. t[i] = Tail(rest)[i - 1]
        BY <2>5, <2>6, <3>3
      <4>2. i - 1 \in 1 .. Len(s) - (k + 1) /\ (i - 1) + (k + 1) = i + k
        BY <3>3
      <4> QED
        BY <2>6, <4>1, <4>2
    <3> QED
      BY <3>1, <3>2, <3>3
  <2> HIDE DEF t
  <2>9. Shifted(t, s, k)
    <3>1. ASSUME NEW i \in DOMAIN t
          PROVE  i + k \in DOMAIN s /\ Alike(t[i], s[i + k]) /\ t[i].late = s[i + k].late
      <4>1. i \in 1 .. Len(s) - k /\ i + k \in DOMAIN s
        BY <2>8, <3>1
      <4>2. CASE i = 1
        <5>1. i + k = k + 1
          BY <4>2
        <5> QED
          BY <2>5, <2>8, <4>1, <4>2, <5>1
      <4>3. CASE i # 1
        BY <2>8, <4>1, <4>3 DEF Alike
      <4> QED
        BY <4>2, <4>3
    <3> QED
      BY <2>8, <3>1 DEF Shifted
  <2> QED
    BY <2>1, <2>5, <2>7, <2>9 DEF t
<1> QED
  BY <1>2, <1>3

\* What messaging_send_handler adds to a socket is a part of the queue of p,
\* in its order, and no more than fits.
LEMMA SentOutQueues ==
    ASSUME TypeOK, NEW p \in Proc, NEW k \in 0 .. Len(pending[p]),
           \A q \in up : Len(socket[q]) + Cardinality(Into(p, k, q)) <= Cap
    PROVE  /\ SentOut(p, k) \in Queued
           /\ \A q \in Proc : Len(SentOut(p, k)[q]) <= Cap
           /\ \A q \in Proc : \E t \in Seq(Packet) : \E I \in SUBSET Into(p, k, q) :
                 SentOut(p, k)[q] = socket[q] \o t /\ Keeps(t, pending[p], I)
<1>0. /\ socket \in Queued /\ pending[p] \in Seq(Packet) /\ \A q \in Proc : Len(socket[q]) <= Cap
      /\ up \subseteq Proc /\ \A q \in Proc : socket[q] \in Seq(Packet)
  BY DEF TypeOK, Queued
<1>1. ASSUME NEW q \in Proc
      PROVE  /\ SentOut(p, k)[q] \in Seq(Packet) /\ Len(SentOut(p, k)[q]) <= Cap
             /\ \E t \in Seq(Packet) : \E I \in SUBSET Into(p, k, q) :
                   SentOut(p, k)[q] = socket[q] \o t /\ Keeps(t, pending[p], I)
  <2>1. CASE q \in up
    <3> DEFINE I == Into(p, k, q)
               t == Subsequence(pending[p], I)
    <3>1. I \in SUBSET DOMAIN pending[p]
      BY <1>0 DEF Into
    <3>2. t \in Seq(Packet) /\ Len(t) = Cardinality(I) /\ Keeps(t, pending[p], I)
      <4> HIDE DEF I
      <4> QED
        BY <1>0, <3>1, SubsequenceKeeps
    <3>3. SentOut(p, k)[q] = socket[q] \o t
      BY <2>1 DEF SentOut
    <3>4. Len(socket[q]) + Len(t) <= Cap
      BY <2>1, <3>2
    <3> HIDE DEF t
    <3>5. SentOut(p, k)[q] \in Seq(Packet) /\ Len(SentOut(p, k)[q]) = Len(socket[q]) + Len(t)
      <4>1. \A u, v \in Seq(Packet) : u \o v \in Seq(Packet) /\ Len(u \o v) = Len(u) + Len(v)
        OBVIOUS
      <4> QED
        BY <1>0, <3>2, <3>3, <4>1
    <3> QED
      BY <3>2, <3>3, <3>4, <3>5
  <2>2. CASE q \notin up
    <3>1. SentOut(p, k)[q] = socket[q]
      BY <2>2 DEF SentOut
    <3>2. socket[q] = socket[q] \o <<>> /\ <<>> \in Seq(Packet) /\ {} \in SUBSET Into(p, k, q)
      BY <1>0
    <3>3. Keeps(<<>>, pending[p], {})
      <4>1. KeptFrom([n \in {} |-> n], <<>>, pending[p], {})
        BY DEF KeptFrom
      <4> QED
        BY <4>1 DEF Keeps
    <3> QED
      BY <1>0, <3>1, <3>2, <3>3
  <2> QED
    BY <2>1, <2>2
<1>2. SentOut(p, k) \in Queued
  <2>1. SentOut(p, k) = [q \in Proc |-> SentOut(p, k)[q]]
    BY DEF SentOut
  <2> QED
    BY <1>1, <2>1 DEF Queued
<1> QED
  BY <1>1, <1>2

\* What messaging_send_handler does to the queues, and which events it asks
\* for.
LEMMA HandlerPutsOut ==
    ASSUME TypeOK, NEW p \in Proc, messaging_send_handler(p)
    PROVE  /\ \E k \in 0 .. Len(pending[p]) : PutOut(p, k)
           /\ writeable' = [writeable EXCEPT ![p] = (pending'[p] # <<>>)]
           /\ \E b \in BOOLEAN : /\ retry_te' = [retry_te EXCEPT ![p] = @ \/ b]
                                 /\ ~b => UNCHANGED retry_queue
<1>0. pending \in Queued /\ retry_queue \in Queued /\ pending[p] \in Seq(Packet)
      /\ retry_queue[p] \in Seq(Packet)
  BY DEF TypeOK, Queued
<1>1. PICK k \in 0 .. Len(pending[p]) :
          k = GoOut(p) /\ \A q \in up : Len(socket[q]) + Cardinality(Into(p, k, q)) <= Cap
  BY GoOutFits
<1> DEFINE s == pending[p]
           rest == SubSeq(s, k + 1, Len(s))
           tried == [Head(rest) EXCEPT !.retries = Min({@, Tries}) + 1]
           backoff == rest # <<>> /\ tried.retries > Tries
<1>2. /\ socket' = SentOut(p, k) /\ UNCHANGED sent
      /\ pending' = [pending EXCEPT ![p] =
            IF rest = <<>> THEN <<>> ELSE IF backoff THEN Tail(rest) ELSE <<tried>> \o Tail(rest)]
      /\ retry_queue' = [retry_queue EXCEPT ![p] =
            IF backoff THEN Append(@, [tried EXCEPT !.late = TRUE]) ELSE @]
      /\ retry_te' = [retry_te EXCEPT ![p] = @ \/ backoff]
      /\ writeable' = [writeable EXCEPT ![p] = (pending'[p] # <<>>)]
  BY <1>1 DEF messaging_send_handler
<1>3. /\ rest = <<>> => Shifted(<<>>, s, k) /\ k = Len(s)
      /\ rest # <<>> => /\ k < Len(s) /\ tried \in Packet /\ Alike(tried, s[k + 1])
                        /\ Shifted(<<tried>> \o Tail(rest), s, k) /\ Shifted(Tail(rest), s, k + 1)
  BY <1>0, RestQueue
<1>4. backoff \in BOOLEAN /\ (backoff => rest # <<>>)
  OBVIOUS
<1> HIDE DEF backoff, rest, tried
<1>5. /\ SentOut(p, k) \in Queued /\ \A q \in Proc : Len(SentOut(p, k)[q]) <= Cap
      /\ \A q \in Proc : \E t \in Seq(Packet) : \E I \in SUBSET Into(p, k, q) :
            SentOut(p, k)[q] = socket[q] \o t /\ Keeps(t, pending[p], I)
  BY <1>1, SentOutQueues
<1>6. CASE backoff
  <2>1. /\ pending' = [pending EXCEPT ![p] = Tail(rest)]
        /\ retry_queue' = [retry_queue EXCEPT ![p] = Append(@, [tried EXCEPT !.late = TRUE])]
    BY <1>2, <1>4, <1>6
  <2>2. PICK y \in Packet : y = [tried EXCEPT !.late = TRUE] /\ Alike(y, tried) /\ y.late = TRUE
    BY <1>3, <1>4, <1>6, LatePacket DEF Alike
  <2>3. Append(retry_queue[p], y) \in Seq(Packet) /\ Tail(rest) \in Seq(Packet)
        /\ Shifted(Tail(rest), s, k + 1) /\ k < Len(s) /\ Alike(tried, s[k + 1])
    BY <1>0, <1>3, <1>4, <1>6 DEF Shifted
  <2>4. /\ pending' \in Queued /\ retry_queue' \in Queued
        /\ pending'[p] = Tail(rest) /\ retry_queue'[p] = Append(retry_queue[p], y)
        /\ \A q \in Proc : q # p => pending'[q] = pending[q] /\ retry_queue'[q] = retry_queue[q]
    BY <1>0, <2>1, <2>2, <2>3 DEF Queued
  <2>5. Alike(y, pending[p][k + 1])
    BY <2>2, <2>3 DEF Alike
  <2>6. PutOut(p, k)
    BY <1>2, <1>5, <2>2, <2>3, <2>4, <2>5 DEF PutOut
  <2> QED
    BY <1>1, <1>2, <1>4, <1>6, <2>6
<1>7. CASE ~backoff
  <2>1. retry_queue' = retry_queue
    BY <1>0, <1>2, <1>7 DEF Queued
  <2>2. Shifted(pending'[p], s, k) /\ \A q \in Proc : q # p => pending'[q] = pending[q]
    <3>1. pending'[p] = IF rest = <<>> THEN <<>> ELSE <<tried>> \o Tail(rest)
      BY <1>0, <1>2, <1>7 DEF Queued
    <3>2. \A q \in Proc : q # p => pending'[q] = pending[q]
      BY <1>0, <1>2 DEF Queued
    <3>3. Shifted(pending'[p], s, k)
      BY <1>3, <3>1
    <3> QED
      BY <3>2, <3>3
  <2>3. pending' \in Queued
    <3>1. pending'[p] \in Seq(Packet)
      BY <2>2 DEF Shifted
    <3>2. pending' = [q \in Proc |-> pending'[q]]
      BY <1>0, <1>2 DEF Queued
    <3>3. \A q \in Proc : pending'[q] \in Seq(Packet)
      BY <1>0, <2>2, <3>1 DEF Queued
    <3> QED
      BY <3>2, <3>3 DEF Queued
  <2>4. PutOut(p, k)
    BY <1>0, <1>2, <1>5, <2>1, <2>2, <2>3 DEF PutOut
  <2> QED
    BY <1>1, <1>2, <1>4, <2>1, <2>4
<1> QED
  BY <1>6, <1>7

-----------------------------------------------------------------------------
(* Types of the queues *)

TypedQueues ==
    /\ socket \in Queued /\ \A p \in Proc : Len(socket[p]) <= Cap
    /\ pending \in Queued /\ retry_queue \in Queued /\ sent \in [Proc -> Nat]

TypedFlags == retry_te \in [Proc -> BOOLEAN] /\ writeable \in [Proc -> BOOLEAN]

\* messaging_send keeps the types, and asks for write events when it queues
\* the first message.
LEMMA SendsTyped ==
    ASSUME TypeOK, QueuesWatched, NEW p \in Proc, NEW q \in Proc, NEW m \in Packet,
           NEW sock \in Queued, \A r \in Proc : Len(sock[r]) <= Cap, Sends(p, q, m, sock)
    PROVE  TypedQueues' /\ TypedFlags' /\ QueuesWatched'
<1>0. /\ pending \in Queued /\ retry_queue \in Queued /\ sent \in [Proc -> Nat]
      /\ pending[p] \in Seq(Packet) /\ sock[q] \in Seq(Packet)
      /\ retry_te \in [Proc -> BOOLEAN] /\ writeable \in [Proc -> BOOLEAN]
  BY DEF TypeOK, Queued
<1>1. /\ sent' \in [Proc -> Nat] /\ retry_queue' = retry_queue /\ retry_te' = retry_te
  BY <1>0 DEF Sends
<1>2. CASE socket' = sock /\ UNCHANGED <<pending, writeable>>
  BY <1>0, <1>1, <1>2 DEF TypedQueues, TypedFlags, QueuesWatched
<1>3. CASE /\ Len(sock[q]) < Cap /\ socket' = [sock EXCEPT ![q] = Append(@, m)]
           /\ UNCHANGED <<pending, writeable>>
  <2>1. Append(sock[q], m) \in Seq(Packet) /\ Len(Append(sock[q], m)) <= Cap
    BY <1>0, <1>3, MessagingAssumption
  <2>2. socket' \in Queued /\ \A r \in Proc : Len(socket'[r]) <= Cap
    BY <1>3, <2>1 DEF Queued
  <2> QED
    BY <1>0, <1>1, <1>3, <2>2 DEF TypedQueues, TypedFlags, QueuesWatched
<1>4. CASE /\ socket' = sock /\ pending' = [pending EXCEPT ![p] = Append(@, m)]
           /\ pending[p] # <<>> \/ writeable' = [writeable EXCEPT ![p] = TRUE]
           /\ UNCHANGED writeable \/ writeable' = [writeable EXCEPT ![p] = TRUE]
  <2>1. Append(pending[p], m) \in Seq(Packet)
    BY <1>0
  <2>2. pending' \in Queued /\ \A r \in Proc : r # p => pending'[r] = pending[r]
    BY <1>0, <1>4, <2>1 DEF Queued
  <2>3. writeable' \in [Proc -> BOOLEAN]
    BY <1>0, <1>4
  <2>4. \A r \in Proc : r # p => writeable'[r] = writeable[r]
    BY <1>0, <1>4
  <2>5. writeable'[p]
    <3>1. CASE writeable' = [writeable EXCEPT ![p] = TRUE]
      BY <1>0, <3>1
    <3>2. CASE pending[p] # <<>> /\ UNCHANGED writeable
      BY <3>2 DEF QueuesWatched
    <3> QED
      BY <1>4, <3>1, <3>2
  <2>6. QueuesWatched'
    BY <1>1, <2>2, <2>4, <2>5 DEF QueuesWatched
  <2> QED
    BY <1>0, <1>1, <1>4, <2>2, <2>3, <2>6 DEF TypedQueues, TypedFlags
<1> QED
  BY <1>2, <1>3, <1>4 DEF Sends

\* Taking a packet keeps the types and leaves no queue unwatched.
LEMMA TookTyped ==
    ASSUME TypeOK, QueuesWatched, NEW p \in Proc, Took(p)
    PROVE  TypedQueues' /\ TypedFlags' /\ QueuesWatched'
<1>1. Taken(p) \in Queued /\ \A q \in Proc : Len(Taken(p)[q]) <= Cap
  BY TakenQueues DEF Took
<1> QED
  BY <1>1 DEF Took, TypeOK, TypedQueues, TypedFlags, QueuesWatched, Queued

\* messaging_send_handler keeps the types, goes on watching while messages are
\* left, and sets the timer for what it backs off.
LEMMA PutOutTyped ==
    ASSUME TypeOK, QueuesWatched, NEW p \in Proc, messaging_send_handler(p)
    PROVE  TypedQueues' /\ TypedFlags' /\ QueuesWatched'
<1>0. /\ retry_queue \in Queued /\ sent \in [Proc -> Nat]
      /\ retry_te \in [Proc -> BOOLEAN] /\ writeable \in [Proc -> BOOLEAN]
  BY DEF TypeOK, Queued
<1>1. PICK k \in 0 .. Len(pending[p]) : PutOut(p, k)
  BY HandlerPutsOut
<1>2. TypedQueues'
  BY <1>0, <1>1 DEF PutOut, TypedQueues
<1>3. writeable' = [writeable EXCEPT ![p] = (pending'[p] # <<>>)]
  BY HandlerPutsOut
<1>4. PICK b \in BOOLEAN : /\ retry_te' = [retry_te EXCEPT ![p] = @ \/ b]
                           /\ ~b => UNCHANGED retry_queue
  BY HandlerPutsOut
<1>5. writeable' \in [Proc -> BOOLEAN] /\ \A q \in Proc : q # p => writeable'[q] = writeable[q]
  BY <1>0, <1>3
<1>6. pending'[p] # <<>> => writeable'[p]
  BY <1>0, <1>3
<1>7. retry_te' \in [Proc -> BOOLEAN] /\ \A q \in Proc : q # p => retry_te'[q] = retry_te[q]
  BY <1>0, <1>4
<1>8. retry_queue'[p] # <<>> => retry_te'[p]
  <2>1. CASE b
    BY <1>0, <1>4, <2>1, Zenon
  <2>2. CASE ~b
    <3>1. retry_queue'[p] = retry_queue[p]
      BY <1>4, <2>2
    <3>2. retry_te[p] => retry_te'[p]
      BY <1>0, <1>4, Zenon
    <3> QED
      BY <3>1, <3>2 DEF QueuesWatched
  <2> QED
    BY <2>1, <2>2
<1>9. \A q \in Proc : q # p => pending'[q] = pending[q] /\ retry_queue'[q] = retry_queue[q]
  BY <1>1 DEF PutOut
<1>10. QueuesWatched'
  BY <1>5, <1>6, <1>7, <1>8, <1>9 DEF QueuesWatched
<1> QED
  BY <1>2, <1>5, <1>7, <1>10 DEF TypedFlags

\* msg_retry_timer keeps the types, and asks for write events for what it puts
\* back.
LEMMA RequeuedTyped ==
    ASSUME TypeOK, QueuesWatched, NEW p \in Proc, msg_retry_timer(p)
    PROVE  TypedQueues' /\ TypedFlags' /\ QueuesWatched' /\ Requeued(p)
<1>0. /\ pending \in Queued /\ retry_queue \in Queued /\ sent \in [Proc -> Nat]
      /\ pending[p] \in Seq(Packet) /\ retry_queue[p] \in Seq(Packet)
      /\ retry_te \in [Proc -> BOOLEAN] /\ writeable \in [Proc -> BOOLEAN]
  BY DEF TypeOK, Queued
<1>1. /\ retry_te' = [retry_te EXCEPT ![p] = FALSE] /\ writeable' = [writeable EXCEPT ![p] = TRUE]
      /\ pending' = [pending EXCEPT ![p] = @ \o retry_queue[p]]
      /\ retry_queue' = [retry_queue EXCEPT ![p] = <<>>] /\ UNCHANGED <<socket, sent>>
  BY DEF msg_retry_timer
<1>2. pending[p] \o retry_queue[p] \in Seq(Packet)
  BY <1>0
<1>3. /\ pending' \in Queued /\ retry_queue' \in Queued /\ retry_queue'[p] = <<>>
      /\ \A q \in Proc : q # p => pending'[q] = pending[q] /\ retry_queue'[q] = retry_queue[q]
  BY <1>0, <1>1, <1>2 DEF Queued
<1>4. /\ TypedFlags' /\ writeable'[p]
      /\ \A q \in Proc : q # p => retry_te'[q] = retry_te[q] /\ writeable'[q] = writeable[q]
  BY <1>0, <1>1 DEF TypedFlags
<1>5. QueuesWatched'
  BY <1>3, <1>4 DEF QueuesWatched
<1>6. TypedQueues'
  BY <1>0, <1>1, <1>3 DEF TypedQueues, TypeOK, Queued
<1> QED
  BY <1>1, <1>4, <1>5, <1>6 DEF Requeued

\* The end of a process keeps the types; its queues are empty.
LEMMA VanishedTyped ==
    ASSUME TypeOK, QueuesWatched, NEW p \in Proc, Gone(p)
    PROVE  TypedQueues' /\ TypedFlags' /\ QueuesWatched' /\ Vanished(p) /\ up' \subseteq Proc
<1>0. /\ pending \in Queued /\ retry_queue \in Queued /\ sent \in [Proc -> Nat] /\ socket \in Queued
      /\ retry_te \in [Proc -> BOOLEAN] /\ writeable \in [Proc -> BOOLEAN]
      /\ \A q \in Proc : Len(socket[q]) <= Cap
  BY DEF TypeOK, Queued
<1>1. /\ Vanished(p) /\ up' \subseteq Proc
      /\ retry_te' = [retry_te EXCEPT ![p] = FALSE] /\ writeable' = [writeable EXCEPT ![p] = FALSE]
  BY DEF Gone, Vanished, TypeOK
<1>2. /\ socket' \in Queued /\ pending' \in Queued /\ retry_queue' \in Queued
      /\ socket'[p] = <<>> /\ pending'[p] = <<>> /\ retry_queue'[p] = <<>>
      /\ \A q \in Proc : q # p => /\ pending'[q] = pending[q] /\ retry_queue'[q] = retry_queue[q]
                                  /\ socket'[q] = socket[q]
  BY <1>0, <1>1 DEF Vanished, Queued
<1>3. /\ TypedFlags'
      /\ \A q \in Proc : q # p => retry_te'[q] = retry_te[q] /\ writeable'[q] = writeable[q]
  BY <1>0, <1>1 DEF TypedFlags
<1>4. QueuesWatched'
  BY <1>2, <1>3 DEF QueuesWatched
<1>5. \A q \in Proc : Len(socket'[q]) <= Cap
  BY <1>0, <1>2, MessagingAssumption
<1> QED
  BY <1>0, <1>1, <1>2, <1>3, <1>4, <1>5 DEF TypedQueues, Vanished

-----------------------------------------------------------------------------
(* What the steps do to the calls *)

MadeCall == [pc: {"sent", "done", "ended"}, from: Proc, callid: Nat, timer: BOOLEAN,
             status: {"none", "ok", "unparsed", "timeout", "failed"}, got: Call \cup {0}]

\* A call that was made has the fields of struct irpc_request.
LEMMA MadeTyped ==
    ASSUME call \in [Call -> CallState], NEW c \in Call
    PROVE  /\ Made(c) <=> call[c] \in MadeCall
           /\ Made(c) <=> call[c].pc # "unmade"
           /\ InFlight(c) => Made(c)
           /\ Made(c) => /\ call[c].pc \in {"sent", "done", "ended"} /\ call[c].from \in Proc
                         /\ call[c].callid \in Nat /\ call[c].got \in Call \cup {0}
                         /\ call[c].status \in {"none", "ok", "unparsed", "timeout", "failed"}
                         /\ call[c].timer \in BOOLEAN
<1>1. call[c] = Unmade \/ call[c] \in MadeCall
  BY DEF CallState, MadeCall
<1>2. Unmade \notin MadeCall /\ Unmade.pc = "unmade" /\ \A y \in MadeCall : y.pc # "unmade"
  BY DEF Unmade, MadeCall
<1> QED
  BY <1>1, <1>2 DEF Made, InFlight, MadeCall

\* The call c has got a new place, status and answer.
Settles(c, pc, status, got) ==
    /\ call' \in [Call -> CallState] /\ call'[c] \in MadeCall
    /\ call'[c].from = call[c].from /\ call'[c].callid = call[c].callid
    /\ call'[c].pc = pc /\ call'[c].status = status /\ call'[c].got = got
    /\ \A d \in Call : d # c => call'[d] = call[d]

\* The call c is made, with an id that no call in flight of its process has.
Makes(c, p, id, pc, status) ==
    /\ call[c] = Unmade /\ \A d \in Call : d < c => Made(d)
    /\ call' \in [Call -> CallState] /\ call'[c] \in MadeCall
    /\ call'[c].from = p /\ call'[c].callid = id
    /\ call'[c].pc = pc /\ call'[c].status = status /\ call'[c].got = 0
    /\ \A d \in Call : InFlight(d) /\ call[d].from = p => call[d].callid # id
    /\ \A d \in Call : d # c => call'[d] = call[d]

Outcome == {"ok", "unparsed", "timeout"}

\* A reply or a time-out gives a call its outcome and changes nothing else of
\* it.
LEMMA DoneSettles ==
    ASSUME call \in [Call -> CallState], NEW c \in Call, InFlight(c), NEW status \in Outcome,
           NEW got \in Call \cup {0}, NEW timer \in BOOLEAN, Done(c, status, got, timer)
    PROVE  \E pc \in {"done", "ended"} : Settles(c, pc, status, got)
<1>1. PICK w \in BOOLEAN : w = Contains(stack[call[c].from], c)
  BY DEF Contains
<1>2. PICK pc \in {"done", "ended"} : pc = IF w THEN "done" ELSE "ended"
  OBVIOUS
<1>3. PICK t \in BOOLEAN : t = (w /\ timer)
  OBVIOUS
<1> DEFINE x == call[c]
           y == [x EXCEPT !.pc = pc, !.status = status, !.got = got, !.timer = t]
<1>4. call' = [call EXCEPT ![c] = y]
  BY <1>1, <1>2, <1>3 DEF Done
<1>5. x \in MadeCall
  BY MadeTyped
<1>6. /\ y \in MadeCall /\ y.from = x.from /\ y.callid = x.callid
      /\ y.pc = pc /\ y.status = status /\ y.got = got
  BY <1>5 DEF MadeCall, Outcome
<1>7. y \in CallState
  BY <1>6 DEF CallState, MadeCall
<1> HIDE DEF y
<1>8. call' \in [Call -> CallState] /\ call'[c] = y /\ \A d \in Call : d # c => call'[d] = call[d]
  BY <1>4, <1>7
<1>9. Settles(c, pc, status, got)
  BY <1>6, <1>8 DEF Settles, x
<1> QED
  BY <1>9

\* irpc_call_recv frees a call and leaves its outcome.
LEMMA ReturnSettles ==
    ASSUME call \in [Call -> CallState], NEW c \in Call, call[c].pc = "done",
           call' = [call EXCEPT ![c].pc = "ended", ![c].timer = FALSE]
    PROVE  Settles(c, "ended", call[c].status, call[c].got)
<1> DEFINE x == call[c]
           y == [x EXCEPT !.pc = "ended", !.timer = FALSE]
<1>1. x \in MadeCall
  BY MadeTyped
<1>2. /\ y \in MadeCall /\ y.from = x.from /\ y.callid = x.callid
      /\ y.pc = "ended" /\ y.status = x.status /\ y.got = x.got
  BY <1>1 DEF MadeCall
<1>3. call' = [call EXCEPT ![c] = y] /\ y \in CallState
  BY <1>2 DEF CallState, MadeCall
<1> HIDE DEF y
<1>4. call' \in [Call -> CallState] /\ call'[c] = y /\ \A d \in Call : d # c => call'[d] = call[d]
  BY <1>3
<1> QED
  BY <1>2, <1>4 DEF Settles, x

\* An id of its own for a new call: finitely many are in use.
LEMMA FreshId ==
    ASSUME TypeOK, MadeInOrder, NEW p \in Proc
    PROVE  /\ idr_get_new(p) \in Nat
           /\ \A d \in Call : InFlight(d) /\ call[d].from = p => call[d].callid # idr_get_new(p)
<1> DEFINE S == {d \in Call : InFlight(d) /\ call[d].from = p}
           U == {call[c].callid : c \in S}
           f == [c \in S |-> call[c].callid]
<1>0. call \in [Call -> CallState]
  BY DEF TypeOK
<1>1. IsFiniteSet(S)
  <2>1. S \subseteq {c \in Call : Made(c)}
    BY <1>0, MadeTyped
  <2> QED
    BY <2>1, FS_Subset DEF MadeInOrder
<1>2. U \in SUBSET Nat
  BY <1>0, MadeTyped
<1>3. f \in Surjection(S, U)
  BY DEF Surjection
<1>4. IsFiniteSet(U)
  <2> HIDE DEF S, U, f
  <2> QED
    BY <1>1, <1>3, FS_Surjection
<1>5. \E i \in 0 .. Cardinality(U) : i \notin U /\ \A j \in 0 .. i - 1 : j \in U
  <2> HIDE DEF U
  <2> QED
    BY <1>2, <1>4, LowestFree
<1>6. idr_get_new(p) = CHOOSE i \in 0 .. Cardinality(U) : i \notin U /\ \A j \in 0 .. i - 1 : j \in U
  BY DEF idr_get_new
<1>7. idr_get_new(p) \in 0 .. Cardinality(U) /\ idr_get_new(p) \notin U
  <2> HIDE DEF U
  <2> QED
    BY <1>5, <1>6
<1>8. idr_get_new(p) \in Nat
  <2>1. Cardinality(U) \in Nat
    BY <1>4, FS_CardinalityType
  <2> QED
    BY <1>7, <2>1
<1>9. \A d \in Call : InFlight(d) /\ call[d].from = p => call[d].callid # idr_get_new(p)
  BY <1>7
<1> QED
  BY <1>8, <1>9

\* idr_find returns a call in flight of the process, with this id.
LEMMA Found ==
    ASSUME TypeOK, NEW p \in Proc, NEW id, idr_find(p, id) # 0
    PROVE  LET c == idr_find(p, id)
           IN  c \in Call /\ InFlight(c) /\ call[c].from = p /\ call[c].callid = id
BY DEF idr_find

-----------------------------------------------------------------------------
(* What the steps do *)

Quiet == UNCHANGED <<call, deferred, last>>

Pings(p, q, m) == New(p, q, [kind |-> "ping"], m) /\ Sends(p, q, m, socket) /\ Quiet

Calls(p, q, m, c, id) ==
    /\ New(p, q, [kind |-> "request", callid |-> id, of |-> c], m)
    /\ Sends(p, q, m, socket)
    /\ \/ Makes(c, p, id, "sent", "none")
       \/ Makes(c, p, id, "ended", "failed") /\ UNCHANGED <<socket, pending>>
    /\ UNCHANGED <<deferred, last>>

Answers(p, x, m) ==
    /\ x \in deferred[p]
    /\ New(p, x.from, [x.body EXCEPT !.kind = "reply"], m)
    /\ Sends(p, x.from, m, socket)
    /\ deferred' = [deferred EXCEPT ![p] = @ \ {x}]
    /\ UNCHANGED <<call, last>>

\* The message h is the next one of p, which is remembered.
Hears(p, h) ==
    /\ socket[p] # <<>> /\ h = Head(socket[p])
    /\ last' = IF h.late THEN last ELSE [last EXCEPT ![h.from][p] = h.n]

Ignores(p, h) == Hears(p, h) /\ Took(p) /\ UNCHANGED <<call, deferred>>

\* What h is answered with, at once.
ReplyTo(h, b) ==
    \/ b = [kind |-> "pong"]
    \/ h.body.kind = "request" /\ b = [h.body EXCEPT !.kind = "reply"]

Replies(p, h, m, b) ==
    /\ Hears(p, h) /\ ReplyTo(h, b)
    /\ New(p, h.from, b, m) /\ Sends(p, h.from, m, Taken(p)) /\ UNCHANGED <<call, deferred>>

Defers(p, h) ==
    /\ Hears(p, h) /\ Took(p) /\ h.body.kind = "request"
    /\ deferred' = [deferred EXCEPT ![p] = @ \cup {[from |-> h.from, body |-> h.body]}]
    /\ UNCHANGED call

IsAnswered(p, h, c, pc, status) ==
    /\ Hears(p, h) /\ Took(p) /\ h.body.kind = "reply"
    /\ InFlight(c) /\ call[c].from = p /\ call[c].callid = h.body.callid
    /\ Settles(c, pc, status, h.body.of)
    /\ UNCHANGED deferred

TimesOut(c, pc) ==
    /\ InFlight(c) /\ Settles(c, pc, "timeout", 0)
    /\ UNCHANGED <<socket, pending, retry_queue, sent, deferred, last>>

ReturnsTo(c) ==
    /\ call[c].pc = "done" /\ Settles(c, "ended", call[c].status, call[c].got)
    /\ UNCHANGED <<socket, pending, retry_queue, sent, deferred, last>>

Effect ==
    \/ UNCHANGED <<socket, pending, retry_queue, sent, call, deferred, last>>
    \/ \E p, q \in Proc, m \in Packet : Pings(p, q, m)
    \/ \E p, q \in Proc, m \in Packet, c \in Call, id \in Nat : Calls(p, q, m, c, id)
    \/ \E p \in Proc, x \in Asked, m \in Packet : Answers(p, x, m)
    \/ \E p \in Proc, h \in Packet : Ignores(p, h)
    \/ \E p \in Proc, h, m \in Packet, b \in Body : Replies(p, h, m, b)
    \/ \E p \in Proc, h \in Packet : Defers(p, h)
    \/ \E p \in Proc, h \in Packet, c \in Call, pc \in {"done", "ended"}, st \in {"ok", "unparsed"} :
          IsAnswered(p, h, c, pc, st)
    \/ \E p \in Proc : \E k \in Nat : PutOut(p, k) /\ Quiet
    \/ \E p \in Proc : Requeued(p) /\ Quiet
    \/ \E p \in Proc : Vanished(p) /\ Quiet
    \/ \E c \in Call, pc \in {"done", "ended"} : TimesOut(c, pc)
    \/ \E c \in Call : ReturnsTo(c)

\* The rest of the types.
TypedRest ==
    /\ call \in [Call -> CallState] /\ stack \in [Proc -> Seq(Call)]
    /\ deferred \in [Proc -> SUBSET Asked] /\ last \in [Proc -> [Proc -> Nat]]

Good == TypeOK /\ QueuesWatched

\* The parts of Good, for the state after a step.
LEMMA GoodParts ==
    ASSUME up' \subseteq Proc, TypedQueues', TypedFlags', TypedRest', QueuesWatched'
    PROVE  Good'
BY DEF Good, TypeOK, TypedQueues, TypedFlags, TypedRest, Queued

\* Sending in a handler that takes nothing.
LEMMA SendEffect ==
    ASSUME Good, NEW p \in Proc, NEW q \in Proc, NEW b \in Body, messaging_send(p, q, b, socket)
    PROVE  /\ TypedQueues' /\ TypedFlags' /\ QueuesWatched'
           /\ \E m \in Packet : New(p, q, b, m) /\ Sends(p, q, m, socket)
<1>1. TypeOK /\ QueuesWatched /\ socket \in Queued /\ \A r \in Proc : Len(socket[r]) <= Cap
      /\ sent \in [Proc -> Nat]
  BY DEF Good, TypeOK, Queued
<1>2. New(p, q, b, Message(p, q, b)) /\ Sends(p, q, Message(p, q, b), socket)
  BY <1>1, MessageIsNew, SendSends
<1>3. Message(p, q, b) \in Packet
  BY <1>2 DEF New
<1>4. TypedQueues' /\ TypedFlags' /\ QueuesWatched'
  BY <1>1, <1>2, <1>3, SendsTyped
<1> QED
  BY <1>2, <1>3, <1>4

\* And in one that takes the next packet.
LEMMA ReplyEffect ==
    ASSUME Good, NEW p \in Proc, NEW q \in Proc, NEW b \in Body, socket[p] # <<>>,
           messaging_send(p, q, b, Taken(p))
    PROVE  /\ TypedQueues' /\ TypedFlags' /\ QueuesWatched'
           /\ \E m \in Packet : New(p, q, b, m) /\ Sends(p, q, m, Taken(p))
<1>1. TypeOK /\ QueuesWatched /\ sent \in [Proc -> Nat]
  BY DEF Good, TypeOK
<1>2. Taken(p) \in Queued /\ \A r \in Proc : Len(Taken(p)[r]) <= Cap
  BY <1>1, TakenQueues
<1>3. New(p, q, b, Message(p, q, b)) /\ Sends(p, q, Message(p, q, b), Taken(p))
  BY <1>1, <1>2, MessageIsNew, SendSends
<1>4. Message(p, q, b) \in Packet
  BY <1>3 DEF New
<1>5. TypedQueues' /\ TypedFlags' /\ QueuesWatched'
  BY <1>1, <1>2, <1>3, <1>4, SendsTyped
<1> QED
  BY <1>3, <1>4, <1>5

\* A ping is the sending of one message.
LEMMA PingEffect ==
    ASSUME Good, NEW p \in Proc, NEW q \in Proc, Ping(p, q)
    PROVE  Good' /\ Effect
<1>1. [kind |-> "ping"] \in Body
  BY DEF Body
<1>2. messaging_send(p, q, [kind |-> "ping"], socket) /\ UNCHANGED <<up, call, stack, deferred, last>>
  BY DEF Ping
<1>3. PICK m \in Packet : New(p, q, [kind |-> "ping"], m) /\ Sends(p, q, m, socket)
  BY <1>1, <1>2, SendEffect
<1>4. TypedQueues' /\ TypedFlags' /\ QueuesWatched'
  BY <1>1, <1>2, SendEffect
<1>5. Good'
  BY <1>2, <1>4, GoodParts DEF Good, TypeOK, TypedRest
<1>6. Pings(p, q, m)
  BY <1>2, <1>3 DEF Pings, Quiet
<1> QED
  BY <1>5, <1>6 DEF Effect

\* irpc_call_send sends one request with a fresh id, or ends the call.
LEMMA CallEffect ==
    ASSUME Good, MadeInOrder, NEW p \in Proc, NEW q \in Proc, NEW c \in Call, NEW sync \in BOOLEAN,
           irpc_call_send(p, q, c, sync)
    PROVE  Good' /\ Effect
<1>0. TypeOK /\ call \in [Call -> CallState] /\ stack \in [Proc -> Seq(Call)]
  BY DEF Good, TypeOK
<1>1. PICK id \in Nat : id = idr_get_new(p)
                        /\ \A d \in Call : InFlight(d) /\ call[d].from = p => call[d].callid # id
  BY <1>0, FreshId
<1> DEFINE b == [kind |-> "request", callid |-> id, of |-> c]
<1>2. PICK lost \in BOOLEAN : lost = (SendStatus(p, q, socket) = "lost")
  OBVIOUS
<1>3. /\ call[c] = Unmade /\ \A d \in Call : d < c => call[d] # Unmade
      /\ messaging_send(p, q, b, socket) /\ UNCHANGED <<up, deferred, pings, last>>
      /\ call' = [call EXCEPT ![c] =
            [pc |-> IF lost THEN "ended" ELSE "sent", from |-> p, callid |-> id,
             timer |-> ~ lost, status |-> IF lost THEN "failed" ELSE "none", got |-> 0]]
      /\ stack' = IF sync /\ ~ lost THEN [stack EXCEPT ![p] = Append(@, c)] ELSE stack
  BY <1>1, <1>2 DEF irpc_call_send
<1>4. b \in Body
  BY DEF Body
<1>5. lost => UNCHANGED <<socket, pending>>
  BY <1>2, <1>3 DEF messaging_send
<1> HIDE DEF b
<1>6. PICK m \in Packet : New(p, q, b, m) /\ Sends(p, q, m, socket)
  BY <1>3, <1>4, SendEffect
<1>7. TypedQueues' /\ TypedFlags' /\ QueuesWatched'
  BY <1>3, <1>4, SendEffect
<1>8. stack' \in [Proc -> Seq(Call)]
  <2>1. Append(stack[p], c) \in Seq(Call)
    BY <1>0
  <2> QED
    BY <1>0, <1>3, <2>1
<1>9. PICK pc \in {"ended", "sent"}, st \in {"failed", "none"}, t \in BOOLEAN :
          /\ pc = (IF lost THEN "ended" ELSE "sent") /\ st = (IF lost THEN "failed" ELSE "none")
          /\ t = ~lost
  OBVIOUS
<1>10. Makes(c, p, id, pc, st)
  <2> DEFINE y == [pc |-> pc, from |-> p, callid |-> id, timer |-> t, status |-> st, got |-> 0]
  <2>1. /\ y \in MadeCall /\ y \in CallState /\ y.from = p /\ y.callid = id /\ y.pc = pc
        /\ y.status = st /\ y.got = 0
    BY DEF MadeCall, CallState
  <2>2. call' = [call EXCEPT ![c] = y]
    BY <1>3, <1>9
  <2> HIDE DEF y
  <2>3. call' \in [Call -> CallState] /\ call'[c] = y /\ \A d \in Call : d # c => call'[d] = call[d]
    BY <1>0, <2>1, <2>2
  <2> QED
    BY <1>1, <1>3, <2>1, <2>3 DEF Makes, Made
<1>11. Good'
  <2>1. TypedRest'
    BY <1>0, <1>3, <1>8, <1>10 DEF TypedRest, Makes, TypeOK
  <2>2. up' \subseteq Proc
    BY <1>0, <1>3 DEF TypeOK
  <2> QED
    BY <1>7, <2>1, <2>2, GoodParts
<1>12. Calls(p, q, m, c, id)
  BY <1>3, <1>5, <1>6, <1>9, <1>10 DEF Calls, b
<1> QED
  BY <1>11, <1>12 DEF Effect

\* The history of messages taken keeps its type.
LEMMA HeardTyped ==
    ASSUME TypeOK, NEW p \in Proc, NEW h \in Packet, Hears(p, h)
    PROVE  last' \in [Proc -> [Proc -> Nat]]
<1>1. last \in [Proc -> [Proc -> Nat]] /\ h.from \in Proc /\ h.n \in Nat
  BY PacketFields DEF TypeOK
<1>2. last' = last \/ last' = [last EXCEPT ![h.from][p] = h.n]
  BY DEF Hears
<1> QED
  BY <1>1, <1>2

\* messaging_recv_handler ignores a packet, answers it, puts its answer off,
\* or gives a call its outcome.
LEMMA RecvEffect ==
    ASSUME Good, NEW p \in Proc, messaging_recv_handler(p)
    PROVE  Good' /\ Effect
<1>0. /\ TypeOK /\ QueuesWatched /\ call \in [Call -> CallState] /\ socket[p] \in Seq(Packet)
      /\ deferred \in [Proc -> SUBSET Asked]
  BY DEF Good, TypeOK
<1>1. socket[p] # <<>> /\ Head(socket[p]) \in Packet /\ UNCHANGED <<up, stack, pings>>
  BY <1>0 DEF messaging_recv_handler
<1>2. PICK h \in Packet : h = Head(socket[p])
  BY <1>1
<1>3. Hears(p, h)
  BY <1>1, <1>2 DEF messaging_recv_handler, Hears
<1>4. h.from \in Proc /\ h.body \in Body
  BY PacketFields
<1>5. last' \in [Proc -> [Proc -> Nat]]
  BY <1>0, <1>3, HeardTyped
<1>6. up' \subseteq Proc /\ stack' \in [Proc -> Seq(Call)]
  BY <1>0, <1>1 DEF TypeOK
<1>g. ASSUME TypedQueues', TypedFlags', QueuesWatched', call' \in [Call -> CallState],
             deferred' \in [Proc -> SUBSET Asked]
      PROVE  Good'
  <2>1. TypedRest'
    BY <1>5, <1>6, <1>g DEF TypedRest
  <2> QED
    BY <1>6, <1>g, <2>1, GoodParts
<1>t. ASSUME Take(p)
      PROVE  Took(p) /\ TypedQueues' /\ TypedFlags' /\ QueuesWatched'
  <2>1. Took(p)
    BY <1>1, <1>t, TakeTakes
  <2> QED
    BY <1>0, <2>1, TookTyped
<1>r. ASSUME NEW b \in Body, messaging_send(p, h.from, b, Taken(p)), UNCHANGED <<call, deferred>>,
             ReplyTo(h, b)
      PROVE  Good' /\ Effect
  <2>1. TypedQueues' /\ TypedFlags' /\ QueuesWatched'
    BY <1>1, <1>4, <1>r, ReplyEffect
  <2>2. PICK m \in Packet : New(p, h.from, b, m) /\ Sends(p, h.from, m, Taken(p))
    BY <1>1, <1>4, <1>r, ReplyEffect
  <2>3. Replies(p, h, m, b)
    BY <1>3, <1>r, <2>2 DEF Replies
  <2>4. Good'
    BY <1>0, <1>g, <1>r, <2>1
  <2> QED
    BY <2>3, <2>4 DEF Effect
<1>i. ASSUME Take(p), UNCHANGED <<call, deferred>>
      PROVE  Good' /\ Effect
  <2>1. Good'
    BY <1>0, <1>g, <1>i, <1>t
  <2>2. Ignores(p, h)
    BY <1>3, <1>i, <1>t DEF Ignores
  <2> QED
    BY <2>1, <2>2 DEF Effect
<1>7. CASE h.body.kind = "pong" /\ Take(p) /\ UNCHANGED <<call, deferred>>
  BY <1>i, <1>7
<1>8. CASE /\ h.body.kind = "ping" /\ UNCHANGED <<call, deferred>>
           /\ messaging_send(p, h.from, [kind |-> "pong"], Taken(p))
  <2>1. PICK b \in Body : b = [kind |-> "pong"]
    BY DEF Body
  <2>2. messaging_send(p, h.from, b, Taken(p))
    BY <1>8, <2>1
  <2>3. ReplyTo(h, b)
    BY <2>1 DEF ReplyTo
  <2> QED
    BY <1>r, <1>8, <2>2, <2>3
<1>9. CASE h.body.kind = "request" /\ irpc_handler_request(p, h.from, h.body) /\ UNCHANGED call
  <2>1. CASE Take(p) /\ UNCHANGED deferred
    BY <1>i, <1>9, <2>1
  <2>2. CASE /\ Take(p)
             /\ deferred' = [deferred EXCEPT ![p] = @ \cup {[from |-> h.from, body |-> h.body]}]
    <3>1. [from |-> h.from, body |-> h.body] \in Asked
      BY <1>4, <1>9, CallBody DEF Asked
    <3>2. deferred' \in [Proc -> SUBSET Asked]
      BY <1>0, <2>2, <3>1
    <3>3. Good'
      BY <1>0, <1>g, <1>t, <1>9, <2>2, <3>2
    <3>4. Defers(p, h)
      BY <1>3, <1>t, <1>9, <2>2 DEF Defers
    <3> QED
      BY <3>3, <3>4 DEF Effect
  <2>3. CASE messaging_send(p, h.from, [h.body EXCEPT !.kind = "reply"], Taken(p)) /\ UNCHANGED deferred
    <3>1. PICK b \in Body : b = [h.body EXCEPT !.kind = "reply"]
      BY <1>4, <1>9, ReplyBody
    <3>2. ReplyTo(h, b)
      BY <1>9, <3>1 DEF ReplyTo
    <3> QED
      BY <1>r, <1>9, <2>3, <3>1, <3>2
  <2> QED
    BY <1>9, <2>1, <2>2, <2>3 DEF irpc_handler_request
<1>10. CASE /\ h.body.kind = "reply" /\ Take(p) /\ UNCHANGED deferred
            /\ irpc_handler_reply(p, h.body)
  <2>1. h.body.callid \in Nat /\ h.body.of \in Call
    BY <1>4, <1>10, CallBody
  <2>2. CASE UNCHANGED call
    BY <1>i, <1>10, <2>2
  <2>3. ASSUME NEW c, c = idr_find(p, h.body.callid), c # 0, NEW st \in {"ok", "unparsed"},
               Done(c, st, h.body.of, call[c].timer)
        PROVE  Good' /\ Effect
    <3>1. c \in Call /\ InFlight(c) /\ call[c].from = p /\ call[c].callid = h.body.callid
      BY <1>0, <2>3, Found
    <3>2. call[c].timer \in BOOLEAN /\ st \in Outcome /\ h.body.of \in Call \cup {0}
      BY <1>0, <2>1, <3>1, MadeTyped DEF Outcome
    <3>3. PICK pc \in {"done", "ended"} : Settles(c, pc, st, h.body.of)
      BY <1>0, <2>3, <3>1, <3>2, DoneSettles
    <3>4. call' \in [Call -> CallState]
      BY <3>3 DEF Settles
    <3>5. Good'
      BY <1>0, <1>g, <1>t, <1>10, <3>4
    <3>6. IsAnswered(p, h, c, pc, st)
      BY <1>3, <1>t, <1>10, <3>1, <3>3 DEF IsAnswered
    <3> QED
      BY <3>1, <3>5, <3>6 DEF Effect
  <2>4. \/ UNCHANGED call
        \/ LET c == idr_find(p, h.body.callid)
           IN  c # 0 /\ \E st \in {"ok", "unparsed"} : Done(c, st, h.body.of, call[c].timer)
    BY <1>10 DEF irpc_handler_reply
  <2> QED
    BY <2>2, <2>3, <2>4
<1> QED
  BY <1>2, <1>7, <1>8, <1>9, <1>10 DEF messaging_recv_handler

\* irpc_send_reply sends one reply and drops the request it kept.
LEMMA AnswerEffect ==
    ASSUME Good, NEW p \in Proc, irpc_send_reply(p)
    PROVE  Good' /\ Effect
<1>0. TypeOK /\ deferred \in [Proc -> SUBSET Asked]
  BY DEF Good, TypeOK
<1>1. PICK x \in deferred[p] :
          /\ messaging_send(p, x.from, [x.body EXCEPT !.kind = "reply"], socket)
          /\ deferred' = [deferred EXCEPT ![p] = @ \ {x}]
  BY DEF irpc_send_reply
<1>2. UNCHANGED <<up, call, stack, pings, last>>
  BY DEF irpc_send_reply
<1>3. x \in Asked
  BY <1>0, <1>1
<1>4. x.from \in Proc /\ x.body \in Body /\ x.body.kind = "request"
  BY <1>3, AskedBody
<1>5. PICK b \in Body : b = [x.body EXCEPT !.kind = "reply"]
  BY <1>4, ReplyBody
<1>6. TypedQueues' /\ TypedFlags' /\ QueuesWatched'
  BY <1>1, <1>4, <1>5, SendEffect
<1>7. PICK m \in Packet : New(p, x.from, b, m) /\ Sends(p, x.from, m, socket)
  BY <1>1, <1>4, <1>5, SendEffect
<1>8. Answers(p, x, m)
  BY <1>1, <1>2, <1>5, <1>7 DEF Answers
<1>9. TypedRest' /\ up' \subseteq Proc
  BY <1>0, <1>1, <1>2 DEF TypedRest, TypeOK
<1> QED
  BY <1>3, <1>6, <1>8, <1>9, GoodParts DEF Effect

\* Every step keeps the types and is one of the effects listed.
LEMMA StepEffect ==
    ASSUME Good, MadeInOrder, [Next]_vars
    PROVE  Good' /\ Effect
<1>0. TypeOK /\ QueuesWatched /\ call \in [Call -> CallState]
  BY DEF Good, TypeOK
<1>1. ASSUME NEW p \in Proc, SendHandler(p)
      PROVE  Good' /\ Effect
  <2>1. messaging_send_handler(p) /\ UNCHANGED <<up, call, stack, deferred, pings, last>>
    BY <1>1 DEF SendHandler
  <2>2. TypedQueues' /\ TypedFlags' /\ QueuesWatched'
    BY <1>0, <2>1, PutOutTyped
  <2>3. PICK k \in 0 .. Len(pending[p]) : PutOut(p, k)
    BY <1>0, <2>1, HandlerPutsOut
  <2>4. TypedRest' /\ up' \subseteq Proc /\ k \in Nat
    BY <1>0, <2>1, <2>3 DEF TypedRest, TypeOK
  <2> QED
    BY <2>1, <2>2, <2>3, <2>4, GoodParts DEF Effect, Quiet
<1>2. ASSUME NEW p \in Proc, RetryTimer(p)
      PROVE  Good' /\ Effect
  <2>1. msg_retry_timer(p) /\ UNCHANGED <<up, call, stack, deferred, pings, last>>
    BY <1>2 DEF RetryTimer
  <2>2. TypedQueues' /\ TypedFlags' /\ QueuesWatched' /\ Requeued(p)
    BY <1>0, <2>1, RequeuedTyped
  <2>3. TypedRest' /\ up' \subseteq Proc
    BY <1>0, <2>1 DEF TypedRest, TypeOK
  <2> QED
    BY <2>1, <2>2, <2>3, GoodParts DEF Effect, Quiet
<1>3. ASSUME NEW p \in Proc, Exit(p)
      PROVE  Good' /\ Effect
  <2>1. Gone(p) /\ UNCHANGED <<call, stack, deferred, pings, last>>
    BY <1>3 DEF Exit
  <2>2. TypedQueues' /\ TypedFlags' /\ QueuesWatched' /\ Vanished(p) /\ up' \subseteq Proc
    BY <1>0, <2>1, VanishedTyped
  <2>3. TypedRest'
    BY <1>0, <2>1 DEF TypedRest, TypeOK
  <2> QED
    BY <2>1, <2>2, <2>3, GoodParts DEF Effect, Quiet
<1>m. ASSUME UNCHANGED messaging, call' \in [Call -> CallState], stack' \in [Proc -> Seq(Call)],
             UNCHANGED <<deferred, last>>
      PROVE  Good'
  BY <1>0, <1>m DEF Good, TypeOK, QueuesWatched, messaging, transport
<1>4. ASSUME NEW c \in Call, irpc_timeout(c)
      PROVE  Good' /\ Effect
  <2>1. /\ InFlight(c) /\ Done(c, "timeout", 0, FALSE)
        /\ UNCHANGED <<messaging, stack, deferred, pings, last>>
    BY <1>4 DEF irpc_timeout
  <2>2. PICK pc \in {"done", "ended"} : Settles(c, pc, "timeout", 0)
    BY <1>0, <2>1, DoneSettles DEF Outcome
  <2>3. call' \in [Call -> CallState] /\ stack' \in [Proc -> Seq(Call)]
    BY <1>0, <2>1, <2>2 DEF Settles, TypeOK
  <2>4. TimesOut(c, pc)
    BY <2>1, <2>2 DEF TimesOut, messaging, transport
  <2> QED
    BY <1>m, <2>1, <2>3, <2>4 DEF Effect
<1>5. ASSUME NEW c \in Call, irpc_call_recv(c)
      PROVE  Good' /\ Effect
  <2>1. /\ call[c].pc = "done" /\ call' = [call EXCEPT ![c].pc = "ended", ![c].timer = FALSE]
        /\ stack' = [stack EXCEPT ![call[c].from] = Front(@)]
        /\ UNCHANGED <<messaging, deferred, pings, last>>
    BY <1>5 DEF irpc_call_recv
  <2>2. Settles(c, "ended", call[c].status, call[c].got)
    BY <1>0, <2>1, ReturnSettles
  <2>3. call' \in [Call -> CallState]
    BY <2>2 DEF Settles
  <2>4. stack' \in [Proc -> Seq(Call)]
    <3>1. stack \in [Proc -> Seq(Call)] /\ \A s \in Seq(Call) : Front(s) \in Seq(Call)
      BY <1>0 DEF TypeOK, Front
    <3> QED
      BY <2>1, <3>1
  <2>5. ReturnsTo(c)
    BY <2>1, <2>2 DEF ReturnsTo, messaging, transport
  <2> QED
    BY <1>m, <2>1, <2>3, <2>4, <2>5 DEF Effect
<1>6. CASE UNCHANGED vars
  BY <1>6 DEF Good, TypeOK, QueuesWatched, vars, messaging, transport, Effect
<1>7. CASE \E p, q \in Proc : <<p, q>> \in Peers /\ Ping(p, q)
  BY <1>7, PingEffect
<1>8. CASE \E p, q \in Proc, c \in Call, sync \in BOOLEAN :
              <<p, q>> \in Callers /\ irpc_call_send(p, q, c, sync)
  BY <1>8, CallEffect
<1>9. CASE \E p \in Proc : messaging_recv_handler(p) \/ irpc_send_reply(p)
  BY <1>9, RecvEffect, AnswerEffect
<1> QED
  BY <1>1, <1>2, <1>3, <1>4, <1>5, <1>6, <1>7, <1>8, <1>9 DEF Next

-----------------------------------------------------------------------------
(* The calls: their order, their ids and their outcomes *)

\* What a step may do to the calls.
CallStep ==
    \/ UNCHANGED call
    \/ \E c \in Call, p \in Proc, id \in Nat :
          Makes(c, p, id, "sent", "none") \/ Makes(c, p, id, "ended", "failed")
    \/ \E c \in Call, pc \in {"done", "ended"}, st \in Outcome, got \in Call \cup {0} :
          InFlight(c) /\ Settles(c, pc, st, got) /\ (st # "timeout" => got # 0)
    \/ \E c \in Call : call[c].pc = "done" /\ Settles(c, "ended", call[c].status, call[c].got)

\* What an effect does to the calls: one is made, one is settled, or nothing.
LEMMA EffectOnCalls ==
    ASSUME TypeOK, Effect
    PROVE  CallStep
<1>1. CASE \E p, q \in Proc, m \in Packet, c \in Call, id \in Nat : Calls(p, q, m, c, id)
  BY <1>1 DEF Calls, CallStep
<1>2. CASE \E p \in Proc, h \in Packet, c \in Call, pc \in {"done", "ended"}, st \in {"ok", "unparsed"} :
              IsAnswered(p, h, c, pc, st)
  <2>1. PICK p \in Proc, h \in Packet, c \in Call, pc \in {"done", "ended"}, st \in {"ok", "unparsed"} :
              IsAnswered(p, h, c, pc, st)
    BY <1>2
  <2>2. h.body \in Body /\ h.body.kind = "reply"
    BY <2>1, PacketFields DEF IsAnswered
  <2>3. PICK got \in Call : got = h.body.of
    BY <2>2, CallBody
  <2>4. InFlight(c) /\ Settles(c, pc, st, got) /\ got # 0 /\ st \in Outcome
    BY <2>1, <2>3, IrpcAssumption DEF IsAnswered, Outcome
  <2> QED
    BY <2>4 DEF CallStep
<1>3. CASE \E c \in Call, pc \in {"done", "ended"} : TimesOut(c, pc)
  <2>1. PICK c \in Call, pc \in {"done", "ended"} : TimesOut(c, pc)
    BY <1>3
  <2>2. InFlight(c) /\ Settles(c, pc, "timeout", 0) /\ "timeout" \in Outcome /\ 0 \in Call \cup {0}
    BY <2>1 DEF TimesOut, Outcome
  <2> QED
    BY <2>2 DEF CallStep
<1>4. CASE \E c \in Call : ReturnsTo(c)
  BY <1>4 DEF ReturnsTo, CallStep
<1>5. CASE \E p \in Proc, h \in Packet : Ignores(p, h) \/ Defers(p, h)
  BY <1>5 DEF Ignores, Defers, CallStep
<1>6. CASE \E p \in Proc, h, m \in Packet, b \in Body : Replies(p, h, m, b)
  BY <1>6 DEF Replies, CallStep
<1>7. CASE \E p \in Proc, x \in Asked, m \in Packet : Answers(p, x, m)
  BY <1>7 DEF Answers, CallStep
<1>8. CASE \E p, q \in Proc, m \in Packet : Pings(p, q, m)
  BY <1>8 DEF Pings, Quiet, CallStep
<1>9. CASE UNCHANGED call
  BY <1>9 DEF CallStep
<1> QED
  BY <1>1, <1>2, <1>3, <1>4, <1>5, <1>6, <1>7, <1>8, <1>9 DEF Effect, Quiet

\* A call that was made stays so, with its process and its id; one that is in
\* flight was so before or is new.
Kept ==
    \A d \in Call : Made(d) =>
        /\ Made(d)' /\ call'[d].from = call[d].from /\ call'[d].callid = call[d].callid
        /\ InFlight(d)' => InFlight(d)

\* A call that is given an outcome stays made; no other is touched.
LEMMA SettleKeeps ==
    ASSUME TypeOK, NEW c \in Call, NEW pc \in {"done", "ended"}, NEW st, NEW got, InFlight(c),
           Settles(c, pc, st, got)
    PROVE  Kept /\ \A d \in Call : Made(d)' => Made(d)
<1>1. Made(c) /\ Made(c)'
  <2>1. call \in [Call -> CallState]
    BY DEF TypeOK
  <2>2. Made(c)
    BY <2>1, MadeTyped
  <2>3. call'[c] # Unmade
    BY DEF Settles, MadeCall, Unmade
  <2> QED
    BY <2>2, <2>3 DEF Made
<1> QED
  BY <1>1 DEF Settles, Kept, Made, InFlight

\* Making a call leaves those made before as they are.
LEMMA MakeKeeps ==
    ASSUME TypeOK, NEW c \in Call, NEW p \in Proc, NEW id, NEW pc, NEW st, Makes(c, p, id, pc, st)
    PROVE  Kept /\ Made(c)' /\ \A d \in Call : Made(d)' => Made(d) \/ d = c
<1>1. call'[c] # Unmade
  BY DEF Makes, MadeCall, Unmade
<1> QED
  BY <1>1 DEF Makes, Kept, Made, InFlight

\* No step forgets a call or changes whose it is.
LEMMA CallsKept ==
    ASSUME TypeOK, CallStep
    PROVE  Kept
<1>1. CASE UNCHANGED call
  BY <1>1 DEF Kept, Made, InFlight
<1>2. CASE \E c \in Call, p \in Proc, id \in Nat :
          Makes(c, p, id, "sent", "none") \/ Makes(c, p, id, "ended", "failed")
  BY <1>2, MakeKeeps
<1>3. CASE \E c \in Call, pc \in {"done", "ended"}, st \in Outcome, got \in Call \cup {0} :
          InFlight(c) /\ Settles(c, pc, st, got) /\ (st # "timeout" => got # 0)
  BY <1>3, SettleKeeps
<1>4. CASE \E c \in Call : call[c].pc = "done" /\ Settles(c, "ended", call[c].status, call[c].got)
  <2>1. \A c \in Call : call[c].pc = "done" => InFlight(c)
    BY DEF InFlight
  <2> QED
    BY <1>4, <2>1, SettleKeeps
<1> QED
  BY <1>1, <1>2, <1>3, <1>4 DEF CallStep

\* Calls go on being made in the order of their numbers.
LEMMA OrderOfCalls ==
    ASSUME TypeOK, MadeInOrder, CallStep
    PROVE  MadeInOrder'
<1>0. Call \subseteq Nat
  BY IrpcAssumption
<1>1. CASE \A d \in Call : Made(d)' <=> Made(d)
  <2>1. {d \in Call : Made(d)'} = {d \in Call : Made(d)}
    BY <1>1
  <2> QED
    BY <1>1, <2>1 DEF MadeInOrder
<1>2. CASE \E c \in Call, p \in Proc, id \in Nat :
          Makes(c, p, id, "sent", "none") \/ Makes(c, p, id, "ended", "failed")
  <2>1. PICK c \in Call, p \in Proc, id \in Nat :
          Makes(c, p, id, "sent", "none") \/ Makes(c, p, id, "ended", "failed")
    BY <1>2
  <2>2. Kept /\ Made(c)' /\ \A d \in Call : Made(d)' => Made(d) \/ d = c
    BY <2>1, MakeKeeps
  <2>3. \A d \in Call : d < c => Made(d)
    BY <2>1 DEF Makes
  <2>4. {d \in Call : Made(d)'} = {d \in Call : Made(d)} \cup {c}
    BY <2>2 DEF Kept
  <2>5. IsFiniteSet({d \in Call : Made(d)'})
    <3>1. IsFiniteSet({d \in Call : Made(d)})
      BY DEF MadeInOrder
    <3> QED
      BY <2>4, <3>1, FS_AddElement
  <2>6. \A d, e \in Call : d < e /\ Made(e)' => Made(d)'
    BY <2>2, <2>3 DEF Kept, MadeInOrder
  <2> QED
    BY <2>5, <2>6 DEF MadeInOrder
<1>3. CASE UNCHANGED call
  BY <1>1, <1>3 DEF Made
<1>4. CASE \E c \in Call, pc \in {"done", "ended"}, st \in Outcome, got \in Call \cup {0} :
          InFlight(c) /\ Settles(c, pc, st, got) /\ (st # "timeout" => got # 0)
  BY <1>1, <1>4, SettleKeeps DEF Kept
<1>5. CASE \E c \in Call : call[c].pc = "done" /\ Settles(c, "ended", call[c].status, call[c].got)
  <2>1. \A c \in Call : call[c].pc = "done" => InFlight(c)
    BY DEF InFlight
  <2> QED
    BY <1>1, <1>5, <2>1, SettleKeeps DEF Kept
<1> QED
  BY <1>2, <1>3, <1>4, <1>5 DEF CallStep

\* A new call gets an id that no call in flight of its process has.
LEMMA IdsStayApart ==
    ASSUME TypeOK, MadeInOrder, IdsDiffer, CallStep
    PROVE  IdsDiffer'
<1>0. Kept /\ Call \subseteq Nat
  BY CallsKept, IrpcAssumption
<1>1. CASE \A d \in Call : Made(d)' => Made(d)
  <2> SUFFICES ASSUME NEW c \in Call, NEW d \in Call, c < d, InFlight(c)', Made(d)',
                      call'[c].from = call'[d].from
               PROVE  call'[c].callid # call'[d].callid
    BY DEF IdsDiffer
  <2>1. Made(d) /\ Made(c)
    BY <1>1 DEF MadeInOrder
  <2> QED
    BY <1>0, <2>1 DEF Kept, IdsDiffer
<1>2. CASE \E c \in Call, p \in Proc, id \in Nat :
          Makes(c, p, id, "sent", "none") \/ Makes(c, p, id, "ended", "failed")
  <2>1. PICK e \in Call, p \in Proc, id \in Nat :
          Makes(e, p, id, "sent", "none") \/ Makes(e, p, id, "ended", "failed")
    BY <1>2
  <2>2. Kept /\ \A d \in Call : Made(d)' => Made(d) \/ d = e
    BY <2>1, MakeKeeps
  <2>3. /\ ~Made(e) /\ call'[e].from = p /\ call'[e].callid = id
        /\ \A d \in Call : InFlight(d) /\ call[d].from = p => call[d].callid # id
        /\ \A d \in Call : d < e => Made(d)
    BY <2>1 DEF Makes, Made
  <2> SUFFICES ASSUME NEW c \in Call, NEW d \in Call, c < d, InFlight(c)', Made(d)',
                      call'[c].from = call'[d].from
               PROVE  call'[c].callid # call'[d].callid
    BY DEF IdsDiffer
  <2>4. CASE d = e
    <3>1. Made(c)
      BY <2>3, <2>4
    <3> QED
      BY <2>2, <2>3, <2>4, <3>1 DEF Kept
  <2>5. CASE d # e
    <3>1. Made(d) /\ Made(c)
      BY <2>2, <2>5 DEF MadeInOrder
    <3> QED
      BY <1>0, <3>1 DEF Kept, IdsDiffer
  <2> QED
    BY <2>4, <2>5
<1>3. CASE UNCHANGED call
  BY <1>1, <1>3 DEF Made
<1>4. CASE \E c \in Call, pc \in {"done", "ended"}, st \in Outcome, got \in Call \cup {0} :
          InFlight(c) /\ Settles(c, pc, st, got) /\ (st # "timeout" => got # 0)
  BY <1>1, <1>4, SettleKeeps
<1>5. CASE \E c \in Call : call[c].pc = "done" /\ Settles(c, "ended", call[c].status, call[c].got)
  <2>1. \A c \in Call : call[c].pc = "done" => InFlight(c)
    BY DEF InFlight
  <2> QED
    BY <1>1, <1>5, <2>1, SettleKeeps
<1> QED
  BY <1>2, <1>3, <1>4, <1>5 DEF CallStep

\* The outcome of a call agrees with where it is, after every step.
LEMMA OutcomesStay ==
    ASSUME TypeOK, Outcomes, CallStep
    PROVE  Outcomes'
<1>0. call \in [Call -> CallState]
  BY DEF TypeOK
<1>1. CASE UNCHANGED call
  BY <1>1 DEF Outcomes, Made
<1>2. CASE \E c \in Call, p \in Proc, id \in Nat :
          Makes(c, p, id, "sent", "none") \/ Makes(c, p, id, "ended", "failed")
  BY <1>2 DEF Makes, Outcomes, Made
<1>3. CASE \E c \in Call, pc \in {"done", "ended"}, st \in Outcome, got \in Call \cup {0} :
          InFlight(c) /\ Settles(c, pc, st, got) /\ (st # "timeout" => got # 0)
  BY <1>3 DEF Settles, Outcomes, Made, Outcome
<1>4. CASE \E c \in Call : call[c].pc = "done" /\ Settles(c, "ended", call[c].status, call[c].got)
  <2>1. PICK c \in Call : call[c].pc = "done" /\ Settles(c, "ended", call[c].status, call[c].got)
    BY <1>4
  <2>2. InFlight(c)
    BY <2>1 DEF InFlight
  <2>3. Made(c)
    BY <1>0, <2>2, MadeTyped
  <2> QED
    BY <2>1, <2>3 DEF Settles, Outcomes, Made
<1> QED
  BY <1>1, <1>2, <1>3, <1>4 DEF CallStep

-----------------------------------------------------------------------------
(* The order of messages *)

\* OrderInv of the sockets so, the queues pe, the messages re that are backed
\* off, what was taken la and how many were sent se.
OrderOf(so, pe, re, la, se) ==
    /\ \A q \in Proc : \A i \in DOMAIN so[q] :
          /\ so[q][i].to = q /\ so[q][i].n <= se[so[q][i].from]
          /\ ~so[q][i].late => la[so[q][i].from][q] < so[q][i].n
    /\ \A p \in Proc : \A i \in DOMAIN pe[p] :
          /\ pe[p][i].from = p /\ pe[p][i].n <= se[p]
          /\ ~pe[p][i].late => la[p][pe[p][i].to] < pe[p][i].n
    /\ \A p \in Proc : \A i \in DOMAIN re[p] :
          re[p][i].from = p /\ re[p][i].n <= se[p] /\ re[p][i].late
    /\ \A p, q \in Proc : la[p][q] <= se[p]
    /\ \A q \in Proc : \A i, j \in DOMAIN so[q] : i < j => Before(so[q][i], so[q][j])
    /\ \A p \in Proc : \A i, j \in DOMAIN pe[p] : i < j => Before(pe[p][i], pe[p][j])
    /\ \A p, q \in Proc : \A i \in DOMAIN so[q] : \A j \in DOMAIN pe[p] :
          Before(so[q][i], pe[p][j])

\* OrderInv as a relation between the queues and the histories.
LEMMA OrderInvIs ==
    OrderInv <=> OrderOf(socket, pending, retry_queue, last, sent)
BY DEF OrderInv, Numbered, Ordered, NotTaken, OrderOf

\* The same for the state after a step.
LEMMA OrderInvIsThen ==
    OrderInv' <=> OrderOf(socket', pending', retry_queue', last', sent')
BY DEF OrderInv, Numbered, Ordered, NotTaken, OrderOf

\* The queue t has some of the messages of s, in their order.
Thin(t, s) ==
    \E f : \A i \in DOMAIN t :
        /\ f[i] \in DOMAIN s /\ Alike(t[i], s[f[i]]) /\ t[i].late = s[f[i]].late
        /\ \A j \in DOMAIN t : i < j => f[i] < f[j]

\* A queue is a thinned copy of itself.
LEMMA ThinSame ==
    ASSUME NEW s \in Seq(Packet)
    PROVE  Thin(s, s)
<1>1. PICK f : f = [i \in DOMAIN s |-> i]
  OBVIOUS
<1> QED
  BY <1>1 DEF Thin, Alike

\* A queue that lost its front is a thinned copy of what it was.
LEMMA ThinShifted ==
    ASSUME NEW s \in Seq(Packet), NEW t \in Seq(Packet), NEW k \in Nat, Shifted(t, s, k)
    PROVE  Thin(t, s)
<1>1. PICK f : f = [i \in DOMAIN t |-> i + k]
  OBVIOUS
<1>2. \A i \in DOMAIN t : f[i] \in DOMAIN s /\ Alike(t[i], s[f[i]]) /\ t[i].late = s[f[i]].late
  BY <1>1 DEF Shifted
<1>3. \A i, j \in DOMAIN t : i < j => f[i] < f[j]
  BY <1>1
<1> QED
  BY <1>2, <1>3 DEF Thin

\* The empty queue is a thinned copy of any.
LEMMA ThinEmpty ==
    ASSUME NEW s
    PROVE  Thin(<<>>, s)
BY DEF Thin

\* Taking messages out of queues keeps the order.
LEMMA OrderThin ==
    ASSUME NEW so \in Queued, NEW pe \in Queued, NEW re \in Queued,
           NEW so2 \in Queued, NEW pe2 \in Queued, NEW re2 \in Queued,
           NEW la, NEW se, OrderOf(so, pe, re, la, se),
           \A q \in Proc : Thin(so2[q], so[q]) /\ Thin(pe2[q], pe[q]) /\ Thin(re2[q], re[q])
    PROVE  OrderOf(so2, pe2, re2, la, se)
<1>1. ASSUME NEW q \in Proc, NEW i \in DOMAIN so2[q]
      PROVE  /\ so2[q][i].to = q /\ so2[q][i].n <= se[so2[q][i].from]
             /\ ~so2[q][i].late => la[so2[q][i].from][q] < so2[q][i].n
  BY <1>1 DEF OrderOf, Thin, Alike
<1>2. ASSUME NEW p \in Proc, NEW i \in DOMAIN pe2[p]
      PROVE  /\ pe2[p][i].from = p /\ pe2[p][i].n <= se[p]
             /\ ~pe2[p][i].late => la[p][pe2[p][i].to] < pe2[p][i].n
  BY <1>2 DEF OrderOf, Thin, Alike
<1>3. ASSUME NEW p \in Proc, NEW i \in DOMAIN re2[p]
      PROVE  re2[p][i].from = p /\ re2[p][i].n <= se[p] /\ re2[p][i].late
  BY <1>3 DEF OrderOf, Thin, Alike
<1>4. ASSUME NEW q \in Proc, NEW i \in DOMAIN so2[q], NEW j \in DOMAIN so2[q], i < j
      PROVE  Before(so2[q][i], so2[q][j])
  <2>1. PICK k \in DOMAIN so[q], m \in DOMAIN so[q] :
            /\ k < m
            /\ Alike(so2[q][i], so[q][k]) /\ so2[q][i].late = so[q][k].late
            /\ Alike(so2[q][j], so[q][m]) /\ so2[q][j].late = so[q][m].late
    BY <1>4 DEF Thin
  <2>2. Before(so[q][k], so[q][m])
    BY <2>1 DEF OrderOf
  <2> QED
    BY <2>1, <2>2 DEF Alike, Before
<1>5. ASSUME NEW p \in Proc, NEW i \in DOMAIN pe2[p], NEW j \in DOMAIN pe2[p], i < j
      PROVE  Before(pe2[p][i], pe2[p][j])
  <2>1. PICK k \in DOMAIN pe[p], m \in DOMAIN pe[p] :
            /\ k < m
            /\ Alike(pe2[p][i], pe[p][k]) /\ pe2[p][i].late = pe[p][k].late
            /\ Alike(pe2[p][j], pe[p][m]) /\ pe2[p][j].late = pe[p][m].late
    BY <1>5 DEF Thin
  <2>2. Before(pe[p][k], pe[p][m])
    BY <2>1 DEF OrderOf
  <2> QED
    BY <2>1, <2>2 DEF Alike, Before
<1>6. ASSUME NEW p \in Proc, NEW q \in Proc, NEW i \in DOMAIN so2[q], NEW j \in DOMAIN pe2[p]
      PROVE  Before(so2[q][i], pe2[p][j])
  <2>1. PICK k \in DOMAIN so[q] : Alike(so2[q][i], so[q][k]) /\ so2[q][i].late = so[q][k].late
    BY <1>6 DEF Thin
  <2>2. PICK m \in DOMAIN pe[p] : Alike(pe2[p][j], pe[p][m]) /\ pe2[p][j].late = pe[p][m].late
    BY <1>6 DEF Thin
  <2>3. Before(so[q][k], pe[p][m])
    BY DEF OrderOf
  <2> QED
    BY <2>1, <2>2, <2>3 DEF Alike, Before
<1>7. \A p, q \in Proc : la[p][q] <= se[p]
  BY DEF OrderOf
<1> QED
  BY <1>1, <1>2, <1>3, <1>4, <1>5, <1>6, <1>7 DEF OrderOf

\* The next message h of p is taken.
LEMMA OrderTake ==
    ASSUME TypeOK, OrderInv, NEW p \in Proc, NEW h \in Packet, Hears(p, h)
    PROVE  OrderOf(Taken(p), pending, retry_queue, last', sent)
<1>0. /\ socket \in Queued /\ pending \in Queued /\ retry_queue \in Queued
      /\ last \in [Proc -> [Proc -> Nat]] /\ sent \in [Proc -> Nat]
  BY DEF TypeOK, Queued
<1>1. socket[p] # <<>> /\ h = Head(socket[p]) /\ socket[p] \in Seq(Packet)
  BY <1>0 DEF Hears, Queued
<1>2. /\ Taken(p) \in Queued /\ Shifted(Taken(p)[p], socket[p], 1)
      /\ \A q \in Proc : q # p => Taken(p)[q] = socket[q]
  BY <1>1, TakenQueues
<1>3. PICK so \in Queued : so = Taken(p)
  BY <1>2
<1>o. OrderOf(socket, pending, retry_queue, last, sent)
  BY OrderInvIs
<1>4. OrderOf(so, pending, retry_queue, last, sent)
  <2>1. \A q \in Proc : Thin(so[q], socket[q])
    <3> TAKE q \in Proc
    <3>1. socket[q] \in Seq(Packet) /\ so[q] \in Seq(Packet)
      BY <1>0 DEF Queued
    <3> QED
      BY <1>2, <1>3, <3>1, ThinSame, ThinShifted
  <2>2. \A q \in Proc : Thin(pending[q], pending[q]) /\ Thin(retry_queue[q], retry_queue[q])
    BY <1>0, ThinSame DEF Queued
  <2> QED
    BY <1>0, <1>o, <2>1, <2>2, OrderThin
<1>5. /\ h.to = p /\ h.from \in Proc /\ h.n \in Nat /\ h.n <= sent[h.from]
      /\ \A i \in DOMAIN so[p] : Before(h, so[p][i])
      /\ \A r \in Proc : \A j \in DOMAIN pending[r] : Before(h, pending[r][j])
  <2>1. 1 \in DOMAIN socket[p] /\ h = socket[p][1] /\ DOMAIN socket[p] = 1 .. Len(socket[p])
    BY <1>1
  <2>2. h.from \in Proc /\ h.n \in Nat
    BY PacketFields
  <2>3. h.to = p /\ h.n <= sent[h.from]
        /\ \A r \in Proc : \A j \in DOMAIN pending[r] : Before(h, pending[r][j])
    BY <1>o, <2>1 DEF OrderOf
  <2>4. ASSUME NEW i \in DOMAIN so[p]
        PROVE  Before(h, so[p][i])
    <3>1. i + 1 \in DOMAIN socket[p] /\ Alike(so[p][i], socket[p][i + 1])
          /\ so[p][i].late = socket[p][i + 1].late
      BY <1>2, <1>3 DEF Shifted
    <3>2. 1 < i + 1
      BY <1>3, <2>4 DEF Queued
    <3>3. Before(socket[p][1], socket[p][i + 1])
      BY <1>o, <2>1, <3>1, <3>2 DEF OrderOf
    <3> QED
      BY <2>1, <3>1, <3>3 DEF Before, Alike
  <2> QED
    BY <2>2, <2>3, <2>4
<1>6. CASE h.late
  BY <1>3, <1>4, <1>6 DEF Hears
<1>7. CASE ~h.late
  <2>1. last' = [last EXCEPT ![h.from][p] = h.n]
    BY <1>7 DEF Hears
  <2>2. PICK la \in [Proc -> [Proc -> Nat]] : la = last'
    BY <1>0, <1>5, <2>1
  <2>3. \A r, q \in Proc : la[r][q] = IF r = h.from /\ q = p THEN h.n ELSE last[r][q]
    BY <1>0, <1>5, <2>1, <2>2
  <2>4. \A r \in Proc : so[r] \in Seq(Packet) /\ pending[r] \in Seq(Packet)
    BY <1>0 DEF Queued
  <2>5. ASSUME NEW q \in Proc, NEW i \in DOMAIN so[q], ~so[q][i].late
        PROVE  la[so[q][i].from][q] < so[q][i].n
    <3>1. so[q][i] \in Packet
      BY <2>4, <2>5
    <3>2. so[q][i].from \in Proc /\ so[q][i].to = q /\ last[so[q][i].from][q] < so[q][i].n
      BY <1>4, <2>5, <3>1, PacketFields DEF OrderOf
    <3> QED
      BY <1>5, <1>7, <2>3, <2>5, <3>2 DEF Before
  <2>6. ASSUME NEW r \in Proc, NEW i \in DOMAIN pending[r], ~pending[r][i].late
        PROVE  la[r][pending[r][i].to] < pending[r][i].n
    <3>1. pending[r][i] \in Packet
      BY <2>4, <2>6
    <3>2. pending[r][i].to \in Proc /\ pending[r][i].from = r /\ last[r][pending[r][i].to] < pending[r][i].n
      BY <1>4, <2>6, <3>1, PacketFields DEF OrderOf
    <3> QED
      BY <1>5, <1>7, <2>3, <2>6, <3>2 DEF Before
  <2>7. \A r, q \in Proc : la[r][q] <= sent[r]
    BY <1>4, <1>5, <2>3 DEF OrderOf
  <2>8. OrderOf(so, pending, retry_queue, la, sent)
    BY <1>4, <2>5, <2>6, <2>7 DEF OrderOf
  <2> QED
    BY <1>3, <2>2, <2>8
<1> QED
  BY <1>6, <1>7

OneMore(se, p) == [se EXCEPT ![p] = @ + 1]

\* A message that p sends comes after all that it has sent.
LEMMA OrderSent ==
    ASSUME NEW so \in Queued, NEW pe \in Queued, NEW re \in Queued,
           NEW la \in [Proc -> [Proc -> Nat]], NEW se \in [Proc -> Nat], NEW p \in Proc,
           OrderOf(so, pe, re, la, se)
    PROVE  /\ OrderOf(so, pe, re, la, OneMore(se, p))
           /\ \A q \in Proc : \A i \in DOMAIN so[q] : so[q][i].from = p => so[q][i].n < se[p] + 1
           /\ \A r \in Proc : \A i \in DOMAIN pe[r] : pe[r][i].from = p => pe[r][i].n < se[p] + 1
           /\ \A q \in Proc : la[p][q] < se[p] + 1
<1>s. PICK se2 : se2 = OneMore(se, p)
  OBVIOUS
<1>0. \A q \in Proc : so[q] \in Seq(Packet) /\ pe[q] \in Seq(Packet) /\ re[q] \in Seq(Packet)
  BY DEF Queued
<1>1. /\ \A r \in Proc : se2[r] \in Nat /\ se[r] \in Nat /\ se[r] <= se2[r]
      /\ se2[p] = se[p] + 1
  BY <1>s DEF OneMore
<1>2. \A n \in Nat, r \in Proc : n <= se[r] => n <= se2[r] /\ n < se[r] + 1
  BY <1>1
<1>3. ASSUME NEW q \in Proc, NEW i \in DOMAIN so[q]
      PROVE  so[q][i].from \in Proc /\ so[q][i].n \in Nat /\ so[q][i].n <= se[so[q][i].from]
  <2>1. so[q][i] \in Packet
    BY <1>0, <1>3
  <2> QED
    BY <2>1, PacketFields DEF OrderOf
<1>4. ASSUME NEW q \in Proc, NEW i \in DOMAIN pe[q]
      PROVE  pe[q][i].n \in Nat /\ pe[q][i].n <= se[q] /\ pe[q][i].from = q
  <2>1. pe[q][i] \in Packet
    BY <1>0, <1>4
  <2> QED
    BY <2>1, PacketFields DEF OrderOf
<1>5. ASSUME NEW q \in Proc, NEW i \in DOMAIN re[q]
      PROVE  re[q][i].n \in Nat /\ re[q][i].n <= se[q]
  <2>1. re[q][i] \in Packet
    BY <1>0, <1>5
  <2> QED
    BY <2>1, PacketFields DEF OrderOf
<1>6. \A r, q \in Proc : la[r][q] \in Nat /\ la[r][q] <= se[r]
  BY DEF OrderOf
<1>7. OrderOf(so, pe, re, la, se2)
  <2>1. \A q \in Proc : \A i \in DOMAIN so[q] : so[q][i].n <= se2[so[q][i].from]
    BY <1>2, <1>3
  <2>2. \A q \in Proc : \A i \in DOMAIN pe[q] : pe[q][i].n <= se2[q]
    BY <1>2, <1>4
  <2>3. \A q \in Proc : \A i \in DOMAIN re[q] : re[q][i].n <= se2[q]
    BY <1>2, <1>5
  <2>4. \A r, q \in Proc : la[r][q] <= se2[r]
    BY <1>2, <1>6
  <2> QED
    BY <2>1, <2>2, <2>3, <2>4 DEF OrderOf
<1>8. \A q \in Proc : \A i \in DOMAIN so[q] : so[q][i].from = p => so[q][i].n < se[p] + 1
  BY <1>2, <1>3
<1>9. \A r \in Proc : \A i \in DOMAIN pe[r] : pe[r][i].from = p => pe[r][i].n < se[p] + 1
  BY <1>2, <1>4
<1>10. \A q \in Proc : la[p][q] < se[p] + 1
  BY <1>2, <1>6
<1> QED
  BY <1>s, <1>7, <1>8, <1>9, <1>10

\* The message m is number n of p, for q.
IsNext(p, q, m, n) == m.from = p /\ m.to = q /\ m.n = n /\ m.late = FALSE

\* The queues s2 are the queues s with the message m at the end of that of q.
Grown(s2, s, q, m) ==
    \A r \in Proc : \A i \in DOMAIN s2[r] :
        \/ i \in DOMAIN s[r] /\ s2[r][i] = s[r][i]
        \/ r = q /\ s2[r][i] = m /\ \A j \in DOMAIN s2[r] : ~(i < j)

\* What Append does to one of the queues.
LEMMA AppendGrows ==
    ASSUME NEW s \in Queued, NEW q \in Proc, NEW m \in Packet
    PROVE  Grown([s EXCEPT ![q] = Append(@, m)], s, q, m)
<1>1. s[q] \in Seq(Packet)
  BY DEF Queued
<1> DEFINE t == Append(s[q], m)
           s2 == [s EXCEPT ![q] = t]
<1>2. /\ DOMAIN t = 1 .. Len(s[q]) + 1 /\ DOMAIN s[q] = 1 .. Len(s[q]) /\ Len(s[q]) \in Nat
      /\ t[Len(s[q]) + 1] = m /\ \A x \in DOMAIN s[q] : t[x] = s[q][x]
  BY <1>1
<1>3. s2[q] = t /\ \A r \in Proc : r # q => s2[r] = s[r]
  BY DEF Queued
<1> HIDE DEF t
<1>4. \A i \in DOMAIN t : \/ i \in DOMAIN s[q] /\ t[i] = s[q][i]
                          \/ t[i] = m /\ \A j \in DOMAIN t : ~(i < j)
  BY <1>2
<1> HIDE DEF s2
<1>5. Grown(s2, s, q, m)
  BY <1>3, <1>4 DEF Grown
<1> QED
  BY <1>5 DEF s2, t

\* The next message of p may join its own queue, or a socket when nothing of p
\* is pending: it has the highest number.
LEMMA OrderAppend ==
    ASSUME NEW so \in Queued, NEW pe \in Queued, NEW re \in Queued,
           NEW la \in [Proc -> [Proc -> Nat]], NEW se \in [Proc -> Nat],
           NEW p \in Proc, NEW q \in Proc, NEW m \in Packet,
           IsNext(p, q, m, se[p] + 1),
           OrderOf(so, pe, re, la, se)
    PROVE  /\ OrderOf(so, pe, re, la, OneMore(se, p))
           /\ pe[p] = <<>> => OrderOf([so EXCEPT ![q] = Append(@, m)], pe, re, la, OneMore(se, p))
           /\ OrderOf(so, [pe EXCEPT ![p] = Append(@, m)], re, la, OneMore(se, p))
<1>s. PICK se2 : se2 = OneMore(se, p)
  OBVIOUS
<1>0. /\ \A r \in Proc : so[r] \in Seq(Packet) /\ pe[r] \in Seq(Packet)
      /\ se2[p] = se[p] + 1
  BY <1>s DEF Queued, OneMore
<1>1. /\ OrderOf(so, pe, re, la, se2)
      /\ \A r \in Proc : \A i \in DOMAIN so[r] : so[r][i].from = p => so[r][i].n < m.n
      /\ \A r \in Proc : \A i \in DOMAIN pe[r] : pe[r][i].from = p => pe[r][i].n < m.n
      /\ \A r \in Proc : la[p][r] < m.n
  <2>1. m.n = se[p] + 1
    BY DEF IsNext
  <2>2. /\ OrderOf(so, pe, re, la, se2)
        /\ \A r \in Proc : \A i \in DOMAIN so[r] : so[r][i].from = p => so[r][i].n < se[p] + 1
        /\ \A r \in Proc : \A i \in DOMAIN pe[r] : pe[r][i].from = p => pe[r][i].n < se[p] + 1
        /\ \A r \in Proc : la[p][r] < se[p] + 1
    BY <1>s, OrderSent
  <2> QED
    BY <2>1, <2>2
<1>n. m.n \in Nat /\ m.n <= se2[p]
  BY <1>0, PacketFields DEF IsNext
<1>2. ASSUME pe[p] = <<>>, NEW so2, Grown(so2, so, q, m)
      PROVE  OrderOf(so2, pe, re, la, se2)
  <2>5. \A r \in Proc : \A i \in DOMAIN so2[r] :
            \/ i \in DOMAIN so[r] /\ so2[r][i] = so[r][i]
            \/ r = q /\ so2[r][i] = m /\ \A j \in DOMAIN so2[r] : ~(i < j)
    BY <1>2 DEF Grown
  <2>6. ASSUME NEW r \in Proc, NEW i \in DOMAIN so2[r]
        PROVE  /\ so2[r][i].to = r /\ so2[r][i].n <= se2[so2[r][i].from]
               /\ ~so2[r][i].late => la[so2[r][i].from][r] < so2[r][i].n
    <3>1. CASE i \in DOMAIN so[r] /\ so2[r][i] = so[r][i]
      BY <1>1, <3>1 DEF OrderOf
    <3>2. CASE r = q /\ so2[r][i] = m
      BY <1>1, <1>n, <3>2 DEF IsNext
    <3> QED
      BY <2>5, <2>6, <3>1, <3>2
  <2>7. ASSUME NEW r \in Proc, NEW i \in DOMAIN so2[r], NEW j \in DOMAIN so2[r], i < j
        PROVE  Before(so2[r][i], so2[r][j])
    BY <1>1, <2>5, <2>7 DEF OrderOf, Before, IsNext
  <2>8. ASSUME NEW r \in Proc, NEW s \in Proc, NEW i \in DOMAIN so2[s], NEW j \in DOMAIN pe[r]
        PROVE  Before(so2[s][i], pe[r][j])
    <3>1. pe[r][j].from = r
      BY <1>1, <2>8 DEF OrderOf
    <3>2. r # p
      <4>1. DOMAIN pe[p] = {}
        BY <1>2
      <4> QED
        BY <2>8, <4>1
    <3>3. CASE i \in DOMAIN so[s] /\ so2[s][i] = so[s][i]
      BY <1>1, <2>8, <3>3 DEF OrderOf
    <3>4. CASE so2[s][i] = m
      BY <3>1, <3>2, <3>4 DEF Before, IsNext
    <3> QED
      BY <2>5, <2>8, <3>3, <3>4
  <2> QED
    BY <1>1, <2>6, <2>7, <2>8 DEF OrderOf
<1>3. ASSUME NEW pe2, Grown(pe2, pe, p, m)
      PROVE  OrderOf(so, pe2, re, la, se2)
  <2>5. \A r \in Proc : \A i \in DOMAIN pe2[r] :
            \/ i \in DOMAIN pe[r] /\ pe2[r][i] = pe[r][i]
            \/ r = p /\ pe2[r][i] = m /\ \A j \in DOMAIN pe2[r] : ~(i < j)
    BY <1>3 DEF Grown
  <2>6. ASSUME NEW r \in Proc, NEW i \in DOMAIN pe2[r]
        PROVE  /\ pe2[r][i].from = r /\ pe2[r][i].n <= se2[r]
               /\ ~pe2[r][i].late => la[r][pe2[r][i].to] < pe2[r][i].n
    BY <1>1, <1>n, <2>5, <2>6 DEF OrderOf, IsNext
  <2>7. ASSUME NEW r \in Proc, NEW i \in DOMAIN pe2[r], NEW j \in DOMAIN pe2[r], i < j
        PROVE  Before(pe2[r][i], pe2[r][j])
    BY <1>1, <2>5, <2>7 DEF OrderOf, Before, IsNext
  <2>8. ASSUME NEW r \in Proc, NEW s \in Proc, NEW i \in DOMAIN so[s], NEW j \in DOMAIN pe2[r]
        PROVE  Before(so[s][i], pe2[r][j])
    <3>1. CASE j \in DOMAIN pe[r] /\ pe2[r][j] = pe[r][j]
      BY <1>1, <2>8, <3>1 DEF OrderOf
    <3>2. CASE pe2[r][j] = m
      BY <1>1, <2>8, <3>2 DEF Before, IsNext
    <3> QED
      BY <2>5, <2>8, <3>1, <3>2
  <2> QED
    BY <1>1, <2>6, <2>7, <2>8 DEF OrderOf
<1> QED
  BY <1>s, <1>1, <1>2, <1>3, AppendGrows

\* messaging_send keeps the order.
LEMMA OrderSends ==
    ASSUME TypeOK, NEW p \in Proc, NEW q \in Proc, NEW m \in Packet, NEW b, NEW so \in Queued,
           New(p, q, b, m), Sends(p, q, m, so), last' \in [Proc -> [Proc -> Nat]],
           OrderOf(so, pending, retry_queue, last', sent)
    PROVE  OrderInv'
<1>0. pending \in Queued /\ retry_queue \in Queued /\ sent \in [Proc -> Nat]
  BY DEF TypeOK, Queued
<1>1. IsNext(p, q, m, sent[p] + 1)
  BY DEF New, IsNext
<1>2. sent' = OneMore(sent, p) /\ retry_queue' = retry_queue
  BY DEF Sends, OneMore
<1>3. PICK la \in [Proc -> [Proc -> Nat]] : la = last'
  OBVIOUS
<1>4. /\ OrderOf(so, pending, retry_queue, la, sent')
      /\ pending[p] = <<>> => OrderOf([so EXCEPT ![q] = Append(@, m)], pending, retry_queue, la, sent')
      /\ OrderOf(so, [pending EXCEPT ![p] = Append(@, m)], retry_queue, la, sent')
  BY <1>0, <1>1, <1>2, <1>3, OrderAppend
<1>5. OrderOf(socket', pending', retry_queue', last', sent')
  BY <1>2, <1>3, <1>4 DEF Sends
<1> QED
  BY <1>5, OrderInvIsThen

\* The socket s2 of q is s with messages of the queue w behind it: from its first
\* k, those at the places that g gives.
Went(g, s2, s, w, k, q) ==
    /\ \A i \in DOMAIN s2 :
          \/ i \in DOMAIN s /\ s2[i] = s[i]
          \/ /\ i \notin DOMAIN s /\ g[i] \in 1 .. k /\ g[i] \in DOMAIN w
             /\ s2[i] = w[g[i]] /\ w[g[i]].to = q
    /\ \A i, j \in DOMAIN s2 : i < j /\ i \notin DOMAIN s => j \notin DOMAIN s /\ g[i] < g[j]

\* Where the messages of a socket come from when part of a queue was appended
\* to it.
LEMMA AppendedWent ==
    ASSUME NEW s \in Seq(Packet), NEW t \in Seq(Packet), NEW w \in Seq(Packet), NEW k \in 0 .. Len(w),
           NEW q, NEW I, I \subseteq {i \in 1 .. k : w[i].to = q}, Keeps(t, w, I)
    PROVE  \E g : Went(g, s \o t, s, w, k, q)
<1>1. PICK f : KeptFrom(f, t, w, I)
  BY DEF Keeps
<1>2. PICK n \in Nat : n = Len(s) /\ DOMAIN s = 1 .. n
  OBVIOUS
<1>3. PICK l \in Nat : l = Len(t) /\ DOMAIN t = 1 .. l
  OBVIOUS
<1>4. /\ DOMAIN (s \o t) = 1 .. n + l
      /\ \A i \in 1 .. n : (s \o t)[i] = s[i]
      /\ \A i \in n + 1 .. n + l : (s \o t)[i] = t[i - n]
  BY <1>2, <1>3
<1>5. PICK s2 : s2 = s \o t
  OBVIOUS
<1>6. PICK g : g = [i \in n + 1 .. n + l |-> f[i - n]]
  OBVIOUS
<1>7. ASSUME NEW i \in 1 .. n + l, i \notin 1 .. n
      PROVE  i \in n + 1 .. n + l /\ i - n \in 1 .. l /\ g[i] = f[i - n] /\ g[i] \in I /\ s2[i] = w[g[i]]
  <2>1. i \in n + 1 .. n + l /\ i - n \in 1 .. l
    BY <1>7
  <2>2. g[i] = f[i - n]
    BY <1>6, <2>1
  <2>3. f[i - n] \in I /\ t[i - n] = w[f[i - n]]
    BY <1>1, <1>3, <2>1 DEF KeptFrom
  <2> QED
    BY <1>4, <1>5, <2>1, <2>2, <2>3
<1>8. ASSUME NEW i \in 1 .. n + l, NEW j \in 1 .. n + l, i < j, i \notin 1 .. n
      PROVE  j \notin 1 .. n /\ g[i] < g[j]
  <2>1. j \notin 1 .. n
    BY <1>8
  <2>2. i - n \in 1 .. l /\ j - n \in 1 .. l /\ i - n < j - n
    BY <1>8, <2>1
  <2>3. f[i - n] < f[j - n]
    BY <1>1, <1>3, <2>2 DEF KeptFrom
  <2> QED
    BY <1>7, <1>8, <2>1, <2>3
<1>9. \A i \in I : i \in 1 .. k /\ i \in DOMAIN w /\ w[i].to = q
  OBVIOUS
<1>10. Went(g, s2, s, w, k, q)
  <2>1. DOMAIN s2 = 1 .. n + l /\ \A i \in 1 .. n : s2[i] = s[i]
    BY <1>4, <1>5
  <2>2. \A i \in DOMAIN s2 :
          \/ i \in DOMAIN s /\ s2[i] = s[i]
          \/ /\ i \notin DOMAIN s /\ g[i] \in 1 .. k /\ g[i] \in DOMAIN w
             /\ s2[i] = w[g[i]] /\ w[g[i]].to = q
    BY <1>2, <1>7, <1>9, <2>1
  <2> QED
    BY <1>2, <1>8, <2>1, <2>2 DEF Went
<1> QED
  BY <1>5, <1>10

\* After messaging_send_handler every message in a socket was there before, or
\* was in the front of the queue, in the same order.
LEMMA PutOutPlaces ==
    ASSUME TypeOK, NEW p \in Proc, NEW k \in Nat, PutOut(p, k)
    PROVE  \E f : \A q \in Proc : Went(f[q], socket'[q], socket[q], pending[p], k, q)
<1> DEFINE f == [q \in Proc |-> CHOOSE g : Went(g, socket'[q], socket[q], pending[p], k, q)]
<1>0. pending[p] \in Seq(Packet) /\ k \in 0 .. Len(pending[p])
  BY DEF TypeOK, PutOut
<1>1. ASSUME NEW q \in Proc
      PROVE  \E g : Went(g, socket'[q], socket[q], pending[p], k, q)
  <2>0. socket[q] \in Seq(Packet)
    BY DEF TypeOK
  <2>1. PICK t \in Seq(Packet) : \E I \in SUBSET Into(p, k, q) :
          socket'[q] = socket[q] \o t /\ Keeps(t, pending[p], I)
    BY DEF PutOut
  <2>2. PICK I \in SUBSET Into(p, k, q) : socket'[q] = socket[q] \o t /\ Keeps(t, pending[p], I)
    BY <2>1
  <2>3. I \subseteq {i \in 1 .. k : pending[p][i].to = q}
    BY DEF Into
  <2>4. \E g : Went(g, socket[q] \o t, socket[q], pending[p], k, q)
    BY <1>0, <2>0, <2>2, <2>3, AppendedWent
  <2> QED
    BY <2>2, <2>4
<1>2. \A q \in Proc : Went(f[q], socket'[q], socket[q], pending[p], k, q)
  <2> TAKE q \in Proc
  <2>1. f[q] = CHOOSE g : Went(g, socket'[q], socket[q], pending[p], k, q)
    OBVIOUS
  <2> QED
    BY <1>1, <2>1
<1> QED
  BY <1>2

\* messaging_send_handler keeps the order: what goes out is the front of the
\* queue, and what is backed off is marked.
LEMMA OrderPutOut ==
    ASSUME TypeOK, OrderInv, NEW p \in Proc, NEW k \in Nat, PutOut(p, k), UNCHANGED last
    PROVE  OrderInv'
<1>0. /\ \A q \in Proc : /\ socket[q] \in Seq(Packet) /\ pending[q] \in Seq(Packet)
                         /\ retry_queue[q] \in Seq(Packet)
      /\ socket' \in Queued /\ pending' \in Queued /\ retry_queue' \in Queued
  BY DEF TypeOK, PutOut
<1>1. PICK f : \A q \in Proc : Went(f[q], socket'[q], socket[q], pending[p], k, q)
  BY PutOutPlaces
<1>2. PICK k2 \in Nat : k <= k2 /\ Shifted(pending'[p], pending[p], k2)
  <2>1. Shifted(pending'[p], pending[p], k) \/ Shifted(pending'[p], pending[p], k + 1)
    BY DEF PutOut
  <2>2. k + 1 \in Nat /\ k <= k + 1 /\ k <= k
    OBVIOUS
  <2> QED
    BY <2>1, <2>2
<1>o. OrderOf(socket, pending, retry_queue, last, sent)
  BY OrderInvIs
<1>3. \A r \in Proc : \A i \in DOMAIN pending'[r] : \E j \in DOMAIN pending[r] :
        /\ Alike(pending'[r][i], pending[r][j]) /\ pending'[r][i].late = pending[r][j].late
        /\ r = p => j = i + k2
        /\ r # p => j = i
  <2> SUFFICES ASSUME NEW r \in Proc, NEW i \in DOMAIN pending'[r]
               PROVE  \E j \in DOMAIN pending[r] :
                        /\ Alike(pending'[r][i], pending[r][j])
                        /\ pending'[r][i].late = pending[r][j].late
                        /\ r = p => j = i + k2
                        /\ r # p => j = i
    OBVIOUS
  <2>1. CASE r = p
    BY <1>2, <2>1 DEF Shifted
  <2>2. CASE r # p
    BY <2>2 DEF PutOut, Alike
  <2> QED
    BY <2>1, <2>2
<1>4. \A q \in Proc : \A i \in DOMAIN socket'[q] :
        \/ i \in DOMAIN socket[q] /\ socket'[q][i] = socket[q][i]
        \/ /\ i \notin DOMAIN socket[q] /\ f[q][i] \in 1 .. k /\ f[q][i] \in DOMAIN pending[p]
           /\ socket'[q][i] = pending[p][f[q][i]] /\ pending[p][f[q][i]].to = q
  BY <1>1 DEF Went
<1>5. \A q \in Proc : \A i, j \in DOMAIN socket'[q] :
        i < j /\ i \notin DOMAIN socket[q] => j \notin DOMAIN socket[q] /\ f[q][i] < f[q][j]
  BY <1>1 DEF Went
<1>6. sent' = sent /\ last' = last
  BY DEF PutOut
<1>7. ASSUME NEW q \in Proc, NEW i \in DOMAIN socket'[q]
      PROVE  /\ socket'[q][i].to = q /\ socket'[q][i].n <= sent[socket'[q][i].from]
             /\ ~socket'[q][i].late => last[socket'[q][i].from][q] < socket'[q][i].n
  <2>1. CASE i \in DOMAIN socket[q] /\ socket'[q][i] = socket[q][i]
    BY <1>o, <2>1 DEF OrderOf
  <2>2. CASE /\ f[q][i] \in DOMAIN pending[p]
             /\ socket'[q][i] = pending[p][f[q][i]] /\ pending[p][f[q][i]].to = q
    BY <1>o, <2>2 DEF OrderOf
  <2> QED
    BY <1>4, <1>7, <2>1, <2>2
<1>8. ASSUME NEW r \in Proc, NEW i \in DOMAIN pending'[r]
      PROVE  /\ pending'[r][i].from = r /\ pending'[r][i].n <= sent[r]
             /\ ~pending'[r][i].late => last[r][pending'[r][i].to] < pending'[r][i].n
  BY <1>o, <1>3, <1>8 DEF OrderOf, Alike
<1>9. ASSUME NEW r \in Proc, NEW i \in DOMAIN retry_queue'[r]
      PROVE  retry_queue'[r][i].from = r /\ retry_queue'[r][i].n <= sent[r] /\ retry_queue'[r][i].late
  <2>1. CASE retry_queue'[r] = retry_queue[r]
    BY <1>o, <1>9, <2>1 DEF OrderOf
  <2>2. CASE r = p /\ retry_queue'[p] # retry_queue[p]
    <3>1. PICK y \in Packet : /\ k < Len(pending[p]) /\ retry_queue'[p] = Append(retry_queue[p], y)
                              /\ Alike(y, pending[p][k + 1]) /\ y.late = TRUE
      BY <2>2 DEF PutOut
    <3>2. k + 1 \in DOMAIN pending[p]
      BY <1>0, <3>1
    <3>3. y.from = p /\ y.n <= sent[p] /\ y.late
      BY <1>o, <3>1, <3>2 DEF OrderOf, Alike
    <3>4. \/ retry_queue'[p][i] = y
          \/ i \in DOMAIN retry_queue[p] /\ retry_queue'[p][i] = retry_queue[p][i]
      <4>1. retry_queue[p] \in Seq(Packet) /\ i \in DOMAIN Append(retry_queue[p], y)
        BY <1>0, <1>9, <2>2, <3>1
      <4>2. \/ Append(retry_queue[p], y)[i] = y
            \/ i \in DOMAIN retry_queue[p] /\ Append(retry_queue[p], y)[i] = retry_queue[p][i]
        BY <4>1
      <4> QED
        BY <3>1, <4>2
    <3> QED
      BY <1>o, <2>2, <3>3, <3>4 DEF OrderOf
  <2> QED
    BY <2>1, <2>2 DEF PutOut
<1>10. ASSUME NEW q \in Proc, NEW i \in DOMAIN socket'[q], NEW j \in DOMAIN socket'[q], i < j
       PROVE  Before(socket'[q][i], socket'[q][j])
  <2>1. CASE i \in DOMAIN socket[q] /\ j \in DOMAIN socket[q]
    BY <1>o, <1>4, <1>10, <2>1 DEF OrderOf
  <2>2. CASE i \in DOMAIN socket[q] /\ j \notin DOMAIN socket[q]
    BY <1>o, <1>4, <1>10, <2>2 DEF OrderOf
  <2>3. CASE i \notin DOMAIN socket[q]
    <3>1. j \notin DOMAIN socket[q] /\ f[q][i] < f[q][j]
      BY <1>5, <1>10, <2>3
    <3> QED
      BY <1>o, <1>4, <1>10, <2>3, <3>1 DEF OrderOf
  <2> QED
    BY <2>1, <2>2, <2>3
<1>11. ASSUME NEW r \in Proc, NEW i \in DOMAIN pending'[r], NEW j \in DOMAIN pending'[r], i < j
       PROVE  Before(pending'[r][i], pending'[r][j])
  <2>0. i \in Nat /\ j \in Nat
    BY <1>0, <1>11 DEF Queued
  <2>1. PICK i2 \in DOMAIN pending[r], j2 \in DOMAIN pending[r] :
          /\ Alike(pending'[r][i], pending[r][i2]) /\ pending'[r][i].late = pending[r][i2].late
          /\ Alike(pending'[r][j], pending[r][j2]) /\ pending'[r][j].late = pending[r][j2].late
          /\ i2 < j2
    BY <1>3, <1>11, <2>0
  <2>2. Before(pending[r][i2], pending[r][j2])
    BY <1>o, <2>1 DEF OrderOf
  <2> QED
    BY <2>1, <2>2 DEF Before, Alike
<1>12. ASSUME NEW r \in Proc, NEW q \in Proc, NEW i \in DOMAIN socket'[q], NEW j \in DOMAIN pending'[r]
       PROVE  Before(socket'[q][i], pending'[r][j])
  <2>0. j \in Nat /\ 1 <= j
    BY <1>0, <1>12 DEF Queued
  <2>1. PICK j2 \in DOMAIN pending[r] :
          /\ Alike(pending'[r][j], pending[r][j2]) /\ pending'[r][j].late = pending[r][j2].late
          /\ r = p => j2 = j + k2
    BY <1>3, <1>12
  <2>2. CASE i \in DOMAIN socket[q] /\ socket'[q][i] = socket[q][i]
    <3>1. Before(socket[q][i], pending[r][j2])
      BY <1>o, <2>1, <2>2 DEF OrderOf
    <3> QED
      BY <2>1, <2>2, <3>1 DEF Before, Alike
  <2>3. CASE /\ f[q][i] \in 1 .. k /\ f[q][i] \in DOMAIN pending[p]
             /\ socket'[q][i] = pending[p][f[q][i]]
    <3>1. CASE r = p
      <4>1. f[q][i] < j2
        BY <1>2, <2>0, <2>1, <2>3, <3>1
      <4>2. Before(pending[p][f[q][i]], pending[p][j2])
        BY <1>o, <2>1, <2>3, <3>1, <4>1 DEF OrderOf
      <4> QED
        BY <2>1, <2>3, <3>1, <4>2 DEF Before, Alike
    <3>2. CASE r # p
      <4>1. pending[p][f[q][i]].from = p /\ pending[r][j2].from = r
        BY <1>o, <2>1, <2>3 DEF OrderOf
      <4> QED
        BY <2>1, <2>3, <3>2, <4>1 DEF Before, Alike
    <3> QED
      BY <3>1, <3>2
  <2> QED
    BY <1>4, <1>12, <2>2, <2>3
<1>13. OrderOf(socket', pending', retry_queue', last', sent')
  <2>1. \A r, q \in Proc : last[r][q] <= sent[r]
    BY <1>o DEF OrderOf
  <2> QED
    BY <1>6, <1>7, <1>8, <1>9, <1>10, <1>11, <1>12, <2>1 DEF OrderOf
<1> QED
  BY <1>13, OrderInvIsThen

\* Where the elements of two sequences are in their concatenation.
LEMMA JoinPlaces ==
    ASSUME NEW u \in Seq(Packet), NEW v \in Seq(Packet)
    PROVE  \A i \in DOMAIN (u \o v) :
             /\ i \in Nat
             /\ \/ i \in DOMAIN u /\ (u \o v)[i] = u[i] /\ i <= Len(u)
                \/ i - Len(u) \in DOMAIN v /\ (u \o v)[i] = v[i - Len(u)] /\ Len(u) < i
<1>1. PICK n \in Nat : n = Len(u) /\ DOMAIN u = 1 .. n
  OBVIOUS
<1>2. PICK l \in Nat : l = Len(v) /\ DOMAIN v = 1 .. l
  OBVIOUS
<1>3. PICK w : w = u \o v
  OBVIOUS
<1>4. /\ DOMAIN w = 1 .. n + l
      /\ \A i \in 1 .. n : w[i] = u[i]
      /\ \A i \in n + 1 .. n + l : w[i] = v[i - n]
  BY <1>1, <1>2, <1>3
<1>5. ASSUME NEW i \in 1 .. n + l
      PROVE  /\ i \in Nat
             /\ \/ i \in 1 .. n /\ w[i] = u[i] /\ i <= n
                \/ i - n \in 1 .. l /\ w[i] = v[i - n] /\ n < i
  <2>1. CASE i <= n
    BY <1>4, <2>1
  <2>2. CASE n < i
    BY <1>4, <2>2
  <2> QED
    BY <2>1, <2>2
<1> QED
  BY <1>1, <1>2, <1>3, <1>4, <1>5

\* msg_retry_timer keeps the order: what it puts at the end of the queue is
\* marked as backed off.
LEMMA OrderRequeued ==
    ASSUME TypeOK, OrderInv, NEW p \in Proc, Requeued(p), UNCHANGED last
    PROVE  OrderInv'
<1>0. /\ \A q \in Proc : pending[q] \in Seq(Packet) /\ retry_queue[q] \in Seq(Packet)
      /\ pending \in Queued /\ retry_queue \in Queued
  BY DEF TypeOK, Queued
<1>o. OrderOf(socket, pending, retry_queue, last, sent)
  BY OrderInvIs
<1>1. /\ pending'[p] = pending[p] \o retry_queue[p] /\ retry_queue'[p] = <<>>
      /\ \A r \in Proc : r # p => pending'[r] = pending[r] /\ retry_queue'[r] = retry_queue[r]
      /\ socket' = socket /\ sent' = sent /\ last' = last
  BY <1>0 DEF Requeued, Queued
<1>2. PICK n \in Nat : n = Len(pending[p]) /\ DOMAIN pending[p] = 1 .. n
  BY <1>0
<1>3. \A i \in DOMAIN pending'[p] :
        \/ i \in DOMAIN pending[p] /\ pending'[p][i] = pending[p][i]
        \/ i - n \in DOMAIN retry_queue[p] /\ pending'[p][i] = retry_queue[p][i - n]
  <2>1. pending[p] \in Seq(Packet) /\ retry_queue[p] \in Seq(Packet)
    BY <1>0
  <2>2. \A i \in DOMAIN (pending[p] \o retry_queue[p]) :
          \/ i \in DOMAIN pending[p] /\ (pending[p] \o retry_queue[p])[i] = pending[p][i]
          \/ /\ i - n \in DOMAIN retry_queue[p]
             /\ (pending[p] \o retry_queue[p])[i] = retry_queue[p][i - n]
    BY <1>2, <2>1, JoinPlaces
  <2> QED
    BY <1>1, <2>2
<1>4. \A r \in Proc : \A i \in DOMAIN pending'[r] :
        \/ i \in DOMAIN pending[r] /\ pending'[r][i] = pending[r][i]
        \/ /\ pending'[r][i].from = r /\ pending'[r][i].n <= sent[r] /\ pending'[r][i].late
  <2> SUFFICES ASSUME NEW r \in Proc, NEW i \in DOMAIN pending'[r]
               PROVE  \/ i \in DOMAIN pending[r] /\ pending'[r][i] = pending[r][i]
                      \/ /\ pending'[r][i].from = r /\ pending'[r][i].n <= sent[r]
                         /\ pending'[r][i].late
    OBVIOUS
  <2>1. CASE r # p
    BY <1>1, <2>1
  <2>2. CASE r = p
    BY <1>o, <1>3, <2>2 DEF OrderOf
  <2> QED
    BY <2>1, <2>2
<1>5. ASSUME NEW r \in Proc, NEW i \in DOMAIN pending'[r]
      PROVE  /\ pending'[r][i].from = r /\ pending'[r][i].n <= sent[r]
             /\ ~pending'[r][i].late => last[r][pending'[r][i].to] < pending'[r][i].n
  BY <1>o, <1>4, <1>5 DEF OrderOf
<1>6. ASSUME NEW r \in Proc, NEW i \in DOMAIN retry_queue'[r]
      PROVE  /\ retry_queue'[r][i].from = r /\ retry_queue'[r][i].n <= sent[r]
             /\ retry_queue'[r][i].late
  <2>1. r # p
    BY <1>1, <1>6
  <2> QED
    BY <1>o, <1>1, <1>6, <2>1 DEF OrderOf
<1>7. ASSUME NEW r \in Proc, NEW i \in DOMAIN pending'[r], NEW j \in DOMAIN pending'[r], i < j
      PROVE  Before(pending'[r][i], pending'[r][j])
  BY <1>o, <1>4, <1>7 DEF OrderOf, Before
<1>8. ASSUME NEW r \in Proc, NEW q \in Proc, NEW i \in DOMAIN socket[q], NEW j \in DOMAIN pending'[r]
      PROVE  Before(socket[q][i], pending'[r][j])
  <2>1. CASE j \in DOMAIN pending[r] /\ pending'[r][j] = pending[r][j]
    BY <1>o, <1>8, <2>1 DEF OrderOf
  <2>2. CASE pending'[r][j].late
    BY <2>2 DEF Before
  <2> QED
    BY <1>4, <1>8, <2>1, <2>2
<1>9. OrderOf(socket, pending', retry_queue', last, sent)
  BY <1>o, <1>5, <1>6, <1>7, <1>8 DEF OrderOf
<1> QED
  BY <1>1, <1>9, OrderInvIsThen

\* The end of a process keeps the order of what is left.
LEMMA OrderVanished ==
    ASSUME TypeOK, OrderInv, TypedQueues', NEW p \in Proc, Vanished(p), UNCHANGED last
    PROVE  OrderInv'
<1>0. /\ socket \in Queued /\ pending \in Queued /\ retry_queue \in Queued
      /\ socket' \in Queued /\ pending' \in Queued /\ retry_queue' \in Queued
  BY DEF TypeOK, TypedQueues, Queued
<1>1. \A q \in Proc : /\ socket'[q] = socket[q] \/ socket'[q] = <<>>
                      /\ pending'[q] = pending[q] \/ pending'[q] = <<>>
                      /\ retry_queue'[q] = retry_queue[q] \/ retry_queue'[q] = <<>>
  BY <1>0 DEF Vanished, Queued
<1>2. \A q \in Proc : /\ Thin(socket'[q], socket[q]) /\ Thin(pending'[q], pending[q])
                      /\ Thin(retry_queue'[q], retry_queue[q])
  <2> TAKE q \in Proc
  <2>1. socket[q] \in Seq(Packet) /\ pending[q] \in Seq(Packet) /\ retry_queue[q] \in Seq(Packet)
    BY <1>0 DEF Queued
  <2>2. /\ Thin(socket[q], socket[q]) /\ Thin(pending[q], pending[q])
        /\ Thin(retry_queue[q], retry_queue[q])
    BY <2>1, ThinSame
  <2> QED
    BY <1>1, <2>2, ThinEmpty
<1>3. OrderOf(socket, pending, retry_queue, last, sent)
  BY OrderInvIs
<1>4. OrderOf(socket', pending', retry_queue', last, sent)
  BY <1>0, <1>2, <1>3, OrderThin
<1>5. sent' = sent /\ last' = last
  BY DEF Vanished
<1> QED
  BY <1>4, <1>5, OrderInvIsThen

\* Every effect keeps the order of messages.
LEMMA OrderStep ==
    ASSUME Good, Good', OrderInv, Effect
    PROVE  OrderInv'
<1>0. TypeOK /\ socket \in Queued /\ last' \in [Proc -> [Proc -> Nat]] /\ TypedQueues'
  BY DEF Good, TypeOK, Queued, TypedQueues
<1>o. OrderOf(socket, pending, retry_queue, last, sent)
  BY OrderInvIs
<1>n. ASSUME UNCHANGED <<socket, pending, retry_queue, sent, last>>
      PROVE  OrderInv'
  BY <1>n DEF OrderInv, Numbered, Ordered, NotTaken
<1>s. ASSUME NEW p \in Proc, NEW q \in Proc, NEW b, NEW m \in Packet, New(p, q, b, m),
             Sends(p, q, m, socket), UNCHANGED last
      PROVE  OrderInv'
  <2>1. OrderOf(socket, pending, retry_queue, last', sent)
    BY <1>o, <1>s
  <2> QED
    BY <1>0, <1>s, <2>1, OrderSends
<1>t. ASSUME NEW p \in Proc, NEW h \in Packet, Hears(p, h), Took(p)
      PROVE  OrderInv'
  <2>1. OrderOf(Taken(p), pending, retry_queue, last', sent)
    BY <1>0, <1>t, OrderTake
  <2>2. OrderOf(socket', pending', retry_queue', last', sent')
    BY <1>t, <2>1 DEF Took
  <2> QED
    BY <2>2, OrderInvIsThen
<1>1. CASE \E p, q \in Proc, m \in Packet : Pings(p, q, m)
  BY <1>s, <1>1 DEF Pings, Quiet
<1>2. CASE \E p, q \in Proc, m \in Packet, c \in Call, id \in Nat : Calls(p, q, m, c, id)
  BY <1>s, <1>2 DEF Calls
<1>3. CASE \E p \in Proc, x \in Asked, m \in Packet : Answers(p, x, m)
  BY <1>s, <1>3, AskedBody DEF Answers
<1>4. CASE \E p \in Proc, h \in Packet : Ignores(p, h) \/ Defers(p, h)
  BY <1>t, <1>4 DEF Ignores, Defers
<1>5. CASE \E p \in Proc, h, m \in Packet, b \in Body : Replies(p, h, m, b)
  <2>1. PICK p \in Proc, h \in Packet, m \in Packet, b \in Body : Replies(p, h, m, b)
    BY <1>5
  <2>2. Hears(p, h) /\ New(p, h.from, b, m) /\ Sends(p, h.from, m, Taken(p)) /\ h.from \in Proc
    BY <2>1, PacketFields DEF Replies
  <2>3. OrderOf(Taken(p), pending, retry_queue, last', sent)
    BY <1>0, <2>2, OrderTake
  <2>4. Taken(p) \in Queued
    BY <1>0, <2>2, TakenQueues DEF Hears
  <2> QED
    BY <1>0, <2>2, <2>3, <2>4, OrderSends
<1>6. CASE \E p \in Proc, h \in Packet, c \in Call, pc \in {"done", "ended"}, st \in {"ok", "unparsed"} :
              IsAnswered(p, h, c, pc, st)
  BY <1>t, <1>6 DEF IsAnswered
<1>7. CASE \E p \in Proc : \E k \in Nat : PutOut(p, k) /\ Quiet
  BY <1>0, <1>7, OrderPutOut DEF Quiet
<1>8. CASE \E p \in Proc : Requeued(p) /\ Quiet
  BY <1>0, <1>8, OrderRequeued DEF Quiet
<1>9. CASE \E p \in Proc : Vanished(p) /\ Quiet
  BY <1>0, <1>9, OrderVanished DEF Quiet
<1>10. CASE \/ \E c \in Call, pc \in {"done", "ended"} : TimesOut(c, pc)
            \/ \E c \in Call : ReturnsTo(c)
            \/ UNCHANGED <<socket, pending, retry_queue, sent, call, deferred, last>>
  BY <1>n, <1>10 DEF TimesOut, ReturnsTo
<1> QED
  BY <1>1, <1>2, <1>3, <1>4, <1>5, <1>6, <1>7, <1>8, <1>9, <1>10 DEF Effect

\* On the way from p to q, the messages in the socket come before those in the
\* queue.
LEMMA OrderedOnTheWay ==
    ASSUME TypeOK, OrderInv
    PROVE  InOrder
<1>o. OrderOf(socket, pending, retry_queue, last, sent)
  BY OrderInvIs
<1> SUFFICES ASSUME NEW p \in Proc, NEW q \in Proc
             PROVE  LET way == socket[q] \o pending[p]
                        these == {i \in DOMAIN way :
                                    way[i].from = p /\ way[i].to = q /\ ~ way[i].late}
                    IN  /\ \A i, j \in these : i < j => way[i].n < way[j].n
                        /\ \A i \in these : last[p][q] < way[i].n
  BY DEF InOrder
<1>1. PICK way : way = socket[q] \o pending[p]
  OBVIOUS
<1>2. PICK n \in Nat : n = Len(socket[q]) /\ DOMAIN socket[q] = 1 .. n
  BY DEF TypeOK
<1>3. socket[q] \in Seq(Packet) /\ pending[p] \in Seq(Packet)
  BY DEF TypeOK
<1>4. \A i \in DOMAIN way : i \in Nat /\
        \/ i \in DOMAIN socket[q] /\ way[i] = socket[q][i] /\ i <= n
        \/ i - n \in DOMAIN pending[p] /\ way[i] = pending[p][i - n] /\ n < i
  BY <1>1, <1>2, <1>3, JoinPlaces
<1>5. ASSUME NEW i \in DOMAIN way, NEW j \in DOMAIN way, i < j
      PROVE  Before(way[i], way[j])
  <2>1. CASE way[i] = socket[q][i] /\ i \in DOMAIN socket[q] /\ way[j] = socket[q][j]
             /\ j \in DOMAIN socket[q]
    BY <1>o, <1>5, <2>1 DEF OrderOf
  <2>2. CASE way[i] = socket[q][i] /\ i \in DOMAIN socket[q] /\ way[j] = pending[p][j - n]
             /\ j - n \in DOMAIN pending[p]
    BY <1>o, <1>5, <2>2 DEF OrderOf
  <2>3. CASE way[i] = pending[p][i - n] /\ i - n \in DOMAIN pending[p] /\ way[j] = pending[p][j - n]
             /\ j - n \in DOMAIN pending[p]
    <3>1. i - n < j - n
      BY <1>4, <1>5
    <3> QED
      BY <1>o, <2>3, <3>1 DEF OrderOf
  <2> QED
    BY <1>4, <1>5, <2>1, <2>2, <2>3
<1>6. ASSUME NEW i \in DOMAIN way, way[i].from = p, way[i].to = q, ~way[i].late
      PROVE  last[p][q] < way[i].n
  BY <1>o, <1>4, <1>6 DEF OrderOf
<1>7. \A i, j \in {l \in DOMAIN way : way[l].from = p /\ way[l].to = q /\ ~ way[l].late} :
        i < j => way[i].n < way[j].n
  BY <1>5 DEF Before
<1> QED
  BY <1>1, <1>6, <1>7

-----------------------------------------------------------------------------
(* What is on its way for the calls *)

\* Whatever y is about x is about too, with the same id and the same asker.
Carries(y, x) ==
    \A c \in Call : About(y, c) => /\ About(x, c) /\ y.body.callid = x.body.callid
                                   /\ Asker(y) = Asker(x)

\* A message that is alike is about the same call.
LEMMA AlikeCarries ==
    ASSUME NEW x, NEW y, Alike(y, x)
    PROVE  Carries(y, x)
BY DEF Alike, Carries, About, Asker

Queues == {"socket", "pending", "retry_queue"}

\* Messages stay in their places, except that those in the socket of p move up by
\* s; the message m may be new in queue kn of qn, at the index xn.
QueuesMove(p, s, kn, qn, xn, m) ==
    \A k \in Queues, r \in Proc : \A i \in DOMAIN Queue(k, r)' :
        \/ k = kn /\ r = qn /\ i = xn /\ Queue(k, r)'[i] = m
        \/ \E j \in DOMAIN Queue(k, r) :
              /\ i = (IF k = "socket" /\ r = p THEN j - s ELSE j)
              /\ Alike(Queue(k, r)'[i], Queue(k, r)[j])

\* The sockets so are those of the node, with s packets of p taken.
SocketsMove(p, s, so) ==
    \A r \in Proc : \A i \in DOMAIN so[r] :
        \E j \in DOMAIN socket[r] : i = (IF r = p THEN j - s ELSE j) /\ Alike(so[r][i], socket[r][j])

\* The three queues by their names, before and after a step.
LEMMA QueueIs ==
    /\ \A r : Queue("socket", r) = socket[r] /\ Queue("socket", r)' = socket'[r]
    /\ \A r : Queue("pending", r) = pending[r] /\ Queue("pending", r)' = pending'[r]
    /\ \A r : Queue("retry_queue", r) = retry_queue[r] /\ Queue("retry_queue", r)' = retry_queue'[r]
BY DEF Queue

\* Sockets from which nothing was taken.
LEMMA UntakenMove ==
    ASSUME TypeOK, NEW p \in Proc
    PROVE  SocketsMove(p, 0, socket)
<1>1. \A r \in Proc : \A i \in DOMAIN socket[r] : i = i - 0
  BY DEF TypeOK
<1> QED
  BY <1>1 DEF SocketsMove, Alike

\* Sockets from which p took a packet.
LEMMA TakenMove ==
    ASSUME TypeOK, NEW p \in Proc, socket[p] # <<>>
    PROVE  SocketsMove(p, 1, Taken(p))
<1>1. /\ Taken(p) \in Queued /\ Shifted(Taken(p)[p], socket[p], 1)
      /\ \A q \in Proc : q # p => Taken(p)[q] = socket[q]
  BY TakenQueues
<1> SUFFICES ASSUME NEW r \in Proc, NEW i \in DOMAIN Taken(p)[r]
             PROVE  \E j \in DOMAIN socket[r] :
                      /\ i = (IF r = p THEN j - 1 ELSE j)
                      /\ Alike(Taken(p)[r][i], socket[r][j])
  BY DEF SocketsMove
<1>2. CASE r = p
  <2>1. i + 1 \in DOMAIN socket[r] /\ Alike(Taken(p)[r][i], socket[r][i + 1])
    BY <1>1, <1>2 DEF Shifted
  <2>2. Taken(p)[r] \in Seq(Packet)
    BY <1>1 DEF Queued
  <2>3. i = (i + 1) - 1
    BY <2>2
  <2> QED
    BY <1>2, <2>1, <2>3
<1>3. CASE r # p
  BY <1>1, <1>3 DEF Alike
<1> QED
  BY <1>2, <1>3

\* The queues are the sockets so and the queues of before, with the message m in
\* queue kn of qn, at the index xn.
NewAt(so, kn, qn, xn, m) ==
    /\ \A r \in Proc : \A i \in DOMAIN socket'[r] :
          \/ kn = "socket" /\ r = qn /\ i = xn /\ socket'[r][i] = m
          \/ i \in DOMAIN so[r] /\ socket'[r][i] = so[r][i]
    /\ \A r \in Proc : \A i \in DOMAIN pending'[r] :
          \/ kn = "pending" /\ r = qn /\ i = xn /\ pending'[r][i] = m
          \/ i \in DOMAIN pending[r] /\ pending'[r][i] = pending[r][i]

\* messaging_send adds its message in at most one place and moves the others
\* by what was taken.
LEMMA SendMoves ==
    ASSUME TypeOK, NEW p \in Proc, NEW q \in Proc, NEW m \in Packet, NEW so \in Queued,
           NEW s, SocketsMove(p, s, so), Sends(p, q, m, so)
    PROVE  \E kn \in {"socket", "pending"}, qn \in Proc, xn \in Nat : QueuesMove(p, s, kn, qn, xn, m)
<1>0. pending \in Queued /\ \A r \in Proc : so[r] \in Seq(Packet) /\ pending[r] \in Seq(Packet)
  BY DEF TypeOK, Queued
<1>1. retry_queue' = retry_queue
  BY DEF Sends
<1>2. PICK kn \in {"socket", "pending"}, qn \in Proc, xn \in Nat : NewAt(so, kn, qn, xn, m)
  <2>1. CASE socket' = so /\ pending' = pending
    <3>1. NewAt(so, "socket", q, 0, m)
      BY <2>1 DEF NewAt
    <3> QED
      BY <3>1
  <2>2. CASE socket' = [so EXCEPT ![q] = Append(@, m)] /\ pending' = pending
    <3>1. socket'[q] = Append(so[q], m) /\ \A r \in Proc : r # q => socket'[r] = so[r]
      BY <2>2 DEF Queued
    <3>2. PICK l \in Nat : l = Len(so[q]) + 1
      <4>1. Len(so[q]) \in Nat
        BY <1>0
      <4> QED
        BY <4>1
    <3>3. \A i \in DOMAIN Append(so[q], m) :
             \/ i = l /\ Append(so[q], m)[i] = m
             \/ i \in DOMAIN so[q] /\ Append(so[q], m)[i] = so[q][i]
      BY <1>0, <3>2
    <3>4. \A r \in Proc : \A i \in DOMAIN socket'[r] :
              \/ r = q /\ i = l /\ socket'[r][i] = m
              \/ i \in DOMAIN so[r] /\ socket'[r][i] = so[r][i]
      BY <3>1, <3>3
    <3>5. NewAt(so, "socket", q, l, m)
      BY <2>2, <3>4 DEF NewAt
    <3> QED
      BY <3>5
  <2>3. CASE socket' = so /\ pending' = [pending EXCEPT ![p] = Append(@, m)]
    <3>1. pending'[p] = Append(pending[p], m) /\ \A r \in Proc : r # p => pending'[r] = pending[r]
      BY <1>0, <2>3 DEF Queued
    <3>2. PICK l \in Nat : l = Len(pending[p]) + 1
      <4>1. Len(pending[p]) \in Nat
        BY <1>0
      <4> QED
        BY <4>1
    <3>3. \A i \in DOMAIN Append(pending[p], m) :
             \/ i = l /\ Append(pending[p], m)[i] = m
             \/ i \in DOMAIN pending[p] /\ Append(pending[p], m)[i] = pending[p][i]
      BY <1>0, <3>2
    <3>4. \A r \in Proc : \A i \in DOMAIN pending'[r] :
              \/ r = p /\ i = l /\ pending'[r][i] = m
              \/ i \in DOMAIN pending[r] /\ pending'[r][i] = pending[r][i]
      BY <3>1, <3>3
    <3>5. NewAt(so, "pending", p, l, m)
      BY <2>3, <3>4 DEF NewAt
    <3> QED
      BY <3>5
  <2> QED
    BY <2>1, <2>2, <2>3 DEF Sends
<1>3. ASSUME NEW r \in Proc, NEW i \in DOMAIN socket'[r]
      PROVE  \/ kn = "socket" /\ r = qn /\ i = xn /\ socket'[r][i] = m
             \/ \E j \in DOMAIN socket[r] :
                   i = (IF r = p THEN j - s ELSE j) /\ Alike(socket'[r][i], socket[r][j])
  BY <1>2, <1>3 DEF SocketsMove, NewAt
<1>4. ASSUME NEW k \in Queues, NEW r \in Proc, NEW i \in DOMAIN Queue(k, r)'
      PROVE  \/ k = kn /\ r = qn /\ i = xn /\ Queue(k, r)'[i] = m
             \/ \E j \in DOMAIN Queue(k, r) :
                   /\ i = (IF k = "socket" /\ r = p THEN j - s ELSE j)
                   /\ Alike(Queue(k, r)'[i], Queue(k, r)[j])
  <2>1. CASE k = "socket"
    BY <1>3, <1>4, <2>1, QueueIs
  <2>2. CASE k = "pending"
    BY <1>2, <1>4, <2>2, QueueIs DEF Alike, NewAt
  <2>3. CASE k = "retry_queue"
    BY <1>1, <1>4, <2>3, QueueIs DEF Alike
  <2> QED
    BY <2>1, <2>2, <2>3 DEF Queues
<1>5. QueuesMove(p, s, kn, qn, xn, m)
  BY <1>4 DEF QueuesMove
<1> QED
  BY <1>5

\* Taking a packet adds nothing.
LEMMA TookMoves ==
    ASSUME TypeOK, NEW p \in Proc, Took(p)
    PROVE  QueuesMove(p, 1, "none", p, 0, 0)
<1>1. SocketsMove(p, 1, socket') /\ pending' = pending /\ retry_queue' = retry_queue
  BY TakenMove DEF Took
<1> SUFFICES ASSUME NEW k \in Queues, NEW r \in Proc, NEW i \in DOMAIN Queue(k, r)'
             PROVE  \E j \in DOMAIN Queue(k, r) :
                      /\ i = (IF k = "socket" /\ r = p THEN j - 1 ELSE j)
                      /\ Alike(Queue(k, r)'[i], Queue(k, r)[j])
  BY DEF QueuesMove
<1>2. CASE k = "socket"
  BY <1>1, <1>2, QueueIs DEF SocketsMove
<1>3. CASE k = "pending" \/ k = "retry_queue"
  BY <1>1, <1>3, QueueIs DEF Alike
<1> QED
  BY <1>2, <1>3 DEF Queues

\* The end of a process adds nothing.
LEMMA VanishedMoves ==
    ASSUME TypeOK, NEW p \in Proc, Vanished(p)
    PROVE  QueuesMove(p, 0, "none", p, 0, 0)
<1>0. socket \in Queued /\ pending \in Queued /\ retry_queue \in Queued
  BY DEF TypeOK, Queued
<1>1. \A q \in Proc : /\ socket'[q] = socket[q] \/ socket'[q] = <<>>
                      /\ pending'[q] = pending[q] \/ pending'[q] = <<>>
                      /\ retry_queue'[q] = retry_queue[q] \/ retry_queue'[q] = <<>>
  BY <1>0 DEF Vanished, Queued
<1>2. \A k \in Queues, r \in Proc : /\ Queue(k, r)' = Queue(k, r) \/ Queue(k, r)' = <<>>
                                    /\ Queue(k, r) \in Seq(Packet)
  <2> SUFFICES ASSUME NEW k \in Queues, NEW r \in Proc
               PROVE  /\ Queue(k, r)' = Queue(k, r) \/ Queue(k, r)' = <<>>
                      /\ Queue(k, r) \in Seq(Packet)
    OBVIOUS
  <2>1. CASE k = "socket"
    BY <1>0, <1>1, <2>1, QueueIs DEF Queued
  <2>2. CASE k = "pending"
    BY <1>0, <1>1, <2>2, QueueIs DEF Queued
  <2>3. CASE k = "retry_queue"
    BY <1>0, <1>1, <2>3, QueueIs DEF Queued
  <2> QED
    BY <2>1, <2>2, <2>3 DEF Queues
<1> SUFFICES ASSUME NEW k \in Queues, NEW r \in Proc, NEW i \in DOMAIN Queue(k, r)'
             PROVE  \E j \in DOMAIN Queue(k, r) :
                      /\ i = (IF k = "socket" /\ r = p THEN j - 0 ELSE j)
                      /\ Alike(Queue(k, r)'[i], Queue(k, r)[j])
  BY DEF QueuesMove
<1>3. Queue(k, r)' = Queue(k, r)
  <2>1. DOMAIN <<>> = {}
    OBVIOUS
  <2> QED
    BY <1>2, <2>1
<1>4. i \in DOMAIN Queue(k, r) /\ i = i - 0
  BY <1>2, <1>3
<1> QED
  BY <1>3, <1>4 DEF Alike

\* A step that leaves the queues alone moves nothing.
LEMMA SameMoves ==
    ASSUME TypeOK, NEW p \in Proc, UNCHANGED <<socket, pending, retry_queue>>
    PROVE  QueuesMove(p, 0, "none", p, 0, 0)
<1>1. \A k \in Queues, r \in Proc : Queue(k, r)' = Queue(k, r) /\ Queue(k, r) \in Seq(Packet)
  BY QueueIs DEF Queues, TypeOK
<1> SUFFICES ASSUME NEW k \in Queues, NEW r \in Proc, NEW i \in DOMAIN Queue(k, r)'
             PROVE  \E j \in DOMAIN Queue(k, r) :
                      /\ i = (IF k = "socket" /\ r = p THEN j - 0 ELSE j)
                      /\ Alike(Queue(k, r)'[i], Queue(k, r)[j])
  BY DEF QueuesMove
<1>2. i \in DOMAIN Queue(k, r) /\ i = i - 0
  BY <1>1
<1> QED
  BY <1>1, <1>2 DEF Alike

\* The places of a message before a step: in a queue, or among the requests
\* kept.
LEMMA PlaceIs ==
    /\ \A k \in Queues : \A q : /\ Spots(k, q) = DOMAIN Queue(k, q)
                               /\ \A i : Item(k, q, i) = Queue(k, q)[i]
    /\ \A q : Spots("deferred", q) = deferred[q] /\ \A i : Item("deferred", q, i) = i
    /\ Where = Queues \cup {"deferred"} /\ "deferred" \notin Queues
BY DEF Spots, Item, Where, Queues

\* The same after a step.
LEMMA PlaceIsThen ==
    /\ \A k \in Queues : \A q : /\ Spots(k, q)' = DOMAIN Queue(k, q)'
                               /\ \A i : Item(k, q, i)' = Queue(k, q)'[i]
    /\ \A q : Spots("deferred", q)' = deferred'[q] /\ \A i : Item("deferred", q, i)' = i
BY DEF Spots, Item, Where, Queues

\* What is about a call other than e was there before, and is there once.
Traced(e) ==
    /\ \A k \in Where, q \in Proc : \A i \in Spots(k, q)' : \A c \in Call \ {e} :
          About(Item(k, q, i)', c) =>
              \E k2 \in Where, q2 \in Proc : \E j \in Spots(k2, q2) :
                  Carries(Item(k, q, i)', Item(k2, q2, j))
    /\ \A k, l \in Where, q, r \in Proc : \A i \in Spots(k, q)', j \in Spots(l, r)' :
          \A c \in Call \ {e} :
              About(Item(k, q, i)', c) /\ About(Item(l, r, j)', c) => k = l /\ q = r /\ i = j

\* What is about a call other than e stays in its place, or moves up in the
\* socket of p, or moves from <<ko, qo, xo>> to <<kn, qn, xn>>.
Moves(p, s, e, kn, qn, xn, ko, qo, xo) ==
    \A k \in Where, q \in Proc : \A i \in Spots(k, q)' : \A c \in Call \ {e} :
        About(Item(k, q, i)', c) =>
            \/ /\ k = kn /\ q = qn /\ i = xn /\ xo \in Spots(ko, qo)
               /\ Carries(Item(k, q, i)', Item(ko, qo, xo))
            \/ \E j \in Spots(k, q) :
                  /\ i = (IF k = "socket" /\ q = p THEN j - s ELSE j)
                  /\ Carries(Item(k, q, i)', Item(k, q, j))
                  /\ ~(k = ko /\ q = qo /\ j = xo)

\* When every new place but one comes from an old place by a shift, and that
\* one from one more, no two come from the same.
LEMMA MovesTraced ==
    ASSUME Once, NEW p, NEW s, NEW e, NEW kn, NEW qn, NEW xn, NEW ko, NEW qo \in Proc, NEW xo,
           kn \in Where => ko \in Where, Moves(p, s, e, kn, qn, xn, ko, qo, xo)
    PROVE  Traced(e)
<1>1. ASSUME NEW k \in Where, NEW q \in Proc, NEW i \in Spots(k, q)', NEW c \in Call \ {e},
             About(Item(k, q, i)', c)
      PROVE  \E k2 \in Where, q2 \in Proc : \E j \in Spots(k2, q2) :
                 Carries(Item(k, q, i)', Item(k2, q2, j))
  BY <1>1 DEF Moves
<1>2. ASSUME NEW k \in Where, NEW q \in Proc, NEW i \in Spots(k, q)',
             NEW l \in Where, NEW r \in Proc, NEW j \in Spots(l, r)',
             NEW c \in Call \ {e}, About(Item(k, q, i)', c), About(Item(l, r, j)', c)
      PROVE  k = l /\ q = r /\ i = j
  <2>1. \/ /\ k = kn /\ q = qn /\ i = xn /\ xo \in Spots(ko, qo) /\ About(Item(ko, qo, xo), c)
        \/ \E i2 \in Spots(k, q) :
              /\ i = (IF k = "socket" /\ q = p THEN i2 - s ELSE i2)
              /\ About(Item(k, q, i2), c) /\ ~(k = ko /\ q = qo /\ i2 = xo)
    BY <1>2 DEF Moves, Carries
  <2>2. \/ /\ l = kn /\ r = qn /\ j = xn /\ xo \in Spots(ko, qo) /\ About(Item(ko, qo, xo), c)
        \/ \E j2 \in Spots(l, r) :
              /\ j = (IF l = "socket" /\ r = p THEN j2 - s ELSE j2)
              /\ About(Item(l, r, j2), c) /\ ~(l = ko /\ r = qo /\ j2 = xo)
    BY <1>2 DEF Moves, Carries
  <2>3. CASE k = kn /\ q = qn /\ i = xn /\ xo \in Spots(ko, qo) /\ About(Item(ko, qo, xo), c)
    <3>1. ASSUME NEW j2 \in Spots(l, r), About(Item(l, r, j2), c), ~(l = ko /\ r = qo /\ j2 = xo)
          PROVE  FALSE
      BY <1>2, <2>3, <3>1 DEF Once
    <3> QED
      BY <2>2, <2>3, <3>1
  <2>4. CASE l = kn /\ r = qn /\ j = xn /\ xo \in Spots(ko, qo) /\ About(Item(ko, qo, xo), c)
    <3>1. ASSUME NEW i2 \in Spots(k, q), About(Item(k, q, i2), c), ~(k = ko /\ q = qo /\ i2 = xo)
          PROVE  FALSE
      BY <1>2, <2>4, <3>1 DEF Once
    <3> QED
      BY <2>1, <2>4, <3>1
  <2>5. ASSUME NEW i2 \in Spots(k, q), i = (IF k = "socket" /\ q = p THEN i2 - s ELSE i2),
               About(Item(k, q, i2), c),
               NEW j2 \in Spots(l, r), j = (IF l = "socket" /\ r = p THEN j2 - s ELSE j2),
               About(Item(l, r, j2), c)
        PROVE  k = l /\ q = r /\ i = j
    <3>1. k = l /\ q = r /\ i2 = j2
      BY <1>2, <2>5 DEF Once
    <3> QED
      BY <2>5, <3>1
  <2> QED
    BY <2>1, <2>2, <2>3, <2>4, <2>5
<1> QED
  BY <1>1, <1>2 DEF Traced

\* A message in a queue after a step is the new one, or was in the same queue
\* before.
LEMMA QueuesPart ==
    ASSUME NEW p, NEW s, NEW kn, NEW qn, NEW xn, NEW m, QueuesMove(p, s, kn, qn, xn, m),
           NEW k \in Queues, NEW q \in Proc, NEW i \in Spots(k, q)'
    PROVE  \/ k = kn /\ q = qn /\ i = xn /\ Item(k, q, i)' = m
           \/ \E j \in Spots(k, q) : /\ i = (IF k = "socket" /\ q = p THEN j - s ELSE j)
                                     /\ Carries(Item(k, q, i)', Item(k, q, j))
<1>1. i \in DOMAIN Queue(k, q)' /\ Item(k, q, i)' = Queue(k, q)'[i]
  BY PlaceIsThen
<1>2. CASE k = kn /\ q = qn /\ i = xn /\ Queue(k, q)'[i] = m
  BY <1>1, <1>2
<1>3. CASE \E j \in DOMAIN Queue(k, q) : /\ i = (IF k = "socket" /\ q = p THEN j - s ELSE j)
                                         /\ Alike(Queue(k, q)'[i], Queue(k, q)[j])
  <2>1. PICK j \in DOMAIN Queue(k, q) : /\ i = (IF k = "socket" /\ q = p THEN j - s ELSE j)
                                        /\ Alike(Queue(k, q)'[i], Queue(k, q)[j])
    BY <1>3
  <2>2. j \in Spots(k, q) /\ Item(k, q, j) = Queue(k, q)[j]
    BY <2>1, PlaceIs
  <2>3. Carries(Item(k, q, i)', Item(k, q, j))
    BY <1>1, <2>1, <2>2, AlikeCarries
  <2> QED
    BY <2>1, <2>2, <2>3
<1> QED
  BY <1>1, <1>2, <1>3 DEF QueuesMove

\* Places where nothing that is about another call than e is new.
LEMMA PlainTraced ==
    ASSUME Once, NEW p \in Proc, NEW s, NEW e, NEW kn, NEW qn, NEW xn, NEW m,
           QueuesMove(p, s, kn, qn, xn, m), \A c \in Call \ {e} : ~About(m, c), UNCHANGED deferred
    PROVE  Traced(e)
<1>1. Moves(p, s, e, "none", p, 0, "none", p, 0)
  <2> SUFFICES ASSUME NEW k \in Where, NEW q \in Proc, NEW i \in Spots(k, q)', NEW c \in Call \ {e},
                      About(Item(k, q, i)', c)
               PROVE  \E j \in Spots(k, q) :
                        /\ i = (IF k = "socket" /\ q = p THEN j - s ELSE j)
                        /\ Carries(Item(k, q, i)', Item(k, q, j))
                        /\ ~(k = "none" /\ q = p /\ j = 0)
    BY DEF Moves
  <2>0. k # "none"
    BY DEF Where
  <2>1. CASE k \in Queues
    BY <2>0, <2>1, QueuesPart
  <2>2. CASE k = "deferred"
    <3>1. i \in Spots(k, q) /\ Item(k, q, i)' = Item(k, q, i)
      BY <2>2, PlaceIs, PlaceIsThen
    <3>2. Carries(Item(k, q, i)', Item(k, q, i))
      BY <3>1 DEF Carries
    <3> QED
      BY <2>0, <2>2, <3>1, <3>2
  <2> QED
    BY <2>1, <2>2, PlaceIs
<1>2. "none" \notin Where
  BY DEF Where
<1> QED
  BY <1>1, <1>2, MovesTraced

\* A packet is taken and nothing is sent for it.
LEMMA TookTraced ==
    ASSUME TypeOK, Once, NEW p \in Proc, Took(p), UNCHANGED deferred
    PROVE  /\ Traced(0)
           /\ \A c \in Call : About(Head(socket[p]), c) =>
                \A k \in Where, q \in Proc : \A i \in Spots(k, q)' : ~About(Item(k, q, i)', c)
<1>0. QueuesMove(p, 1, "none", p, 0, 0)
  BY TookMoves
<1>1. Moves(p, 1, 0, "none", p, 0, "socket", p, 1)
  <2> SUFFICES ASSUME NEW k \in Where, NEW q \in Proc, NEW i \in Spots(k, q)', NEW c \in Call \ {0},
                      About(Item(k, q, i)', c)
               PROVE  \E j \in Spots(k, q) :
                        /\ i = (IF k = "socket" /\ q = p THEN j - 1 ELSE j)
                        /\ Carries(Item(k, q, i)', Item(k, q, j))
                        /\ ~(k = "socket" /\ q = p /\ j = 1)
    BY DEF Moves
  <2>0. k # "none"
    BY DEF Where
  <2>1. CASE k \in Queues
    <3>1. PICK j \in Spots(k, q) : /\ i = (IF k = "socket" /\ q = p THEN j - 1 ELSE j)
                                   /\ Carries(Item(k, q, i)', Item(k, q, j))
      BY <1>0, <2>0, <2>1, QueuesPart
    <3>2. ~(k = "socket" /\ q = p /\ j = 1)
      <4> SUFFICES ASSUME k = "socket", q = p, j = 1
                   PROVE  FALSE
        OBVIOUS
      <4>1. i = 0
        BY <3>1
      <4>2. i \in DOMAIN socket'[p]
        BY <2>1, PlaceIsThen, QueueIs
      <4>3. socket'[p] \in Seq(Packet)
        BY TakenQueues DEF Took, Queued
      <4> QED
        BY <4>1, <4>2, <4>3
    <3> QED
      BY <3>1, <3>2
  <2>2. CASE k = "deferred"
    <3>1. i \in Spots(k, q) /\ Item(k, q, i)' = Item(k, q, i)
      BY <2>2, PlaceIs, PlaceIsThen
    <3>2. Carries(Item(k, q, i)', Item(k, q, i))
      BY <3>1 DEF Carries
    <3> QED
      BY <2>2, <3>1, <3>2
  <2> QED
    BY <2>1, <2>2, PlaceIs
<1>2. "none" \notin Where /\ 0 \notin Call /\ "socket" \in Where
  BY IrpcAssumption DEF Where
<1>3. ASSUME NEW c \in Call, About(Head(socket[p]), c),
             NEW k \in Where, NEW q \in Proc, NEW i \in Spots(k, q)', About(Item(k, q, i)', c)
      PROVE  FALSE
  <2>1. PICK j \in Spots(k, q) : About(Item(k, q, j), c) /\ ~(k = "socket" /\ q = p /\ j = 1)
    BY <1>1, <1>2, <1>3 DEF Moves, Carries
  <2>2. socket[p] \in Seq(Packet) /\ socket[p] # <<>>
    BY DEF TypeOK, Took
  <2>3. 1 \in DOMAIN socket[p] /\ Head(socket[p]) = socket[p][1]
    BY <2>2
  <2>4. 1 \in Spots("socket", p) /\ Item("socket", p, 1) = Head(socket[p])
    BY <2>3 DEF Spots, Item, Queue
  <2> QED
    BY <1>2, <1>3, <2>1, <2>4 DEF Once
<1> QED
  BY <1>1, <1>2, <1>3, MovesTraced

\* The reply to a request goes to whom it came from.
LEMMA ReplyCarries ==
    ASSUME NEW x, x.body \in Body, x.body.kind = "request", NEW m, NEW n, NEW p,
           New(p, x.from, n, m), n = [x.body EXCEPT !.kind = "reply"]
    PROVE  Carries(m, x)
<1>1. n.kind = "reply" /\ n.of = x.body.of /\ n.callid = x.body.callid
  BY ReplyBody
<1>2. m.body = n /\ m.to = x.from
  BY DEF New
<1> QED
  BY <1>1, <1>2 DEF Carries, About, Asker

\* The reply that irpc_send_reply sends comes from the request that was kept.
LEMMA AnswerTraced ==
    ASSUME TypeOK, Once, NEW p \in Proc, NEW x \in Asked, NEW m \in Packet, Answers(p, x, m)
    PROVE  Traced(0)
<1>0. /\ x.from \in Proc /\ x.body \in Body /\ x.body.kind = "request" /\ socket \in Queued
      /\ x \in deferred[p] /\ deferred \in [Proc -> SUBSET Asked]
  BY AskedBody DEF TypeOK, Queued, Answers
<1>1. PICK kn \in {"socket", "pending"}, qn \in Proc, xn \in Nat : QueuesMove(p, 0, kn, qn, xn, m)
  BY <1>0, UntakenMove, SendMoves DEF Answers
<1>2. Carries(m, x)
  BY <1>0, ReplyCarries DEF Answers
<1>3. deferred'[p] = deferred[p] \ {x} /\ \A q \in Proc : q # p => deferred'[q] = deferred[q]
  BY <1>0 DEF Answers
<1>4. Moves(p, 0, 0, kn, qn, xn, "deferred", p, x)
  <2> SUFFICES ASSUME NEW k \in Where, NEW q \in Proc, NEW i \in Spots(k, q)', NEW c \in Call \ {0},
                      About(Item(k, q, i)', c)
               PROVE  \/ /\ k = kn /\ q = qn /\ i = xn /\ x \in Spots("deferred", p)
                         /\ Carries(Item(k, q, i)', Item("deferred", p, x))
                      \/ \E j \in Spots(k, q) :
                           /\ i = (IF k = "socket" /\ q = p THEN j - 0 ELSE j)
                           /\ Carries(Item(k, q, i)', Item(k, q, j))
                           /\ ~(k = "deferred" /\ q = p /\ j = x)
    BY DEF Moves
  <2>0. x \in Spots("deferred", p) /\ Item("deferred", p, x) = x
    BY <1>0, PlaceIs
  <2>1. CASE k \in Queues
    <3>1. k # "deferred"
      BY <2>1, PlaceIs
    <3> QED
      BY <1>1, <1>2, <2>0, <2>1, <3>1, QueuesPart
  <2>2. CASE k = "deferred"
    <3>1. i \in deferred'[q]
      BY <2>2, PlaceIsThen
    <3>2. i \in deferred[q] /\ ~(q = p /\ i = x)
      BY <1>3, <3>1
    <3>3. i \in Spots(k, q) /\ Item(k, q, i)' = Item(k, q, i)
      BY <2>2, <3>2, PlaceIs, PlaceIsThen
    <3>4. Carries(Item(k, q, i)', Item(k, q, i))
      BY <3>3 DEF Carries
    <3> QED
      BY <2>2, <3>2, <3>3, <3>4
  <2> QED
    BY <2>1, <2>2, PlaceIs
<1>5. "deferred" \in Where
  BY DEF Where
<1> QED
  BY <1>4, <1>5, MovesTraced

\* The first packet of p, as a place.
LEMMA FirstPlace ==
    ASSUME TypeOK, NEW p \in Proc, NEW h, Hears(p, h)
    PROVE  1 \in Spots("socket", p) /\ Item("socket", p, 1) = h
<1>1. socket[p] \in Seq(Packet) /\ socket[p] # <<>> /\ h = Head(socket[p])
  BY DEF TypeOK, Hears
<1>2. 1 \in DOMAIN socket[p] /\ h = socket[p][1]
  BY <1>1
<1> QED
  BY <1>2 DEF Spots, Item, Queue

\* A place in a socket has an index from 1 on.
LEMMA NoZero ==
    ASSUME TypeOK', NEW q \in Proc, NEW i \in Spots("socket", q)'
    PROVE  i # 0
<1>1. i \in DOMAIN socket'[q]
  BY PlaceIsThen, QueueIs DEF Queues
<1>2. socket'[q] \in Seq(Packet)
  BY DEF TypeOK
<1> QED
  BY <1>1, <1>2

\* The reply that irpc_handler_request sends comes from the request that was
\* taken.
LEMMA ReplyTraced ==
    ASSUME TypeOK, TypeOK', Once, NEW p \in Proc, NEW h \in Packet, NEW m \in Packet, NEW b \in Body,
           Replies(p, h, m, b)
    PROVE  Traced(0)
<1>0. /\ Hears(p, h) /\ New(p, h.from, b, m) /\ Sends(p, h.from, m, Taken(p)) /\ h.from \in Proc
      /\ h.body \in Body /\ socket[p] # <<>> /\ UNCHANGED deferred /\ ReplyTo(h, b)
  BY PacketFields DEF Replies, Hears
<1>1. Taken(p) \in Queued
  BY <1>0, TakenQueues
<1>2. PICK kn \in {"socket", "pending"}, qn \in Proc, xn \in Nat : QueuesMove(p, 1, kn, qn, xn, m)
  BY <1>0, <1>1, TakenMove, SendMoves
<1>3. CASE b = [kind |-> "pong"]
  <2>1. b.kind = "pong"
    BY <1>3
  <2>2. \A c \in Call \ {0} : ~About(m, c)
    BY <1>0, <2>1 DEF About, New
  <2> QED
    BY <1>0, <1>2, <2>2, PlainTraced
<1>4. CASE h.body.kind = "request" /\ b = [h.body EXCEPT !.kind = "reply"]
  <2>1. Carries(m, h)
    BY <1>0, <1>4, ReplyCarries
  <2>2. 1 \in Spots("socket", p) /\ Item("socket", p, 1) = h
    BY <1>0, FirstPlace
  <2>3. Moves(p, 1, 0, kn, qn, xn, "socket", p, 1)
    <3> SUFFICES ASSUME NEW k \in Where, NEW q \in Proc, NEW i \in Spots(k, q)', NEW c \in Call \ {0},
                        About(Item(k, q, i)', c)
                 PROVE  \/ /\ k = kn /\ q = qn /\ i = xn /\ 1 \in Spots("socket", p)
                           /\ Carries(Item(k, q, i)', Item("socket", p, 1))
                        \/ \E j \in Spots(k, q) :
                             /\ i = (IF k = "socket" /\ q = p THEN j - 1 ELSE j)
                             /\ Carries(Item(k, q, i)', Item(k, q, j))
                             /\ ~(k = "socket" /\ q = p /\ j = 1)
      BY DEF Moves
    <3>1. CASE k \in Queues
      <4>1. CASE k = kn /\ q = qn /\ i = xn /\ Item(k, q, i)' = m
        BY <2>1, <2>2, <4>1
      <4>2. ASSUME NEW j \in Spots(k, q), i = (IF k = "socket" /\ q = p THEN j - 1 ELSE j),
                   Carries(Item(k, q, i)', Item(k, q, j))
            PROVE  ~(k = "socket" /\ q = p /\ j = 1)
        <5> SUFFICES ASSUME k = "socket", q = p, j = 1
                     PROVE  FALSE
          OBVIOUS
        <5>1. i = 0
          BY <4>2
        <5> QED
          BY <5>1, NoZero
      <4> QED
        BY <1>2, <3>1, <4>1, <4>2, QueuesPart
    <3>2. CASE k = "deferred"
      <4>1. i \in Spots(k, q) /\ Item(k, q, i)' = Item(k, q, i)
        BY <1>0, <3>2, PlaceIs, PlaceIsThen
      <4>2. Carries(Item(k, q, i)', Item(k, q, i))
        BY <4>1 DEF Carries
      <4> QED
        BY <3>2, <4>1, <4>2
    <3> QED
      BY <3>1, <3>2, PlaceIs
  <2>4. "socket" \in Where
    BY DEF Where
  <2> QED
    BY <2>3, <2>4, MovesTraced
<1> QED
  BY <1>0, <1>3, <1>4 DEF ReplyTo

\* The request that irpc_handler_request keeps comes from the packet that was
\* taken.
LEMMA DeferTraced ==
    ASSUME TypeOK, TypeOK', Once, NEW p \in Proc, NEW h \in Packet, Defers(p, h)
    PROVE  Traced(0)
<1>0. Hears(p, h) /\ Took(p) /\ h.body.kind = "request" /\ deferred \in [Proc -> SUBSET Asked]
  BY DEF Defers, TypeOK
<1>1. QueuesMove(p, 1, "none", p, 0, 0)
  BY <1>0, TookMoves
<1>2. PICK y : y = [from |-> h.from, body |-> h.body]
  OBVIOUS
<1>3. y.from = h.from /\ y.body = h.body
  BY <1>2
<1>4. Carries(y, h)
  BY <1>0, <1>3 DEF Carries, About, Asker
<1>5. deferred'[p] = deferred[p] \cup {y} /\ \A q \in Proc : q # p => deferred'[q] = deferred[q]
  BY <1>0, <1>2 DEF Defers
<1>6. 1 \in Spots("socket", p) /\ Item("socket", p, 1) = h
  BY <1>0, FirstPlace
<1>7. Moves(p, 1, 0, "deferred", p, y, "socket", p, 1)
  <2> SUFFICES ASSUME NEW k \in Where, NEW q \in Proc, NEW i \in Spots(k, q)', NEW c \in Call \ {0},
                      About(Item(k, q, i)', c)
               PROVE  \/ /\ k = "deferred" /\ q = p /\ i = y /\ 1 \in Spots("socket", p)
                         /\ Carries(Item(k, q, i)', Item("socket", p, 1))
                      \/ \E j \in Spots(k, q) :
                           /\ i = (IF k = "socket" /\ q = p THEN j - 1 ELSE j)
                           /\ Carries(Item(k, q, i)', Item(k, q, j))
                           /\ ~(k = "socket" /\ q = p /\ j = 1)
    BY DEF Moves
  <2>1. CASE k \in Queues
    <3>0. k # "none"
      BY DEF Where
    <3>1. PICK j \in Spots(k, q) : /\ i = (IF k = "socket" /\ q = p THEN j - 1 ELSE j)
                                   /\ Carries(Item(k, q, i)', Item(k, q, j))
      BY <1>1, <2>1, <3>0, QueuesPart
    <3>2. ~(k = "socket" /\ q = p /\ j = 1)
      <4> SUFFICES ASSUME k = "socket", q = p, j = 1
                   PROVE  FALSE
        OBVIOUS
      <4>1. i = 0
        BY <3>1
      <4> QED
        BY <4>1, NoZero
    <3> QED
      BY <3>1, <3>2
  <2>2. CASE k = "deferred"
    <3>1. i \in deferred'[q] /\ Item(k, q, i)' = i
      BY <2>2, PlaceIsThen
    <3>2. CASE q = p /\ i = y
      BY <1>4, <1>6, <2>2, <3>1, <3>2
    <3>3. CASE ~(q = p /\ i = y)
      <4>1. i \in deferred[q]
        BY <1>5, <3>1, <3>3
      <4>2. i \in Spots(k, q) /\ Item(k, q, i) = i
        BY <2>2, <4>1, PlaceIs
      <4>3. Carries(Item(k, q, i)', Item(k, q, i))
        BY <3>1, <4>2 DEF Carries
      <4> QED
        BY <2>2, <4>2, <4>3
    <3> QED
      BY <3>2, <3>3
  <2> QED
    BY <2>1, <2>2, PlaceIs
<1>8. "socket" \in Where
  BY DEF Where
<1> QED
  BY <1>7, <1>8, MovesTraced

\* Messages that were backed off are at the end of the queue again.
LEMMA RequeuedTraced ==
    ASSUME TypeOK, Once, NEW p \in Proc, Requeued(p), UNCHANGED deferred
    PROVE  Traced(0)
<1>0. /\ \A q \in Proc : pending[q] \in Seq(Packet) /\ retry_queue[q] \in Seq(Packet)
      /\ pending \in Queued /\ retry_queue \in Queued
  BY DEF TypeOK, Queued
<1>1. /\ pending'[p] = pending[p] \o retry_queue[p] /\ retry_queue'[p] = <<>>
      /\ \A r \in Proc : r # p => pending'[r] = pending[r] /\ retry_queue'[r] = retry_queue[r]
      /\ socket' = socket
  BY <1>0 DEF Requeued, Queued
<1>2. PICK n \in Nat : n = Len(pending[p])
  BY <1>0
<1> DEFINE Origin(k, q, i, l, r, j) ==
        \/ l = k /\ r = q /\ j = i /\ ~(k = "retry_queue" /\ q = p)
        \/ k = "pending" /\ q = p /\ i \in Nat /\ l = "retry_queue" /\ r = p /\ j = i - n
<1>3. ASSUME NEW k \in Where, NEW q \in Proc, NEW i \in Spots(k, q)'
      PROVE  \E l \in Where, r \in Proc : \E j \in Spots(l, r) :
               Origin(k, q, i, l, r, j) /\ Carries(Item(k, q, i)', Item(l, r, j))
  <2>s. ASSUME i \in Spots(k, q), Item(k, q, i)' = Item(k, q, i), ~(k = "retry_queue" /\ q = p)
        PROVE  \E l \in Where, r \in Proc : \E j \in Spots(l, r) :
                 Origin(k, q, i, l, r, j) /\ Carries(Item(k, q, i)', Item(l, r, j))
    <3>1. Carries(Item(k, q, i)', Item(k, q, i)) /\ Origin(k, q, i, k, q, i)
      BY <2>s DEF Carries
    <3> HIDE DEF Origin
    <3> QED
      BY <2>s, <3>1
  <2>1. CASE k = "deferred"
    <3>1. i \in Spots(k, q) /\ Item(k, q, i)' = Item(k, q, i)
      BY <2>1, PlaceIs, PlaceIsThen
    <3> QED
      BY <2>s, <2>1, <3>1
  <2>2. CASE k \in Queues /\ Queue(k, q)' = Queue(k, q) /\ ~(k = "retry_queue" /\ q = p)
    <3>1. i \in Spots(k, q) /\ Item(k, q, i)' = Item(k, q, i)
      BY <2>2, PlaceIs, PlaceIsThen
    <3> QED
      BY <2>s, <2>2, <3>1
  <2>3. CASE k = "retry_queue" /\ q = p
    <3>1. i \in DOMAIN retry_queue'[p]
      BY <2>3, PlaceIsThen, QueueIs DEF Queues
    <3>2. FALSE
      BY <1>1, <3>1
    <3> QED
      BY <3>2
  <2>4. CASE k = "pending" /\ q = p
    <3>0. i \in DOMAIN pending'[p] /\ Item(k, q, i)' = pending'[p][i]
      BY <2>4, PlaceIsThen, QueueIs DEF Queues
    <3>1. i \in DOMAIN (pending[p] \o retry_queue[p]) /\ Item(k, q, i)' = (pending[p] \o retry_queue[p])[i]
      BY <1>1, <3>0
    <3>2. /\ i \in Nat
          /\ \/ i \in DOMAIN pending[p] /\ Item(k, q, i)' = pending[p][i]
             \/ i - n \in DOMAIN retry_queue[p] /\ Item(k, q, i)' = retry_queue[p][i - n]
      BY <1>0, <1>2, <3>1, JoinPlaces
    <3>3. CASE i \in DOMAIN pending[p] /\ Item(k, q, i)' = pending[p][i]
      <4>1. i \in Spots(k, q) /\ Item(k, q, i)' = Item(k, q, i)
        BY <2>4, <3>3, PlaceIs, QueueIs DEF Queues
      <4> QED
        BY <2>s, <2>4, <4>1
    <3>4. CASE i - n \in DOMAIN retry_queue[p] /\ Item(k, q, i)' = retry_queue[p][i - n]
      <4>1. /\ i - n \in Spots("retry_queue", p)
            /\ Item(k, q, i)' = Item("retry_queue", p, i - n) /\ "retry_queue" \in Where
        BY <3>4, PlaceIs, QueueIs DEF Queues, Where
      <4>2. Carries(Item(k, q, i)', Item("retry_queue", p, i - n))
            /\ Origin(k, q, i, "retry_queue", p, i - n)
        BY <2>4, <3>2, <4>1 DEF Carries
      <4> HIDE DEF Origin
      <4> QED
        BY <4>1, <4>2
    <3> QED
      BY <3>2, <3>3, <3>4
  <2>5. k # "deferred" /\ ~(k = "retry_queue" /\ q = p) /\ ~(k = "pending" /\ q = p)
          => k \in Queues /\ Queue(k, q)' = Queue(k, q)
    BY <1>1, QueueIs, PlaceIs DEF Queues
  <2> HIDE DEF Origin
  <2> QED
    BY <2>1, <2>2, <2>3, <2>4, <2>5
<1>4. ASSUME NEW k, NEW q, NEW i, NEW l, NEW r, NEW j, NEW k2, NEW q2, NEW i2,
             Origin(k, q, i, k2, q2, i2), Origin(l, r, j, k2, q2, i2)
      PROVE  k = l /\ q = r /\ i = j
  BY <1>4
<1> HIDE DEF Origin
<1>5. ASSUME NEW k \in Where, NEW q \in Proc, NEW i \in Spots(k, q)',
             NEW l \in Where, NEW r \in Proc, NEW j \in Spots(l, r)',
             NEW c \in Call, About(Item(k, q, i)', c), About(Item(l, r, j)', c)
      PROVE  k = l /\ q = r /\ i = j
  <2>1. PICK k2 \in Where, q2 \in Proc : \E i2 \in Spots(k2, q2) :
             Origin(k, q, i, k2, q2, i2) /\ Carries(Item(k, q, i)', Item(k2, q2, i2))
    BY <1>3
  <2>2. PICK i2 \in Spots(k2, q2) :
             Origin(k, q, i, k2, q2, i2) /\ Carries(Item(k, q, i)', Item(k2, q2, i2))
    BY <2>1
  <2>3. PICK l2 \in Where, r2 \in Proc : \E j2 \in Spots(l2, r2) :
             Origin(l, r, j, l2, r2, j2) /\ Carries(Item(l, r, j)', Item(l2, r2, j2))
    BY <1>3
  <2>4. PICK j2 \in Spots(l2, r2) :
             Origin(l, r, j, l2, r2, j2) /\ Carries(Item(l, r, j)', Item(l2, r2, j2))
    BY <2>3
  <2>5. k2 = l2 /\ q2 = r2 /\ i2 = j2
    BY <1>5, <2>2, <2>4 DEF Once, Carries
  <2> QED
    BY <1>4, <2>2, <2>4, <2>5
<1> QED
  BY <1>3, <1>5 DEF Traced

\* Messages of the queue of p have gone to the sockets; one may be backed off.
LEMMA PutOutTraced ==
    ASSUME TypeOK, Once, NEW p \in Proc, NEW n \in Nat, PutOut(p, n), UNCHANGED deferred
    PROVE  Traced(0)
<1>0. /\ \A q \in Proc : /\ socket[q] \in Seq(Packet) /\ pending[q] \in Seq(Packet)
                         /\ retry_queue[q] \in Seq(Packet)
      /\ socket' \in Queued /\ pending' \in Queued /\ retry_queue' \in Queued
  BY DEF TypeOK, PutOut
<1>1. PICK f : \A q \in Proc : Went(f[q], socket'[q], socket[q], pending[p], n, q)
  BY PutOutPlaces
<1>2. PICK s \in Nat :
        /\ Shifted(pending'[p], pending[p], s)
        /\ \/ s = n /\ retry_queue'[p] = retry_queue[p]
           \/ /\ s = n + 1 /\ n < Len(pending[p])
              /\ \E y \in Packet : /\ retry_queue'[p] = Append(retry_queue[p], y)
                                   /\ Alike(y, pending[p][n + 1])
  <2>1. \/ Shifted(pending'[p], pending[p], n) /\ retry_queue'[p] = retry_queue[p]
        \/ /\ n < Len(pending[p]) /\ Shifted(pending'[p], pending[p], n + 1)
           /\ \E y \in Packet : /\ retry_queue'[p] = Append(retry_queue[p], y)
                                /\ Alike(y, pending[p][n + 1])
    BY DEF PutOut
  <2>2. n + 1 \in Nat
    OBVIOUS
  <2> QED
    BY <2>1, <2>2
<1>3. PICK e : e = Len(retry_queue[p]) + 1
  OBVIOUS
<1> DEFINE Stays(k, q, i, l, r, j) == l = k /\ r = q /\ j = i /\ ~(k = "pending" /\ q = p)
           Shifts(k, q, i, l, r, j) ==
             k = "pending" /\ q = p /\ l = "pending" /\ r = p /\ i \in Nat \ {0} /\ j = i + s
           Goes(k, q, i, l, r, j) ==
             /\ k = "socket" /\ l = "pending" /\ r = p /\ j = f[q][i] /\ j \in 1 .. n
             /\ pending[p][j].to = q /\ i \in DOMAIN socket'[q] /\ i \notin DOMAIN socket[q]
           Backs(k, q, i, l, r, j) ==
             k = "retry_queue" /\ q = p /\ l = "pending" /\ r = p /\ j = n + 1 /\ s = n + 1 /\ i = e
           Origin(k, q, i, l, r, j) ==
             \/ Stays(k, q, i, l, r, j) \/ Shifts(k, q, i, l, r, j)
             \/ Goes(k, q, i, l, r, j) \/ Backs(k, q, i, l, r, j)
<1>4. ASSUME NEW k \in Where, NEW q \in Proc, NEW i \in Spots(k, q)'
      PROVE  \E l \in Where, r \in Proc : \E j \in Spots(l, r) :
               Origin(k, q, i, l, r, j) /\ Carries(Item(k, q, i)', Item(l, r, j))
  <2>s. ASSUME i \in Spots(k, q), Item(k, q, i)' = Item(k, q, i), ~(k = "pending" /\ q = p)
        PROVE  \E l \in Where, r \in Proc : \E j \in Spots(l, r) :
                 Origin(k, q, i, l, r, j) /\ Carries(Item(k, q, i)', Item(l, r, j))
    <3>1. Carries(Item(k, q, i)', Item(k, q, i)) /\ Origin(k, q, i, k, q, i)
      BY <2>s DEF Carries
    <3> HIDE DEF Origin
    <3> QED
      BY <2>s, <3>1
  <2>p. ASSUME NEW j \in DOMAIN pending[p], Alike(Item(k, q, i)', pending[p][j]),
               Origin(k, q, i, "pending", p, j)
        PROVE  \E l \in Where, r \in Proc : \E j2 \in Spots(l, r) :
                 Origin(k, q, i, l, r, j2) /\ Carries(Item(k, q, i)', Item(l, r, j2))
    <3> HIDE DEF Origin
    <3>1. j \in Spots("pending", p) /\ Item("pending", p, j) = pending[p][j] /\ "pending" \in Where
      BY PlaceIs, QueueIs DEF Queues, Where
    <3>2. Carries(Item(k, q, i)', Item("pending", p, j))
      BY <2>p, <3>1, AlikeCarries
    <3> QED
      BY <2>p, <3>1, <3>2
  <2>1. CASE k = "deferred"
    <3>1. i \in Spots(k, q) /\ Item(k, q, i)' = Item(k, q, i)
      BY <2>1, PlaceIs, PlaceIsThen
    <3> QED
      BY <2>s, <2>1, <3>1
  <2>2. CASE k \in Queues /\ Queue(k, q)' = Queue(k, q) /\ ~(k = "pending" /\ q = p)
    <3>1. i \in Spots(k, q) /\ Item(k, q, i)' = Item(k, q, i)
      BY <2>2, PlaceIs, PlaceIsThen
    <3> QED
      BY <2>s, <2>2, <3>1
  <2>3. CASE k = "pending" /\ q = p
    <3>1. i \in DOMAIN pending'[p] /\ Item(k, q, i)' = pending'[p][i]
      BY <2>3, PlaceIsThen, QueueIs DEF Queues
    <3>2. i + s \in DOMAIN pending[p] /\ Alike(pending'[p][i], pending[p][i + s])
      BY <1>2, <3>1 DEF Shifted
    <3>3. i \in Nat \ {0}
      BY <1>0, <3>1 DEF Queued
    <3> QED
      BY <2>p, <2>3, <3>1, <3>2, <3>3
  <2>4. CASE k = "socket"
    <3>1. i \in DOMAIN socket'[q] /\ Item(k, q, i)' = socket'[q][i]
      BY <2>4, PlaceIsThen, QueueIs DEF Queues
    <3>2. CASE i \in DOMAIN socket[q] /\ socket'[q][i] = socket[q][i]
      <4>1. i \in Spots(k, q) /\ Item(k, q, i)' = Item(k, q, i)
        BY <2>4, <3>1, <3>2, PlaceIs, QueueIs DEF Queues
      <4> QED
        BY <2>s, <2>4, <4>1
    <3>3. CASE /\ i \notin DOMAIN socket[q] /\ f[q][i] \in 1 .. n /\ f[q][i] \in DOMAIN pending[p]
               /\ socket'[q][i] = pending[p][f[q][i]] /\ pending[p][f[q][i]].to = q
      <4>1. Alike(Item(k, q, i)', pending[p][f[q][i]])
        BY <3>1, <3>3 DEF Alike
      <4> QED
        BY <2>p, <2>4, <3>1, <3>3, <4>1
    <3> QED
      BY <1>1, <3>1, <3>2, <3>3 DEF Went
  <2>5. CASE k = "retry_queue" /\ q = p /\ retry_queue'[p] # retry_queue[p]
    <3>1. PICK y \in Packet : /\ retry_queue'[p] = Append(retry_queue[p], y)
                              /\ Alike(y, pending[p][n + 1]) /\ s = n + 1 /\ n < Len(pending[p])
      BY <1>2, <2>5
    <3>2. i \in DOMAIN Append(retry_queue[p], y) /\ Item(k, q, i)' = Append(retry_queue[p], y)[i]
      BY <2>5, <3>1, PlaceIsThen, QueueIs DEF Queues
    <3>3. \/ i = e /\ Item(k, q, i)' = y
          \/ i \in DOMAIN retry_queue[p] /\ Item(k, q, i)' = retry_queue[p][i]
      <4>1. retry_queue[p] \in Seq(Packet)
        BY <1>0
      <4>2. \/ i = e /\ Append(retry_queue[p], y)[i] = y
            \/ i \in DOMAIN retry_queue[p] /\ Append(retry_queue[p], y)[i] = retry_queue[p][i]
        BY <1>3, <3>2, <4>1
      <4> QED
        BY <3>2, <4>2
    <3>4. CASE i = e /\ Item(k, q, i)' = y
      <4>1. n + 1 \in DOMAIN pending[p]
        BY <1>0, <3>1
      <4> QED
        BY <2>p, <2>5, <3>1, <3>4, <4>1
    <3>5. CASE i \in DOMAIN retry_queue[p] /\ Item(k, q, i)' = retry_queue[p][i]
      <4>1. i \in Spots(k, q) /\ Item(k, q, i)' = Item(k, q, i)
        BY <2>5, <3>5, PlaceIs, QueueIs DEF Queues
      <4> QED
        BY <2>s, <2>5, <4>1
    <3> QED
      BY <3>3, <3>4, <3>5
  <2>6. \/ k = "deferred" \/ (k = "pending" /\ q = p) \/ k = "socket"
        \/ (k = "retry_queue" /\ q = p /\ retry_queue'[p] # retry_queue[p])
        \/ (k \in Queues /\ Queue(k, q)' = Queue(k, q) /\ ~(k = "pending" /\ q = p))
    BY QueueIs, PlaceIs DEF Queues, PutOut
  <2> HIDE DEF Origin
  <2> QED
    BY <2>1, <2>2, <2>3, <2>4, <2>5, <2>6
<1>5. ASSUME NEW q \in Proc, NEW i \in DOMAIN socket'[q], NEW j \in DOMAIN socket'[q],
             i \notin DOMAIN socket[q], j \notin DOMAIN socket[q],
             f[q][i] = f[q][j], f[q][i] \in 1 .. n
      PROVE  i = j
  <2>1. i \in Nat /\ j \in Nat
    BY <1>0 DEF Queued
  <2>2. ~(i < j) /\ ~(j < i)
    BY <1>1, <1>5 DEF Went
  <2> QED
    BY <2>1, <2>2
<1>6. ASSUME NEW k, NEW q \in Proc, NEW i, NEW l, NEW r \in Proc, NEW j, NEW k2, NEW q2, NEW i2,
             Origin(k, q, i, k2, q2, i2), Origin(l, r, j, k2, q2, i2)
      PROVE  k = l /\ q = r /\ i = j
  <2>1. CASE Stays(k, q, i, k2, q2, i2) \/ Stays(l, r, j, k2, q2, i2)
    BY <1>6, <2>1
  <2>2. CASE Shifts(k, q, i, k2, q2, i2) /\ Shifts(l, r, j, k2, q2, i2)
    BY <2>2
  <2>3. CASE Goes(k, q, i, k2, q2, i2) /\ Goes(l, r, j, k2, q2, i2)
    <3>1. q = r /\ k = l
      BY <2>3
    <3> QED
      BY <1>5, <2>3, <3>1
  <2>4. CASE Backs(k, q, i, k2, q2, i2) /\ Backs(l, r, j, k2, q2, i2)
    BY <2>4
  <2>5. n <= s
    BY <1>2
  <2>6. ASSUME Shifts(k, q, i, k2, q2, i2), Goes(l, r, j, k2, q2, i2) PROVE FALSE
    <3>1. i2 = i + s /\ i \in Nat \ {0} /\ i2 \in 1 .. n
      BY <2>6
    <3> QED
      BY <2>5, <3>1
  <2>7. ASSUME Shifts(l, r, j, k2, q2, i2), Goes(k, q, i, k2, q2, i2) PROVE FALSE
    <3>1. i2 = j + s /\ j \in Nat \ {0} /\ i2 \in 1 .. n
      BY <2>7
    <3> QED
      BY <2>5, <3>1
  <2>8. ASSUME Shifts(k, q, i, k2, q2, i2), Backs(l, r, j, k2, q2, i2) PROVE FALSE
    BY <2>8
  <2>9. ASSUME Shifts(l, r, j, k2, q2, i2), Backs(k, q, i, k2, q2, i2) PROVE FALSE
    BY <2>9
  <2>10. ASSUME Goes(k, q, i, k2, q2, i2), Backs(l, r, j, k2, q2, i2) PROVE FALSE
    <3>1. i2 \in 1 .. n /\ i2 = n + 1
      BY <2>10
    <3> QED
      BY <3>1
  <2>11. ASSUME Goes(l, r, j, k2, q2, i2), Backs(k, q, i, k2, q2, i2) PROVE FALSE
    <3>1. i2 \in 1 .. n /\ i2 = n + 1
      BY <2>11
    <3> QED
      BY <3>1
  <2> HIDE DEF Stays, Shifts, Goes, Backs
  <2> QED
    BY <1>6, <2>1, <2>2, <2>3, <2>4, <2>6, <2>7, <2>8, <2>9, <2>10, <2>11
<1> HIDE DEF Origin
<1>7. ASSUME NEW k \in Where, NEW q \in Proc, NEW i \in Spots(k, q)',
             NEW l \in Where, NEW r \in Proc, NEW j \in Spots(l, r)',
             NEW c \in Call, About(Item(k, q, i)', c), About(Item(l, r, j)', c)
      PROVE  k = l /\ q = r /\ i = j
  <2>1. PICK k2 \in Where, q2 \in Proc : \E i2 \in Spots(k2, q2) :
             Origin(k, q, i, k2, q2, i2) /\ Carries(Item(k, q, i)', Item(k2, q2, i2))
    BY <1>4
  <2>2. PICK i2 \in Spots(k2, q2) :
             Origin(k, q, i, k2, q2, i2) /\ Carries(Item(k, q, i)', Item(k2, q2, i2))
    BY <2>1
  <2>3. PICK l2 \in Where, r2 \in Proc : \E j2 \in Spots(l2, r2) :
             Origin(l, r, j, l2, r2, j2) /\ Carries(Item(l, r, j)', Item(l2, r2, j2))
    BY <1>4
  <2>4. PICK j2 \in Spots(l2, r2) :
             Origin(l, r, j, l2, r2, j2) /\ Carries(Item(l, r, j)', Item(l2, r2, j2))
    BY <2>3
  <2>5. k2 = l2 /\ q2 = r2 /\ i2 = j2
    BY <1>7, <2>2, <2>4 DEF Once, Carries
  <2> QED
    BY <1>6, <2>2, <2>4, <2>5
<1> QED
  BY <1>4, <1>7 DEF Traced

\* A new request is in at most one place, and nothing else is about its call.
LEMMA CallTraced ==
    ASSUME TypeOK, Carried, Once, NEW p \in Proc, NEW q \in Proc, NEW m \in Packet, NEW c \in Call,
           NEW id \in Nat, Calls(p, q, m, c, id)
    PROVE  /\ Traced(c)
           /\ \E kn, qn, xn : \A k \in Where, r \in Proc : \A i \in Spots(k, r)' :
                About(Item(k, r, i)', c) => k = kn /\ r = qn /\ i = xn /\ Item(k, r, i)' = m
           /\ UNCHANGED <<socket, pending>> =>
                \A k \in Where, r \in Proc : \A i \in Spots(k, r)' : ~About(Item(k, r, i)', c)
<1>0. /\ socket \in Queued /\ ~Made(c) /\ m.body = [kind |-> "request", callid |-> id, of |-> c]
      /\ Sends(p, q, m, socket) /\ UNCHANGED deferred /\ UNCHANGED retry_queue
  BY DEF TypeOK, Queued, Calls, Makes, Made, New, Sends
<1>1. PICK kn \in {"socket", "pending"}, qn \in Proc, xn \in Nat : QueuesMove(p, 0, kn, qn, xn, m)
  BY <1>0, UntakenMove, SendMoves
<1>2. \A d \in Call \ {c} : ~About(m, d)
  BY <1>0 DEF About
<1>3. Traced(c)
  BY <1>0, <1>1, <1>2, PlainTraced
<1>4. \A k \in Where, r \in Proc : \A i \in Spots(k, r) : ~About(Item(k, r, i), c)
  BY <1>0 DEF Carried
<1>5. ASSUME NEW ka, NEW qa, NEW xa, NEW ma, QueuesMove(p, 0, ka, qa, xa, ma),
             NEW k \in Where, NEW r \in Proc, NEW i \in Spots(k, r)', About(Item(k, r, i)', c)
      PROVE  k = ka /\ r = qa /\ i = xa /\ Item(k, r, i)' = ma
  <2>1. CASE k \in Queues
    <3>1. ASSUME NEW j \in Spots(k, r), Carries(Item(k, r, i)', Item(k, r, j))
          PROVE  FALSE
      BY <1>4, <1>5, <3>1 DEF Carries
    <3> QED
      BY <1>5, <2>1, <3>1, QueuesPart
  <2>2. CASE k = "deferred"
    <3>1. i \in Spots(k, r) /\ Item(k, r, i)' = Item(k, r, i)
      BY <1>0, <2>2, PlaceIs, PlaceIsThen
    <3> QED
      BY <1>4, <1>5, <3>1
  <2> QED
    BY <2>1, <2>2, PlaceIs
<1>6. ASSUME UNCHANGED <<socket, pending>>,
             NEW k \in Where, NEW r \in Proc, NEW i \in Spots(k, r)', About(Item(k, r, i)', c)
      PROVE  FALSE
  <2>1. QueuesMove(p, 0, "none", p, 0, 0)
    BY <1>0, <1>6, SameMoves
  <2>2. k = "none"
    BY <1>5, <1>6, <2>1
  <2> QED
    BY <2>2 DEF Where
<1> QED
  BY <1>1, <1>3, <1>5, <1>6

\* Every step but that of irpc_call_send only moves what is on its way for a
\* call, and never makes two of it.
LEMMA StepTraced ==
    ASSUME Good, Good', Once, Effect,
           ~\E p, q \in Proc, m \in Packet, c \in Call, id \in Nat : Calls(p, q, m, c, id)
    PROVE  Traced(0)
<1>0. TypeOK /\ TypeOK' /\ socket \in Queued
  BY DEF Good, TypeOK, Queued
<1>q. ASSUME NEW p \in Proc, NEW s, QueuesMove(p, s, "none", p, 0, 0), UNCHANGED deferred
      PROVE  Traced(0)
  <2>1. PICK m : m = [body |-> [kind |-> "none"]]
    OBVIOUS
  <2>2. \A c \in Call \ {0} : ~About(m, c)
    BY <2>1 DEF About
  <2>3. QueuesMove(p, s, "none", p, 0, m)
    <3>1. \A k \in Queues : k # "none"
      BY DEF Queues
    <3> QED
      BY <1>q, <3>1 DEF QueuesMove
  <2> QED
    BY <1>q, <2>2, <2>3, PlainTraced
<1>1. CASE \E p, q \in Proc, m \in Packet : Pings(p, q, m)
  <2>1. PICK p \in Proc, q \in Proc, m \in Packet : Pings(p, q, m)
    BY <1>1
  <2>2. m.body = [kind |-> "ping"] /\ Sends(p, q, m, socket) /\ UNCHANGED deferred
    BY <2>1 DEF Pings, New, Quiet
  <2>3. \A c \in Call \ {0} : ~About(m, c)
    BY <2>2 DEF About
  <2>4. PICK kn \in {"socket", "pending"}, qn \in Proc, xn \in Nat : QueuesMove(p, 0, kn, qn, xn, m)
    BY <1>0, <2>2, UntakenMove, SendMoves
  <2> QED
    BY <2>2, <2>3, <2>4, PlainTraced
<1>3. CASE \E p \in Proc, x \in Asked, m \in Packet : Answers(p, x, m)
  BY <1>0, <1>3, AnswerTraced
<1>4. CASE \E p \in Proc, h \in Packet : Ignores(p, h)
  BY <1>0, <1>4, TookTraced DEF Ignores
<1>5. CASE \E p \in Proc, h, m \in Packet, b \in Body : Replies(p, h, m, b)
  BY <1>0, <1>5, ReplyTraced
<1>6. CASE \E p \in Proc, h \in Packet, c \in Call, pc \in {"done", "ended"}, st \in {"ok", "unparsed"} :
              IsAnswered(p, h, c, pc, st)
  BY <1>0, <1>6, TookTraced DEF IsAnswered
<1>7. CASE \E p \in Proc : \E k \in Nat : PutOut(p, k) /\ Quiet
  BY <1>0, <1>7, PutOutTraced DEF Quiet
<1>8. CASE \E p \in Proc : Requeued(p) /\ Quiet
  BY <1>0, <1>8, RequeuedTraced DEF Quiet
<1>9. CASE \E p \in Proc : Vanished(p) /\ Quiet
  BY <1>0, <1>q, <1>9, VanishedMoves DEF Quiet
<1>10. CASE \E p \in Proc, h \in Packet : Defers(p, h)
  BY <1>0, <1>10, DeferTraced
<1>11. ASSUME UNCHANGED <<socket, pending, retry_queue, deferred>>
       PROVE  Traced(0)
  <2>1. CASE \E p \in Proc : TRUE
    <3>1. PICK p \in Proc : TRUE
      BY <2>1
    <3> QED
      BY <1>0, <1>q, <1>11, <3>1, SameMoves
  <2>2. CASE ~\E p \in Proc : TRUE
    BY <2>2 DEF Traced
  <2> QED
    BY <2>1, <2>2
<1>12. CASE \/ \E c \in Call, pc \in {"done", "ended"} : TimesOut(c, pc)
            \/ \E c \in Call : ReturnsTo(c)
            \/ UNCHANGED <<socket, pending, retry_queue, sent, call, deferred, last>>
  BY <1>11, <1>12 DEF TimesOut, ReturnsTo
<1> QED
  BY <1>1, <1>3, <1>4, <1>5, <1>6, <1>7, <1>8, <1>9, <1>10, <1>12 DEF Effect

\* What a step leaves of a call that may still be answered.
StillOpen(c) ==
    Made(c) /\ call[c].status # "failed" /\ call[c].got # c =>
        /\ Made(c)' /\ call'[c].status # "failed"
        /\ call'[c].from = call[c].from /\ call'[c].callid = call[c].callid
        /\ \/ call'[c].got # c
           \/ \A k \in Where, q \in Proc : \A i \in Spots(k, q)' : ~About(Item(k, q, i)', c)

\* An outcome leaves every call that may still be answered as it was, unless
\* it is the answer to it and nothing else is on its way for it.
LEMMA SettleOpen ==
    ASSUME TypeOK, NEW d \in Call, NEW pc \in {"done", "ended"}, NEW st, NEW got, InFlight(d),
           Settles(d, pc, st, got), st # "failed" \/ st = call[d].status,
           \/ got # d \/ got = call[d].got
           \/ \A k \in Where, q \in Proc : \A i \in Spots(k, q)' : ~About(Item(k, q, i)', d)
    PROVE  \A c \in Call : StillOpen(c)
<1>1. Kept
  BY SettleKeeps
<1> SUFFICES ASSUME NEW c \in Call, Made(c), call[c].status # "failed", call[c].got # c
             PROVE  /\ Made(c)' /\ call'[c].status # "failed"
                    /\ call'[c].from = call[c].from /\ call'[c].callid = call[c].callid
                    /\ \/ call'[c].got # c
                       \/ \A k \in Where, q \in Proc : \A i \in Spots(k, q)' : ~About(Item(k, q, i)', c)
  BY DEF StillOpen
<1>2. Made(c)' /\ call'[c].from = call[c].from /\ call'[c].callid = call[c].callid
  BY <1>1 DEF Kept
<1>3. CASE c = d
  <2>1. call'[c].status = st /\ call'[c].got = got
    BY <1>3 DEF Settles
  <2> QED
    BY <1>2, <1>3, <2>1
<1>4. CASE c # d
  <2>1. call'[c] = call[c]
    BY <1>4 DEF Settles
  <2> QED
    BY <1>2, <2>1
<1> QED
  BY <1>3, <1>4

\* Every step does so.
LEMMA StepOpen ==
    ASSUME Good, Once, Effect
    PROVE  \A c \in Call : StillOpen(c)
<1>0. TypeOK
  BY DEF Good
<1>1. CASE \E p \in Proc, h \in Packet, c \in Call, pc \in {"done", "ended"}, st \in {"ok", "unparsed"} :
              IsAnswered(p, h, c, pc, st)
  <2>1. PICK p \in Proc, h \in Packet, d \in Call, pc \in {"done", "ended"}, st \in {"ok", "unparsed"} :
              IsAnswered(p, h, d, pc, st)
    BY <1>1
  <2>2. /\ h = Head(socket[p]) /\ Took(p) /\ UNCHANGED deferred /\ h.body.kind = "reply"
        /\ Settles(d, pc, st, h.body.of) /\ InFlight(d)
    BY <2>1 DEF IsAnswered, Hears
  <2>3. \/ h.body.of # d
        \/ \A k \in Where, q \in Proc : \A i \in Spots(k, q)' : ~About(Item(k, q, i)', d)
    <3>1. h.body.of = d => About(h, d)
      BY <2>2 DEF About
    <3> QED
      BY <1>0, <2>2, <3>1, TookTraced
  <2>4. st # "failed"
    OBVIOUS
  <2> QED
    BY <1>0, <2>2, <2>3, <2>4, SettleOpen
<1>2. CASE \E c \in Call, pc \in {"done", "ended"} : TimesOut(c, pc)
  <2>1. PICK d \in Call, pc \in {"done", "ended"} : TimesOut(d, pc)
    BY <1>2
  <2>2. InFlight(d) /\ Settles(d, pc, "timeout", 0) /\ 0 # d
    BY <2>1, IrpcAssumption DEF TimesOut
  <2> QED
    BY <1>0, <2>2, SettleOpen
<1>3. CASE \E c \in Call : ReturnsTo(c)
  <2>1. PICK d \in Call : ReturnsTo(d)
    BY <1>3
  <2>2. InFlight(d) /\ Settles(d, "ended", call[d].status, call[d].got)
    BY <2>1 DEF ReturnsTo, InFlight
  <2> QED
    BY <1>0, <2>2, SettleOpen
<1>4. CASE \E p, q \in Proc, m \in Packet, c \in Call, id \in Nat : Calls(p, q, m, c, id)
  <2>1. PICK p \in Proc, q \in Proc, m \in Packet, d \in Call, id \in Nat : Calls(p, q, m, d, id)
    BY <1>4
  <2>2. ~Made(d) /\ \A c \in Call : c # d => call'[c] = call[c]
    BY <2>1 DEF Calls, Makes, Made
  <2> QED
    BY <2>2 DEF StillOpen, Made
<1>5. CASE UNCHANGED call
  BY <1>5 DEF StillOpen, Made
<1> QED
  BY <1>1, <1>2, <1>3, <1>4, <1>5
  DEF Effect, Quiet, Pings, Answers, Ignores, Replies, Defers

\* Nothing is on its way for a call that was not made, and nothing twice.
LEMMA CarriedStep ==
    ASSUME Good, Good', Carried, Once, Effect
    PROVE  Carried' /\ Once'
<1>0. TypeOK /\ TypeOK' /\ 0 \notin Call
  BY IrpcAssumption DEF Good
<1>1. \A c \in Call : StillOpen(c)
  BY StepOpen
<1>2. ASSUME NEW e, Traced(e), NEW k \in Where, NEW q \in Proc, NEW i \in Spots(k, q)',
             NEW c \in Call \ {e}, About(Item(k, q, i)', c)
      PROVE  /\ Made(c)' /\ call'[c].status # "failed" /\ call'[c].got # c
             /\ call'[c].callid = Item(k, q, i)'.body.callid
             /\ call'[c].from = Asker(Item(k, q, i)')
  <2>1. PICK k2 \in Where, q2 \in Proc : \E j \in Spots(k2, q2) :
          Carries(Item(k, q, i)', Item(k2, q2, j))
    BY <1>2 DEF Traced
  <2>2. PICK j \in Spots(k2, q2) : Carries(Item(k, q, i)', Item(k2, q2, j))
    BY <2>1
  <2>3. PICK x : x = Item(k2, q2, j)
    OBVIOUS
  <2>4. PICK y : y = Item(k, q, i)'
    OBVIOUS
  <2>5. About(x, c) /\ y.body.callid = x.body.callid /\ Asker(y) = Asker(x)
    BY <1>2, <2>2, <2>3, <2>4 DEF Carries
  <2>6. /\ Made(c) /\ call[c].status # "failed" /\ call[c].got # c
        /\ call[c].callid = x.body.callid /\ call[c].from = Asker(x)
    BY <2>3, <2>5 DEF Carried
  <2>7. /\ Made(c)' /\ call'[c].status # "failed" /\ call'[c].got # c
        /\ call'[c].from = call[c].from /\ call'[c].callid = call[c].callid
    BY <1>1, <1>2, <2>6 DEF StillOpen
  <2> QED
    BY <2>4, <2>5, <2>6, <2>7
<1>3. CASE ~\E p, q \in Proc, m \in Packet, c \in Call, id \in Nat : Calls(p, q, m, c, id)
  <2>1. Traced(0)
    BY <1>3, StepTraced
  <2>2. Carried'
    BY <1>0, <1>2, <2>1 DEF Carried
  <2>3. Once'
    BY <1>0, <2>1 DEF Traced, Once
  <2> QED
    BY <2>2, <2>3
<1>4. CASE \E p, q \in Proc, m \in Packet, c \in Call, id \in Nat : Calls(p, q, m, c, id)
  <2>1. PICK p \in Proc, q \in Proc, m \in Packet, d \in Call, id \in Nat : Calls(p, q, m, d, id)
    BY <1>4
  <2>2. Traced(d)
    BY <1>0, <2>1, CallTraced
  <2>3. PICK kn, qn, xn : \A k \in Where, r \in Proc : \A i \in Spots(k, r)' :
          About(Item(k, r, i)', d) => k = kn /\ r = qn /\ i = xn /\ Item(k, r, i)' = m
    BY <1>0, <2>1, CallTraced
  <2>4. UNCHANGED <<socket, pending>> =>
          \A k \in Where, r \in Proc : \A i \in Spots(k, r)' : ~About(Item(k, r, i)', d)
    BY <1>0, <2>1, CallTraced
  <2>5. ASSUME NEW k \in Where, NEW r \in Proc, NEW i \in Spots(k, r)', About(Item(k, r, i)', d)
        PROVE  /\ Made(d)' /\ call'[d].status # "failed" /\ call'[d].got # d
               /\ call'[d].callid = Item(k, r, i)'.body.callid
               /\ call'[d].from = Asker(Item(k, r, i)')
    <3>1. Item(k, r, i)' = m
      BY <2>3, <2>5
    <3>2. Makes(d, p, id, "sent", "none")
      BY <2>1, <2>4, <2>5 DEF Calls
    <3>3. m.from = p /\ m.body = [kind |-> "request", callid |-> id, of |-> d]
      BY <2>1 DEF Calls, New
    <3>4. m.body.callid = id /\ Asker(m) = p
      BY <3>3 DEF Asker
    <3>5. Made(d)'
      BY <1>0, <3>2, MakeKeeps
    <3>6. call'[d].status # "failed" /\ call'[d].got # d /\ call'[d].from = p /\ call'[d].callid = id
      BY <1>0, <3>2 DEF Makes
    <3> QED
      BY <3>1, <3>4, <3>5, <3>6
  <2>6. Carried'
    BY <1>2, <2>2, <2>5 DEF Carried
  <2>7. Once'
    BY <2>2, <2>3 DEF Traced, Once
  <2> QED
    BY <2>6, <2>7
<1> QED
  BY <1>3, <1>4

-----------------------------------------------------------------------------
(* Whose answer a call gets *)

\* A call that ended stays as it is.
LEMMA EndedStays ==
    ASSUME TypeOK, CallStep
    PROVE  \A d \in Call : call[d].pc = "ended" => call'[d] = call[d]
<1>1. CASE \E c \in Call, p \in Proc, id \in Nat :
          Makes(c, p, id, "sent", "none") \/ Makes(c, p, id, "ended", "failed")
  <2>1. PICK c \in Call, p \in Proc, id \in Nat :
          Makes(c, p, id, "sent", "none") \/ Makes(c, p, id, "ended", "failed")
    BY <1>1
  <2>2. call[c].pc # "ended" /\ \A d \in Call : d # c => call'[d] = call[d]
    BY <2>1 DEF Makes, Unmade
  <2> QED
    BY <2>2
<1>2. CASE \E c \in Call, pc \in {"done", "ended"}, st \in Outcome, got \in Call \cup {0} :
          InFlight(c) /\ Settles(c, pc, st, got) /\ (st # "timeout" => got # 0)
  BY <1>2 DEF Settles, InFlight
<1>3. CASE \E c \in Call : call[c].pc = "done" /\ Settles(c, "ended", call[c].status, call[c].got)
  BY <1>3 DEF Settles
<1> QED
  BY <1>1, <1>2, <1>3 DEF CallStep

\* An earlier call of the same process that had the id of c and timed out.
TimedOutBefore(c) ==
    \E d \in Call : /\ d < c /\ call[d].pc = "ended" /\ call[d].status = "timeout"
                    /\ call[d].from = call[c].from /\ call[d].callid = call[c].callid

\* The reply that is taken for the answer of c is the answer to another call d,
\* which has ended: it timed out, or it had got the answer of yet another.
LEMMA OthersAnswer ==
    ASSUME TypeOK, OrderInv, IdsDiffer, Outcomes, Carried, OwnAnswer,
           NEW p \in Proc, NEW h \in Packet, NEW c \in Call, NEW pc \in {"done", "ended"},
           NEW st \in {"ok", "unparsed"}, IsAnswered(p, h, c, pc, st), h.body.of # c
    PROVE  TimedOutBefore(c)
<1>0. call \in [Call -> CallState] /\ Call \subseteq Nat
  BY IrpcAssumption DEF TypeOK
<1>1. /\ Hears(p, h) /\ h.body.kind = "reply" /\ InFlight(c) /\ call[c].from = p
      /\ call[c].callid = h.body.callid
  BY DEF IsAnswered
<1>2. PICK d \in Call : d = h.body.of
  BY <1>1, PacketFields, CallBody
<1>3. 1 \in Spots("socket", p) /\ Item("socket", p, 1) = h /\ "socket" \in Where
  BY <1>1, FirstPlace DEF Where
<1>4. About(h, d)
  BY <1>1, <1>2 DEF About
<1>5. h.to = p
  <2>1. socket[p] \in Seq(Packet) /\ socket[p] # <<>> /\ h = Head(socket[p])
    BY <1>1 DEF TypeOK, Hears
  <2>2. 1 \in DOMAIN socket[p] /\ h = socket[p][1]
    BY <2>1
  <2> QED
    BY <2>2 DEF OrderInv, Numbered
<1>6. /\ Made(d) /\ call[d].status # "failed" /\ call[d].got # d
      /\ call[d].callid = h.body.callid /\ call[d].from = Asker(h)
  BY <1>3, <1>4 DEF Carried
<1>7. call[d].from = p /\ call[d].callid = call[c].callid /\ d # c
  BY <1>1, <1>2, <1>5, <1>6 DEF Asker
<1>8. Made(c)
  BY <1>0, <1>1, MadeTyped
<1>9. ~(c < d)
  BY <1>1, <1>6, <1>7 DEF IdsDiffer
<1>10. d < c
  BY <1>0, <1>7, <1>9
<1>11. ~InFlight(d)
  BY <1>1, <1>7, <1>8, <1>10 DEF IdsDiffer
<1>12. call[d].pc = "ended" /\ call[d].status \in {"none", "ok", "unparsed", "timeout", "failed"}
  BY <1>0, <1>6, <1>11, MadeTyped DEF InFlight
<1>13. call[d].status \in {"ok", "unparsed", "timeout"}
  BY <1>6, <1>12 DEF Outcomes
<1>14. CASE call[d].status = "timeout"
  BY <1>1, <1>7, <1>10, <1>12, <1>14 DEF TimedOutBefore
<1>15. CASE call[d].status \in {"ok", "unparsed"}
  <2>1. call[d].got \notin {0, d}
    BY <1>6, <1>15 DEF Outcomes
  <2>2. PICK e \in Call : /\ e < d /\ call[e].pc = "ended" /\ call[e].status = "timeout"
                          /\ call[e].from = call[d].from /\ call[e].callid = call[d].callid
    BY <1>6, <2>1 DEF OwnAnswer, Made
  <2>3. e < c
    BY <1>0, <1>10, <2>2
  <2> QED
    BY <1>1, <1>7, <2>2, <2>3 DEF TimedOutBefore
<1> QED
  BY <1>13, <1>14, <1>15

\* The earlier call stays a reason for the answer of c.
LEMMA ReasonStays ==
    ASSUME TypeOK, CallStep, NEW c \in Call, Made(c), TimedOutBefore(c)
    PROVE  \E d \in Call : /\ d < c /\ call'[d].pc = "ended" /\ call'[d].status = "timeout"
                           /\ call'[d].from = call'[c].from /\ call'[d].callid = call'[c].callid
<1>1. PICK d \in Call : /\ d < c /\ call[d].pc = "ended" /\ call[d].status = "timeout"
                        /\ call[d].from = call[c].from /\ call[d].callid = call[c].callid
  BY DEF TimedOutBefore
<1>2. call'[d] = call[d]
  BY <1>1, EndedStays
<1>3. call'[c].from = call[c].from /\ call'[c].callid = call[c].callid
  BY CallsKept DEF Kept
<1> QED
  BY <1>1, <1>2, <1>3

\* Every step keeps OwnAnswer: who takes the answer to another call has the id
\* of one that timed out, or of one that itself took another's answer.
LEMMA AnswerStep ==
    ASSUME Good, OrderInv, CallInv, Effect
    PROVE  OwnAnswer'
<1>0. /\ TypeOK /\ call \in [Call -> CallState] /\ IdsDiffer /\ Outcomes /\ Carried /\ OwnAnswer
      /\ CallStep
  BY EffectOnCalls DEF Good, TypeOK, CallInv
<1> SUFFICES ASSUME NEW c \in Call, call'[c] # Unmade, call'[c].got \notin {0, c}
             PROVE  Made(c) /\ TimedOutBefore(c)
  BY <1>0, ReasonStays DEF OwnAnswer
<1>1. ASSUME Made(c), call[c].got \notin {0, c}
      PROVE  TimedOutBefore(c)
  BY <1>0, <1>1 DEF OwnAnswer, TimedOutBefore, Made
<1>2. CASE call'[c] = call[c]
  BY <1>1, <1>2 DEF Made
<1>3. CASE call'[c] # call[c]
  <2>1. CASE \E p \in Proc, h \in Packet, d \in Call, pc \in {"done", "ended"}, st \in {"ok", "unparsed"} :
               IsAnswered(p, h, d, pc, st)
    <3>1. PICK p \in Proc, h \in Packet, d \in Call, pc \in {"done", "ended"}, st \in {"ok", "unparsed"} :
               IsAnswered(p, h, d, pc, st)
      BY <2>1
    <3>2. InFlight(d) /\ Settles(d, pc, st, h.body.of)
      BY <3>1 DEF IsAnswered
    <3>3. d = c /\ h.body.of # c
      BY <1>3, <3>2 DEF Settles
    <3>4. Made(c)
      BY <1>0, <3>2, <3>3, MadeTyped
    <3> QED
      BY <1>0, <3>1, <3>3, <3>4, OthersAnswer
  <2>2. CASE \E d \in Call, pc \in {"done", "ended"} : TimesOut(d, pc)
    BY <1>3, <2>2 DEF TimesOut, Settles
  <2>3. CASE \E d \in Call : ReturnsTo(d)
    <3>1. PICK d \in Call : ReturnsTo(d)
      BY <2>3
    <3>2. d = c /\ InFlight(c) /\ call'[c].got = call[c].got
      BY <1>3, <3>1 DEF ReturnsTo, Settles, InFlight
    <3>3. Made(c)
      BY <1>0, <3>2, MadeTyped
    <3> QED
      BY <1>1, <3>2, <3>3
  <2>4. CASE \E p, q \in Proc, m \in Packet, d \in Call, id \in Nat : Calls(p, q, m, d, id)
    BY <1>3, <2>4 DEF Calls, Makes
  <2>5. CASE UNCHANGED call
    BY <1>3, <2>5
  <2> QED
    BY <2>1, <2>2, <2>3, <2>4, <2>5
    DEF Effect, Quiet, Pings, Answers, Ignores, Replies, Defers
<1> QED
  BY <1>2, <1>3

-----------------------------------------------------------------------------
(* The theorems *)

IrpcHolds == Good /\ OrderInv /\ CallInv

\* The invariant holds at the start.
LEMMA InitHolds ==
    ASSUME Init
    PROVE  IrpcHolds
<1>1. /\ up = Proc /\ pings = 0
      /\ \A p \in Proc : /\ socket[p] = <<>> /\ pending[p] = <<>> /\ retry_queue[p] = <<>>
                         /\ deferred[p] = {}
      /\ \A p, q \in Proc : last[p][q] = 0 /\ sent[p] = 0
      /\ \A c \in Call : call[c] = Unmade
  BY DEF Init, InitMessaging
<1>2. TypeOK
  <2>1. <<>> \in Seq(Packet) /\ Len(<<>>) = 0 /\ <<>> \in Seq(Call) /\ 0 \in Nat
    OBVIOUS
  <2>2. /\ socket \in [Proc -> Seq(Packet)] /\ pending \in [Proc -> Seq(Packet)]
        /\ retry_queue \in [Proc -> Seq(Packet)] /\ stack \in [Proc -> Seq(Call)]
        /\ sent \in [Proc -> Nat]
    BY <2>1 DEF Init, InitMessaging
  <2>3. \A p \in Proc : Len(socket[p]) <= Cap
    BY <1>1, <2>1, MessagingAssumption
  <2>4. retry_te \in [Proc -> BOOLEAN] /\ writeable \in [Proc -> BOOLEAN]
    BY DEF Init, InitMessaging
  <2>5. call \in [Call -> CallState]
    BY DEF Init, CallState
  <2>6. deferred \in [Proc -> SUBSET Asked]
    BY DEF Init
  <2>7. last \in [Proc -> [Proc -> Nat]]
    BY DEF Init
  <2> QED
    BY <1>1, <2>2, <2>3, <2>4, <2>5, <2>6, <2>7 DEF TypeOK
<1>3. QueuesWatched
  BY <1>1 DEF QueuesWatched
<1>4. OrderInv
  <2>1. DOMAIN <<>> = {}
    OBVIOUS
  <2> QED
    BY <1>1, <2>1 DEF OrderInv, Numbered, Ordered, NotTaken
<1>5. \A c \in Call : ~Made(c) /\ ~InFlight(c)
  BY <1>1 DEF Made, InFlight, Unmade
<1>6. MadeInOrder
  <2>1. {c \in Call : Made(c)} = {}
    BY <1>5
  <2> QED
    BY <1>5, <2>1, FS_EmptySet DEF MadeInOrder
<1>7. \A k \in Where, q \in Proc : Spots(k, q) = {}
  BY <1>1 DEF Where, Spots, Queue
<1>8. Carried /\ Once
  BY <1>7 DEF Carried, Once
<1>9. IdsDiffer /\ Outcomes /\ OwnAnswer
  BY <1>5 DEF IdsDiffer, Outcomes, OwnAnswer, Made
<1> QED
  BY <1>2, <1>3, <1>4, <1>6, <1>8, <1>9 DEF IrpcHolds, Good, CallInv

\* Every step keeps the invariant.
LEMMA StepHolds ==
    ASSUME IrpcHolds, [Next]_vars
    PROVE  IrpcHolds'
<1>0. Good /\ OrderInv /\ CallInv /\ MadeInOrder /\ IdsDiffer /\ Outcomes /\ Carried /\ Once /\ TypeOK
  BY DEF IrpcHolds, CallInv, Good
<1>1. Good' /\ Effect
  BY <1>0, StepEffect
<1>2. CallStep
  BY <1>0, <1>1, EffectOnCalls
<1>3. OrderInv'
  BY <1>0, <1>1, OrderStep
<1>4. MadeInOrder' /\ IdsDiffer' /\ Outcomes'
  BY <1>0, <1>2, OrderOfCalls, IdsStayApart, OutcomesStay
<1>5. Carried' /\ Once'
  BY <1>0, <1>1, CarriedStep
<1>6. OwnAnswer'
  BY <1>0, <1>1, AnswerStep
<1> QED
  BY <1>1, <1>3, <1>4, <1>5, <1>6 DEF IrpcHolds, CallInv

\* The invariant holds in every behaviour.
LEMMA InvHolds ==
    Spec => []IrpcHolds
<1>1. Init => IrpcHolds
  BY InitHolds
<1>2. IrpcHolds /\ [Next]_vars => IrpcHolds'
  BY StepHolds
<1> QED
  BY <1>1, <1>2, PTL DEF Spec

\* TypeOK for any number of processes, sockets of any size and any number of
\* calls: no socket is overfilled by messaging_send or messaging_send_handler,
\* and idr_get_new always finds an id.
THEOREM MessagingTyped == Spec => []TypeOK
<1>1. IrpcHolds => TypeOK
  BY DEF IrpcHolds, Good
<1> QED
  BY <1>1, InvHolds, PTL

\* Nothing is forgotten in a queue: a process with pending messages watches for
\* its socket to be writeable, and one with messages backed off has the timer set.
THEOREM NothingForgotten == Spec => []QueuesWatched
<1>1. IrpcHolds => QueuesWatched
  BY DEF IrpcHolds, Good
<1> QED
  BY <1>1, InvHolds, PTL

\* Messages between two processes are taken in the order in which they were sent,
\* those aside that messaging_send_handler backed off.
THEOREM MessagesInOrder == Spec => []InOrder
<1>1. IrpcHolds => InOrder
  BY OrderedOnTheWay DEF IrpcHolds, Good
<1> QED
  BY <1>1, InvHolds, PTL

\* irpc_handler_reply gives a call the answer to another only if an earlier call
\* with the same id timed out.
THEOREM OwnAnswers == Spec => []OwnAnswer
<1>1. IrpcHolds => OwnAnswer
  BY DEF IrpcHolds, CallInv
<1> QED
  BY <1>1, InvHolds, PTL
=============================================================================
