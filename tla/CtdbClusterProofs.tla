-------------------------- MODULE CtdbClusterProofs -------------------------
(***************************************************************************)
(* What holds whatever fails.  In every cluster: the types of the CTDB     *)
(* model, and that the chain lock protects what a client reads and stores  *)
(* (nobody else touches the record in the local tdb between the client's   *)
(* lock and its unlock).  With one record that its lmaster has given away: *)
(* the dmaster role is in one place and has every update.                  *)
(***************************************************************************)
EXTENDS CtdbInv, SequenceTheorems, TLAPS

\* What the queue operations of a handler do to a function of queues.
LEMMA QueueTypes ==
    ASSUME NEW ch \in [Node -> [Node -> Seq(Packet)]], NEW n \in Node, NEW m \in Node
    PROVE  /\ \A p \in Packet :
                ctdb_queue_packet(ch, n, m, p) \in [Node -> [Node -> Seq(Packet)]]
           /\ ch[n][m] # <<>> =>
                /\ Head(ch[n][m]) \in Packet
                /\ [ch EXCEPT ![n][m] = Tail(@)] \in [Node -> [Node -> Seq(Packet)]]
<1>1. ASSUME NEW p \in Packet
      PROVE  ctdb_queue_packet(ch, n, m, p) \in [Node -> [Node -> Seq(Packet)]]
  <2>1. Append(ch[n][m], p) \in Seq(Packet)
    OBVIOUS
  <2> QED BY <2>1 DEF ctdb_queue_packet
<1>2. ASSUME ch[n][m] # <<>>
      PROVE  /\ Head(ch[n][m]) \in Packet
             /\ [ch EXCEPT ![n][m] = Tail(@)] \in [Node -> [Node -> Seq(Packet)]]
  <2>1. Head(ch[n][m]) \in Packet /\ Tail(ch[n][m]) \in Seq(Packet)
    BY <1>2
  <2> QED BY <2>1
<1> QED BY <1>1, <1>2

\* Taking out the i-th entry leaves the others, in order.
LEMMA RemoveAtProperties ==
    ASSUME NEW S, NEW s \in Seq(S), NEW i \in DOMAIN s
    PROVE  /\ RemoveAt(s, i) \in Seq(S)
           /\ Len(RemoveAt(s, i)) = Len(s) - 1
           /\ \A j \in 1..Len(s) - 1 :
                RemoveAt(s, i)[j] = IF j < i THEN s[j] ELSE s[j + 1]
<1>1. i \in 1..Len(s)
  OBVIOUS
<1>2. /\ SubSeq(s, 1, i - 1) \in Seq(S)
      /\ Len(SubSeq(s, 1, i - 1)) = i - 1
      /\ \A j \in 1..i - 1 : SubSeq(s, 1, i - 1)[j] = s[j]
  BY <1>1
<1>3. /\ SubSeq(s, i + 1, Len(s)) \in Seq(S)
      /\ Len(SubSeq(s, i + 1, Len(s))) = Len(s) - i
      /\ \A j \in 1..Len(s) - i : SubSeq(s, i + 1, Len(s))[j] = s[i + j]
  BY <1>1
<1> DEFINE before == SubSeq(s, 1, i - 1)
           after == SubSeq(s, i + 1, Len(s))
<1>4. RemoveAt(s, i) = before \o after
  BY DEF RemoveAt
<1>5. before \in Seq(S) /\ after \in Seq(S) /\ Len(before) = i - 1 /\ Len(after) = Len(s) - i
  BY <1>2, <1>3
<1>6. /\ \A j \in 1..i - 1 : before[j] = s[j]
      /\ \A j \in 1..Len(s) - i : after[j] = s[i + j]
  BY <1>2, <1>3
<1>7. Len(s) \in Nat
  OBVIOUS
<1> HIDE DEF before, after
<1>8. /\ before \o after \in Seq(S)
      /\ Len(before \o after) = Len(before) + Len(after)
      /\ \A j \in 1..Len(before) + Len(after) :
            (before \o after)[j] = IF j <= Len(before) THEN before[j] ELSE after[j - Len(before)]
  BY <1>5, ConcatProperties
<1>9. RemoveAt(s, i) \in Seq(S) /\ Len(RemoveAt(s, i)) = Len(s) - 1
  BY <1>1, <1>4, <1>5, <1>7, <1>8
<1>10. ASSUME NEW j \in 1..Len(s) - 1
       PROVE  RemoveAt(s, i)[j] = IF j < i THEN s[j] ELSE s[j + 1]
  <2>1. j \in 1..Len(before) + Len(after)
    BY <1>1, <1>5, <1>7
  <2>2. RemoveAt(s, i)[j] = IF j <= Len(before) THEN before[j] ELSE after[j - Len(before)]
    BY <1>4, <1>8, <2>1
  <2>3. CASE j < i
    <3>1. j <= Len(before) /\ j \in 1..i - 1
      BY <1>1, <1>5, <1>7, <2>3
    <3> QED BY <1>6, <2>2, <2>3, <3>1
  <2>4. CASE ~ (j < i)
    <3>1. ~ (j <= Len(before)) /\ j - Len(before) \in 1..Len(s) - i /\ i + (j - Len(before)) = j + 1
      BY <1>1, <1>5, <1>7, <2>4
    <3> QED BY <1>6, <2>2, <2>4, <3>1
  <2> QED BY <2>3, <2>4
<1> QED BY <1>9, <1>10

\* AnyKey(c) is one of the client's records.
LEMMA AnyKeyWanted ==
    ASSUME NEW c \in Client
    PROVE  AnyKey(c) \in Wants[c] /\ AnyKey(c) \in Key
<1>1. AnyKey(c) \in Wants[c]
  BY ClusterAssumption, Zenon DEF AnyKey
<1>2. Wants[c] \subseteq Key
  BY ClusterAssumption
<1> QED BY <1>1, <1>2

\* A client that rests has its type.
LEMMA RestingType ==
    ASSUME NEW c \in Client, NEW pc \in ClientPc, NEW l \in 0..MaxOps
    PROVE  /\ Resting(c, pc, l) \in ClientState
           /\ Resting(c, pc, l).key \in Wants[c]
<1>1. NoRecord(c) \in Record
  BY ClusterAssumption DEF NoRecord, Record
<1> QED BY <1>1, AnyKeyWanted DEF Resting, ClientState, Op, StartOp

-----------------------------------------------------------------------------
(* The packet handlers *)

\* The operation of a packet says which kind of packet it is.
LEMMA PacketTypes ==
    ASSUME NEW p \in Packet
    PROVE  /\ p.op = "req_call" => p \in ReqCall
           /\ p.op = "req_dmaster" => p \in ReqDmaster
           /\ p.op = "reply_dmaster" => p \in ReplyDmaster
           /\ p.op = "reply_call" => p \in ReplyCall
           /\ p.op = "reply_redirect" => p \in ReplyRedirect
BY DEF Packet, ReqCall, ReqDmaster, ReplyDmaster, ReplyCall, ReplyRedirect

\* A record stays a record when a call ran on it.
LEMMA CallLocalType ==
    ASSUME NEW n \in Node, NEW rec \in Record, NEW stored \in Record,
           NEW func \in Func, NEW caller \in Node
    PROVE  ctdb_call_local(n, rec, stored, func, caller) \in Record
<1>1. NewData(func, rec.data) \in Nat
  BY DEF NewData, Record
<1>2. (IF rec.laccessor # caller THEN 1 ELSE rec.lacount + 1) \in Nat
  BY DEF Record
<1> DEFINE lc == IF rec.laccessor # caller THEN 1 ELSE rec.lacount + 1
           nd == NewData(func, rec.data)
<1>3. ctdb_call_local(n, rec, stored, func, caller)
        \in {stored, [rec EXCEPT !.laccessor = caller, !.lacount = lc, !.data = nd]}
  BY DEF ctdb_call_local
<1>4. lc \in Nat /\ nd \in Nat
  BY <1>1, <1>2
<1> HIDE DEF lc, nd
<1>5. [rec EXCEPT !.laccessor = caller, !.lacount = lc, !.data = nd] \in Record
  BY <1>4 DEF Record
<1> QED BY <1>3, <1>5

\* The history of updates keeps its type.
LEMMA PerformType ==
    ASSUME TypeOK, NEW func \in Func, NEW k \in Key, Perform(func, k)
    PROVE  applied' \in [Key -> Nat]
BY DEF TypeOK, Perform

\* An id that is in use belongs to a call.
LEMMA CallEntryType ==
    ASSUME TypeOK, NEW n \in Node, NEW r \in ReqId, calls[n][r] # None
    PROVE  calls[n][r] \in CallState
<1>1. calls[n][r] \in CallState \cup {None}
  BY DEF TypeOK
<1> QED BY <1>1

\* Ending a call keeps the types of calls and clients.
LEMMA CompleteCallType ==
    ASSUME TypeOK, NEW n \in Node, NEW r \in ReqId, calls[n][r] # None, CompleteCall(n, r)
    PROVE  /\ calls' \in [Node -> [ReqId -> CallState \cup {None}]]
           /\ cl' \in [Client -> ClientState]
           /\ \A c \in Client : cl'[c].key \in Wants[c]
<1>1. calls[n][r].client \in Client
  BY CallEntryType DEF CallState
<1>2. cl' \in [Client -> ClientState] /\ \A c \in Client : cl'[c].key = cl[c].key
  BY <1>1 DEF TypeOK, CompleteCall, ClientState, ClientPc
<1>3. calls' \in [Node -> [ReqId -> CallState \cup {None}]]
  BY DEF TypeOK, CompleteCall
<1> QED BY <1>2, <1>3 DEF TypeOK

\* Every packet handler keeps the types.
LEMMA RecvPktType ==
    ASSUME TypeOK, NEW n \in Node, NEW p \in Packet,
           NEW ch \in [Node -> [Node -> Seq(Packet)]], NEW df \in [Node -> Seq(Parked)],
           ctdb_recv_pkt(n, p, ch, df)
    PROVE  TypeOK'
<1>1. CASE ctdb_request_call(n, p, ch, df)
  <2>1. p \in ReqCall /\ p.key \in Key /\ p.src \in Node /\ p.reqid \in ReqId /\ p.func \in Func
    BY <1>1, PacketTypes DEF ctdb_request_call, ReqCall
  <2>2. lt[n][p.key] \in Record
    BY <2>1 DEF TypeOK
  <2>3. lt' \in [Node -> [Key -> Record]] /\ chan' \in [Node -> [Node -> Seq(Packet)]]
        /\ applied' \in [Key -> Nat]
    <3>1. CASE ctdb_call_send_redirect(n, p, ch)
      <4>1. [op |-> "reply_redirect", reqid |-> p.reqid, dmaster |-> lt[n][p.key].dmaster]
              \in Packet
        BY <2>1, <2>2 DEF Packet, ReplyRedirect, Record
      <4> QED BY <2>1, <3>1, <4>1, QueueTypes DEF ctdb_call_send_redirect, TypeOK
    <3>2. CASE ctdb_call_send_dmaster(n, p, ch)
      <4>1. [op |-> "req_dmaster", src |-> n, reqid |-> p.reqid, key |-> p.key,
             dmaster |-> p.src, data |-> lt[n][p.key].data] \in Packet
        BY <2>1, <2>2 DEF Packet, ReqDmaster, Record
      <4>2. [lt[n][p.key] EXCEPT !.dmaster = Lmaster[p.key]] \in Record
        BY <2>1, <2>2, ClusterAssumption DEF Record
      <4>3. Lmaster[p.key] \in Node
        BY <2>1, ClusterAssumption
      <4>4. chan' \in [Node -> [Node -> Seq(Packet)]]
        BY <3>2, <4>1, <4>3, QueueTypes DEF ctdb_call_send_dmaster
      <4> QED BY <2>1, <3>2, <4>2, <4>4 DEF ctdb_call_send_dmaster, ctdb_ltdb_store, TypeOK
    <3>3. CASE CallHere(n, p, ch)
      <4>1. [op |-> "reply_call", reqid |-> p.reqid] \in Packet
        BY <2>1 DEF Packet, ReplyCall
      <4>2. chan' \in [Node -> [Node -> Seq(Packet)]]
        BY <2>1, <3>3, <4>1, QueueTypes DEF CallHere
      <4>3. applied' \in [Key -> Nat]
        BY <2>1, <3>3, PerformType DEF CallHere
      <4>4. ctdb_call_local(n, lt[n][p.key], lt[n][p.key], p.func, p.src) \in Record
        BY <2>1, <2>2, CallLocalType
      <4>5. lt' \in [Node -> [Key -> Record]]
        BY <2>1, <3>3, <4>4 DEF CallHere, ctdb_ltdb_store, TypeOK
      <4> QED BY <4>2, <4>3, <4>5
    <3> QED BY <1>1, <3>1, <3>2, <3>3 DEF ctdb_request_call
  <2> QED BY <1>1, <2>3 DEF ctdb_request_call, TypeOK
<1>2. CASE ctdb_request_dmaster(n, p, ch, df)
  <2>1. p \in ReqDmaster
    BY <1>2, PacketTypes DEF ctdb_request_dmaster
  <2>2. /\ [op |-> "reply_dmaster", reqid |-> p.reqid, data |-> p.data] \in Packet
        /\ p.dmaster \in Node /\ p.key \in Key /\ p.data \in Nat
    BY <2>1 DEF ReqDmaster, ReplyDmaster, Packet
  <2>3. chan' \in [Node -> [Node -> Seq(Packet)]]
    BY <1>2, <2>2, QueueTypes DEF ctdb_request_dmaster
  <2>4. lt[n][p.key] \in Record
    BY <2>2 DEF TypeOK
  <2>5. [lt[n][p.key] EXCEPT !.dmaster = p.dmaster, !.data = p.data] \in Record
    BY <2>2, <2>4 DEF Record
  <2>6. lt' \in [Node -> [Key -> Record]]
    BY <1>2, <2>2, <2>5 DEF ctdb_request_dmaster, ctdb_ltdb_store, TypeOK
  <2> QED BY <1>2, <2>3, <2>6 DEF ctdb_request_dmaster, TypeOK
<1>3. CASE DmasterRequestFatal(n, p, ch, df)
  BY <1>3 DEF DmasterRequestFatal, TypeOK
<1>4. CASE ctdb_reply_dmaster(n, p, ch, df)
  <2>1. p \in ReplyDmaster /\ p.reqid \in ReqId /\ p.data \in Nat
    BY <1>4, PacketTypes DEF ctdb_reply_dmaster, ReplyDmaster
  <2> DEFINE s == calls[n][p.reqid]
             rec == [dmaster |-> n, laccessor |-> s.laccessor, lacount |-> s.lacount,
                     data |-> p.data]
  <2>2. s \in CallState
    <3>1. calls[n][p.reqid] # None
      BY <1>4 DEF ctdb_reply_dmaster
    <3> QED BY <2>1, <3>1, CallEntryType
  <2>3. rec \in Record /\ s.key \in Key /\ s.func \in Func
    BY <2>1, <2>2 DEF Record, CallState
  <2>4. /\ lt' = [lt EXCEPT ![n][s.key] = ctdb_call_local(n, rec, rec, s.func, n)]
        /\ Perform(s.func, s.key)
    BY <1>4 DEF ctdb_reply_dmaster, ctdb_ltdb_store
  <2>5. ctdb_call_local(n, rec, rec, s.func, n) \in Record
    BY <2>3, CallLocalType
  <2> HIDE DEF s, rec
  <2>6. lt' \in [Node -> [Key -> Record]]
    BY <2>3, <2>4, <2>5 DEF TypeOK
  <2>7. applied' \in [Key -> Nat]
    BY <2>3, <2>4, PerformType
  <2>8. /\ calls' \in [Node -> [ReqId -> CallState \cup {None}]]
        /\ cl' \in [Client -> ClientState]
        /\ \A c \in Client : cl'[c].key \in Wants[c]
    BY <1>4, <2>1, CompleteCallType DEF ctdb_reply_dmaster
  <2>9. chan' = ch /\ deferred' = df /\ UNCHANGED <<lock, up, timeouts, losses>>
    BY <1>4 DEF ctdb_reply_dmaster
  <2> QED BY <2>6, <2>7, <2>8, <2>9 DEF TypeOK
<1>5. CASE ctdb_reply_call(n, p, ch, df)
  <2>1. p.reqid \in ReqId
    BY <1>5, PacketTypes DEF ctdb_reply_call, ReplyCall
  <2>2. /\ calls' \in [Node -> [ReqId -> CallState \cup {None}]]
        /\ cl' \in [Client -> ClientState]
        /\ \A c \in Client : cl'[c].key \in Wants[c]
    BY <1>5, <2>1, CompleteCallType DEF ctdb_reply_call
  <2> QED BY <1>5, <2>2 DEF ctdb_reply_call, TypeOK
<1>6. CASE ctdb_reply_redirect(n, p, ch, df)
  <2>1. p \in ReplyRedirect /\ p.reqid \in ReqId /\ p.dmaster \in Node
    BY <1>6, PacketTypes DEF ctdb_reply_redirect, ReplyRedirect
  <2> DEFINE s == calls[n][p.reqid]
             next == IF s.redirects = MaxRedirect THEN Lmaster[s.key] ELSE p.dmaster
             req == [op |-> "req_call", src |-> n, reqid |-> p.reqid, key |-> s.key,
                     func |-> s.func, imm |-> s.imm]
             s1 == [s EXCEPT !.redirects = IF @ > MaxRedirect THEN @ ELSE @ + 1]
  <2>2. s \in CallState
    <3>1. calls[n][p.reqid] # None
      BY <1>6 DEF ctdb_reply_redirect
    <3> QED BY <2>1, <3>1, CallEntryType
  <2>3. next \in Node /\ req \in Packet
    <3>1. s.key \in Key /\ s.func \in Func /\ s.imm \in BOOLEAN
      BY <2>2 DEF CallState
    <3>2. req \in ReqCall
      BY <2>1, <3>1 DEF ReqCall
    <3> QED BY <2>1, <3>1, <3>2, ClusterAssumption DEF Packet
  <2>4. s1 \in CallState
    <3> DEFINE rc == IF s.redirects > MaxRedirect THEN s.redirects ELSE s.redirects + 1
    <3>1. s.redirects \in 0..MaxRedirect + 1
      BY <2>2 DEF CallState
    <3>2. rc \in 0..MaxRedirect + 1
      BY <3>1, BoundsAssumption
    <3>3. s1 = [s EXCEPT !.redirects = rc]
      BY <2>2 DEF CallState
    <3> HIDE DEF rc, s
    <3> QED BY <2>2, <3>2, <3>3 DEF CallState
  <2>5. /\ calls' = [calls EXCEPT ![n][p.reqid] = s1]
        /\ chan' = ctdb_queue_packet(ch, n, next, req)
        /\ deferred' = df
        /\ UNCHANGED <<lt, lock, cl, up, applied, timeouts, losses>>
    BY <1>6 DEF ctdb_reply_redirect
  <2> HIDE DEF s, next, req, s1
  <2>6. chan' \in [Node -> [Node -> Seq(Packet)]]
    BY <2>3, <2>5, QueueTypes
  <2>7. calls' \in [Node -> [ReqId -> CallState \cup {None}]]
    BY <2>1, <2>4, <2>5 DEF TypeOK
  <2> QED BY <2>5, <2>6, <2>7 DEF TypeOK
<1>7. CASE UnknownReply(n, p, ch, df)
  BY <1>7 DEF UnknownReply, TypeOK
<1> QED BY <1>1, <1>2, <1>3, <1>4, <1>5, <1>6, <1>7 DEF ctdb_recv_pkt

-----------------------------------------------------------------------------
(* Clients and the requests they make *)

\* Any change of position and operation keeps a client in its type.
LEMMA ClientMoves ==
    ASSUME TypeOK, NEW c \in Client
    PROVE  /\ \A pc \in ClientPc, op \in Op :
                [cl EXCEPT ![c].pc = pc, ![c].op = op] \in [Client -> ClientState]
           /\ \A pc \in ClientPc : [cl EXCEPT ![c].pc = pc] \in [Client -> ClientState]
           /\ \A pc \in ClientPc, l \in 0..MaxOps :
                [cl EXCEPT ![c] = Resting(c, pc, l)] \in [Client -> ClientState]
           /\ cl[c] \in ClientState /\ cl[c].key \in Wants[c] /\ cl[c].key \in Key
           /\ cl[c].left \in 0..MaxOps /\ cl[c].op \in Op /\ cl[c].got \in Record
<1>1. cl[c] \in ClientState /\ cl \in [Client -> ClientState]
  BY DEF TypeOK
<1>2. \A pc \in ClientPc, op \in Op :
         [cl EXCEPT ![c].pc = pc, ![c].op = op] \in [Client -> ClientState]
  BY <1>1 DEF ClientState
<1>3. \A pc \in ClientPc : [cl EXCEPT ![c].pc = pc] \in [Client -> ClientState]
  BY <1>1 DEF ClientState
<1>4. \A pc \in ClientPc, l \in 0..MaxOps :
         [cl EXCEPT ![c] = Resting(c, pc, l)] \in [Client -> ClientState]
  BY <1>1, RestingType
<1>5. cl[c].key \in Wants[c]
  BY DEF TypeOK
<1>6. /\ cl[c].key \in Key /\ cl[c].left \in 0..MaxOps
      /\ cl[c].op \in Op /\ cl[c].got \in Record
  BY <1>1 DEF ClientState
<1> QED BY <1>1, <1>2, <1>3, <1>4, <1>5, <1>6

\* ... and leaves it with one of its own records.
LEMMA ClientKeys ==
    ASSUME TypeOK, NEW c \in Client, NEW pc \in ClientPc, NEW op \in Op, NEW l \in 0..MaxOps,
           \/ cl' = [cl EXCEPT ![c].pc = pc, ![c].op = op]
           \/ cl' = [cl EXCEPT ![c].pc = pc]
           \/ cl' = [cl EXCEPT ![c] = Resting(c, pc, l)]
    PROVE  /\ cl' \in [Client -> ClientState]
           /\ \A d \in Client : cl'[d].key \in Wants[d]
<1>1. cl' \in [Client -> ClientState]
  BY ClientMoves
<1>2. cl \in [Client -> ClientState] /\ \A d \in Client : cl[d].key \in Wants[d]
  BY DEF TypeOK
<1>3. cl[c] \in ClientState
  BY <1>2
<1>4. CASE cl' = [cl EXCEPT ![c].pc = pc, ![c].op = op]
  <2>1. \A d \in Client : cl'[d].key = cl[d].key
    BY <1>2, <1>3, <1>4 DEF ClientState
  <2> QED BY <1>1, <1>2, <2>1
<1>5. CASE cl' = [cl EXCEPT ![c].pc = pc]
  <2>1. \A d \in Client : cl'[d].key = cl[d].key
    BY <1>2, <1>3, <1>5 DEF ClientState
  <2> QED BY <1>1, <1>2, <2>1
<1>6. CASE cl' = [cl EXCEPT ![c] = Resting(c, pc, l)]
  <2>1. cl'[c].key \in Wants[c]
    BY <1>2, <1>6, RestingType
  <2>2. \A d \in Client : d # c => cl'[d] = cl[d]
    BY <1>2, <1>6
  <2> QED BY <1>1, <1>2, <2>1, <2>2
<1> QED BY <1>4, <1>5, <1>6

\* The return of ctdb_call keeps the type of the client.
LEMMA CallReturnedType ==
    ASSUME TypeOK, NEW c \in Client, cl' = CallReturned(c)
    PROVE  /\ cl' \in [Client -> ClientState]
           /\ \A d \in Client : cl'[d].key \in Wants[d]
<1>1. "lock" \in ClientPc /\ "idle" \in ClientPc /\ "fetch" \in Op /\ cl[c].left \in 0..MaxOps
  BY ClientMoves DEF ClientPc, Op, StartOp
<1>2. cl' \in {[cl EXCEPT ![c].pc = "lock", ![c].op = "fetch"],
              [cl EXCEPT ![c] = Resting(c, "idle", cl[c].left)]}
  BY DEF CallReturned
<1> QED BY <1>1, <1>2, ClientKeys

\* The lock a client takes or gives back.
LEMMA LockType ==
    ASSUME TypeOK, NEW c \in Client, NEW h \in Client \cup {None}, NEW n \in Node, NEW k \in Key
    PROVE  [lock EXCEPT ![n][k] = h] \in [Node -> [Key -> Client \cup {None}]]
BY DEF TypeOK

\* A call that runs on the client's own node.
LEMMA LocalRunType ==
    ASSUME TypeOK, NEW c \in Client, NEW n \in Node,
           ctdb_ltdb_store(n, cl[c].key, ctdb_call_local(n, lt[n][cl[c].key], lt[n][cl[c].key],
                                                          FuncOf(c), n)),
           Perform(FuncOf(c), cl[c].key)
    PROVE  lt' \in [Node -> [Key -> Record]] /\ applied' \in [Key -> Nat]
<1>1. cl[c].key \in Key /\ FuncOf(c) \in Func
  BY ClientMoves DEF FuncOf, Func
<1>2. lt[n][cl[c].key] \in Record
  BY <1>1 DEF TypeOK
<1>3. ctdb_call_local(n, lt[n][cl[c].key], lt[n][cl[c].key], FuncOf(c), n) \in Record
  BY <1>1, <1>2, CallLocalType
<1>4. lt' \in [Node -> [Key -> Record]]
  BY <1>1, <1>3 DEF TypeOK, ctdb_ltdb_store
<1>5. applied' \in [Key -> Nat]
  BY <1>1, PerformType
<1> QED BY <1>4, <1>5

\* Every step of a client process keeps the types.
LEMMA ClientNextType ==
    ASSUME TypeOK, NEW c \in Client, ClientNext(c)
    PROVE  TypeOK'
<1>a. NodeOf[c] \in Node /\ cl[c].key \in Key /\ cl[c].key \in Wants[c] /\ Wants[c] \subseteq Key
  BY ClientMoves, ClusterAssumption
<1>b. /\ "lock" \in ClientPc /\ "locked" \in ClientPc /\ "idle" \in ClientPc
      /\ "held" \in ClientPc /\ "stored" \in ClientPc /\ "sent" \in ClientPc
      /\ "exited" \in ClientPc
      /\ "fetch" \in Op /\ "migrate" \in Op /\ cl[c].op \in Op
      /\ cl[c].left \in 0..MaxOps /\ 0 \in 0..MaxOps
  <2>1. cl[c].op \in Op /\ cl[c].left \in 0..MaxOps
    BY ClientMoves
  <2>2. 0 \in 0..MaxOps
    BY BoundsAssumption
  <2>3. "fetch" \in Op /\ "migrate" \in Op
    BY DEF Op, StartOp
  <2> QED BY <2>1, <2>2, <2>3 DEF ClientPc
<1>1. ASSUME NEW op \in ClientOps[c], NEW k \in Wants[c], ClientStart(c, op, k)
      PROVE  TypeOK'
  <2> DEFINE new == [pc |-> "lock", op |-> op, key |-> k, got |-> NoRecord(c),
                     left |-> cl[c].left - 1]
  <2>1. op \in Op /\ k \in Key
    BY <1>a, ClusterAssumption DEF Op
  <2>2. NoRecord(c) \in Record
    BY <1>a DEF NoRecord, Record
  <2>3. cl[c].left - 1 \in 0..MaxOps
    BY <1>b, <1>1, BoundsAssumption DEF ClientStart
  <2>4. new \in ClientState /\ new.key = k
    BY <1>b, <2>1, <2>2, <2>3 DEF ClientState
  <2>5. cl' = [cl EXCEPT ![c] = new]
    BY <1>1 DEF ClientStart
  <2> HIDE DEF new
  <2>6. cl' \in [Client -> ClientState] /\ \A d \in Client : cl'[d].key \in Wants[d]
    BY <1>1, <2>4, <2>5 DEF TypeOK
  <2> QED BY <1>1, <2>6 DEF ClientStart, TypeOK
<1>2. CASE ClientLock(c)
  <2>1. cl' \in [Client -> ClientState] /\ \A d \in Client : cl'[d].key \in Wants[d]
    BY <1>b, <1>2, ClientKeys DEF ClientLock
  <2>2. lock' \in [Node -> [Key -> Client \cup {None}]]
    BY <1>a, <1>2, LockType DEF ClientLock
  <2> QED BY <1>2, <2>1, <2>2 DEF ClientLock, TypeOK
<1>3. CASE FetchHere(c)
  <2> DEFINE rec == lt[NodeOf[c]][cl[c].key]
  <2>1. rec \in Record
    BY <1>a DEF TypeOK
  <2>2. cl' = [cl EXCEPT ![c].pc = "held", ![c].got = rec]
    BY <1>3 DEF FetchHere
  <2> HIDE DEF rec
  <2>3. cl' \in [Client -> ClientState] /\ \A d \in Client : cl'[d].key = cl[d].key
    BY <1>b, <2>1, <2>2 DEF TypeOK, ClientState
  <2> QED BY <1>3, <2>3 DEF FetchHere, TypeOK
<1>4. CASE FetchElsewhere(c)
  <2>1. cl' \in [Client -> ClientState] /\ \A d \in Client : cl'[d].key \in Wants[d]
    BY <1>b, <1>4, ClientKeys DEF FetchElsewhere, UnlockAndGo
  <2>2. lock' \in [Node -> [Key -> Client \cup {None}]]
    BY <1>a, <1>4, LockType DEF FetchElsewhere, UnlockAndGo
  <2> QED BY <1>4, <2>1, <2>2 DEF FetchElsewhere, TypeOK
<1>5. CASE ClientCallLocal(c)
  <2>1. lt' \in [Node -> [Key -> Record]] /\ applied' \in [Key -> Nat]
    BY <1>a, <1>5, LocalRunType DEF ClientCallLocal
  <2>2. cl' \in [Client -> ClientState] /\ \A d \in Client : cl'[d].key \in Wants[d]
    BY <1>5, CallReturnedType DEF ClientCallLocal
  <2>3. lock' \in [Node -> [Key -> Client \cup {None}]]
    BY <1>a, <1>5, LockType DEF ClientCallLocal
  <2> QED BY <1>5, <2>1, <2>2, <2>3 DEF ClientCallLocal, TypeOK
<1>6. CASE ClientCallDaemon(c)
  <2>1. cl' \in [Client -> ClientState] /\ \A d \in Client : cl'[d].key \in Wants[d]
    BY <1>b, <1>6, ClientKeys DEF ClientCallDaemon, UnlockAndGo
  <2>2. lock' \in [Node -> [Key -> Client \cup {None}]]
    BY <1>a, <1>6, LockType DEF ClientCallDaemon, UnlockAndGo
  <2> QED BY <1>6, <2>1, <2>2 DEF ClientCallDaemon, TypeOK
<1>7. CASE ClientReply(c)
  <2>1. cl' \in [Client -> ClientState] /\ \A d \in Client : cl'[d].key \in Wants[d]
    BY <1>7, CallReturnedType DEF ClientReply
  <2> QED BY <1>7, <2>1 DEF ClientReply, TypeOK
<1>8. CASE ctdb_record_store(c)
  <2>1. cl' \in [Client -> ClientState] /\ \A d \in Client : cl'[d].key \in Wants[d]
    BY <1>b, <1>8, ClientKeys DEF ctdb_record_store
  <2>2. [cl[c].got EXCEPT !.data = @ + 1] \in Record
    BY ClientMoves DEF Record
  <2>3. lt' \in [Node -> [Key -> Record]]
    BY <1>a, <1>8, <2>2 DEF ctdb_record_store, ctdb_ltdb_store, TypeOK
  <2>4. applied' \in [Key -> Nat]
    BY <1>a, <1>8 DEF ctdb_record_store, TypeOK
  <2> QED BY <1>8, <2>1, <2>3, <2>4 DEF ctdb_record_store, TypeOK
<1>9. CASE ClientRelease(c)
  <2>1. cl' \in [Client -> ClientState] /\ \A d \in Client : cl'[d].key \in Wants[d]
    BY <1>b, <1>9, ClientKeys DEF ClientRelease, UnlockAndRest
  <2>2. lock' \in [Node -> [Key -> Client \cup {None}]]
    BY <1>a, <1>9, LockType DEF ClientRelease, UnlockAndRest
  <2> QED BY <1>9, <2>1, <2>2 DEF ClientRelease, TypeOK
<1>10. CASE ClientExit(c)
  <2>1. cl' \in [Client -> ClientState] /\ \A d \in Client : cl'[d].key \in Wants[d]
    BY <1>b, <1>10, ClientKeys DEF ClientExit
  <2>2. lock' \in [Node -> [Key -> Client \cup {None}]]
    BY <1>a, <1>10 DEF ClientExit, TypeOK
  <2>3. calls' \in [Node -> [ReqId -> CallState \cup {None}]]
    BY <1>a, <1>10 DEF ClientExit, TypeOK
  <2> QED BY <1>10, <2>1, <2>2, <2>3 DEF ClientExit, TypeOK
<1>11. CASE ClientDaemonGone(c)
  <2>1. cl' \in [Client -> ClientState] /\ \A d \in Client : cl'[d].key \in Wants[d]
    BY <1>b, <1>11, ClientKeys DEF ClientDaemonGone
  <2> QED BY <1>11, <2>1 DEF ClientDaemonGone, TypeOK
<1> QED BY <1>1, <1>2, <1>3, <1>4, <1>5, <1>6, <1>7, <1>8, <1>9, <1>10, <1>11 DEF ClientNext

\* The daemon takes a client's request, from the socket or from its place
\* behind the chain lock.
LEMMA ClientRequestType ==
    ASSUME TypeOK, NEW c \in Client, NEW n \in Node, NEW df \in [Node -> Seq(Parked)],
           daemon_request_call_from_client(n, c, df)
    PROVE  TypeOK'
<1>a. cl[c].key \in Key /\ "wait" \in ClientPc /\ "replied" \in ClientPc /\ cl[c].op \in Op
      /\ cl[c].left \in 0..MaxOps
  BY ClientMoves DEF ClientPc
<1>1. CASE DaemonCallLocal(n, c, df)
  <2>1. lt' \in [Node -> [Key -> Record]] /\ applied' \in [Key -> Nat]
    BY <1>1, LocalRunType DEF DaemonCallLocal
  <2>2. cl' \in [Client -> ClientState] /\ \A d \in Client : cl'[d].key \in Wants[d]
    BY <1>a, <1>1, ClientKeys DEF DaemonCallLocal
  <2> QED BY <1>1, <2>1, <2>2 DEF DaemonCallLocal, TypeOK
<1>2. CASE ctdb_daemon_call_send_remote(n, c, df)
  <2> DEFINE k == cl[c].key
             new == [client |-> c, key |-> k, func |-> FuncOf(c), imm |-> Immediate(c),
                     laccessor |-> lt[n][k].laccessor, lacount |-> lt[n][k].lacount,
                     redirects |-> 0]
             req(r) == [op |-> "req_call", src |-> n, reqid |-> r, key |-> k,
                        func |-> FuncOf(c), imm |-> Immediate(c)]
  <2>1. PICK r \in ReqId :
           /\ calls' = [calls EXCEPT ![n][r] = new]
           /\ chan' = ctdb_queue_packet(chan, n, lt[n][k].dmaster, req(r))
    BY <1>2 DEF ctdb_daemon_call_send_remote
  <2>2. FuncOf(c) \in Func /\ Immediate(c) \in BOOLEAN
    BY DEF FuncOf, Func, Immediate
  <2>3. lt[n][k] \in Record
    BY <1>a DEF TypeOK
  <2>4. lt[n][k].dmaster \in Node /\ lt[n][k].laccessor \in Node /\ lt[n][k].lacount \in Nat
    BY <2>3 DEF Record
  <2>5. 0 \in 0..MaxRedirect + 1
    BY BoundsAssumption
  <2>6. new \in CallState
    BY <1>a, <2>2, <2>4, <2>5 DEF CallState
  <2>7. req(r) \in Packet
    BY <1>a, <2>2 DEF ReqCall, Packet
  <2> HIDE DEF new, req, k
  <2>8. calls' \in [Node -> [ReqId -> CallState \cup {None}]]
    BY <2>1, <2>6 DEF TypeOK
  <2>9. chan' \in [Node -> [Node -> Seq(Packet)]]
    BY <2>1, <2>4, <2>7, QueueTypes DEF TypeOK
  <2>10. cl' \in [Client -> ClientState] /\ \A d \in Client : cl'[d].key \in Wants[d]
    BY <1>a, <1>2, ClientKeys DEF ctdb_daemon_call_send_remote
  <2> QED BY <1>2, <2>8, <2>9, <2>10 DEF ctdb_daemon_call_send_remote, TypeOK
<1> QED BY <1>1, <1>2 DEF daemon_request_call_from_client

\* Parking the request of a client keeps the types.
LEMMA DeferCallType ==
    ASSUME TypeOK, NEW c \in Client, DeferCall(c)
    PROVE  TypeOK'
<1> DEFINE n == NodeOf[c]
           e == [key |-> cl[c].key, pkt |-> [op |-> "client_call", client |-> c]]
<1>1. n \in Node /\ cl[c].key \in Key /\ "wait" \in ClientPc /\ cl[c].op \in Op
      /\ cl[c].left \in 0..MaxOps
  BY ClientMoves, ClusterAssumption DEF ClientPc
<1>2. e \in Parked
  BY <1>1 DEF Parked, ClientCall
<1>3. deferred' = [deferred EXCEPT ![n] = Append(@, e)]
  BY DEF DeferCall
<1>4. cl' \in [Client -> ClientState] /\ \A d \in Client : cl'[d].key \in Wants[d]
  BY <1>1, ClientKeys DEF DeferCall
<1> HIDE DEF e, n
<1>5. deferred' \in [Node -> Seq(Parked)]
  BY <1>1, <1>2, <1>3 DEF TypeOK
<1> QED BY <1>4, <1>5 DEF DeferCall, TypeOK

-----------------------------------------------------------------------------
(* The daemon's event loop and the theorem *)

\* The parked entries that are left when entry i is taken out.
LEMMA ParkedTypes ==
    ASSUME TypeOK, NEW n \in Node, NEW i \in DOMAIN deferred[n]
    PROVE  /\ [deferred EXCEPT ![n] = RemoveAt(@, i)] \in [Node -> Seq(Parked)]
           /\ deferred[n][i] \in Parked
           /\ deferred[n][i].pkt.op # "client_call" => deferred[n][i].pkt \in Packet
           /\ deferred[n][i].pkt.op = "client_call" => deferred[n][i].pkt.client \in Client
<1>1. deferred \in [Node -> Seq(Parked)] /\ deferred[n] \in Seq(Parked)
  BY DEF TypeOK
<1>2. RemoveAt(deferred[n], i) \in Seq(Parked)
  BY <1>1, RemoveAtProperties
<1>3. deferred[n][i] \in Parked
  BY <1>1
<1>4. deferred[n][i].pkt \in Packet \cup ClientCall
  BY <1>3 DEF Parked
<1>5. deferred[n][i].pkt.op # "client_call" => deferred[n][i].pkt \in Packet
  BY <1>4 DEF ClientCall
<1>6. deferred[n][i].pkt.op = "client_call" => deferred[n][i].pkt.client \in Client
  BY <1>4 DEF ClientCall, Packet, ReqCall, ReqDmaster, ReplyDmaster, ReplyCall, ReplyRedirect
<1> QED BY <1>1, <1>2, <1>3, <1>5, <1>6

\* Every step of a daemon keeps the types.
LEMMA DaemonNextType ==
    ASSUME TypeOK, NEW n \in Node, DaemonNext(n)
    PROVE  TypeOK'
<1>1. ASSUME NEW m \in Node, RecvPacket(m, n) PROVE TypeOK'
  <2>1. chan \in [Node -> [Node -> Seq(Packet)]] /\ deferred \in [Node -> Seq(Parked)]
    BY DEF TypeOK
  <2>2. /\ Head(chan[m][n]) \in Packet
        /\ [chan EXCEPT ![m][n] = Tail(@)] \in [Node -> [Node -> Seq(Packet)]]
    BY <1>1, <2>1, QueueTypes DEF RecvPacket
  <2> QED BY <1>1, <2>1, <2>2, RecvPktType DEF RecvPacket
<1>2. ASSUME NEW m \in Node, DeferPacket(m, n) PROVE TypeOK'
  <2> DEFINE p == Head(chan[m][n])
             e == [key |-> KeyOf(n, p), pkt |-> p]
  <2>1. chan \in [Node -> [Node -> Seq(Packet)]] /\ deferred \in [Node -> Seq(Parked)]
    BY DEF TypeOK
  <2>2. p \in Packet /\ chan' \in [Node -> [Node -> Seq(Packet)]]
    BY <1>2, <2>1, QueueTypes DEF DeferPacket
  <2>3. NeedsLock(n, p) /\ deferred' = [deferred EXCEPT ![n] = Append(@, e)]
    BY <1>2 DEF DeferPacket
  <2> HIDE DEF p
  <2>4. KeyOf(n, p) \in Key
    <3>1. CASE p.op \in {"req_call", "req_dmaster"}
      BY <2>2, <3>1, PacketTypes DEF KeyOf, ReqCall, ReqDmaster
    <3>2. CASE p.op = "reply_dmaster"
      <4>1. p.reqid \in ReqId
        BY <2>2, <3>2, PacketTypes DEF ReplyDmaster
      <4>2. calls[n][p.reqid] \in CallState
        BY <2>3, <3>2, <4>1, CallEntryType DEF NeedsLock
      <4> QED BY <3>2, <4>2 DEF KeyOf, CallState
    <3> QED BY <2>3, <3>1, <3>2 DEF NeedsLock
  <2>5. e \in Parked
    BY <2>2, <2>4 DEF Parked
  <2> HIDE DEF e
  <2>6. deferred' \in [Node -> Seq(Parked)]
    BY <2>1, <2>3, <2>5
  <2> QED BY <1>2, <2>2, <2>6 DEF DeferPacket, TypeOK
<1>3. ASSUME NEW i \in DOMAIN deferred[n], RetryPacket(n, i) PROVE TypeOK'
  <2>1. chan \in [Node -> [Node -> Seq(Packet)]]
    BY DEF TypeOK
  <2>2. /\ deferred[n][i].pkt \in Packet
        /\ [deferred EXCEPT ![n] = RemoveAt(@, i)] \in [Node -> Seq(Parked)]
    BY <1>3, ParkedTypes DEF RetryPacket
  <2> QED BY <1>3, <2>1, <2>2, RecvPktType DEF RetryPacket
<1>4. ASSUME NEW i \in DOMAIN deferred[n], RetryCall(n, i) PROVE TypeOK'
  <2>1. /\ deferred[n][i].pkt.client \in Client
        /\ [deferred EXCEPT ![n] = RemoveAt(@, i)] \in [Node -> Seq(Parked)]
    BY <1>4, ParkedTypes DEF RetryCall
  <2> QED BY <1>4, <2>1, ClientRequestType DEF RetryCall
<1>5. ASSUME NEW i \in DOMAIN deferred[n], RetryDeadCall(n, i) PROVE TypeOK'
  <2>1. deferred' \in [Node -> Seq(Parked)]
    BY <1>5, ParkedTypes DEF RetryDeadCall
  <2> QED BY <1>5, <2>1 DEF RetryDeadCall, TypeOK
<1>6. ASSUME NEW r \in ReqId, ctdb_call_timeout(n, r) PROVE TypeOK'
  BY <1>6, BoundsAssumption DEF ctdb_call_timeout, TypeOK
<1> QED BY <1>1, <1>2, <1>3, <1>4, <1>5, <1>6 DEF DaemonNext

\* The variables have their types at the start.
LEMMA InitType == Init => TypeOK
<1> SUFFICES ASSUME Init PROVE TypeOK
  OBVIOUS
<1>1. \A n \in Node, k \in Key : ltdb_initial_header(n, k) \in Record
  BY ClusterAssumption DEF ltdb_initial_header, Record
<1>2. \A c \in Client : /\ Resting(c, "idle", MaxOps) \in ClientState
                        /\ Resting(c, "idle", MaxOps).key \in Wants[c]
  <2>1. "idle" \in ClientPc /\ MaxOps \in 0..MaxOps
    BY BoundsAssumption DEF ClientPc
  <2> QED BY <2>1, RestingType
<1>3. lt \in [Node -> [Key -> Record]]
  BY <1>1 DEF Init
<1>4. cl \in [Client -> ClientState] /\ \A c \in Client : cl[c].key \in Wants[c]
  BY <1>2 DEF Init
<1>5. <<>> \in Seq(Packet) /\ <<>> \in Seq(Parked)
  OBVIOUS
<1> QED BY <1>3, <1>4, <1>5, BoundsAssumption DEF Init, TypeOK

\* Every step keeps the types.
LEMMA NextType == TypeOK /\ [Next]_vars => TypeOK'
<1> SUFFICES ASSUME TypeOK, [Next]_vars PROVE TypeOK'
  OBVIOUS
<1>1. ASSUME NEW c \in Client, TakeCall(c) PROVE TypeOK'
  <2>1. NodeOf[c] \in Node /\ deferred \in [Node -> Seq(Parked)]
    BY ClusterAssumption DEF TypeOK
  <2> QED BY <1>1, <2>1, ClientRequestType DEF TakeCall
<1>2. ASSUME NEW n \in Node, NEW m \in Node, LosePacket(n, m) PROVE TypeOK'
  <2>1. chan' \in [Node -> [Node -> Seq(Packet)]]
    BY <1>2, QueueTypes DEF LosePacket, TypeOK
  <2>2. losses' \in 0..MaxLosses
    BY <1>2, BoundsAssumption DEF LosePacket, TypeOK
  <2> QED BY <1>2, <2>1, <2>2 DEF LosePacket, TypeOK
<1>3. CASE UNCHANGED vars
  BY <1>3 DEF vars, TypeOK
<1> QED BY <1>1, <1>2, <1>3, ClientNextType, DeferCallType, DaemonNextType DEF Next

\* Whatever the cluster, its clients and its failures, every variable of the
\* model of ctdb_call.c, ctdb_ltdb.c, ctdb_client.c and ctdb_daemon.c keeps
\* its type, and clients only ever work on their own records.
THEOREM TypeCorrect == Spec => []TypeOK
<1>1. Init => TypeOK
  BY InitType
<1>2. TypeOK /\ [Next]_vars => TypeOK'
  BY NextType
<1> QED BY <1>1, <1>2, PTL DEF Spec

-----------------------------------------------------------------------------
(* Steps that leave the other clients alone *)

\* A client whose lock and record are as they were, or which holds no lock.
LEMMA Undisturbed ==
    ASSUME NEW d \in Client, ClientOk(d),
           \/ cl'[d].pc \notin Locking
           \/ /\ cl'[d] = cl[d]
              /\ cl[d].pc \in Locking =>
                    /\ lock'[NodeOf[d]][cl[d].key] = lock[NodeOf[d]][cl[d].key]
                    /\ lt'[NodeOf[d]][cl[d].key] = lt[NodeOf[d]][cl[d].key]
    PROVE  ClientOk(d)'
BY DEF ClientOk, Locking

\* A daemon stores only records whose chain lock is free.
LEMMA DaemonFrame ==
    ASSUME TypeOK, ClientsOk, NEW n \in Node, NEW k \in Key, NEW rec,
           lock' = lock,
           lt' = lt \/ (lock[n][k] = None /\ lt' = [lt EXCEPT ![n][k] = rec]),
           \A d \in Client : cl'[d] = cl[d] \/ cl'[d].pc \notin Locking
    PROVE  ClientsOk'
<1> SUFFICES ASSUME NEW d \in Client PROVE ClientOk(d)'
  BY DEF ClientsOk
<1>1. ClientOk(d) /\ d # None /\ NodeOf[d] \in Node /\ cl[d].key \in Key
  BY ClientMoves, ClusterAssumption DEF ClientsOk
<1>2. ASSUME cl[d].pc \in Locking
      PROVE  lt'[NodeOf[d]][cl[d].key] = lt[NodeOf[d]][cl[d].key]
  <2>1. lock[NodeOf[d]][cl[d].key] = d
    BY <1>1, <1>2 DEF ClientOk
  <2>2. lt \in [Node -> [Key -> Record]]
    BY DEF TypeOK
  <2> QED BY <1>1, <2>1, <2>2
<1> QED BY <1>1, <1>2, Undisturbed

\* A client that has the chain lock of its record is the only one that does.
LEMMA LockIsMine ==
    ASSUME TypeOK, ClientsOk, NEW c \in Client, cl[c].pc \in Locking,
           NEW d \in Client, d # c, cl[d].pc \in Locking
    PROVE  ~ (NodeOf[d] = NodeOf[c] /\ cl[d].key = cl[c].key)
BY DEF ClientsOk, ClientOk

\* A step of client c, which has the lock or leaves the tdb alone: it changes
\* at most its own record and its own lock.
LEMMA ClientFrame ==
    ASSUME TypeOK, ClientsOk, NEW c \in Client, NEW h, NEW rec,
           cl[c].pc \in Locking \/ lock[NodeOf[c]][cl[c].key] = None,
           lock' = lock \/ lock' = [lock EXCEPT ![NodeOf[c]][cl[c].key] = h],
           lt' = lt \/ lt' = [lt EXCEPT ![NodeOf[c]][cl[c].key] = rec],
           \A d \in Client : d # c => cl'[d] = cl[d],
           ClientOk(c)'
    PROVE  ClientsOk'
<1> SUFFICES ASSUME NEW d \in Client, d # c PROVE ClientOk(d)'
  BY DEF ClientsOk
<1>1. /\ ClientOk(d) /\ d # None
      /\ NodeOf[d] \in Node /\ cl[d].key \in Key /\ NodeOf[c] \in Node /\ cl[c].key \in Key
  BY ClientMoves, ClusterAssumption DEF ClientsOk
<1>2. ASSUME cl[d].pc \in Locking
      PROVE  ~ (NodeOf[d] = NodeOf[c] /\ cl[d].key = cl[c].key)
  BY <1>1, <1>2, LockIsMine DEF ClientOk
<1>3. lt \in [Node -> [Key -> Record]] /\ lock \in [Node -> [Key -> Client \cup {None}]]
  BY DEF TypeOK
<1>4. cl[d].pc \in Locking =>
         /\ lock'[NodeOf[d]][cl[d].key] = lock[NodeOf[d]][cl[d].key]
         /\ lt'[NodeOf[d]][cl[d].key] = lt[NodeOf[d]][cl[d].key]
  BY <1>1, <1>2, <1>3
<1> QED BY <1>1, <1>4, Undisturbed

-----------------------------------------------------------------------------
(* The steps *)

\* CallReturned leaves the client without the lock.
LEMMA CallReturnedRests ==
    ASSUME TypeOK, NEW c \in Client, cl' = CallReturned(c)
    PROVE  /\ cl'[c].pc \notin Locking
           /\ \A d \in Client : d # c => cl'[d] = cl[d]
BY DEF TypeOK, CallReturned, Resting, ClientState, Locking

\* A step of one client keeps the lock and the handle of every client.
LEMMA ClientNextKeepsLock ==
    ASSUME TypeOK, ClientsOk, NEW c \in Client, ClientNext(c)
    PROVE  ClientsOk'
<1> DEFINE n == NodeOf[c]
           k == cl[c].key
<1>a. /\ n \in Node /\ k \in Key /\ c # None /\ ClientOk(c) /\ cl[c] \in ClientState
      /\ cl \in [Client -> ClientState] /\ lt \in [Node -> [Key -> Record]]
      /\ lock \in [Node -> [Key -> Client \cup {None}]]
  BY ClientMoves, ClusterAssumption DEF TypeOK, ClientsOk
<1>b. ASSUME lock' = lock, lt' = lt, cl'[c].pc \notin Locking,
             \A d \in Client : d # c => cl'[d] = cl[d]
      PROVE  ClientsOk'
  BY <1>b, Undisturbed DEF ClientsOk
<1>1. ASSUME NEW op \in ClientOps[c], NEW j \in Wants[c], ClientStart(c, op, j) PROVE ClientsOk'
  <2>1. cl'[c].pc = "lock" /\ \A d \in Client : d # c => cl'[d] = cl[d]
    BY <1>1, <1>a DEF ClientStart
  <2> QED BY <1>1, <1>b, <2>1 DEF ClientStart, Locking
<1>2. CASE ClientLock(c)
  <2>1. /\ cl'[c].pc = "locked" /\ cl'[c].key = k
        /\ \A d \in Client : d # c => cl'[d] = cl[d]
    BY <1>2, <1>a DEF ClientLock, ClientState
  <2>2. lock' = [lock EXCEPT ![n][k] = c] /\ lock'[n][k] = c /\ lock[n][k] = None /\ lt' = lt
    BY <1>2, <1>a DEF ClientLock
  <2>3. ClientOk(c)'
    BY <2>1, <2>2 DEF ClientOk
  <2> QED BY <2>1, <2>2, <2>3, ClientFrame
<1>3. CASE FetchHere(c)
  <2>1. /\ cl'[c].pc = "held" /\ cl'[c].key = k /\ cl'[c].got = lt[n][k]
        /\ \A d \in Client : d # c => cl'[d] = cl[d]
    BY <1>3, <1>a DEF FetchHere, ClientState
  <2>2. cl[c].pc \in Locking /\ lt' = lt /\ lock' = lock /\ lt[n][k].dmaster = n /\ lock[n][k] = c
    BY <1>3, <1>a DEF FetchHere, ClientOk, Locking
  <2>3. ClientOk(c)'
    BY <2>1, <2>2 DEF ClientOk
  <2> QED BY <2>1, <2>2, <2>3, ClientFrame
<1>4. ASSUME cl[c].pc \in Locking, lt' = lt, lock' = [lock EXCEPT ![n][k] = None],
             cl'[c].pc \notin Locking, \A d \in Client : d # c => cl'[d] = cl[d]
      PROVE  ClientsOk'
  <2>1. ClientOk(c)'
    BY <1>4 DEF ClientOk, Locking
  <2> QED BY <1>4, <2>1, ClientFrame
<1>5. CASE FetchElsewhere(c) \/ ClientCallDaemon(c)
  <2>1. /\ cl'[c].pc \in {"lock", "sent"}
        /\ \A d \in Client : d # c => cl'[d] = cl[d]
    BY <1>5, <1>a DEF FetchElsewhere, ClientCallDaemon, UnlockAndGo, ClientState
  <2> QED BY <1>4, <1>5, <2>1 DEF FetchElsewhere, ClientCallDaemon, UnlockAndGo, Locking
<1>6. CASE ClientRelease(c)
  <2>1. cl'[c].pc = "idle" /\ \A d \in Client : d # c => cl'[d] = cl[d]
    BY <1>6, <1>a DEF ClientRelease, UnlockAndRest, Resting
  <2> QED BY <1>4, <1>6, <2>1 DEF ClientRelease, UnlockAndRest, Locking
<1>7. CASE ClientCallLocal(c)
  <2>1. cl'[c].pc \notin Locking /\ \A d \in Client : d # c => cl'[d] = cl[d]
    BY <1>7, CallReturnedRests DEF ClientCallLocal
  <2>2. ClientOk(c)'
    BY <2>1 DEF ClientOk, Locking
  <2>3. /\ cl[c].pc \in Locking /\ lock' = [lock EXCEPT ![n][k] = None]
        /\ lt' = [lt EXCEPT ![n][k] = ctdb_call_local(n, lt[n][k], lt[n][k], FuncOf(c), n)]
    BY <1>7 DEF ClientCallLocal, Locking, ctdb_ltdb_store
  <2> QED BY <2>1, <2>2, <2>3, ClientFrame
<1>8. CASE ClientReply(c)
  BY <1>8, <1>b, CallReturnedRests DEF ClientReply
<1>9. CASE ctdb_record_store(c)
  <2> DEFINE rec == [cl[c].got EXCEPT !.data = @ + 1]
  <2>1. /\ cl'[c].pc = "stored" /\ cl'[c].key = k
        /\ \A d \in Client : d # c => cl'[d] = cl[d]
    BY <1>9, <1>a DEF ctdb_record_store, ClientState
  <2>2. /\ cl[c].pc \in Locking /\ lock' = lock /\ lock[n][k] = c
        /\ cl[c].got = lt[n][k] /\ lt[n][k].dmaster = n /\ lt[n][k] \in Record
    BY <1>9, <1>a DEF ctdb_record_store, ClientOk, Locking
  <2>3. rec.dmaster = n
    BY <2>2 DEF Record
  <2> HIDE DEF rec
  <2>4. lt' = [lt EXCEPT ![n][k] = rec]
    BY <1>9 DEF ctdb_record_store, ctdb_ltdb_store, rec
  <2>5. lt'[n][k].dmaster = n
    BY <1>a, <2>3, <2>4
  <2>6. ClientOk(c)'
    BY <2>1, <2>2, <2>5 DEF ClientOk
  <2> QED BY <2>1, <2>2, <2>4, <2>6, ClientFrame
<1>10. CASE ClientExit(c)
  <2>1. cl'[c].pc = "exited" /\ \A d \in Client : d # c => cl'[d] = cl[d]
    BY <1>10, <1>a DEF ClientExit, Resting
  <2>2. ASSUME NEW d \in Client, d # c PROVE ClientOk(d)'
    <3>1. ClientOk(d) /\ NodeOf[d] \in Node /\ cl[d].key \in Key
      BY ClientMoves, ClusterAssumption DEF ClientsOk
    <3>2. lock[NodeOf[d]][cl[d].key] = d => lock'[NodeOf[d]][cl[d].key] = d
      BY <1>10, <1>a, <2>2, <3>1 DEF ClientExit
    <3>3. lt' = lt
      BY <1>10 DEF ClientExit
    <3> QED BY <2>1, <2>2, <3>1, <3>2, <3>3, Undisturbed DEF ClientOk
  <2>3. ClientOk(c)'
    BY <2>1 DEF ClientOk, Locking
  <2> QED BY <2>2, <2>3 DEF ClientsOk
<1>11. CASE ClientDaemonGone(c)
  <2>1. cl'[c].pc = "exited" /\ \A d \in Client : d # c => cl'[d] = cl[d]
    BY <1>11, <1>a DEF ClientDaemonGone, Resting
  <2> QED BY <1>11, <1>b, <2>1 DEF ClientDaemonGone, Locking
<1> QED BY <1>1, <1>2, <1>3, <1>5, <1>6, <1>7, <1>8, <1>9, <1>10, <1>11 DEF ClientNext

\* Every packet handler stores under the chain lock or not at all.
LEMMA RecvPktKeepsLock ==
    ASSUME TypeOK, ClientsOk, NEW n \in Node, NEW p \in Packet, NEW ch, NEW df,
           ctdb_recv_pkt(n, p, ch, df)
    PROVE  ClientsOk'
<1>a. cl \in [Client -> ClientState]
  BY DEF TypeOK
<1>b. ASSUME lock' = lock, lt' = lt,
             \A d \in Client : cl'[d] = cl[d] \/ cl'[d].pc \notin Locking
      PROVE  ClientsOk'
  BY <1>b, Undisturbed DEF ClientsOk
<1>c. ASSUME NEW r \in ReqId, calls[n][r] # None, CompleteCall(n, r)
      PROVE  \A d \in Client : cl'[d] = cl[d] \/ cl'[d].pc \notin Locking
  <2>1. calls[n][r].client \in Client
    BY <1>c, CallEntryType DEF CallState
  <2>2. cl' = [cl EXCEPT ![calls[n][r].client].pc = "replied"]
    BY <1>c DEF CompleteCall
  <2> QED BY <1>a, <2>1, <2>2 DEF ClientState, Locking
<1>1. CASE ctdb_request_call(n, p, ch, df)
  <2>1. p.key \in Key /\ lock[n][p.key] = None /\ lock' = lock /\ cl' = cl
    BY <1>1, PacketTypes DEF ctdb_request_call, TryLock, ReqCall
  <2>2. lt' = lt \/ \E rec : lt' = [lt EXCEPT ![n][p.key] = rec]
    BY <1>1 DEF ctdb_request_call, ctdb_call_send_redirect, ctdb_call_send_dmaster, CallHere,
                ctdb_ltdb_store
  <2> QED BY <2>1, <2>2, DaemonFrame
<1>2. CASE ctdb_request_dmaster(n, p, ch, df)
  <2>1. p.key \in Key /\ lock[n][p.key] = None /\ lock' = lock /\ cl' = cl
    BY <1>2, PacketTypes DEF ctdb_request_dmaster, TryLock, ReqDmaster
  <2>2. \E rec : lt' = [lt EXCEPT ![n][p.key] = rec]
    BY <1>2 DEF ctdb_request_dmaster, ctdb_ltdb_store
  <2> QED BY <2>1, <2>2, DaemonFrame
<1>3. CASE ctdb_reply_dmaster(n, p, ch, df)
  <2>1. p.reqid \in ReqId /\ calls[n][p.reqid] # None /\ CompleteCall(n, p.reqid) /\ lock' = lock
    BY <1>3, PacketTypes DEF ctdb_reply_dmaster, ReplyDmaster
  <2>2. calls[n][p.reqid].key \in Key
    BY <2>1, CallEntryType DEF CallState
  <2>3. /\ lock[n][calls[n][p.reqid].key] = None
        /\ \E rec : lt' = [lt EXCEPT ![n][calls[n][p.reqid].key] = rec]
    BY <1>3 DEF ctdb_reply_dmaster, TryLock, ctdb_ltdb_store
  <2> QED BY <1>c, <2>1, <2>2, <2>3, DaemonFrame
<1>4. CASE ctdb_reply_call(n, p, ch, df)
  <2>1. p.reqid \in ReqId
    BY <1>4, PacketTypes DEF ctdb_reply_call, ReplyCall
  <2> QED BY <1>4, <1>b, <1>c, <2>1 DEF ctdb_reply_call
<1>5. CASE \/ DmasterRequestFatal(n, p, ch, df) \/ ctdb_reply_redirect(n, p, ch, df)
           \/ UnknownReply(n, p, ch, df)
  BY <1>5, <1>b DEF DmasterRequestFatal, ctdb_reply_redirect, UnknownReply
<1> QED BY <1>1, <1>2, <1>3, <1>4, <1>5 DEF ctdb_recv_pkt

\* The daemon serves the request of a client without touching a locked record.
LEMMA ClientRequestKeepsLock ==
    ASSUME TypeOK, ClientsOk, NEW c \in Client, NEW n \in Node, NEW df,
           daemon_request_call_from_client(n, c, df)
    PROVE  ClientsOk'
<1>1. lock[n][cl[c].key] = None /\ cl[c].key \in Key /\ cl \in [Client -> ClientState]
  BY ClientMoves DEF daemon_request_call_from_client, TryLock, TypeOK
<1>2. CASE DaemonCallLocal(n, c, df)
  <2>1. \A d \in Client : cl'[d] = cl[d] \/ cl'[d].pc \notin Locking
    BY <1>1, <1>2 DEF DaemonCallLocal, Locking, ClientState
  <2>2. lock' = lock /\ \E rec : lt' = [lt EXCEPT ![n][cl[c].key] = rec]
    BY <1>2 DEF DaemonCallLocal, ctdb_ltdb_store
  <2> QED BY <1>1, <2>1, <2>2, DaemonFrame
<1>3. CASE ctdb_daemon_call_send_remote(n, c, df)
  <2>1. \A d \in Client : cl'[d] = cl[d] \/ cl'[d].pc \notin Locking
    BY <1>1, <1>3 DEF ctdb_daemon_call_send_remote, Locking, ClientState
  <2>2. lock' = lock /\ lt' = lt
    BY <1>3 DEF ctdb_daemon_call_send_remote
  <2> QED BY <2>1, <2>2, Undisturbed DEF ClientsOk
<1> QED BY <1>2, <1>3 DEF daemon_request_call_from_client

\* Every step keeps them.
LEMMA NextKeepsLock == TypeOK /\ ClientsOk /\ [Next]_vars => ClientsOk'
<1> SUFFICES ASSUME TypeOK, ClientsOk, [Next]_vars PROVE ClientsOk'
  OBVIOUS
<1>a. ASSUME lock' = lock, lt' = lt,
             \A d \in Client : cl'[d] = cl[d] \/ cl'[d].pc \notin Locking
      PROVE  ClientsOk'
  BY <1>a, Undisturbed DEF ClientsOk
<1>1. ASSUME NEW c \in Client, TakeCall(c) PROVE ClientsOk'
  BY <1>1, ClientRequestKeepsLock, ClusterAssumption DEF TakeCall
<1>2. ASSUME NEW c \in Client, DeferCall(c) PROVE ClientsOk'
  <2>1. \A d \in Client : cl'[d] = cl[d] \/ cl'[d].pc \notin Locking
    BY <1>2 DEF DeferCall, Locking, ClientState, TypeOK
  <2> QED BY <1>2, <1>a, <2>1 DEF DeferCall
<1>3. ASSUME NEW n \in Node, NEW m \in Node, RecvPacket(m, n) PROVE ClientsOk'
  <2>1. Head(chan[m][n]) \in Packet
    BY <1>3, QueueTypes DEF RecvPacket, TypeOK
  <2> QED BY <1>3, <2>1, RecvPktKeepsLock DEF RecvPacket
<1>4. ASSUME NEW n \in Node, NEW i \in DOMAIN deferred[n], RetryPacket(n, i) PROVE ClientsOk'
  <2>1. deferred[n][i].pkt \in Packet
    BY <1>4, ParkedTypes DEF RetryPacket
  <2> QED BY <1>4, <2>1, RecvPktKeepsLock DEF RetryPacket
<1>5. ASSUME NEW n \in Node, NEW i \in DOMAIN deferred[n], RetryCall(n, i) PROVE ClientsOk'
  <2>1. deferred[n][i].pkt.client \in Client
    BY <1>5, ParkedTypes DEF RetryCall
  <2> QED BY <1>5, <2>1, ClientRequestKeepsLock DEF RetryCall
<1>6. ASSUME NEW n \in Node, NEW m \in Node, DeferPacket(m, n) \/ LosePacket(n, m) PROVE ClientsOk'
  BY <1>6, <1>a DEF DeferPacket, LosePacket
<1>7. ASSUME NEW n \in Node, NEW i \in DOMAIN deferred[n], RetryDeadCall(n, i) PROVE ClientsOk'
  BY <1>7, <1>a DEF RetryDeadCall
<1>8. ASSUME NEW n \in Node, NEW r \in ReqId, ctdb_call_timeout(n, r) PROVE ClientsOk'
  BY <1>8, <1>a DEF ctdb_call_timeout
<1>9. CASE UNCHANGED vars
  BY <1>9, <1>a DEF vars
<1> QED BY <1>1, <1>2, <1>3, <1>4, <1>5, <1>6, <1>7, <1>8, <1>9, ClientNextKeepsLock
        DEF Next, DaemonNext

\* In every cluster, from the moment ctdb_ltdb_lock returns to a client until
\* the client unlocks, it holds the chain lock; a client with a handle is on
\* the dmaster and, before ctdb_record_store, holds what the tdb holds.
THEOREM ChainLockProtects == Spec => []ClientsOk
<1>1. Init => ClientsOk
  <2> SUFFICES ASSUME Init, NEW c \in Client PROVE ClientOk(c)
    BY DEF ClientsOk
  <2>1. cl[c].pc = "idle"
    BY DEF Init, Resting
  <2> QED BY <2>1 DEF ClientOk, Locking
<1>2. Init => TypeOK
  BY InitType
<1>3. TypeOK /\ [Next]_vars => TypeOK'
  BY NextType
<1>4. TypeOK /\ ClientsOk /\ [Next]_vars => ClientsOk'
  BY NextKeepsLock
<1> QED BY <1>1, <1>2, <1>3, <1>4, PTL DEF Spec
-----------------------------------------------------------------------------
(* The dmaster role of a record is never duplicated and never loses an       *)
(* update, for every cluster that satisfies OffLmaster and OneRecord, with   *)
(* any number of timeouts, lost packets and exiting clients.  First, where   *)
(* the role can be: what taking, sending and parking a packet does to the    *)
(* packets that carry it and to what they say about the cluster.             *)

(* Tokens in sequences *)

\* The role in a queue whose first packet is taken.
LEMMA TailTokens ==
    ASSUME NEW s \in Seq(Packet), s # <<>>
    PROVE  /\ NoToken(s) => ~ Token(Head(s)) /\ NoToken(Tail(s))
           /\ OneToken(s) /\ Token(Head(s)) => NoToken(Tail(s))
           /\ OneToken(s) /\ ~ Token(Head(s)) => OneToken(Tail(s))
<1>1. /\ Head(s) = s[1] /\ 1 \in DOMAIN s
      /\ Len(s) \in Nat /\ Len(s) > 0 /\ DOMAIN s = 1..Len(s)
      /\ DOMAIN Tail(s) = 1..Len(s) - 1
      /\ \A i \in 1..Len(s) - 1 : Tail(s)[i] = s[i + 1]
  OBVIOUS
<1> DEFINE t == Tail(s)
<1> HIDE DEF t
<1>2. NoToken(s) => ~ Token(Head(s)) /\ NoToken(t)
  BY <1>1 DEF NoToken, t
<1>3. ASSUME OneToken(s), Token(Head(s)) PROVE NoToken(t)
  BY <1>1, <1>3 DEF NoToken, OneToken, t
<1>4. ASSUME OneToken(s), ~ Token(Head(s)) PROVE OneToken(t)
  <2>1. PICK i \in DOMAIN s : \A j \in DOMAIN s : Token(s[j]) <=> j = i
    BY <1>4 DEF OneToken
  <2>2. i # 1 /\ i - 1 \in DOMAIN t
    BY <1>1, <1>4, <2>1 DEF t
  <2>3. \A j \in DOMAIN t : Token(t[j]) <=> j = i - 1
    BY <1>1, <2>1, <2>2 DEF t
  <2> QED BY <2>2, <2>3 DEF OneToken
<1> QED BY <1>2, <1>3, <1>4 DEF t

\* The role in a queue to which a packet is added.
LEMMA AppendTokens ==
    ASSUME NEW s \in Seq(Packet), NEW q \in Packet
    PROVE  /\ NoToken(s) /\ ~ Token(q) => NoToken(Append(s, q))
           /\ NoToken(s) /\ Token(q) => OneToken(Append(s, q))
           /\ OneToken(s) /\ ~ Token(q) => OneToken(Append(s, q))
<1> DEFINE t == Append(s, q)
<1>1. /\ Len(s) \in Nat /\ DOMAIN s = 1..Len(s) /\ DOMAIN t = 1..Len(s) + 1
      /\ \A i \in 1..Len(s) : t[i] = s[i]
      /\ t[Len(s) + 1] = q
  OBVIOUS
<1> HIDE DEF t
<1>2. NoToken(s) /\ ~ Token(q) => NoToken(t)
  BY <1>1 DEF NoToken
<1>3. ASSUME NoToken(s), Token(q) PROVE OneToken(t)
  <2>1. \A j \in DOMAIN t : Token(t[j]) <=> j = Len(s) + 1
    BY <1>1, <1>3 DEF NoToken
  <2> QED BY <1>1, <2>1 DEF OneToken
<1>4. ASSUME OneToken(s), ~ Token(q) PROVE OneToken(t)
  <2>1. PICK i \in DOMAIN s : \A j \in DOMAIN s : Token(s[j]) <=> j = i
    BY <1>4 DEF OneToken
  <2>2. \A j \in DOMAIN t : Token(t[j]) <=> j = i
    BY <1>1, <1>4, <2>1
  <2> QED BY <1>1, <2>1, <2>2 DEF OneToken
<1> QED BY <1>2, <1>3, <1>4 DEF t

\* The role among parked packets when one more is parked.
LEMMA ParkTokens ==
    ASSUME NEW s \in Seq(Parked), NEW e \in Parked
    PROVE  /\ NoTokenParked(s) /\ ~ Token(e.pkt) => NoTokenParked(Append(s, e))
           /\ NoTokenParked(s) /\ Token(e.pkt) => OneTokenParked(Append(s, e))
           /\ OneTokenParked(s) /\ ~ Token(e.pkt) => OneTokenParked(Append(s, e))
<1> DEFINE t == Append(s, e)
<1>1. /\ Len(s) \in Nat /\ DOMAIN s = 1..Len(s) /\ DOMAIN t = 1..Len(s) + 1
      /\ \A i \in 1..Len(s) : t[i] = s[i]
      /\ t[Len(s) + 1] = e
  OBVIOUS
<1> HIDE DEF t
<1>2. NoTokenParked(s) /\ ~ Token(e.pkt) => NoTokenParked(t)
  BY <1>1 DEF NoTokenParked
<1>3. ASSUME NoTokenParked(s), Token(e.pkt) PROVE OneTokenParked(t)
  <2>1. \A j \in DOMAIN t : Token(t[j].pkt) <=> j = Len(s) + 1
    BY <1>1, <1>3 DEF NoTokenParked
  <2> QED BY <1>1, <2>1 DEF OneTokenParked
<1>4. ASSUME OneTokenParked(s), ~ Token(e.pkt) PROVE OneTokenParked(t)
  <2>1. PICK i \in DOMAIN s : \A j \in DOMAIN s : Token(s[j].pkt) <=> j = i
    BY <1>4 DEF OneTokenParked
  <2>2. \A j \in DOMAIN t : Token(t[j].pkt) <=> j = i
    BY <1>1, <1>4, <2>1
  <2> QED BY <1>1, <2>1, <2>2 DEF OneTokenParked
<1> QED BY <1>2, <1>3, <1>4 DEF t

\* The role among parked packets when one is taken out.
LEMMA UnparkTokens ==
    ASSUME NEW s \in Seq(Parked), NEW i \in DOMAIN s
    PROVE  /\ NoTokenParked(s) => ~ Token(s[i].pkt) /\ NoTokenParked(RemoveAt(s, i))
           /\ OneTokenParked(s) /\ Token(s[i].pkt) => NoTokenParked(RemoveAt(s, i))
           /\ OneTokenParked(s) /\ ~ Token(s[i].pkt) => OneTokenParked(RemoveAt(s, i))
<1> DEFINE t == RemoveAt(s, i)
<1>1. /\ Len(s) \in Nat /\ i \in 1..Len(s) /\ DOMAIN s = 1..Len(s)
      /\ DOMAIN t = 1..Len(s) - 1
      /\ \A j \in 1..Len(s) - 1 : t[j] = IF j < i THEN s[j] ELSE s[j + 1]
  <2>1. Len(s) \in Nat /\ i \in 1..Len(s) /\ DOMAIN s = 1..Len(s)
    OBVIOUS
  <2>2. /\ t \in Seq(Parked) /\ Len(t) = Len(s) - 1
        /\ \A j \in 1..Len(s) - 1 : t[j] = IF j < i THEN s[j] ELSE s[j + 1]
    BY RemoveAtProperties
  <2> HIDE DEF t
  <2> QED BY <2>1, <2>2
<1> HIDE DEF t
<1>a. \A j \in DOMAIN t : \E h \in DOMAIN s : h # i /\ t[j] = s[h]
  <2> SUFFICES ASSUME NEW j \in DOMAIN t PROVE \E h \in DOMAIN s : h # i /\ t[j] = s[h]
    OBVIOUS
  <2>1. CASE j < i
    BY <1>1, <2>1
  <2>2. CASE ~ (j < i)
    <3>1. j + 1 \in DOMAIN s /\ j + 1 # i /\ t[j] = s[j + 1]
      BY <1>1, <2>2
    <3> QED BY <3>1
  <2> QED BY <2>1, <2>2
<1>2. NoTokenParked(s) => ~ Token(s[i].pkt) /\ NoTokenParked(t)
  BY <1>a DEF NoTokenParked
<1>3. ASSUME OneTokenParked(s), Token(s[i].pkt) PROVE NoTokenParked(t)
  BY <1>a, <1>3 DEF NoTokenParked, OneTokenParked
<1>4. ASSUME OneTokenParked(s), ~ Token(s[i].pkt) PROVE OneTokenParked(t)
  <2>1. PICK h \in DOMAIN s : \A j \in DOMAIN s : Token(s[j].pkt) <=> j = h
    BY <1>4 DEF OneTokenParked
  <2> DEFINE g == IF h < i THEN h ELSE h - 1
  <2>2. h # i /\ g \in DOMAIN t
    BY <1>1, <1>4, <2>1
  <2>3. \A j \in DOMAIN t : Token(t[j].pkt) <=> j = g
    BY <1>1, <2>1, <2>2
  <2> QED BY <2>2, <2>3 DEF OneTokenParked
<1> QED BY <1>2, <1>3, <1>4 DEF t

-----------------------------------------------------------------------------
(* Tokens in the cluster *)

\* Taking the first packet of a connection.
LEMMA TakeTokens ==
    ASSUME NEW ch \in [Node -> [Node -> Seq(Packet)]], NEW df \in [Node -> Seq(Parked)],
           NEW m \in Node, NEW n \in Node, ch[m][n] # <<>>, AtMostOneToken(ch, df)
    PROVE  LET p == Head(ch[m][n])
               rest == [ch EXCEPT ![m][n] = Tail(@)]
           IN /\ Token(p) => NoTokens(rest, df) /\ ~ NoTokens(ch, df)
              /\ ~ Token(p) => /\ AtMostOneToken(rest, df)
                               /\ NoTokens(ch, df) <=> NoTokens(rest, df)
<1> DEFINE p == Head(ch[m][n])
           rest == [ch EXCEPT ![m][n] = Tail(@)]
<1>1. /\ rest[m][n] = Tail(ch[m][n])
      /\ \A a, b \in Node : ~ (a = m /\ b = n) => rest[a][b] = ch[a][b]
  OBVIOUS
<1>2. /\ NoToken(ch[m][n]) => ~ Token(p) /\ NoToken(rest[m][n])
      /\ OneToken(ch[m][n]) /\ Token(p) => NoToken(rest[m][n])
      /\ OneToken(ch[m][n]) /\ ~ Token(p) => OneToken(rest[m][n])
  BY <1>1, TailTokens
<1>a. OneToken(ch[m][n]) => ~ NoToken(ch[m][n])
  BY DEF OneToken, NoToken
<1>b. OneToken(rest[m][n]) => ~ NoToken(rest[m][n])
  BY DEF OneToken, NoToken
<1> HIDE DEF p, rest
<1>3. CASE NoTokens(ch, df)
  BY <1>1, <1>2, <1>3 DEF NoTokens, NoneInChan, AtMostOneToken, p, rest
<1>4. CASE NoneParked(df) /\ \E x, y \in Node : OnlyInChan(ch, x, y)
  <2>1. PICK x \in Node, y \in Node : OnlyInChan(ch, x, y)
    BY <1>4
  <2>2. CASE x = m /\ y = n
    <3>1. OneToken(ch[m][n]) /\ \A a, b \in Node : ~ (a = m /\ b = n) => NoToken(ch[a][b])
      BY <2>1, <2>2 DEF OnlyInChan
    <3>2. Token(p) => NoTokens(rest, df) /\ ~ NoTokens(ch, df)
      BY <1>1, <1>2, <1>4, <1>a, <3>1 DEF NoTokens, NoneInChan
    <3>3. ~ Token(p) => OnlyInChan(rest, m, n) /\ ~ NoTokens(rest, df) /\ ~ NoTokens(ch, df)
      BY <1>1, <1>2, <1>a, <1>b, <3>1 DEF NoTokens, NoneInChan, OnlyInChan
    <3> QED BY <1>4, <3>2, <3>3 DEF AtMostOneToken, p, rest
  <2>3. CASE ~ (x = m /\ y = n)
    <3>1. NoToken(ch[m][n]) /\ OneToken(ch[x][y])
      BY <2>1, <2>3 DEF OnlyInChan
    <3>2. ~ Token(p) /\ OnlyInChan(rest, x, y)
      BY <1>1, <1>2, <2>1, <2>3, <3>1 DEF OnlyInChan
    <3>3. ~ NoToken(ch[x][y]) /\ ch[x][y] = rest[x][y]
      BY <1>1, <2>3, <3>1 DEF OneToken, NoToken
    <3> QED BY <1>4, <3>2, <3>3 DEF AtMostOneToken, NoTokens, NoneInChan, p, rest
  <2> QED BY <2>2, <2>3
<1>5. CASE NoneInChan(ch) /\ \E x \in Node : OnlyParked(df, x)
  <2>1. ~ Token(p) /\ NoneInChan(rest)
    BY <1>1, <1>2, <1>5 DEF NoneInChan
  <2> QED BY <1>5, <2>1 DEF AtMostOneToken, NoTokens, p, rest
<1> QED BY <1>3, <1>4, <1>5 DEF AtMostOneToken, p, rest

\* Taking a packet from behind the chain lock.
LEMMA UnparkOne ==
    ASSUME NEW ch \in [Node -> [Node -> Seq(Packet)]], NEW df \in [Node -> Seq(Parked)],
           NEW n \in Node, NEW i \in DOMAIN df[n], AtMostOneToken(ch, df)
    PROVE  LET p == df[n][i].pkt
               rest == [df EXCEPT ![n] = RemoveAt(@, i)]
           IN /\ Token(p) => NoTokens(ch, rest) /\ ~ NoTokens(ch, df)
              /\ ~ Token(p) => /\ AtMostOneToken(ch, rest)
                               /\ NoTokens(ch, df) <=> NoTokens(ch, rest)
<1> DEFINE p == df[n][i].pkt
           rest == [df EXCEPT ![n] = RemoveAt(@, i)]
<1>1. /\ rest[n] = RemoveAt(df[n], i)
      /\ \A b \in Node : b # n => rest[b] = df[b]
  OBVIOUS
<1>2. /\ NoTokenParked(df[n]) => ~ Token(p) /\ NoTokenParked(rest[n])
      /\ OneTokenParked(df[n]) /\ Token(p) => NoTokenParked(rest[n])
      /\ OneTokenParked(df[n]) /\ ~ Token(p) => OneTokenParked(rest[n])
  BY <1>1, UnparkTokens
<1>a. \A b \in Node : OneTokenParked(df[b]) => ~ NoTokenParked(df[b])
  BY DEF OneTokenParked, NoTokenParked
<1>b. \A b \in Node : OneTokenParked(rest[b]) => ~ NoTokenParked(rest[b])
  BY DEF OneTokenParked, NoTokenParked
<1> HIDE DEF p, rest
<1>3. CASE NoTokens(ch, df)
  BY <1>1, <1>2, <1>3 DEF NoTokens, NoneParked, AtMostOneToken, p, rest
<1>4. CASE NoneInChan(ch) /\ \E x \in Node : OnlyParked(df, x)
  <2>1. PICK x \in Node : OnlyParked(df, x)
    BY <1>4
  <2>2. CASE x = n
    <3>1. OneTokenParked(df[n]) /\ \A b \in Node : b # n => NoTokenParked(df[b])
      BY <2>1, <2>2 DEF OnlyParked
    <3>2. Token(p) => NoTokens(ch, rest) /\ ~ NoTokens(ch, df)
      BY <1>1, <1>2, <1>4, <1>a, <3>1 DEF NoTokens, NoneParked
    <3>3. ~ Token(p) => OnlyParked(rest, n) /\ ~ NoTokens(ch, rest) /\ ~ NoTokens(ch, df)
      BY <1>1, <1>2, <1>a, <1>b, <3>1 DEF NoTokens, NoneParked, OnlyParked
    <3> QED BY <1>4, <3>2, <3>3 DEF AtMostOneToken, p, rest
  <2>3. CASE x # n
    <3>1. NoTokenParked(df[n]) /\ OneTokenParked(df[x])
      BY <2>1, <2>3 DEF OnlyParked
    <3>2. ~ Token(p) /\ OnlyParked(rest, x)
      BY <1>1, <1>2, <2>1, <2>3, <3>1 DEF OnlyParked
    <3>3. ~ NoTokenParked(df[x]) /\ df[x] = rest[x]
      BY <1>1, <1>a, <2>3, <3>1
    <3> QED BY <1>4, <3>2, <3>3 DEF AtMostOneToken, NoTokens, NoneParked, p, rest
  <2> QED BY <2>2, <2>3
<1>5. CASE NoneParked(df) /\ \E x, y \in Node : OnlyInChan(ch, x, y)
  <2>1. ~ Token(p) /\ NoneParked(rest)
    BY <1>1, <1>2, <1>5 DEF NoneParked
  <2> QED BY <1>5, <2>1 DEF AtMostOneToken, NoTokens, p, rest
<1> QED BY <1>3, <1>4, <1>5 DEF AtMostOneToken, p, rest

\* Sending a packet, with or without the role.
LEMMA SendTokens ==
    ASSUME NEW ch \in [Node -> [Node -> Seq(Packet)]], NEW df \in [Node -> Seq(Parked)],
           NEW m \in Node, NEW n \in Node, NEW q \in Packet
    PROVE  LET all == ctdb_queue_packet(ch, m, n, q)
           IN /\ Token(q) /\ NoTokens(ch, df) => AtMostOneToken(all, df)
              /\ ~ Token(q) => /\ NoTokens(ch, df) => NoTokens(all, df)
                               /\ AtMostOneToken(ch, df) => AtMostOneToken(all, df)
<1> DEFINE all == ctdb_queue_packet(ch, m, n, q)
<1>1. /\ all[m][n] = Append(ch[m][n], q)
      /\ \A a, b \in Node : ~ (a = m /\ b = n) => all[a][b] = ch[a][b]
  BY DEF ctdb_queue_packet
<1>2. /\ NoToken(ch[m][n]) /\ ~ Token(q) => NoToken(all[m][n])
      /\ NoToken(ch[m][n]) /\ Token(q) => OneToken(all[m][n])
      /\ OneToken(ch[m][n]) /\ ~ Token(q) => OneToken(all[m][n])
  BY <1>1, AppendTokens
<1> HIDE DEF all
<1>3. ASSUME Token(q), NoTokens(ch, df) PROVE AtMostOneToken(all, df)
  <2>1. OnlyInChan(all, m, n)
    BY <1>1, <1>2, <1>3 DEF OnlyInChan, NoTokens, NoneInChan
  <2> QED BY <1>3, <2>1 DEF AtMostOneToken, NoTokens
<1>4. ASSUME ~ Token(q), NoneInChan(ch) PROVE NoneInChan(all)
  BY <1>1, <1>2, <1>4 DEF NoneInChan
<1>5. ASSUME ~ Token(q), NEW x \in Node, NEW y \in Node, OnlyInChan(ch, x, y)
      PROVE  OnlyInChan(all, x, y)
  BY <1>1, <1>2, <1>5 DEF OnlyInChan
<1>6. ASSUME ~ Token(q), NoTokens(ch, df) PROVE NoTokens(all, df)
  BY <1>4, <1>6 DEF NoTokens
<1>7. ASSUME ~ Token(q), AtMostOneToken(ch, df) PROVE AtMostOneToken(all, df)
  BY <1>4, <1>5, <1>7 DEF AtMostOneToken, NoTokens
<1> QED BY <1>3, <1>6, <1>7 DEF all

\* Parking a packet.
LEMMA ParkOne ==
    ASSUME NEW ch \in [Node -> [Node -> Seq(Packet)]], NEW df \in [Node -> Seq(Parked)],
           NEW n \in Node, NEW e \in Parked
    PROVE  LET all == [df EXCEPT ![n] = Append(@, e)]
           IN /\ Token(e.pkt) /\ NoTokens(ch, df) => AtMostOneToken(ch, all)
              /\ ~ Token(e.pkt) => /\ NoTokens(ch, df) => NoTokens(ch, all)
                                   /\ AtMostOneToken(ch, df) => AtMostOneToken(ch, all)
<1> DEFINE all == [df EXCEPT ![n] = Append(@, e)]
<1>1. /\ all[n] = Append(df[n], e)
      /\ \A b \in Node : b # n => all[b] = df[b]
  OBVIOUS
<1>2. /\ NoTokenParked(df[n]) /\ ~ Token(e.pkt) => NoTokenParked(all[n])
      /\ NoTokenParked(df[n]) /\ Token(e.pkt) => OneTokenParked(all[n])
      /\ OneTokenParked(df[n]) /\ ~ Token(e.pkt) => OneTokenParked(all[n])
  BY <1>1, ParkTokens
<1> HIDE DEF all
<1>3. ASSUME Token(e.pkt), NoTokens(ch, df) PROVE AtMostOneToken(ch, all)
  <2>1. OnlyParked(all, n)
    BY <1>1, <1>2, <1>3 DEF OnlyParked, NoTokens, NoneParked
  <2> QED BY <1>3, <2>1 DEF AtMostOneToken, NoTokens
<1>4. ASSUME ~ Token(e.pkt), NoneParked(df) PROVE NoneParked(all)
  BY <1>1, <1>2, <1>4 DEF NoneParked
<1>5. ASSUME ~ Token(e.pkt), NEW x \in Node, OnlyParked(df, x)
      PROVE  OnlyParked(all, x)
  BY <1>1, <1>2, <1>5 DEF OnlyParked
<1>6. ASSUME ~ Token(e.pkt), NoTokens(ch, df) PROVE NoTokens(ch, all)
  BY <1>4, <1>6 DEF NoTokens
<1>7. ASSUME ~ Token(e.pkt), AtMostOneToken(ch, df) PROVE AtMostOneToken(ch, all)
  BY <1>4, <1>5, <1>7 DEF AtMostOneToken, NoTokens
<1> QED BY <1>3, <1>6, <1>7 DEF all

-----------------------------------------------------------------------------
(* The queues stay right *)

\* Taking a packet from a channel leaves sound queues; if it carries the role
\* nobody else has it.
LEMMA TakeRest ==
    ASSUME NEW ch \in [Node -> [Node -> Seq(Packet)]], NEW df \in [Node -> Seq(Parked)],
           NEW l, NEW ap, NEW m \in Node, NEW n \in Node, ch[m][n] # <<>>,
           QueuesOk(l, ap, ch, df)
    PROVE  LET p == Head(ch[m][n])
               rest == [ch EXCEPT ![m][n] = Tail(@)]
           IN /\ PacketOk(l, ap, p, n)
              /\ QueuesOk(l, ap, rest, df)
              /\ Token(p) => NobodyIsDmaster(l) /\ NoTokens(rest, df)
<1> DEFINE p == Head(ch[m][n])
           rest == [ch EXCEPT ![m][n] = Tail(@)]
<1>1. /\ rest[m][n] = Tail(ch[m][n])
      /\ \A a, b \in Node : ~ (a = m /\ b = n) => rest[a][b] = ch[a][b]
  OBVIOUS
<1>2. /\ Token(p) => NoTokens(rest, df) /\ ~ NoTokens(ch, df)
      /\ ~ Token(p) => /\ AtMostOneToken(rest, df)
                       /\ NoTokens(ch, df) <=> NoTokens(rest, df)
  BY TakeTokens DEF QueuesOk
<1>3. /\ p = ch[m][n][1] /\ 1 \in DOMAIN ch[m][n]
      /\ \A i \in DOMAIN Tail(ch[m][n]) :
            i + 1 \in DOMAIN ch[m][n] /\ Tail(ch[m][n])[i] = ch[m][n][i + 1]
  OBVIOUS
<1> HIDE DEF p, rest
<1>4. PacketOk(l, ap, p, n)
  BY <1>3 DEF QueuesOk, ChanOk
<1>5. ChanOk(l, ap, rest)
  <2> SUFFICES ASSUME NEW a \in Node, NEW b \in Node, NEW i \in DOMAIN rest[a][b]
               PROVE  PacketOk(l, ap, rest[a][b][i], b)
    BY DEF ChanOk
  <2>1. CASE a = m /\ b = n
    <3>1. i + 1 \in DOMAIN ch[a][b] /\ rest[a][b][i] = ch[a][b][i + 1]
      BY <1>1, <1>3, <2>1
    <3> QED BY <3>1 DEF QueuesOk, ChanOk
  <2>2. CASE ~ (a = m /\ b = n)
    BY <1>1, <2>2 DEF QueuesOk, ChanOk
  <2> QED BY <2>1, <2>2
<1>6. AtMostOneToken(rest, df) /\ (NoTokens(rest, df) \/ NobodyIsDmaster(l))
  BY <1>2 DEF QueuesOk, AtMostOneToken
<1> QED BY <1>2, <1>4, <1>5, <1>6 DEF QueuesOk, p, rest

\* The same for a parked packet.
LEMMA UnparkRest ==
    ASSUME NEW ch \in [Node -> [Node -> Seq(Packet)]], NEW df \in [Node -> Seq(Parked)],
           NEW l, NEW ap, NEW n \in Node, NEW i \in DOMAIN df[n], QueuesOk(l, ap, ch, df)
    PROVE  LET p == df[n][i].pkt
               rest == [df EXCEPT ![n] = RemoveAt(@, i)]
           IN /\ PacketOk(l, ap, p, n)
              /\ QueuesOk(l, ap, ch, rest)
              /\ Token(p) => NobodyIsDmaster(l) /\ NoTokens(ch, rest)
<1> DEFINE p == df[n][i].pkt
           rest == [df EXCEPT ![n] = RemoveAt(@, i)]
<1>1. rest[n] = RemoveAt(df[n], i) /\ \A b \in Node : b # n => rest[b] = df[b]
  OBVIOUS
<1>2. /\ Token(p) => NoTokens(ch, rest) /\ ~ NoTokens(ch, df)
      /\ ~ Token(p) => /\ AtMostOneToken(ch, rest)
                       /\ NoTokens(ch, df) <=> NoTokens(ch, rest)
  BY UnparkOne DEF QueuesOk
<1>3. \A j \in DOMAIN rest[n] : \E h \in DOMAIN df[n] : rest[n][j] = df[n][h]
  <2>1. /\ RemoveAt(df[n], i) \in Seq(Parked) /\ Len(RemoveAt(df[n], i)) = Len(df[n]) - 1
        /\ \A j \in 1..Len(df[n]) - 1 :
              RemoveAt(df[n], i)[j] = IF j < i THEN df[n][j] ELSE df[n][j + 1]
    BY RemoveAtProperties
  <2>2. Len(df[n]) \in Nat /\ DOMAIN df[n] = 1..Len(df[n])
    OBVIOUS
  <2> DEFINE t == RemoveAt(df[n], i)
  <2> HIDE DEF t
  <2>3. DOMAIN t = 1..Len(df[n]) - 1
    BY <2>1, <2>2 DEF t
  <2>4. ASSUME NEW j \in DOMAIN t PROVE \E h \in DOMAIN df[n] : t[j] = df[n][h]
    <3>1. j \in DOMAIN df[n] /\ j + 1 \in DOMAIN df[n]
      BY <2>2, <2>3
    <3>2. t[j] = df[n][j] \/ t[j] = df[n][j + 1]
      BY <2>1, <2>3 DEF t
    <3> QED BY <3>1, <3>2
  <2> QED BY <1>1, <2>4 DEF t
<1> HIDE DEF p, rest
<1>4. PacketOk(l, ap, p, n)
  BY DEF QueuesOk, ParkedOk, p
<1>5. ParkedOk(l, ap, rest)
  <2> SUFFICES ASSUME NEW b \in Node, NEW j \in DOMAIN rest[b]
               PROVE  PacketOk(l, ap, rest[b][j].pkt, b)
    BY DEF ParkedOk
  <2>1. PICK h \in DOMAIN df[b] : rest[b][j] = df[b][h]
    BY <1>1, <1>3
  <2> QED BY <2>1 DEF QueuesOk, ParkedOk
<1>6. AtMostOneToken(ch, rest) /\ (NoTokens(ch, rest) \/ NobodyIsDmaster(l))
  BY <1>2 DEF QueuesOk, AtMostOneToken
<1> QED BY <1>2, <1>4, <1>5, <1>6 DEF QueuesOk, p, rest

\* A packet with the role may only be sent when the role is nowhere else.
LEMMA SendOk ==
    ASSUME NEW ch \in [Node -> [Node -> Seq(Packet)]], NEW df \in [Node -> Seq(Parked)],
           NEW l, NEW ap, NEW m \in Node, NEW n \in Node, NEW q \in Packet,
           QueuesOk(l, ap, ch, df), PacketOk(l, ap, q, n),
           Token(q) => NobodyIsDmaster(l) /\ NoTokens(ch, df)
    PROVE  QueuesOk(l, ap, ctdb_queue_packet(ch, m, n, q), df)
<1> DEFINE all == ctdb_queue_packet(ch, m, n, q)
<1>1. /\ all[m][n] = Append(ch[m][n], q)
      /\ \A a, b \in Node : ~ (a = m /\ b = n) => all[a][b] = ch[a][b]
  BY DEF ctdb_queue_packet
<1>2. /\ Token(q) /\ NoTokens(ch, df) => AtMostOneToken(all, df)
      /\ ~ Token(q) => /\ NoTokens(ch, df) => NoTokens(all, df)
                       /\ AtMostOneToken(ch, df) => AtMostOneToken(all, df)
  BY SendTokens
<1>3. \A i \in DOMAIN Append(ch[m][n], q) :
         \/ Append(ch[m][n], q)[i] = q
         \/ i \in DOMAIN ch[m][n] /\ Append(ch[m][n], q)[i] = ch[m][n][i]
  OBVIOUS
<1> HIDE DEF all
<1>4. ChanOk(l, ap, all)
  <2> SUFFICES ASSUME NEW a \in Node, NEW b \in Node, NEW i \in DOMAIN all[a][b]
               PROVE  PacketOk(l, ap, all[a][b][i], b)
    BY DEF ChanOk
  <2>1. CASE a = m /\ b = n
    <3>1. all[a][b][i] = q \/ (i \in DOMAIN ch[a][b] /\ all[a][b][i] = ch[a][b][i])
      BY <1>1, <1>3, <2>1
    <3> QED BY <2>1, <3>1 DEF QueuesOk, ChanOk
  <2>2. CASE ~ (a = m /\ b = n)
    BY <1>1, <2>2 DEF QueuesOk, ChanOk
  <2> QED BY <2>1, <2>2
<1>5. AtMostOneToken(all, df) /\ (NoTokens(all, df) \/ NobodyIsDmaster(l))
  BY <1>2 DEF QueuesOk
<1> QED BY <1>4, <1>5 DEF QueuesOk, all

\* A sound packet may be parked.
LEMMA ParkOk ==
    ASSUME NEW ch \in [Node -> [Node -> Seq(Packet)]], NEW df \in [Node -> Seq(Parked)],
           NEW l, NEW ap, NEW n \in Node, NEW e \in Parked,
           QueuesOk(l, ap, ch, df), PacketOk(l, ap, e.pkt, n),
           Token(e.pkt) => NobodyIsDmaster(l) /\ NoTokens(ch, df)
    PROVE  QueuesOk(l, ap, ch, [df EXCEPT ![n] = Append(@, e)])
<1> DEFINE all == [df EXCEPT ![n] = Append(@, e)]
<1>1. all[n] = Append(df[n], e) /\ \A b \in Node : b # n => all[b] = df[b]
  OBVIOUS
<1>2. /\ Token(e.pkt) /\ NoTokens(ch, df) => AtMostOneToken(ch, all)
      /\ ~ Token(e.pkt) => /\ NoTokens(ch, df) => NoTokens(ch, all)
                           /\ AtMostOneToken(ch, df) => AtMostOneToken(ch, all)
  BY ParkOne
<1>3. \A i \in DOMAIN Append(df[n], e) :
         \/ Append(df[n], e)[i] = e
         \/ i \in DOMAIN df[n] /\ Append(df[n], e)[i] = df[n][i]
  OBVIOUS
<1> HIDE DEF all
<1>4. ParkedOk(l, ap, all)
  <2> SUFFICES ASSUME NEW b \in Node, NEW i \in DOMAIN all[b]
               PROVE  PacketOk(l, ap, all[b][i].pkt, b)
    BY DEF ParkedOk
  <2>1. CASE b = n
    <3>1. all[b][i] = e \/ (i \in DOMAIN df[b] /\ all[b][i] = df[b][i])
      BY <1>1, <1>3, <2>1
    <3> QED BY <2>1, <3>1 DEF QueuesOk, ParkedOk
  <2>2. CASE b # n
    BY <1>1, <2>2 DEF QueuesOk, ParkedOk
  <2> QED BY <2>1, <2>2
<1>5. AtMostOneToken(ch, all) /\ (NoTokens(ch, all) \/ NobodyIsDmaster(l))
  BY <1>2 DEF QueuesOk
<1> QED BY <1>4, <1>5 DEF QueuesOk, all

\* While no packet carries the role, the tdbs and the counts may change: only
\* the packets with the role say something about them.
LEMMA WorldChange ==
    ASSUME NEW ch, NEW df, NEW l, NEW ap, NEW l2, NEW ap2,
           QueuesOk(l, ap, ch, df), NoTokens(ch, df)
    PROVE  QueuesOk(l2, ap2, ch, df)
<1>1. \A p, b : PacketOk(l, ap, p, b) /\ ~ Token(p) => PacketOk(l2, ap2, p, b)
  BY DEF PacketOk, Token
<1>2. \A a, b \in Node : \A i \in DOMAIN ch[a][b] : ~ Token(ch[a][b][i])
  BY DEF NoTokens, NoneInChan, NoToken
<1>3. \A b \in Node : \A i \in DOMAIN df[b] : ~ Token(df[b][i].pkt)
  BY DEF NoTokens, NoneParked, NoTokenParked
<1>4. ChanOk(l2, ap2, ch)
  BY <1>1, <1>2 DEF QueuesOk, ChanOk
<1>5. ParkedOk(l2, ap2, df)
  BY <1>1, <1>3 DEF QueuesOk, ParkedOk
<1> QED BY <1>4, <1>5 DEF QueuesOk, AtMostOneToken

-----------------------------------------------------------------------------
(* The record of a call *)

\* No client runs on the lmaster of a record.
LEMMA OffLmasterNode ==
    ASSUME OffLmaster, OneRecord, NEW c \in Client, NEW k \in Key
    PROVE  Lmaster[k] # NodeOf[c]
<1>1. AnyKey(c) \in Wants[c] /\ AnyKey(c) \in Key
  BY AnyKeyWanted
<1> QED BY <1>1 DEF OffLmaster, OneRecord

\* ctdb_call_local leaves the dmaster and changes the body by the function.
LEMMA CallLocalData ==
    ASSUME NEW n, NEW rec \in Record, NEW func \in Func, NEW caller
    PROVE  /\ ctdb_call_local(n, rec, rec, func, caller).dmaster = rec.dmaster
           /\ ctdb_call_local(n, rec, rec, func, caller).data = NewData(func, rec.data)
<1>1. CASE func = "null" /\ caller = n
  BY <1>1 DEF ctdb_call_local, NewData
<1>2. CASE ~ (func = "null" /\ caller = n)
  BY <1>2 DEF ctdb_call_local, Record
<1> QED BY <1>1, <1>2

\* The history counts exactly the updates that a function makes.
LEMMA PerformCounts ==
    ASSUME TypeOK, NEW func \in Func, NEW k \in Key, Perform(func, k)
    PROVE  applied'[k] = NewData(func, applied[k])
BY DEF TypeOK, Perform, NewData

\* What a node stores as dmaster, having the role already or taking it over:
\* the body has to be the latest one.
LEMMA HomeStore ==
    ASSUME TypeOK, OneRecord, HomeOk, NEW n \in Node, NEW k \in Key, NEW rec,
           n = Chosen(lt, k),
           \A m \in Node : lt[m][k].dmaster = m => m = n,
           lt' = [lt EXCEPT ![n][k] = rec], rec.dmaster = n, rec.data = applied'[k]
    PROVE  HomeOk'
<1>1. lt \in [Node -> [Key -> Record]] /\ Lmaster[k] \in Node
  BY ClusterAssumption DEF TypeOK
<1>2. n # Lmaster[k]
  BY DEF HomeOk
<1>3. lt'[n][k] = rec /\ \A m \in Node : m # n => lt'[m][k] = lt[m][k]
  BY <1>1
<1>4. Chosen(lt', k) = n
  BY <1>1, <1>2, <1>3 DEF Chosen
<1>5. \A m \in Node : lt'[m][k].dmaster = m => m = n
  BY <1>3
<1>6. \A m \in Node : lt'[m][k].dmaster = m => m = Chosen(lt', k) /\ lt'[m][k].data = applied'[k]
  BY <1>3, <1>4, <1>5
<1> SUFFICES ASSUME NEW j \in Key
             PROVE  /\ Chosen(lt', j) # Lmaster[j]
                    /\ \A m \in Node : lt'[m][j].dmaster = m =>
                          m = Chosen(lt', j) /\ lt'[m][j].data = applied'[j]
  BY DEF HomeOk, Chosen
<1>7. j = k
  BY DEF OneRecord
<1> QED BY <1>2, <1>4, <1>6, <1>7

\* The dmaster of a record: nobody else is, and the role is in no packet.
LEMMA AtHome ==
    ASSUME HomeOk, NEW n \in Node, NEW k \in Key, lt[n][k].dmaster = n,
           NEW ch, NEW df, QueuesOk(lt, applied, ch, df)
    PROVE  /\ n = Chosen(lt, k) /\ n # Lmaster[k] /\ lt[n][k].data = applied[k]
           /\ \A m \in Node : lt[m][k].dmaster = m => m = n
           /\ NoTokens(ch, df)
<1>1. NoTokens(ch, df)
  BY DEF QueuesOk, NobodyIsDmaster
<1> QED BY <1>1 DEF HomeOk

\* A call that runs on the dmaster.
LEMMA RunAtHome ==
    ASSUME TypeOK, OneRecord, HomeOk, NEW n \in Node, NEW k \in Key, lt[n][k].dmaster = n,
           NEW ch, NEW df, QueuesOk(lt, applied, ch, df),
           NEW func \in Func, NEW caller,
           ctdb_ltdb_store(n, k, ctdb_call_local(n, lt[n][k], lt[n][k], func, caller)),
           Perform(func, k)
    PROVE  HomeOk' /\ QueuesOk(lt', applied', ch, df)
<1> DEFINE rec == ctdb_call_local(n, lt[n][k], lt[n][k], func, caller)
<1>1. /\ n = Chosen(lt, k) /\ lt[n][k].data = applied[k] /\ NoTokens(ch, df)
      /\ \A m \in Node : lt[m][k].dmaster = m => m = n
  BY AtHome
<1>2. lt[n][k] \in Record
  BY DEF TypeOK
<1>3. rec.dmaster = n /\ rec.data = NewData(func, applied[k])
  BY <1>1, <1>2, CallLocalData
<1>4. applied'[k] = NewData(func, applied[k])
  BY PerformCounts
<1>5. lt' = [lt EXCEPT ![n][k] = rec]
  BY DEF ctdb_ltdb_store
<1> HIDE DEF rec
<1>6. HomeOk'
  <2>1. rec.dmaster = n /\ rec.data = applied'[k]
    BY <1>3, <1>4
  <2> QED BY <1>1, <1>5, <2>1, HomeStore
<1>7. QueuesOk(lt', applied', ch, df)
  BY <1>1, WorldChange
<1> QED BY <1>6, <1>7

-----------------------------------------------------------------------------
(* The packet handlers *)

\* Node n has just taken p out of its queue; ch and df are what is left.
Holding(n, p, ch, df) ==
    /\ QueuesOk(lt, applied, ch, df)
    /\ PacketOk(lt, applied, p, n)
    /\ Token(p) => NobodyIsDmaster(lt) /\ NoTokens(ch, df)
    /\ HomeOk /\ CallsOk /\ ClientsOk

\* ctdb_call_send_dmaster: the role goes from the tdb into the packet.
LEMMA SendDmasterRole ==
    ASSUME TypeOK, OneRecord, NEW n \in Node, NEW p \in ReqCall,
           NEW ch \in [Node -> [Node -> Seq(Packet)]], NEW df \in [Node -> Seq(Parked)],
           Holding(n, p, ch, df), ctdb_call_send_dmaster(n, p, ch)
    PROVE  QueuesOk(lt', applied', chan', df) /\ HomeOk'
<1> DEFINE k == p.key
           rec == [lt[n][k] EXCEPT !.dmaster = Lmaster[k]]
           q == [op |-> "req_dmaster", src |-> n, reqid |-> p.reqid, key |-> k,
                 dmaster |-> p.src, data |-> lt[n][k].data]
<1>1. /\ k \in Key /\ p.src \in Node /\ p.reqid \in ReqId /\ Lmaster[k] \in Node
      /\ lt \in [Node -> [Key -> Record]] /\ lt[n][k] \in Record
      /\ p.op = "req_call" /\ p.src # Lmaster[k]
  BY ClusterAssumption DEF ReqCall, TypeOK, Holding, PacketOk
<1>2. /\ lt[n][k].dmaster = n /\ lt' = [lt EXCEPT ![n][k] = rec] /\ applied' = applied
      /\ chan' = ctdb_queue_packet(ch, n, Lmaster[k], q)
  BY DEF ctdb_call_send_dmaster, ctdb_ltdb_store
<1>3. /\ n = Chosen(lt, k) /\ n # Lmaster[k] /\ lt[n][k].data = applied[k] /\ NoTokens(ch, df)
      /\ \A m \in Node : lt[m][k].dmaster = m => m = n
  BY <1>1, <1>2, AtHome DEF Holding
<1>4. rec.dmaster = Lmaster[k]
  BY <1>1 DEF Record
<1>5. q \in Packet
  BY <1>1 DEF Packet, ReqDmaster, Record
<1>6. /\ q.op = "req_dmaster" /\ q.src = n /\ q.key = k /\ q.dmaster = p.src
      /\ q.data = lt[n][k].data
  OBVIOUS
<1> HIDE DEF k, rec, q
<1>7. lt'[n][k] = rec /\ \A m \in Node : m # n => lt'[m][k] = lt[m][k]
  BY <1>1, <1>2
<1>8. Chosen(lt', k) = n
  BY <1>1, <1>3, <1>7 DEF Chosen
<1>9. \A m \in Node : lt'[m][k].dmaster # m
  BY <1>3, <1>4, <1>7
<1>10. NobodyIsDmaster(lt')
  BY <1>1, <1>9 DEF NobodyIsDmaster, OneRecord
<1>11. PacketOk(lt', applied', q, Lmaster[k])
  BY <1>1, <1>2, <1>3, <1>6, <1>8 DEF PacketOk
<1>12. QueuesOk(lt', applied', ch, df)
  BY <1>3, WorldChange DEF Holding
<1>13. QueuesOk(lt', applied', chan', df)
  BY <1>1, <1>2, <1>3, <1>5, <1>10, <1>11, <1>12, SendOk
<1>14. HomeOk'
  <2> SUFFICES ASSUME NEW j \in Key
               PROVE  Chosen(lt', j) # Lmaster[j] /\ \A m \in Node : lt'[m][j].dmaster # m
    BY DEF HomeOk, Chosen
  <2>1. j = k
    BY <1>1 DEF OneRecord
  <2> QED BY <1>3, <1>8, <1>9, <2>1
<1> QED BY <1>13, <1>14

\* ctdb_request_call keeps the role in one place: it serves the call,
\* redirects it, or sends the role on.
LEMMA RequestCallRole ==
    ASSUME TypeOK, OneRecord, NEW n \in Node, NEW p \in Packet,
           NEW ch \in [Node -> [Node -> Seq(Packet)]], NEW df \in [Node -> Seq(Parked)],
           Holding(n, p, ch, df), ctdb_request_call(n, p, ch, df)
    PROVE  QueuesOk(lt', applied', chan', deferred') /\ HomeOk' /\ CallsOk'
<1>1. /\ p \in ReqCall /\ p.key \in Key /\ p.src \in Node /\ p.reqid \in ReqId
      /\ p.func \in Func
  BY PacketTypes DEF ctdb_request_call, ReqCall
<1>2. CallsOk' /\ deferred' = df
  BY DEF ctdb_request_call, Holding, CallsOk
<1>3. CASE ctdb_call_send_redirect(n, p, ch)
  <2> DEFINE q == [op |-> "reply_redirect", reqid |-> p.reqid, dmaster |-> lt[n][p.key].dmaster]
  <2>1. lt[n][p.key].dmaster \in Node
    BY <1>1 DEF TypeOK, Record
  <2>2. q \in Packet /\ ~ Token(q) /\ PacketOk(lt, applied, q, p.src)
    BY <1>1, <2>1 DEF Packet, ReplyRedirect, Token, PacketOk
  <2>3. chan' = ctdb_queue_packet(ch, n, p.src, q) /\ lt' = lt /\ applied' = applied
    BY <1>3 DEF ctdb_call_send_redirect
  <2> HIDE DEF q
  <2>4. QueuesOk(lt, applied, chan', df)
    BY <1>1, <2>2, <2>3, SendOk DEF Holding
  <2>5. HomeOk'
    BY <2>3 DEF Holding, HomeOk, Chosen
  <2> QED BY <1>2, <2>3, <2>4, <2>5
<1>4. CASE ctdb_call_send_dmaster(n, p, ch)
  BY <1>1, <1>2, <1>4, SendDmasterRole
<1>5. CASE CallHere(n, p, ch)
  <2> DEFINE q == [op |-> "reply_call", reqid |-> p.reqid]
  <2>1. HomeOk' /\ QueuesOk(lt', applied', ch, df)
    BY <1>1, <1>5, RunAtHome DEF CallHere, Holding
  <2>2. q \in Packet /\ ~ Token(q) /\ PacketOk(lt', applied', q, p.src)
    BY <1>1 DEF Packet, ReplyCall, Token, PacketOk
  <2>3. chan' = ctdb_queue_packet(ch, n, p.src, q)
    BY <1>5 DEF CallHere
  <2> HIDE DEF q
  <2>4. QueuesOk(lt', applied', chan', df)
    BY <1>1, <2>1, <2>2, <2>3, SendOk
  <2> QED BY <1>2, <2>1, <2>4
<1> QED BY <1>3, <1>4, <1>5 DEF ctdb_request_call

\* The lmaster passes the role on and remembers to whom.
LEMMA RequestDmasterRole ==
    ASSUME TypeOK, OneRecord, NEW n \in Node, NEW p \in Packet,
           NEW ch \in [Node -> [Node -> Seq(Packet)]], NEW df \in [Node -> Seq(Parked)],
           Holding(n, p, ch, df), ctdb_request_dmaster(n, p, ch, df)
    PROVE  QueuesOk(lt', applied', chan', deferred') /\ HomeOk' /\ CallsOk'
<1> DEFINE k == p.key
           rec == [lt[n][k] EXCEPT !.dmaster = p.dmaster, !.data = p.data]
           q == [op |-> "reply_dmaster", reqid |-> p.reqid, data |-> p.data]
<1>1. /\ p \in ReqDmaster /\ p.op = "req_dmaster" /\ k \in Key /\ p.dmaster \in Node
      /\ p.reqid \in ReqId /\ p.data \in Nat
  BY PacketTypes DEF ctdb_request_dmaster, ReqDmaster
<1>2. /\ lt \in [Node -> [Key -> Record]] /\ lt[n][k] \in Record
  BY <1>1 DEF TypeOK
<1>3. /\ n = Lmaster[k] /\ p.dmaster # n /\ p.data = applied[k]
      /\ NobodyIsDmaster(lt) /\ NoTokens(ch, df)
  BY <1>1 DEF Holding, PacketOk, Token
<1>4. /\ lt' = [lt EXCEPT ![n][k] = rec] /\ applied' = applied
      /\ chan' = ctdb_queue_packet(ch, n, p.dmaster, q) /\ deferred' = df /\ calls' = calls
  BY DEF ctdb_request_dmaster, ctdb_ltdb_store
<1>5. rec.dmaster = p.dmaster
  BY <1>2 DEF Record
<1>6. q \in Packet /\ q.op = "reply_dmaster" /\ q.data = p.data
  BY <1>1 DEF Packet, ReplyDmaster
<1> HIDE DEF k, rec, q
<1>7. lt'[n][k] = rec /\ \A m \in Node : m # n => lt'[m][k] = lt[m][k]
  BY <1>1, <1>2, <1>4
<1>8. Chosen(lt', k) = p.dmaster
  BY <1>3, <1>5, <1>7 DEF Chosen
<1>9. \A m \in Node : lt'[m][k].dmaster # m
  BY <1>1, <1>3, <1>5, <1>7 DEF NobodyIsDmaster
<1>a. \A j \in Key : j = k
  BY <1>1 DEF OneRecord
<1>10. NobodyIsDmaster(lt')
  BY <1>9, <1>a DEF NobodyIsDmaster
<1>11. PacketOk(lt', applied', q, p.dmaster)
  BY <1>3, <1>4, <1>6, <1>8, <1>a DEF PacketOk
<1>12. QueuesOk(lt', applied', ch, df)
  BY <1>3, WorldChange DEF Holding
<1>13. QueuesOk(lt', applied', chan', df)
  BY <1>1, <1>3, <1>4, <1>6, <1>10, <1>11, <1>12, SendOk
<1>14. HomeOk'
  <2> SUFFICES ASSUME NEW j \in Key
               PROVE  Chosen(lt', j) # Lmaster[j] /\ \A m \in Node : lt'[m][j].dmaster # m
    BY DEF HomeOk, Chosen
  <2> QED BY <1>3, <1>8, <1>9, <1>a
<1>15. CallsOk'
  BY <1>4 DEF CallsOk, Holding
<1> QED BY <1>4, <1>13, <1>14, <1>15

\* Completing a call frees one entry.
LEMMA CompleteCalls ==
    ASSUME TypeOK, CallsOk, NEW n \in Node, NEW r \in ReqId,
           calls' = [calls EXCEPT ![n][r] = None]
    PROVE  CallsOk'
BY DEF TypeOK, CallsOk

\* The new dmaster takes the role over, with the latest body.
LEMMA ReplyDmasterRole ==
    ASSUME TypeOK, OneRecord, NEW n \in Node, NEW p \in Packet,
           NEW ch \in [Node -> [Node -> Seq(Packet)]], NEW df \in [Node -> Seq(Parked)],
           Holding(n, p, ch, df), ctdb_reply_dmaster(n, p, ch, df)
    PROVE  QueuesOk(lt', applied', chan', deferred') /\ HomeOk' /\ CallsOk'
<1> DEFINE s == calls[n][p.reqid]
           k == s.key
           rec == [dmaster |-> n, laccessor |-> s.laccessor, lacount |-> s.lacount,
                   data |-> p.data]
           new == ctdb_call_local(n, rec, rec, s.func, n)
<1>1. p.op = "reply_dmaster" /\ p.reqid \in ReqId /\ p.data \in Nat /\ s # None
  BY PacketTypes DEF ctdb_reply_dmaster, ReplyDmaster
<1>2. /\ k \in Key /\ s.func \in Func /\ s.laccessor \in Node /\ s.lacount \in Nat
  BY <1>1, CallEntryType DEF CallState
<1>3. rec \in Record /\ rec.dmaster = n /\ rec.data = p.data
  BY <1>1, <1>2 DEF Record
<1>4. /\ n = Chosen(lt, k) /\ p.data = applied[k]
      /\ NobodyIsDmaster(lt) /\ NoTokens(ch, df)
  BY <1>1, <1>2 DEF Holding, PacketOk, Token
<1>5. new.dmaster = n /\ new.data = NewData(s.func, applied[k])
  <2> HIDE DEF rec
  <2> QED BY <1>2, <1>3, <1>4, CallLocalData
<1>6. lt' = [lt EXCEPT ![n][k] = new] /\ Perform(s.func, k) /\ chan' = ch /\ deferred' = df
  BY DEF ctdb_reply_dmaster, ctdb_ltdb_store
<1>7. CallsOk'
  BY <1>1, CompleteCalls DEF ctdb_reply_dmaster, CompleteCall, Holding
<1> HIDE DEF s, k, rec, new
<1>8. applied'[k] = NewData(s.func, applied[k])
  BY <1>2, <1>6, PerformCounts
<1>9. HomeOk'
  <2>1. new.dmaster = n /\ new.data = applied'[k]
    BY <1>5, <1>8
  <2>2. \A m \in Node : lt[m][k].dmaster = m => m = n
    BY <1>2, <1>4 DEF NobodyIsDmaster
  <2>3. HomeOk
    BY DEF Holding
  <2>4. k \in Key /\ n = Chosen(lt, k) /\ lt' = [lt EXCEPT ![n][k] = new]
    BY <1>2, <1>4, <1>6
  <2> QED BY <2>1, <2>2, <2>3, <2>4, HomeStore
<1>10. QueuesOk(lt', applied', ch, df)
  BY <1>4, WorldChange DEF Holding
<1> QED BY <1>6, <1>7, <1>9, <1>10

\* A call that was redirected is sent again, from a node that is not the lmaster.
LEMMA ReplyRedirectRole ==
    ASSUME TypeOK, OffLmaster, OneRecord, NEW n \in Node, NEW p \in Packet,
           NEW ch \in [Node -> [Node -> Seq(Packet)]], NEW df \in [Node -> Seq(Parked)],
           Holding(n, p, ch, df), ctdb_reply_redirect(n, p, ch, df)
    PROVE  QueuesOk(lt', applied', chan', deferred') /\ HomeOk' /\ CallsOk'
<1> DEFINE s == calls[n][p.reqid]
           next == IF s.redirects = MaxRedirect THEN Lmaster[s.key] ELSE p.dmaster
           q == [op |-> "req_call", src |-> n, reqid |-> p.reqid, key |-> s.key,
                 func |-> s.func, imm |-> s.imm]
<1>1. p.reqid \in ReqId /\ p.dmaster \in Node /\ s # None
  BY PacketTypes DEF ctdb_reply_redirect, ReplyRedirect
<1>2. s \in CallState /\ s.key \in Key /\ s.func \in Func /\ s.imm \in BOOLEAN /\ s.client \in Client
  BY <1>1, CallEntryType DEF CallState
<1>3. next \in Node
  BY <1>1, <1>2, ClusterAssumption
<1>4. NodeOf[s.client] = n
  BY <1>1 DEF Holding, CallsOk
<1>5. n # Lmaster[s.key]
  BY <1>2, <1>4, OffLmasterNode
<1>6. q \in Packet /\ ~ Token(q) /\ PacketOk(lt, applied, q, next)
  BY <1>1, <1>2, <1>5 DEF Packet, ReqCall, Token, PacketOk
<1>7. /\ chan' = ctdb_queue_packet(ch, n, next, q) /\ lt' = lt /\ applied' = applied
      /\ deferred' = df
  BY DEF ctdb_reply_redirect
<1>8. calls' = [calls EXCEPT ![n][p.reqid].redirects = IF @ > MaxRedirect THEN @ ELSE @ + 1]
  BY DEF ctdb_reply_redirect
<1> HIDE DEF q, next
<1>9. QueuesOk(lt, applied, chan', df)
  BY <1>3, <1>6, <1>7, SendOk DEF Holding
<1>10. HomeOk'
  BY <1>7 DEF Holding, HomeOk, Chosen
<1>11. CallsOk'
  <2> SUFFICES ASSUME NEW m \in Node, NEW r \in ReqId, calls'[m][r] # None
               PROVE  NodeOf[calls'[m][r].client] = m
    BY DEF CallsOk
  <2>1. CASE m = n /\ r = p.reqid
    <3>1. calls'[m][r].client = s.client
      BY <1>1, <1>2, <1>8, <2>1 DEF TypeOK, CallState
    <3> QED BY <1>4, <2>1, <3>1
  <2>2. CASE ~ (m = n /\ r = p.reqid)
    <3>1. calls'[m][r] = calls[m][r]
      BY <1>1, <1>8, <2>2 DEF TypeOK
    <3> QED BY <3>1 DEF Holding, CallsOk
  <2> QED BY <2>1, <2>2
<1> QED BY <1>7, <1>9, <1>10, <1>11

\* Every packet handler keeps the role in one place.
LEMMA RecvPktRole ==
    ASSUME TypeOK, OffLmaster, OneRecord, NEW n \in Node, NEW p \in Packet,
           NEW ch \in [Node -> [Node -> Seq(Packet)]], NEW df \in [Node -> Seq(Parked)],
           Holding(n, p, ch, df), ctdb_recv_pkt(n, p, ch, df)
    PROVE  RoleInv'
<1>1. ClientsOk'
  BY RecvPktKeepsLock DEF Holding
<1>2. ASSUME lt' = lt, applied' = applied, chan' = ch, deferred' = df, CallsOk'
      PROVE  QueuesOk(lt', applied', chan', deferred') /\ HomeOk' /\ CallsOk'
  BY <1>2 DEF Holding, HomeOk, Chosen
<1>3. CASE ctdb_reply_call(n, p, ch, df)
  <2>1. p.reqid \in ReqId
    BY <1>3, PacketTypes DEF ctdb_reply_call, ReplyCall
  <2>2. CallsOk'
    BY <1>3, <2>1, CompleteCalls DEF ctdb_reply_call, CompleteCall, Holding
  <2> QED BY <1>1, <1>2, <1>3, <2>2 DEF ctdb_reply_call, RoleInv
<1>4. CASE DmasterRequestFatal(n, p, ch, df) \/ UnknownReply(n, p, ch, df)
  <2>1. CallsOk'
    BY <1>4 DEF DmasterRequestFatal, UnknownReply, Holding, CallsOk
  <2> QED BY <1>1, <1>2, <1>4, <2>1 DEF DmasterRequestFatal, UnknownReply, RoleInv
<1> QED BY <1>1, <1>3, <1>4, RequestCallRole, RequestDmasterRole, ReplyDmasterRole,
           ReplyRedirectRole DEF ctdb_recv_pkt, RoleInv

-----------------------------------------------------------------------------
(* The steps *)

\* Every step of a client process keeps the role in one place.
LEMMA ClientNextRole ==
    ASSUME TypeOK, OneRecord, RoleInv, NEW c \in Client, ClientNext(c)
    PROVE  RoleInv'
<1> DEFINE n == NodeOf[c]
           k == cl[c].key
<1>a. n \in Node /\ k \in Key /\ FuncOf(c) \in Func
  BY ClientMoves, ClusterAssumption DEF FuncOf, Func
<1>b. ClientsOk'
  BY ClientNextKeepsLock DEF RoleInv
<1>c. /\ QueuesOk(lt, applied, chan, deferred) /\ HomeOk /\ CallsOk /\ ClientOk(c)
      /\ lt[n][k] \in Record /\ applied \in [Key -> Nat]
  BY <1>a DEF RoleInv, ClientsOk, TypeOK
<1>1. ASSUME lt' = lt, applied' = applied, chan' = chan, deferred' = deferred, CallsOk'
      PROVE  RoleInv'
  BY <1>1, <1>b DEF RoleInv, HomeOk, Chosen
<1>2. ASSUME HomeOk', QueuesOk(lt', applied', chan, deferred), chan' = chan,
             deferred' = deferred, calls' = calls
      PROVE  RoleInv'
  <2>1. CallsOk'
    BY <1>2, <1>c DEF CallsOk
  <2> QED BY <1>2, <1>b, <2>1 DEF RoleInv
<1>3. ASSUME NEW op \in ClientOps[c], NEW j \in Wants[c], ClientStart(c, op, j) PROVE RoleInv'
  <2>1. CallsOk'
    BY <1>3, <1>c DEF ClientStart, CallsOk
  <2> QED BY <1>1, <1>3, <2>1 DEF ClientStart
<1>4. CASE \/ ClientLock(c) \/ FetchHere(c) \/ FetchElsewhere(c) \/ ClientCallDaemon(c)
           \/ ClientReply(c) \/ ClientRelease(c) \/ ClientDaemonGone(c)
  <2>1. /\ lt' = lt /\ applied' = applied /\ chan' = chan /\ deferred' = deferred
        /\ calls' = calls
    BY <1>4 DEF ClientLock, FetchHere, FetchElsewhere, ClientCallDaemon, ClientReply,
                ClientRelease, ClientDaemonGone
  <2>2. CallsOk'
    BY <1>c, <2>1 DEF CallsOk
  <2> QED BY <1>1, <2>1, <2>2
<1>5. CASE ClientCallLocal(c)
  <2>1. HomeOk' /\ QueuesOk(lt', applied', chan, deferred)
    BY <1>5, <1>a, <1>c, RunAtHome DEF ClientCallLocal
  <2> QED BY <1>2, <1>5, <2>1 DEF ClientCallLocal
<1>6. CASE ctdb_record_store(c)
  <2> DEFINE rec == [cl[c].got EXCEPT !.data = @ + 1]
  <2>1. cl[c].got = lt[n][k] /\ lt[n][k].dmaster = n
    BY <1>6, <1>c DEF ctdb_record_store, ClientOk
  <2>2. /\ n = Chosen(lt, k) /\ lt[n][k].data = applied[k] /\ NoTokens(chan, deferred)
        /\ \A m \in Node : lt[m][k].dmaster = m => m = n
    BY <1>a, <1>c, <2>1, AtHome
  <2>3. rec.dmaster = n /\ rec.data = applied[k] + 1
    BY <1>c, <2>1, <2>2 DEF Record
  <2>4. lt' = [lt EXCEPT ![n][k] = rec] /\ applied' = [applied EXCEPT ![k] = @ + 1]
    BY <1>6 DEF ctdb_record_store, ctdb_ltdb_store
  <2> HIDE DEF rec
  <2>5. rec.data = applied'[k]
    BY <1>a, <1>c, <2>3, <2>4
  <2>6. HomeOk'
    <3>1. HomeOk /\ n \in Node /\ k \in Key /\ n = Chosen(lt, k) /\ rec.dmaster = n
      BY <1>a, <1>c, <2>2, <2>3
    <3>2. \A m \in Node : lt[m][k].dmaster = m => m = n
      BY <2>2
    <3>3. lt' = [lt EXCEPT ![n][k] = rec]
      BY <2>4
    <3> HIDE DEF n, k
    <3> QED BY <2>5, <3>1, <3>2, <3>3, HomeStore
  <2>7. QueuesOk(lt', applied', chan, deferred)
    BY <1>c, <2>2, WorldChange
  <2> QED BY <1>2, <1>6, <2>6, <2>7 DEF ctdb_record_store
<1>7. CASE ClientExit(c)
  <2>1. \A m \in Node, r \in ReqId : calls'[m][r] = calls[m][r] \/ calls'[m][r] = None
    BY <1>7, <1>a DEF ClientExit, TypeOK
  <2>2. CallsOk'
    BY <1>c, <2>1 DEF CallsOk
  <2> QED BY <1>1, <1>7, <2>2 DEF ClientExit
<1> QED BY <1>3, <1>4, <1>5, <1>6, <1>7 DEF ClientNext

\* The daemon of node n makes a call for its client c.
LEMMA ClientRequestRole ==
    ASSUME TypeOK, OffLmaster, OneRecord, NEW c \in Client, NEW n \in Node, NodeOf[c] = n,
           NEW df \in [Node -> Seq(Parked)], QueuesOk(lt, applied, chan, df),
           HomeOk, CallsOk, ClientsOk, daemon_request_call_from_client(n, c, df)
    PROVE  RoleInv'
<1> DEFINE k == cl[c].key
<1>a. k \in Key /\ FuncOf(c) \in Func /\ Immediate(c) \in BOOLEAN
  BY ClientMoves DEF FuncOf, Func, Immediate
<1>b. ClientsOk'
  BY ClientRequestKeepsLock
<1>1. CASE DaemonCallLocal(n, c, df)
  <2>1. HomeOk' /\ QueuesOk(lt', applied', chan, df)
    BY <1>1, <1>a, RunAtHome DEF DaemonCallLocal
  <2>2. chan' = chan /\ deferred' = df /\ calls' = calls
    BY <1>1 DEF DaemonCallLocal
  <2>3. CallsOk'
    BY <2>2 DEF CallsOk
  <2> QED BY <1>b, <2>1, <2>2, <2>3 DEF RoleInv
<1>2. CASE ctdb_daemon_call_send_remote(n, c, df)
  <2>1. PICK r \in ReqId :
          /\ calls' = [calls EXCEPT ![n][r] =
                [client |-> c, key |-> k, func |-> FuncOf(c), imm |-> Immediate(c),
                 laccessor |-> lt[n][k].laccessor, lacount |-> lt[n][k].lacount,
                 redirects |-> 0]]
          /\ chan' = ctdb_queue_packet(chan, n, lt[n][k].dmaster,
                [op |-> "req_call", src |-> n, reqid |-> r, key |-> k,
                 func |-> FuncOf(c), imm |-> Immediate(c)])
    BY <1>2 DEF ctdb_daemon_call_send_remote
  <2> DEFINE q == [op |-> "req_call", src |-> n, reqid |-> r, key |-> k,
                   func |-> FuncOf(c), imm |-> Immediate(c)]
             s == [client |-> c, key |-> k, func |-> FuncOf(c), imm |-> Immediate(c),
                   laccessor |-> lt[n][k].laccessor, lacount |-> lt[n][k].lacount,
                   redirects |-> 0]
             dest == lt[n][k].dmaster
  <2>2. dest \in Node
    BY <1>a DEF TypeOK, Record
  <2>3. n # Lmaster[k]
    BY <1>a, OffLmasterNode
  <2>4. q \in Packet /\ ~ Token(q) /\ PacketOk(lt, applied, q, dest)
    BY <1>a, <2>3 DEF Packet, ReqCall, Token, PacketOk
  <2>5. s.client = c
    OBVIOUS
  <2>6. calls' = [calls EXCEPT ![n][r] = s] /\ chan' = ctdb_queue_packet(chan, n, dest, q)
    BY <2>1
  <2>7. lt' = lt /\ applied' = applied /\ deferred' = df
    BY <1>2 DEF ctdb_daemon_call_send_remote
  <2> HIDE DEF q, s, dest
  <2>8. chan \in [Node -> [Node -> Seq(Packet)]] /\ calls \in [Node -> [ReqId -> CallState \cup {None}]]
    BY DEF TypeOK
  <2>9. QueuesOk(lt', applied', chan', deferred')
    BY <2>2, <2>4, <2>6, <2>7, <2>8, SendOk
  <2>10. \A m \in Node, x \in ReqId : calls'[m][x] = calls[m][x] \/ (m = n /\ calls'[m][x] = s)
    BY <2>6, <2>8
  <2>11. CallsOk'
    BY <2>5, <2>10 DEF CallsOk
  <2>12. HomeOk'
    BY <2>7 DEF HomeOk, Chosen
  <2> QED BY <1>b, <2>9, <2>11, <2>12 DEF RoleInv
<1> QED BY <1>1, <1>2 DEF daemon_request_call_from_client

\* Steps that only move, park or drop packets, or free calls.
LEMMA QueueStepRole ==
    ASSUME RoleInv, ClientsOk', QueuesOk(lt, applied, chan', deferred'),
           lt' = lt, applied' = applied,
           \A n \in Node, r \in ReqId : calls'[n][r] = calls[n][r] \/ calls'[n][r] = None
    PROVE  RoleInv'
<1>1. HomeOk'
  BY DEF RoleInv, HomeOk, Chosen
<1>2. CallsOk'
  BY DEF RoleInv, CallsOk
<1> QED BY <1>1, <1>2 DEF RoleInv

\* A packet that is parked keeps the role it carries.
LEMMA DeferRole ==
    ASSUME TypeOK, RoleInv, ClientsOk', NEW n \in Node, NEW m \in Node, DeferPacket(m, n)
    PROVE  RoleInv'
<1> DEFINE p == Head(chan[m][n])
           rest == [chan EXCEPT ![m][n] = Tail(@)]
           e == [key |-> KeyOf(n, p), pkt |-> p]
<1>1. chan \in [Node -> [Node -> Seq(Packet)]] /\ deferred \in [Node -> Seq(Parked)]
  BY DEF TypeOK
<1>2. chan[m][n] # <<>> /\ NeedsLock(n, p)
  BY DEF DeferPacket
<1>3. p \in Packet /\ rest \in [Node -> [Node -> Seq(Packet)]]
  BY <1>1, <1>2, QueueTypes
<1>4. KeyOf(n, p) \in Key
  <2> HIDE DEF p
  <2>1. CASE p.op \in {"req_call", "req_dmaster"}
    BY <1>3, <2>1, PacketTypes DEF KeyOf, ReqCall, ReqDmaster
  <2>2. CASE p.op = "reply_dmaster" /\ calls[n][p.reqid] # None
    <3>1. p.reqid \in ReqId
      BY <1>3, <2>2, PacketTypes DEF ReplyDmaster
    <3>2. calls[n][p.reqid].key \in Key
      BY <2>2, <3>1, CallEntryType DEF CallState
    <3> QED BY <2>2, <3>2 DEF KeyOf
  <2> QED BY <1>2, <2>1, <2>2 DEF NeedsLock
<1>5. e \in Parked /\ e.pkt = p
  BY <1>3, <1>4 DEF Parked
<1>6. /\ PacketOk(lt, applied, p, n) /\ QueuesOk(lt, applied, rest, deferred)
      /\ Token(p) => NobodyIsDmaster(lt) /\ NoTokens(rest, deferred)
  BY <1>1, <1>2, TakeRest DEF RoleInv
<1>7. chan' = rest /\ deferred' = [deferred EXCEPT ![n] = Append(@, e)]
  BY DEF DeferPacket
<1> HIDE DEF p, rest, e
<1>8. QueuesOk(lt, applied, chan', deferred')
  BY <1>1, <1>3, <1>5, <1>6, <1>7, ParkOk
<1> QED BY <1>8, QueueStepRole DEF DeferPacket

\* Every step of a daemon keeps the role in one place.
LEMMA DaemonNextRole ==
    ASSUME TypeOK, OffLmaster, OneRecord, RoleInv, ClientsOk', NEW n \in Node, DaemonNext(n)
    PROVE  RoleInv'
<1>a. /\ chan \in [Node -> [Node -> Seq(Packet)]] /\ deferred \in [Node -> Seq(Parked)]
      /\ QueuesOk(lt, applied, chan, deferred) /\ HomeOk /\ CallsOk /\ ClientsOk
  BY DEF TypeOK, RoleInv
<1>1. ASSUME NEW m \in Node, RecvPacket(m, n) PROVE RoleInv'
  <2> DEFINE p == Head(chan[m][n])
             rest == [chan EXCEPT ![m][n] = Tail(@)]
  <2>1. chan[m][n] # <<>> /\ ctdb_recv_pkt(n, p, rest, deferred)
    BY <1>1 DEF RecvPacket
  <2>2. p \in Packet /\ rest \in [Node -> [Node -> Seq(Packet)]]
    BY <1>a, <2>1, QueueTypes
  <2>3. /\ PacketOk(lt, applied, p, n) /\ QueuesOk(lt, applied, rest, deferred)
        /\ Token(p) => NobodyIsDmaster(lt) /\ NoTokens(rest, deferred)
    BY <1>a, <2>1, TakeRest
  <2> HIDE DEF p, rest
  <2>4. Holding(n, p, rest, deferred)
    BY <1>a, <2>3 DEF Holding
  <2> QED BY <1>a, <2>1, <2>2, <2>4, RecvPktRole
<1>2. ASSUME NEW m \in Node, DeferPacket(m, n) PROVE RoleInv'
  BY <1>2, DeferRole
<1>3. ASSUME NEW i \in DOMAIN deferred[n] 
      PROVE  LET p == deferred[n][i].pkt
                 rest == [deferred EXCEPT ![n] = RemoveAt(@, i)]
             IN /\ Holding(n, p, chan, rest)
                /\ rest \in [Node -> Seq(Parked)]
                /\ p.op # "client_call" => p \in Packet
                /\ p.op = "client_call" => p.client \in Client /\ NodeOf[p.client] = n
  <2> DEFINE p == deferred[n][i].pkt
             rest == [deferred EXCEPT ![n] = RemoveAt(@, i)]
  <2>1. /\ PacketOk(lt, applied, p, n) /\ QueuesOk(lt, applied, chan, rest)
        /\ Token(p) => NobodyIsDmaster(lt) /\ NoTokens(chan, rest)
    BY <1>a, UnparkRest
  <2>2. /\ rest \in [Node -> Seq(Parked)]
        /\ p.op # "client_call" => p \in Packet
        /\ p.op = "client_call" => p.client \in Client
    BY ParkedTypes
  <2> HIDE DEF p, rest
  <2>3. Holding(n, p, chan, rest)
    BY <1>a, <2>1 DEF Holding
  <2>4. p.op = "client_call" => NodeOf[p.client] = n
    BY <2>1 DEF PacketOk
  <2> QED BY <2>2, <2>3, <2>4 DEF p, rest
<1>4. ASSUME NEW i \in DOMAIN deferred[n], RetryPacket(n, i) PROVE RoleInv'
  <2> DEFINE p == deferred[n][i].pkt
             rest == [deferred EXCEPT ![n] = RemoveAt(@, i)]
  <2>1. Holding(n, p, chan, rest) /\ rest \in [Node -> Seq(Parked)] /\ p \in Packet
    BY <1>3, <1>4 DEF RetryPacket
  <2>2. ctdb_recv_pkt(n, p, chan, rest)
    BY <1>4 DEF RetryPacket
  <2> HIDE DEF p, rest
  <2> QED BY <1>a, <2>1, <2>2, RecvPktRole
<1>5. ASSUME NEW i \in DOMAIN deferred[n], RetryCall(n, i) PROVE RoleInv'
  <2> DEFINE c == deferred[n][i].pkt.client
             rest == [deferred EXCEPT ![n] = RemoveAt(@, i)]
  <2>1. /\ QueuesOk(lt, applied, chan, rest) /\ rest \in [Node -> Seq(Parked)]
        /\ c \in Client /\ NodeOf[c] = n
    BY <1>3, <1>5 DEF RetryCall, Holding
  <2>2. daemon_request_call_from_client(n, c, rest)
    BY <1>5 DEF RetryCall
  <2> HIDE DEF c, rest
  <2> QED BY <1>a, <2>1, <2>2, ClientRequestRole
<1>6. ASSUME NEW i \in DOMAIN deferred[n], RetryDeadCall(n, i) PROVE RoleInv'
  <2> DEFINE rest == [deferred EXCEPT ![n] = RemoveAt(@, i)]
  <2>1. QueuesOk(lt, applied, chan, rest)
    BY <1>3 DEF Holding
  <2>2. deferred' = rest /\ chan' = chan /\ lt' = lt /\ applied' = applied /\ calls' = calls
    BY <1>6 DEF RetryDeadCall
  <2> HIDE DEF rest
  <2> QED BY <2>1, <2>2, QueueStepRole
<1>7. ASSUME NEW r \in ReqId, ctdb_call_timeout(n, r) PROVE RoleInv'
  <2>1. \A m \in Node, x \in ReqId : calls'[m][x] = calls[m][x] \/ calls'[m][x] = None
    BY <1>7 DEF ctdb_call_timeout, TypeOK
  <2> QED BY <1>7, <1>a, <2>1, QueueStepRole DEF ctdb_call_timeout
<1> QED BY <1>1, <1>2, <1>4, <1>5, <1>6, <1>7 DEF DaemonNext

\* Every step keeps it.
LEMMA NextRole ==
    ASSUME OffLmaster, OneRecord
    PROVE  TypeOK /\ RoleInv /\ [Next]_vars => RoleInv'
<1> SUFFICES ASSUME TypeOK, RoleInv, [Next]_vars PROVE RoleInv'
  OBVIOUS
<1>a. /\ chan \in [Node -> [Node -> Seq(Packet)]] /\ deferred \in [Node -> Seq(Parked)]
      /\ QueuesOk(lt, applied, chan, deferred) /\ HomeOk /\ CallsOk /\ ClientsOk
  BY DEF TypeOK, RoleInv
<1>b. ClientsOk'
  BY <1>a, NextKeepsLock
<1>1. ASSUME NEW c \in Client, TakeCall(c) PROVE RoleInv'
  <2>1. NodeOf[c] \in Node
    BY ClusterAssumption
  <2> QED BY <1>1, <1>a, <2>1, ClientRequestRole DEF TakeCall
<1>2. ASSUME NEW c \in Client, DeferCall(c) PROVE RoleInv'
  <2> DEFINE n == NodeOf[c]
             e == [key |-> cl[c].key, pkt |-> [op |-> "client_call", client |-> c]]
  <2>1. n \in Node /\ cl[c].key \in Key
    BY ClientMoves, ClusterAssumption
  <2>2. e \in Parked /\ ~ Token(e.pkt) /\ PacketOk(lt, applied, e.pkt, n)
    BY <2>1 DEF Parked, ClientCall, Token, PacketOk
  <2>3. deferred' = [deferred EXCEPT ![n] = Append(@, e)]
    BY <1>2 DEF DeferCall
  <2> HIDE DEF e
  <2>4. QueuesOk(lt, applied, chan, deferred')
    BY <1>a, <2>1, <2>2, <2>3, ParkOk
  <2> QED BY <1>2, <1>b, <2>4, QueueStepRole DEF DeferCall
<1>3. ASSUME NEW n \in Node, NEW m \in Node, LosePacket(n, m) PROVE RoleInv'
  <2>1. QueuesOk(lt, applied, [chan EXCEPT ![n][m] = Tail(@)], deferred)
    BY <1>3, <1>a, TakeRest DEF LosePacket
  <2> QED BY <1>3, <1>b, <2>1, QueueStepRole DEF LosePacket
<1>4. CASE UNCHANGED vars
  BY <1>4, <1>a, <1>b, QueueStepRole DEF vars
<1> QED BY <1>1, <1>2, <1>3, <1>4, <1>b, ClientNextRole, DaemonNextRole DEF Next

\* At the start the role is with the first dmaster.
LEMMA InitRole ==
    ASSUME OffLmaster, OneRecord
    PROVE  Init => RoleInv
<1> SUFFICES ASSUME Init PROVE RoleInv
  OBVIOUS
<1>1. \A a, b \in Node : DOMAIN chan[a][b] = {} /\ DOMAIN deferred[b] = {}
  BY DEF Init
<1>2. NoTokens(chan, deferred)
  BY <1>1 DEF NoTokens, NoneInChan, NoneParked, NoToken, NoTokenParked
<1>3. QueuesOk(lt, applied, chan, deferred)
  BY <1>1, <1>2 DEF QueuesOk, ChanOk, ParkedOk, AtMostOneToken
<1>4. HomeOk
  <2> SUFFICES ASSUME NEW k \in Key
               PROVE  /\ Chosen(lt, k) # Lmaster[k]
                      /\ \A n \in Node : lt[n][k].dmaster = n =>
                            n = Chosen(lt, k) /\ lt[n][k].data = applied[k]
    BY DEF HomeOk
  <2>1. Lmaster[k] \in Node /\ FirstDmaster[k] \in Node /\ FirstDmaster[k] # Lmaster[k]
    BY ClusterAssumption DEF OffLmaster
  <2>2. \A n \in Node : lt[n][k] = ltdb_initial_header(n, k)
    BY DEF Init
  <2>3. ASSUME NEW n \in Node
        PROVE  /\ lt[n][k].data = 0
               /\ n \in {Lmaster[k], FirstDmaster[k]} => lt[n][k].dmaster = FirstDmaster[k]
               /\ n \notin {Lmaster[k], FirstDmaster[k]} => lt[n][k].dmaster = Lmaster[k]
    <3> DEFINE d == IF n \in {Lmaster[k], FirstDmaster[k]}
                    THEN FirstDmaster[k] ELSE Lmaster[k]
    <3>1. lt[n][k] = [dmaster |-> d, laccessor |-> Lmaster[k], lacount |-> 0, data |-> 0]
      BY <2>2 DEF ltdb_initial_header
    <3>2. /\ n \in {Lmaster[k], FirstDmaster[k]} => d = FirstDmaster[k]
          /\ n \notin {Lmaster[k], FirstDmaster[k]} => d = Lmaster[k]
      OBVIOUS
    <3> HIDE DEF d
    <3> QED BY <3>1, <3>2
  <2>4. applied[k] = 0
    BY DEF Init
  <2>5. Chosen(lt, k) = FirstDmaster[k]
    BY <2>1, <2>3 DEF Chosen
  <2> QED BY <2>1, <2>3, <2>4, <2>5
<1>5. CallsOk
  BY DEF Init, CallsOk
<1>6. ClientsOk
  <2> SUFFICES ASSUME NEW c \in Client PROVE ClientOk(c)
    BY DEF ClientsOk
  <2>1. cl[c].pc = "idle"
    BY DEF Init, Resting
  <2> QED BY <2>1 DEF ClientOk, Locking
<1> QED BY <1>3, <1>4, <1>5, <1>6 DEF RoleInv

-----------------------------------------------------------------------------
(* The theorems *)

\* The inductive invariant: the role of a record is in one tdb or in one packet
\* or lost, and with it goes the body that has seen every update (ctdb_call.c,
\* ctdb_client.c).
THEOREM RoleInOnePlace ==
    ASSUME OffLmaster, OneRecord
    PROVE  Spec => []RoleInv
<1>1. Init => TypeOK /\ RoleInv
  BY InitType, InitRole
<1>2. TypeOK /\ [Next]_vars => TypeOK'
  BY NextType
<1>3. TypeOK /\ RoleInv /\ [Next]_vars => RoleInv'
  BY NextRole
<1> QED BY <1>1, <1>2, <1>3, PTL DEF Spec

\* No two nodes ever believe to be dmaster of the record, however packets of
\* the migration protocol (ctdb_call.c) interleave, time out or get lost.
THEOREM NeverTwoDmasters ==
    ASSUME OffLmaster, OneRecord
    PROVE  Spec => []OneDmaster
<1>1. RoleInv => OneDmaster
  BY DEF RoleInv, HomeOk, OneDmaster
<1> QED BY <1>1, RoleInOnePlace, PTL

\* "The lmaster always knows who the dmaster is" (ctdb_call.c).
THEOREM LmasterAlwaysKnows ==
    ASSUME OffLmaster, OneRecord
    PROVE  Spec => []LmasterKnows
<1>1. RoleInv => LmasterKnows
  BY DEF RoleInv, HomeOk, LmasterKnows, Chosen
<1> QED BY <1>1, RoleInOnePlace, PTL

\* The dmaster's copy holds every update performed by a call or by
\* ctdb_record_store, on whatever node it was performed.
THEOREM UpdatesAreKept ==
    ASSUME OffLmaster, OneRecord
    PROVE  Spec => []NoLostUpdate
<1>1. RoleInv => NoLostUpdate
  BY DEF RoleInv, HomeOk, NoLostUpdate
<1> QED BY <1>1, RoleInOnePlace, PTL

\* A record handle of ctdb_fetch_lock excludes every other client of the
\* cluster, and its holder runs on the dmaster.
THEOREM HandleExcludes ==
    ASSUME OffLmaster, OneRecord
    PROVE  Spec => []HolderIsDmaster
<1>1. TypeOK /\ RoleInv => HolderIsDmaster
  <2> SUFFICES ASSUME TypeOK, RoleInv PROVE HolderIsDmaster
    OBVIOUS
  <2>1. \A c \in Client : cl[c].pc \in {"held", "stored"} =>
           /\ lt[NodeOf[c]][cl[c].key].dmaster = NodeOf[c]
           /\ lock[NodeOf[c]][cl[c].key] = c
    BY DEF RoleInv, ClientsOk, ClientOk, Locking
  <2>2. ASSUME NEW c \in Client, NEW d \in Client, cl[c].pc \in {"held", "stored"},
               cl[d].pc \in {"held", "stored"}, cl[c].key = cl[d].key
        PROVE  c = d
    <3>1. cl[c].key \in Key /\ NodeOf[c] \in Node /\ NodeOf[d] \in Node
      BY ClientMoves, ClusterAssumption
    <3>2. NodeOf[c] = NodeOf[d]
      BY <2>1, <2>2, <3>1 DEF RoleInv, HomeOk
    <3> QED BY <2>1, <2>2, <3>2
  <2> QED BY <2>1, <2>2 DEF HolderIsDmaster
<1> QED BY <1>1, RoleInOnePlace, TypeCorrect, PTL

-----------------------------------------------------------------------------
(* No daemon aborts while no client exits *)

\* Every daemon runs and every client is there.
AllAlive == NeverFatal /\ \A c \in Client : cl[c].pc # "exited"

\* Where no client may exit, a step of a client leaves all alive.
LEMMA ClientNextAlive ==
    ASSUME TypeOK, Mortal = {}, AllAlive, NEW c \in Client, ClientNext(c)
    PROVE  AllAlive'
<1>a. /\ cl \in [Client -> ClientState] /\ NodeOf[c] \in Node /\ up[NodeOf[c]]
      /\ \A d \in Client : cl[d].pc # "exited"
  BY ClusterAssumption DEF TypeOK, AllAlive, NeverFatal
<1>1. ASSUME up' = up, cl'[c].pc # "exited", \A d \in Client : d # c => cl'[d] = cl[d]
      PROVE  AllAlive'
  BY <1>1, <1>a DEF AllAlive, NeverFatal
<1>2. ASSUME cl' = CallReturned(c), up' = up PROVE AllAlive'
  <2>1. cl'[c].pc # "exited" /\ \A d \in Client : d # c => cl'[d] = cl[d]
    BY <1>2, <1>a DEF CallReturned, Resting, ClientState
  <2> QED BY <1>1, <1>2, <2>1
<1>3. ASSUME NEW op \in ClientOps[c], NEW k \in Wants[c], ClientStart(c, op, k) PROVE AllAlive'
  <2>1. cl'[c].pc = "lock" /\ \A d \in Client : d # c => cl'[d] = cl[d]
    BY <1>3, <1>a DEF ClientStart
  <2> QED BY <1>1, <1>3, <2>1 DEF ClientStart
<1>4. CASE ClientLock(c) \/ FetchHere(c) \/ ctdb_record_store(c)
  <2>1. cl'[c].pc \in {"locked", "held", "stored"} /\ \A d \in Client : d # c => cl'[d] = cl[d]
    BY <1>4, <1>a DEF ClientLock, FetchHere, ctdb_record_store, ClientState
  <2> QED BY <1>1, <1>4, <2>1 DEF ClientLock, FetchHere, ctdb_record_store
<1>5. CASE FetchElsewhere(c) \/ ClientCallDaemon(c)
  <2>1. cl'[c].pc \in {"lock", "sent"} /\ \A d \in Client : d # c => cl'[d] = cl[d]
    BY <1>5, <1>a DEF FetchElsewhere, ClientCallDaemon, UnlockAndGo, ClientState
  <2> QED BY <1>1, <1>5, <2>1 DEF FetchElsewhere, ClientCallDaemon
<1>6. CASE ClientCallLocal(c) \/ ClientReply(c)
  BY <1>2, <1>6 DEF ClientCallLocal, ClientReply
<1>7. CASE ClientRelease(c)
  <2>1. cl'[c].pc = "idle" /\ \A d \in Client : d # c => cl'[d] = cl[d]
    BY <1>7, <1>a DEF ClientRelease, UnlockAndRest, Resting
  <2> QED BY <1>1, <1>7, <2>1 DEF ClientRelease
<1>8. CASE ClientExit(c) \/ ClientDaemonGone(c)
  BY <1>8, <1>a DEF ClientExit, ClientDaemonGone
<1> QED BY <1>3, <1>4, <1>5, <1>6, <1>7, <1>8 DEF ClientNext

\* The lmaster's protocol error cannot be met: the sender of a req_dmaster is
\* the node the lmaster has on record.
LEMMA RecvPktAlive ==
    ASSUME TypeOK, AllAlive, NEW n \in Node, NEW p \in Packet, NEW ch, NEW df,
           PacketOk(lt, applied, p, n), ctdb_recv_pkt(n, p, ch, df)
    PROVE  AllAlive'
<1>a. cl \in [Client -> ClientState] /\ \A d \in Client : cl[d].pc # "exited"
  BY DEF TypeOK, AllAlive
<1>1. ~ DmasterRequestFatal(n, p, ch, df)
  BY DEF DmasterRequestFatal, ProtocolError, PacketOk, Chosen
<1>2. up' = up
  BY <1>1 DEF ctdb_recv_pkt, ctdb_request_call, ctdb_request_dmaster, ctdb_reply_dmaster,
              ctdb_reply_call, ctdb_reply_redirect, UnknownReply
<1>3. cl' = cl \/ \E c \in Client : cl' = [cl EXCEPT ![c].pc = "replied"]
  <2>1. CASE ctdb_reply_dmaster(n, p, ch, df) \/ ctdb_reply_call(n, p, ch, df)
    <3>1. p.reqid \in ReqId /\ calls[n][p.reqid] # None
      BY <2>1, PacketTypes DEF ctdb_reply_dmaster, ctdb_reply_call, ReplyDmaster, ReplyCall
    <3>2. calls[n][p.reqid].client \in Client
      BY <3>1, CallEntryType DEF CallState
    <3>3. cl' = [cl EXCEPT ![calls[n][p.reqid].client].pc = "replied"]
      BY <2>1 DEF ctdb_reply_dmaster, ctdb_reply_call, CompleteCall
    <3> QED BY <3>2, <3>3
  <2>2. CASE \/ ctdb_request_call(n, p, ch, df) \/ ctdb_request_dmaster(n, p, ch, df)
             \/ ctdb_reply_redirect(n, p, ch, df) \/ UnknownReply(n, p, ch, df)
    BY <2>2 DEF ctdb_request_call, ctdb_request_dmaster, ctdb_reply_redirect, UnknownReply
  <2> QED BY <1>1, <2>1, <2>2 DEF ctdb_recv_pkt
<1>4. \A d \in Client : cl'[d].pc # "exited"
  BY <1>a, <1>3 DEF ClientState
<1> QED BY <1>2, <1>4 DEF AllAlive, NeverFatal

\* Every step keeps clients and daemons alive.
LEMMA NextAlive ==
    ASSUME Mortal = {}
    PROVE  TypeOK /\ RoleInv /\ AllAlive /\ [Next]_vars => AllAlive'
<1> SUFFICES ASSUME TypeOK, RoleInv, AllAlive, [Next]_vars PROVE AllAlive'
  OBVIOUS
<1>a. /\ cl \in [Client -> ClientState] /\ \A d \in Client : cl[d].pc # "exited"
      /\ chan \in [Node -> [Node -> Seq(Packet)]] /\ deferred \in [Node -> Seq(Parked)]
      /\ QueuesOk(lt, applied, chan, deferred)
  BY DEF TypeOK, AllAlive, RoleInv
<1>1. ASSUME up' = up,
             \/ cl' = cl
             \/ \E c \in Client : cl' = [cl EXCEPT ![c].pc = "replied"]
             \/ \E c \in Client : cl' = [cl EXCEPT ![c].pc = "wait"]
      PROVE  AllAlive'
  <2>1. \A d \in Client : cl'[d].pc # "exited"
    BY <1>1, <1>a DEF ClientState
  <2> QED BY <1>1, <2>1 DEF AllAlive, NeverFatal
<1>2. ASSUME NEW c \in Client, NEW n \in Node, NEW df, daemon_request_call_from_client(n, c, df)
      PROVE  AllAlive'
  BY <1>1, <1>2 DEF daemon_request_call_from_client, DaemonCallLocal, ctdb_daemon_call_send_remote
<1>3. ASSUME NEW c \in Client, TakeCall(c) \/ DeferCall(c) PROVE AllAlive'
  <2>1. NodeOf[c] \in Node
    BY ClusterAssumption
  <2> QED BY <1>1, <1>2, <1>3, <2>1 DEF TakeCall, DeferCall
<1>4. ASSUME NEW n \in Node, NEW m \in Node, RecvPacket(m, n) PROVE AllAlive'
  <2>1. Head(chan[m][n]) \in Packet /\ PacketOk(lt, applied, Head(chan[m][n]), n)
    BY <1>4, <1>a, QueueTypes, TakeRest DEF RecvPacket
  <2> QED BY <1>4, <2>1, RecvPktAlive DEF RecvPacket
<1>5. ASSUME NEW n \in Node, NEW i \in DOMAIN deferred[n], RetryPacket(n, i) PROVE AllAlive'
  <2>1. deferred[n][i].pkt \in Packet
    BY <1>5, ParkedTypes DEF RetryPacket
  <2>2. PacketOk(lt, applied, deferred[n][i].pkt, n)
    BY <1>a DEF QueuesOk, ParkedOk
  <2> QED BY <1>5, <2>1, <2>2, RecvPktAlive DEF RetryPacket
<1>6. ASSUME NEW n \in Node, NEW i \in DOMAIN deferred[n], RetryCall(n, i) \/ RetryDeadCall(n, i)
      PROVE  AllAlive'
  <2>1. deferred[n][i].pkt.client \in Client
    BY <1>6, ParkedTypes DEF RetryCall, RetryDeadCall
  <2> QED BY <1>2, <1>6, <1>a, <2>1 DEF RetryCall, RetryDeadCall
<1>7. ASSUME NEW n \in Node, NEW m \in Node, DeferPacket(m, n) \/ LosePacket(n, m) PROVE AllAlive'
  BY <1>1, <1>7 DEF DeferPacket, LosePacket
<1>8. ASSUME NEW n \in Node, NEW r \in ReqId, ctdb_call_timeout(n, r) PROVE AllAlive'
  BY <1>1, <1>8 DEF ctdb_call_timeout
<1>9. CASE UNCHANGED vars
  BY <1>1, <1>9 DEF vars
<1> QED BY <1>3, <1>4, <1>5, <1>6, <1>7, <1>8, <1>9, ClientNextAlive DEF Next, DaemonNext

\* ctdb_request_dmaster never meets its protocol error and no daemon aborts,
\* as long as no client exits; timeouts and lost packets do no harm.
THEOREM DaemonsNeverAbort ==
    ASSUME OffLmaster, OneRecord, Mortal = {}
    PROVE  Spec => []NeverFatal
<1>1. Init => AllAlive
  BY DEF Init, AllAlive, NeverFatal, Resting
<1>2. TypeOK /\ RoleInv /\ AllAlive /\ [Next]_vars => AllAlive'
  BY NextAlive
<1>3. AllAlive => NeverFatal
  BY DEF AllAlive
<1> QED BY <1>1, <1>2, <1>3, TypeCorrect, RoleInOnePlace, PTL DEF Spec
=============================================================================
