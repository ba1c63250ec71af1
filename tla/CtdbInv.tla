------------------------------ MODULE CtdbInv -------------------------------
(***************************************************************************)
(* The inductive invariant behind the safety of CTDB's record migration.   *)
(*                                                                         *)
(* The dmaster role of a record is a token.  It is either at home, in the  *)
(* local tdb of the one node that believes to be dmaster, or it travels in *)
(* exactly one packet: a req_dmaster on its way to the lmaster or a        *)
(* reply_dmaster on its way to the node that the lmaster's tdb names, or   *)
(* it is lost.  Whoever has it has the latest body.                        *)
(***************************************************************************)
EXTENDS Ctdb

\* The clusters the proof is about: the lmaster of a record has given the
\* record away once, and no process on that node uses it.  (Both are needed:
\* the lmaster sends its own packets to itself through a queue, and until it
\* reads them its tdb says what is no longer true.)
OffLmaster ==
    /\ \A k \in Key : FirstDmaster[k] # Lmaster[k]
    /\ \A c \in Client : \A k \in Wants[c] : Lmaster[k] # NodeOf[c]

\* Request ids are handed out again after a timeout or a client's exit, and a
\* reply_dmaster names nothing else, so failures are harmless only when a
\* late reply cannot be about another record.
OneRecord == \A j, k \in Key : j = k

\* The packets that carry the role.
Token(p) == p.op \in {"req_dmaster", "reply_dmaster"}

NoToken(s) == \A i \in DOMAIN s : ~ Token(s[i])
OneToken(s) == \E i \in DOMAIN s : \A j \in DOMAIN s : Token(s[j]) <=> j = i
NoTokenParked(s) == \A i \in DOMAIN s : ~ Token(s[i].pkt)
OneTokenParked(s) == \E i \in DOMAIN s : \A j \in DOMAIN s : Token(s[j].pkt) <=> j = i

NoneInChan(ch) == \A a, b \in Node : NoToken(ch[a][b])
OnlyInChan(ch, x, y) ==
    \A a, b \in Node : IF a = x /\ b = y THEN OneToken(ch[a][b]) ELSE NoToken(ch[a][b])
NoneParked(df) == \A b \in Node : NoTokenParked(df[b])
OnlyParked(df, x) ==
    \A b \in Node : IF b = x THEN OneTokenParked(df[b]) ELSE NoTokenParked(df[b])

NoTokens(ch, df) == NoneInChan(ch) /\ NoneParked(df)
AtMostOneToken(ch, df) ==
    \/ NoTokens(ch, df)
    \/ NoneParked(df) /\ \E x, y \in Node : OnlyInChan(ch, x, y)
    \/ NoneInChan(ch) /\ \E x \in Node : OnlyParked(df, x)

\* What the lmaster's tdb says, where l are the local tdbs.
Chosen(l, k) == l[Lmaster[k]][k].dmaster

NobodyIsDmaster(l) == \A k \in Key, n \in Node : l[n][k].dmaster # n

\* What a packet that is to be handled on node b says is still true of the
\* tdbs l and the counts ap of performed updates.
PacketOk(l, ap, p, b) ==
    /\ p.op = "req_call" => p.src # Lmaster[p.key]
    /\ p.op = "req_dmaster" =>
          /\ b = Lmaster[p.key] /\ p.src = Chosen(l, p.key) /\ p.dmaster # Lmaster[p.key]
          /\ p.data = ap[p.key]
    /\ p.op = "reply_dmaster" =>
          \A k \in Key : b = Chosen(l, k) /\ p.data = ap[k]
    /\ p.op = "client_call" => NodeOf[p.client] = b

ChanOk(l, ap, ch) ==
    \A a, b \in Node : \A i \in DOMAIN ch[a][b] : PacketOk(l, ap, ch[a][b][i], b)
ParkedOk(l, ap, df) ==
    \A b \in Node : \A i \in DOMAIN df[b] : PacketOk(l, ap, df[b][i].pkt, b)

\* Every packet is right, and the role is in one place at most.
QueuesOk(l, ap, ch, df) ==
    /\ ChanOk(l, ap, ch)
    /\ ParkedOk(l, ap, df)
    /\ AtMostOneToken(ch, df)
    /\ NoTokens(ch, df) \/ NobodyIsDmaster(l)

\* The node that believes to be dmaster is the one the lmaster names, which is
\* another node, and its copy is the latest.
HomeOk ==
    \A k \in Key :
        /\ Chosen(lt, k) # Lmaster[k]
        /\ \A n \in Node : lt[n][k].dmaster = n =>
              n = Chosen(lt, k) /\ lt[n][k].data = applied[k]

\* A daemon makes calls for its own clients only.
CallsOk ==
    \A n \in Node, r \in ReqId : calls[n][r] # None => NodeOf[calls[n][r].client] = n

\* The places of a client between lock and unlock.
Locking == {"locked", "held", "stored"}

\* What client c relies on between lock and unlock.
ClientOk(c) ==
    LET n == NodeOf[c]
        k == cl[c].key
    IN /\ cl[c].pc \in Locking => lock[n][k] = c
       /\ cl[c].pc \in {"held", "stored"} => lt[n][k].dmaster = n
       /\ cl[c].pc = "held" => cl[c].got = lt[n][k]

\* A client between lock and unlock has the chain lock; with a handle it is on
\* the dmaster, and until it stores, its copy is the tdb's: no daemon and no
\* other client of its node touches the record (ctdb_ltdb.c: the daemon "will
\* not block waiting for a chainlock held by a client", it defers the packet).
ClientsOk == \A c \in Client : ClientOk(c)

\* The inductive invariant: the role is never in two places (ctdb_call.c,
\* ctdb_call_send_dmaster to ctdb_reply_dmaster), whatever is lost or late.
RoleInv ==
    QueuesOk(lt, applied, chan, deferred) /\ HomeOk /\ CallsOk /\ ClientsOk
-----------------------------------------------------------------------------
(* Clusters in which nothing fails: the invariant behind the refinement, for  *)
(* any number of records.  Every outstanding call is in exactly one packet,   *)
(* and so is the role of every record that has no dmaster.                    *)

\* No client exits, no call times out and no packet is lost.
NothingFails == Mortal = {} /\ MaxTimeouts = 0 /\ MaxLosses = 0

\* A packet with the node that has to handle it, and those on the way in ch and
\* parked in df.
Delivery == (Packet \cup ClientCall) \X Node
OnTheWay(ch, df) ==
    (UNION {UNION {{<<ch[a][b][i], b>> : i \in DOMAIN ch[a][b]} : b \in Node} : a \in Node})
      \cup (UNION {{<<df[b][i].pkt, b>> : i \in DOMAIN df[b]} : b \in Node})

\* The only packet of T in the queues is the i-th from a to b, or is the i-th
\* of those parked on b, or there is none.
OnlyQueued(T, ch, a, b, i) ==
    \A x, y \in Node : \A j \in DOMAIN ch[x][y] :
        <<ch[x][y][j], y>> \in T => x = a /\ y = b /\ j = i
OnlyOneParked(T, df, b, i) ==
    \A y \in Node : \A j \in DOMAIN df[y] : <<df[y][j].pkt, y>> \in T => y = b /\ j = i
NoneOfParked(T, df) == \A y \in Node : \A j \in DOMAIN df[y] : <<df[y][j].pkt, y>> \notin T

\* At most one packet is one of T; some packet is.
AtMostOne(T, ch, df) ==
    /\ \A a, b \in Node : \A i \in DOMAIN ch[a][b] :
          <<ch[a][b][i], b>> \in T => OnlyQueued(T, ch, a, b, i) /\ NoneOfParked(T, df)
    /\ \A b \in Node : \A i \in DOMAIN df[b] :
          <<df[b][i].pkt, b>> \in T => OnlyOneParked(T, df, b, i)
Present(T, ch, df) == \E d \in OnTheWay(ch, df) : d \in T

\* The node whose call a packet for node b is about, and that call.
CallerOf(p, b) ==
    IF p.op = "req_call" THEN p.src ELSE IF p.op = "req_dmaster" THEN p.dmaster ELSE b
CallOf(cs, p, b) == cs[CallerOf(p, b)][p.reqid]

\* What is about call r of node n, what asks the daemon for a call of client c,
\* and what carries the role of record k, where cs are the calls.
About(n, r) ==
    {d \in Delivery : d[1].op # "client_call" /\ CallerOf(d[1], d[2]) = n /\ d[1].reqid = r}
Asking(c) == {d \in Delivery : d[1].op = "client_call" /\ d[1].client = c}
Carrying(cs, k) ==
    {d \in Delivery : /\ Token(d[1])
                      /\ CallOf(cs, d[1], d[2]) # None /\ CallOf(cs, d[1], d[2]).key = k}

\* A packet for node b agrees with the call that it is about, and if it carries
\* a role, with the lmaster's tdb and the updates performed.
Agrees(l, ap, cs, p, b) ==
    LET s == CallOf(cs, p, b) IN
    p.op # "client_call" =>
        /\ s # None
        /\ p.op = "req_call" => p.key = s.key /\ p.func = s.func /\ p.imm = s.imm
        /\ p.op = "req_dmaster" => p.key = s.key /\ b = Lmaster[p.key] /\ p.src = Chosen(l, p.key)
        /\ p.op = "reply_dmaster" => b = Chosen(l, s.key)
        /\ Token(p) => p.data = ap[s.key]
AllAgree(l, ap, cs, ch, df) == \A d \in OnTheWay(ch, df) : Agrees(l, ap, cs, d[1], d[2])

\* Call s of node n is the one its client, cs[c] for client c, is waiting for.
Serves(cs, s, n) ==
    LET c == s.client IN
    /\ NodeOf[c] = n /\ cs[c].pc = "wait" /\ cs[c].key = s.key
    /\ s.func = IF cs[c].op = "incr" THEN "incr" ELSE "null"
    /\ s.imm <=> cs[c].op = "migrate"

\* Every call is in one packet, and no packet is about any other.
CallsCarried ==
    \A n \in Node, r \in ReqId :
        /\ AtMostOne(About(n, r), chan, deferred)
        /\ calls[n][r] # None <=> Present(About(n, r), chan, deferred)

\* A client that waits for its daemon has one call or one parked request.
HasCall(c) == \E r \in ReqId : calls[NodeOf[c]][r] # None /\ calls[NodeOf[c]][r].client = c
ClientServed(c) ==
    /\ AtMostOne(Asking(c), chan, deferred)
    /\ Present(Asking(c), chan, deferred) => cl[c].pc = "wait" /\ ~ HasCall(c)
    /\ cl[c].pc = "wait" => Present(Asking(c), chan, deferred) \/ HasCall(c)
    /\ cl[c].pc # "exited"
CallsServe == \A n \in Node, r \in ReqId : calls[n][r] # None => Serves(cl, calls[n][r], n)
OneCallEach ==
    \A n \in Node, q, r \in ReqId :
        calls[n][q] # None /\ calls[n][r] # None /\ calls[n][q].client = calls[n][r].client => q = r
WaitersServed == CallsServe /\ OneCallEach /\ \A c \in Client : ClientServed(c)

\* The role of a record is in one packet, or with one node that the lmaster
\* names and that has the latest body.
RoleCarried(k) ==
    /\ Chosen(lt, k) # Lmaster[k]
    /\ AtMostOne(Carrying(calls, k), chan, deferred)
    /\ (\E n \in Node : lt[n][k].dmaster = n) <=> ~ Present(Carrying(calls, k), chan, deferred)
    /\ \A n \in Node : lt[n][k].dmaster = n => n = Chosen(lt, k) /\ lt[n][k].data = applied[k]
RolesCarried == \A k \in Key : RoleCarried(k)

\* Only what needs a chain lock is parked, and a client's request on its node.
ParkedRight(df) ==
    \A n \in Node : \A i \in DOMAIN df[n] :
        LET p == df[n][i].pkt
        IN  p.op # "reply_call" /\ (p.op = "client_call" => NodeOf[p.client] = n)

\* Every outstanding call and every role on its way is in exactly one packet
\* (ctdb_call.c), which says what is true, and every client that waits has
\* exactly one call or parked request (ctdb_daemon.c): no handler, parked or
\* not, answers a call twice, forgets it or runs it for somebody else.
CallInv ==
    /\ AllAgree(lt, applied, calls, chan, deferred)
    /\ CallsCarried /\ WaitersServed /\ RolesCarried /\ ParkedRight(deferred)
    /\ ClientsOk
    /\ \A n \in Node : up[n]

\* Only what ctdb_call sends reaches the daemon: no client waits in the middle
\* of ctdb_fetch_lock itself.
CallersCall ==
    \A c \in Client : cl[c].pc \in {"sent", "wait", "replied"} => cl[c].op # "fetch"
=============================================================================
