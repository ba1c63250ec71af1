------------------------------ MODULE CtdbCall ------------------------------
(***************************************************************************)
(* The daemon's side of the CTDB call protocol: the local tdb operations   *)
(* of ctdb_ltdb.c, the packet handlers of ctdb_call.c and the dispatch in  *)
(* ctdb.c.  A handler is given its packet p and the channels and parked    *)
(* packets (ch, df) that are left once p is taken out of wherever it was,  *)
(* so that the same handler serves a packet from the transport, from the   *)
(* queue of self-addressed packets and from a lockwait child.              *)
(***************************************************************************)
EXTENDS CtdbBase, SequencesExt

-----------------------------------------------------------------------------
(* ctdb_queue_packet: to another node through the transport, to ourselves    *)
(* through ctdb_defer_packet.  Either way the packet is last in its queue.   *)
ctdb_queue_packet(ch, n, dest, p) == [ch EXCEPT ![n][dest] = Append(@, p)]

\* ctdb_ltdb_store
ctdb_ltdb_store(n, k, rec) == lt' = [lt EXCEPT ![n][k] = rec]

\* Mutant of TryLock: the daemon does not take the chain lock.
NoLock(n, k) == n \in Node /\ k \in Key

\* The daemon only ever tries the chain lock of k on node n and gives it back
\* before the handler returns, so it is a condition and not a state.
TryLock(n, k) == lock[n][k] = None

\* tdb_chainlock_nonblock can fail: a client holds the lock, or a lockwait
\* child is just passing through it.
Contended(n, k) == lock[n][k] # None \/ \E i \in DOMAIN deferred[n] : deferred[n][i].key = k

\* What the registered function leaves in the record, and its effect on the
\* count of performed updates.
NewData(func, data) == IF func = "incr" THEN data + 1 ELSE data
Perform(func, k) ==
    applied' = IF func = "incr" THEN [applied EXCEPT ![k] = @ + 1] ELSE applied

\* ctdb_call_local on node n: the record that its tdb holds afterwards, when
\* rec is the header and body the caller passes and stored what the tdb holds.
ctdb_call_local(n, rec, stored, func, caller) ==
    IF func = "null" /\ caller = n
    THEN stored
    ELSE [rec EXCEPT !.laccessor = caller,
                     !.lacount = IF rec.laccessor # caller THEN 1 ELSE @ + 1,
                     !.data = NewData(func, @)]

\* ctdb_daemon_call_recv and daemon_call_from_client_callback for a call that
\* succeeded: the call state is freed and the reply is queued for the client.
CompleteCall(n, r) ==
    /\ calls' = [calls EXCEPT ![n][r] = None]
    /\ cl' = [cl EXCEPT ![calls[n][r].client].pc = "replied"]

-----------------------------------------------------------------------------
(* The packet handlers *)

\* ctdb_call_send_redirect: this node is not the dmaster.
ctdb_call_send_redirect(n, p, ch) ==
    /\ lt[n][p.key].dmaster # n
    /\ chan' = ctdb_queue_packet(ch, n, p.src,
                  [op |-> "reply_redirect", reqid |-> p.reqid,
                   dmaster |-> lt[n][p.key].dmaster])
    /\ UNCHANGED <<lt, applied>>

\* The caller used the record often enough, or asked for it.
Migrates(n, p) ==
    \/ lt[n][p.key].laccessor = p.src /\ lt[n][p.key].lacount >= MaxLacount
    \/ p.imm

\* Mutant of ctdb_call_send_dmaster: header->dmaster is not updated.
KeepsRole(n, p, ch) ==
    /\ lt[n][p.key].dmaster = n
    /\ Migrates(n, p)
    /\ chan' = ctdb_queue_packet(ch, n, Lmaster[p.key],
                  [op |-> "req_dmaster", src |-> n, reqid |-> p.reqid, key |-> p.key,
                   dmaster |-> p.src, data |-> lt[n][p.key].data])
    /\ UNCHANGED <<lt, applied>>

\* Mutant of ctdb_call_send_dmaster: the function runs here before the record
\* migrates, and once more on the new dmaster.
RunsAndGives(n, p, ch) ==
    LET rec == lt[n][p.key]
        new == NewData(p.func, rec.data)
    IN
    /\ rec.dmaster = n
    /\ Migrates(n, p)
    /\ ctdb_ltdb_store(n, p.key, [rec EXCEPT !.dmaster = Lmaster[p.key], !.data = new])
    /\ Perform(p.func, p.key)
    /\ chan' = ctdb_queue_packet(ch, n, Lmaster[p.key],
                  [op |-> "req_dmaster", src |-> n, reqid |-> p.reqid, key |-> p.key,
                   dmaster |-> p.src, data |-> new])

\* Mutant of ctdb_call_send_dmaster: the packet keeps the caller as its source.
SendsForCaller(n, p, ch) ==
    LET rec == lt[n][p.key] IN
    /\ rec.dmaster = n
    /\ Migrates(n, p)
    /\ ctdb_ltdb_store(n, p.key, [rec EXCEPT !.dmaster = Lmaster[p.key]])
    /\ chan' = ctdb_queue_packet(ch, n, Lmaster[p.key],
                  [op |-> "req_dmaster", src |-> p.src, reqid |-> p.reqid, key |-> p.key,
                   dmaster |-> p.src, data |-> rec.data])
    /\ UNCHANGED applied

\* ctdb_call_send_dmaster: give the role and the body back to the lmaster.
ctdb_call_send_dmaster(n, p, ch) ==
    LET rec == lt[n][p.key] IN
    /\ rec.dmaster = n
    /\ Migrates(n, p)
    /\ ctdb_ltdb_store(n, p.key, [rec EXCEPT !.dmaster = Lmaster[p.key]])
    /\ chan' = ctdb_queue_packet(ch, n, Lmaster[p.key],
                  [op |-> "req_dmaster", src |-> n, reqid |-> p.reqid, key |-> p.key,
                   dmaster |-> p.src, data |-> rec.data])
    /\ UNCHANGED applied

\* The rest of ctdb_request_call: run the function here.
CallHere(n, p, ch) ==
    LET rec == lt[n][p.key] IN
    /\ rec.dmaster = n
    /\ ~ Migrates(n, p)
    /\ ctdb_ltdb_store(n, p.key, ctdb_call_local(n, rec, rec, p.func, p.src))
    /\ Perform(p.func, p.key)
    /\ chan' = ctdb_queue_packet(ch, n, p.src, [op |-> "reply_call", reqid |-> p.reqid])

ctdb_request_call(n, p, ch, df) ==
    /\ p.op = "req_call"
    /\ TryLock(n, p.key)
    /\ \/ ctdb_call_send_redirect(n, p, ch)
       \/ ctdb_call_send_dmaster(n, p, ch)
       \/ CallHere(n, p, ch)
    /\ deferred' = df
    /\ UNCHANGED <<lock, calls, cl, up, timeouts, losses>>

\* ctdb_request_dmaster, on the lmaster: "its a protocol error if the sending
\* node is not the current dmaster", unless it is the lmaster itself.
ProtocolError(n, p) == lt[n][p.key].dmaster # p.src /\ p.src # Lmaster[p.key]

\* Mutant of ctdb_request_dmaster: the lmaster stores the body and forgets
\* the new dmaster.
LmasterForgets(n, p, ch, df) ==
    /\ p.op = "req_dmaster"
    /\ TryLock(n, p.key)
    /\ ~ ProtocolError(n, p)
    /\ ctdb_ltdb_store(n, p.key, [lt[n][p.key] EXCEPT !.data = p.data])
    /\ chan' = ctdb_queue_packet(ch, n, p.dmaster,
                  [op |-> "reply_dmaster", reqid |-> p.reqid, data |-> p.data])
    /\ deferred' = df
    /\ UNCHANGED <<lock, calls, cl, up, applied, timeouts, losses>>

\* Mutant of ctdb_request_dmaster: the reply carries the lmaster's own copy
\* (data2 in place of data).
SendsOldCopy(n, p, ch, df) ==
    /\ p.op = "req_dmaster"
    /\ TryLock(n, p.key)
    /\ ~ ProtocolError(n, p)
    /\ ctdb_ltdb_store(n, p.key, [lt[n][p.key] EXCEPT !.dmaster = p.dmaster, !.data = p.data])
    /\ chan' = ctdb_queue_packet(ch, n, p.dmaster,
                  [op |-> "reply_dmaster", reqid |-> p.reqid, data |-> lt[n][p.key].data])
    /\ deferred' = df
    /\ UNCHANGED <<lock, calls, cl, up, applied, timeouts, losses>>

ctdb_request_dmaster(n, p, ch, df) ==
    /\ p.op = "req_dmaster"
    /\ TryLock(n, p.key)
    /\ ~ ProtocolError(n, p)
    /\ ctdb_ltdb_store(n, p.key, [lt[n][p.key] EXCEPT !.dmaster = p.dmaster, !.data = p.data])
    /\ chan' = ctdb_queue_packet(ch, n, p.dmaster,
                  [op |-> "reply_dmaster", reqid |-> p.reqid, data |-> p.data])
    /\ deferred' = df
    /\ UNCHANGED <<lock, calls, cl, up, applied, timeouts, losses>>

\* ctdb_fatal in ctdb_request_dmaster aborts the daemon.
DmasterRequestFatal(n, p, ch, df) ==
    /\ p.op = "req_dmaster"
    /\ TryLock(n, p.key)
    /\ ProtocolError(n, p)
    /\ up' = [up EXCEPT ![n] = FALSE]
    /\ chan' = ch
    /\ deferred' = df
    /\ UNCHANGED <<lt, lock, calls, cl, applied, timeouts, losses>>

\* ctdb_reply_dmaster: the packet names a request, the key comes from the call.
ctdb_reply_dmaster(n, p, ch, df) ==
    /\ p.op = "reply_dmaster"
    /\ calls[n][p.reqid] # None
    /\ LET s == calls[n][p.reqid]
           rec == [dmaster |-> n, laccessor |-> s.laccessor, lacount |-> s.lacount,
                   data |-> p.data]
       IN /\ TryLock(n, s.key)
          /\ ctdb_ltdb_store(n, s.key, ctdb_call_local(n, rec, rec, s.func, n))
          /\ Perform(s.func, s.key)
    /\ CompleteCall(n, p.reqid)
    /\ chan' = ch
    /\ deferred' = df
    /\ UNCHANGED <<lock, up, timeouts, losses>>

\* ctdb_reply_call
ctdb_reply_call(n, p, ch, df) ==
    /\ p.op = "reply_call"
    /\ calls[n][p.reqid] # None
    /\ CompleteCall(n, p.reqid)
    /\ chan' = ch
    /\ deferred' = df
    /\ UNCHANGED <<lt, lock, up, applied, timeouts, losses>>

\* Mutant of ctdb_reply_redirect: every redirect counts twice, so that the
\* count jumps over CTDB_MAX_REDIRECT.
CountsTwice(n, p, ch, df) ==
    /\ p.op = "reply_redirect"
    /\ calls[n][p.reqid] # None
    /\ LET s == calls[n][p.reqid] IN
          /\ calls' = [calls EXCEPT ![n][p.reqid].redirects = @ + 2]
          /\ chan' = ctdb_queue_packet(ch, n, p.dmaster,
                        [op |-> "req_call", src |-> n, reqid |-> p.reqid, key |-> s.key,
                         func |-> s.func, imm |-> s.imm])
    /\ deferred' = df
    /\ UNCHANGED <<lt, lock, cl, up, applied, timeouts, losses>>

\* ctdb_reply_redirect: try the node the hint names, and the lmaster once the
\* count of redirects equals CTDB_MAX_REDIRECT.
ctdb_reply_redirect(n, p, ch, df) ==
    /\ p.op = "reply_redirect"
    /\ calls[n][p.reqid] # None
    /\ LET s == calls[n][p.reqid]
           next == IF s.redirects = MaxRedirect THEN Lmaster[s.key] ELSE p.dmaster
       IN /\ calls' = [calls EXCEPT ![n][p.reqid].redirects =
                          IF @ > MaxRedirect THEN @ ELSE @ + 1]
          /\ chan' = ctdb_queue_packet(ch, n, next,
                        [op |-> "req_call", src |-> n, reqid |-> p.reqid, key |-> s.key,
                         func |-> s.func, imm |-> s.imm])
    /\ deferred' = df
    /\ UNCHANGED <<lt, lock, cl, up, applied, timeouts, losses>>

\* A reply whose request id is no longer known is dropped by all three handlers.
UnknownReply(n, p, ch, df) ==
    /\ p.op \in {"reply_call", "reply_redirect", "reply_dmaster"}
    /\ calls[n][p.reqid] = None
    /\ chan' = ch
    /\ deferred' = df
    /\ UNCHANGED <<lt, lock, calls, cl, up, applied, timeouts, losses>>

\* The switch of ctdb_recv_pkt, for a packet whose chain lock can be had.
ctdb_recv_pkt(n, p, ch, df) ==
    \/ ctdb_request_call(n, p, ch, df)
    \/ ctdb_request_dmaster(n, p, ch, df)
    \/ DmasterRequestFatal(n, p, ch, df)
    \/ ctdb_reply_dmaster(n, p, ch, df)
    \/ ctdb_reply_call(n, p, ch, df)
    \/ ctdb_reply_redirect(n, p, ch, df)
    \/ UnknownReply(n, p, ch, df)

-----------------------------------------------------------------------------
(* Steps of a daemon *)

\* The next packet of the connection from node m (or of the own queue).
RecvPacket(m, n) ==
    /\ up[n]
    /\ chan[m][n] # <<>>
    /\ ctdb_recv_pkt(n, Head(chan[m][n]), [chan EXCEPT ![m][n] = Tail(@)], deferred)

\* The chain lock a packet needs; replies that need none have no key.
NeedsLock(n, p) ==
    \/ p.op \in {"req_call", "req_dmaster"}
    \/ p.op = "reply_dmaster" /\ calls[n][p.reqid] # None
KeyOf(n, p) == IF p.op = "reply_dmaster" THEN calls[n][p.reqid].key ELSE p.key

\* Mutant of DeferPacket: no lockwait child is started for the packet.
DropsPacket(m, n) ==
    /\ up[n]
    /\ chan[m][n] # <<>>
    /\ LET p == Head(chan[m][n]) IN NeedsLock(n, p) /\ Contended(n, KeyOf(n, p))
    /\ chan' = [chan EXCEPT ![m][n] = Tail(@)]
    /\ UNCHANGED <<lt, lock, deferred, calls, cl, up, applied, timeouts, losses>>

\* ctdb_ltdb_lock_requeue on the contended path: the packet waits with a
\* lockwait child and is handled again from the start.
DeferPacket(m, n) ==
    /\ up[n]
    /\ chan[m][n] # <<>>
    /\ LET p == Head(chan[m][n]) IN
          /\ NeedsLock(n, p)
          /\ Contended(n, KeyOf(n, p))
          /\ deferred' = [deferred EXCEPT ![n] = Append(@, [key |-> KeyOf(n, p), pkt |-> p])]
    /\ chan' = [chan EXCEPT ![m][n] = Tail(@)]
    /\ UNCHANGED <<lt, lock, calls, cl, up, applied, timeouts, losses>>

\* lock_fetch_callback: the lockwait child of entry i had the lock and exited.
\* If a client takes the lock before the daemon does, the packet is parked
\* once more, which changes nothing here.
RetryPacket(n, i) ==
    /\ up[n]
    /\ deferred[n][i].pkt.op # "client_call"
    /\ lock[n][deferred[n][i].key] = None
    /\ ctdb_recv_pkt(n, deferred[n][i].pkt, chan, [deferred EXCEPT ![n] = RemoveAt(@, i)])

\* ctdb_call_timeout: the call fails, its state and id are freed, and
\* daemon_call_from_client_callback sends the client no reply.
ctdb_call_timeout(n, r) ==
    /\ up[n]
    /\ timeouts < MaxTimeouts
    /\ calls[n][r] # None
    /\ calls' = [calls EXCEPT ![n][r] = None]
    /\ timeouts' = timeouts + 1
    /\ UNCHANGED <<lt, lock, chan, deferred, cl, up, applied, losses>>

\* A connection breaks after a packet was written to it and before the other
\* side read it.  ctdb_tcp reconnects, nobody sends the packet again.
LosePacket(n, m) ==
    /\ n # m
    /\ losses < MaxLosses
    /\ chan[n][m] # <<>>
    /\ chan' = [chan EXCEPT ![n][m] = Tail(@)]
    /\ losses' = losses + 1
    /\ UNCHANGED <<lt, lock, deferred, calls, cl, up, applied, timeouts>>
=============================================================================
