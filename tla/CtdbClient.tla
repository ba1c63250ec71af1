----------------------------- MODULE CtdbClient -----------------------------
(***************************************************************************)
(* The client side of CTDB: ctdb_fetch_lock, ctdb_record_store and         *)
(* ctdb_call of ctdb_client.c in the client process, and the part of       *)
(* ctdb_daemon.c that takes a call from a client's unix socket.  A client  *)
(* opens the local tdb itself, so it runs functions and stores records     *)
(* without the daemon whenever its node is the dmaster; the chain lock is  *)
(* all that orders it with the daemon.                                     *)
(***************************************************************************)
EXTENDS CtdbCall

\* The function and the flags of the ctdb_call a client is making.
FuncOf(c) == IF cl[c].op = "incr" THEN "incr" ELSE "null"
Immediate(c) == cl[c].op = "migrate"

\* ctdb_ltdb_unlock by client c, which goes on at pc with operation op.
UnlockAndGo(c, pc, op) ==
    /\ lock' = [lock EXCEPT ![NodeOf[c]][cl[c].key] = None]
    /\ cl' = [cl EXCEPT ![c].pc = pc, ![c].op = op]

\* The operation is over: the client holds nothing.
UnlockAndRest(c) ==
    /\ lock' = [lock EXCEPT ![NodeOf[c]][cl[c].key] = None]
    /\ cl' = [cl EXCEPT ![c] = Resting(c, "idle", @.left)]

-----------------------------------------------------------------------------
(* The client process *)

\* The application calls ctdb_fetch_lock or ctdb_call on a record.
ClientStart(c, op, k) ==
    /\ cl[c].pc = "idle"
    /\ cl[c].left > 0
    /\ cl' = [cl EXCEPT ![c] = [pc |-> "lock", op |-> op, key |-> k, got |-> NoRecord(c),
                                left |-> @.left - 1]]
    /\ UNCHANGED <<lt, lock, chan, deferred, calls, up, applied, timeouts, losses>>

\* ctdb_ltdb_lock: the blocking chain lock of ctdb_fetch_lock and ctdb_call_send.
ClientLock(c) ==
    /\ cl[c].pc = "lock"
    /\ lock[NodeOf[c]][cl[c].key] = None
    /\ lock' = [lock EXCEPT ![NodeOf[c]][cl[c].key] = c]
    /\ cl' = [cl EXCEPT ![c].pc = "locked"]
    /\ UNCHANGED <<lt, chan, deferred, calls, up, applied, timeouts, losses>>

\* ctdb_fetch_lock on the dmaster: return the handle, keep the lock.
FetchHere(c) ==
    /\ cl[c].pc = "locked"
    /\ cl[c].op = "fetch"
    /\ lt[NodeOf[c]][cl[c].key].dmaster = NodeOf[c]
    /\ cl' = [cl EXCEPT ![c].pc = "held", ![c].got = lt[NodeOf[c]][cl[c].key]]
    /\ UNCHANGED <<lt, lock, chan, deferred, calls, up, applied, timeouts, losses>>

\* ctdb_fetch_lock elsewhere: unlock and enter ctdb_client_force_migration,
\* whose ctdb_call takes the lock again.
FetchElsewhere(c) ==
    /\ cl[c].pc = "locked"
    /\ cl[c].op = "fetch"
    /\ lt[NodeOf[c]][cl[c].key].dmaster # NodeOf[c]
    /\ UnlockAndGo(c, "lock", "migrate")
    /\ UNCHANGED <<lt, chan, deferred, calls, up, applied, timeouts, losses>>

\* After ctdb_call returned: ctdb_fetch_lock tries again, a plain call is over.
CallReturned(c) ==
    IF cl[c].op = "migrate"
    THEN [cl EXCEPT ![c].pc = "lock", ![c].op = "fetch"]
    ELSE [cl EXCEPT ![c] = Resting(c, "idle", @.left)]

\* ctdb_call_send on the dmaster: ctdb_client_call_local_send.
ClientCallLocal(c) ==
    LET n == NodeOf[c]
        k == cl[c].key
    IN
    /\ cl[c].pc = "locked"
    /\ cl[c].op # "fetch"
    /\ lt[n][k].dmaster = n
    /\ ctdb_ltdb_store(n, k, ctdb_call_local(n, lt[n][k], lt[n][k], FuncOf(c), n))
    /\ Perform(FuncOf(c), k)
    /\ lock' = [lock EXCEPT ![n][k] = None]
    /\ cl' = CallReturned(c)
    /\ UNCHANGED <<chan, deferred, calls, up, timeouts, losses>>

\* ctdb_call_send elsewhere: unlock and write the request to the daemon.
ClientCallDaemon(c) ==
    /\ cl[c].pc = "locked"
    /\ cl[c].op # "fetch"
    /\ lt[NodeOf[c]][cl[c].key].dmaster # NodeOf[c]
    /\ UnlockAndGo(c, "sent", cl[c].op)
    /\ UNCHANGED <<lt, chan, deferred, calls, up, applied, timeouts, losses>>

\* ctdb_client_reply_call and the end of ctdb_call_recv.
ClientReply(c) ==
    /\ cl[c].pc = "replied"
    /\ cl' = CallReturned(c)
    /\ UNCHANGED <<lt, lock, chan, deferred, calls, up, applied, timeouts, losses>>

\* ctdb_record_store: the header of the handle with the new body.
ctdb_record_store(c) ==
    /\ cl[c].pc = "held"
    /\ ctdb_ltdb_store(NodeOf[c], cl[c].key, [cl[c].got EXCEPT !.data = @ + 1])
    /\ applied' = [applied EXCEPT ![cl[c].key] = @ + 1]
    /\ cl' = [cl EXCEPT ![c].pc = "stored"]
    /\ UNCHANGED <<lock, chan, deferred, calls, up, timeouts, losses>>

\* fetch_lock_destructor: the handle is freed, stored or not.
ClientRelease(c) ==
    /\ cl[c].pc \in {"held", "stored"}
    /\ UnlockAndRest(c)
    /\ UNCHANGED <<lt, chan, deferred, calls, up, applied, timeouts, losses>>

\* The process exits: the kernel drops its chain lock and closes its socket.
\* ctdb_daemon_read_cb then frees the client and with it the client's calls,
\* but not a parked request, which belongs to the database.
ClientExit(c) ==
    LET n == NodeOf[c] IN
    /\ c \in Mortal
    /\ cl[c].pc \notin {"sent", "exited"}
    /\ cl' = [cl EXCEPT ![c] = Resting(c, "exited", 0)]
    /\ lock' = [lock EXCEPT ![n] = [k \in Key |-> IF @[k] = c THEN None ELSE @[k]]]
    /\ calls' = [calls EXCEPT ![n] =
                    [r \in ReqId |-> IF @[r] # None /\ @[r].client = c THEN None ELSE @[r]]]
    /\ UNCHANGED <<lt, chan, deferred, up, applied, timeouts, losses>>

\* ctdb_client_read_cb: "Daemon has exited - shutting down client".
ClientDaemonGone(c) ==
    /\ ~ up[NodeOf[c]]
    /\ cl[c].pc \in {"sent", "wait"}
    /\ cl' = [cl EXCEPT ![c] = Resting(c, "exited", 0)]
    /\ UNCHANGED <<lt, lock, chan, deferred, calls, up, applied, timeouts, losses>>

-----------------------------------------------------------------------------
(* The daemon takes a call from a client *)

\* daemon_request_call_from_client on the dmaster: ctdb_call_local_send, whose
\* zero-timed trigger queues the reply.
DaemonCallLocal(n, c, df) ==
    LET k == cl[c].key IN
    /\ lt[n][k].dmaster = n
    /\ ctdb_ltdb_store(n, k, ctdb_call_local(n, lt[n][k], lt[n][k], FuncOf(c), n))
    /\ Perform(FuncOf(c), k)
    /\ cl' = [cl EXCEPT ![c].pc = "replied"]
    /\ deferred' = df
    /\ UNCHANGED <<lock, chan, calls, up, timeouts, losses>>

\* ctdb_daemon_call_send_remote: idr_get_new hands out the lowest free id.
ctdb_daemon_call_send_remote(n, c, df) ==
    LET k == cl[c].key IN
    /\ lt[n][k].dmaster # n
    /\ \E r \in ReqId :
          /\ calls[n][r] = None
          /\ \A q \in ReqId : q < r => calls[n][q] # None
          /\ calls' = [calls EXCEPT ![n][r] =
                [client |-> c, key |-> k, func |-> FuncOf(c), imm |-> Immediate(c),
                 laccessor |-> lt[n][k].laccessor, lacount |-> lt[n][k].lacount,
                 redirects |-> 0]]
          /\ chan' = ctdb_queue_packet(chan, n, lt[n][k].dmaster,
                [op |-> "req_call", src |-> n, reqid |-> r, key |-> k,
                 func |-> FuncOf(c), imm |-> Immediate(c)])
    /\ cl' = [cl EXCEPT ![c].pc = "wait"]
    /\ deferred' = df
    /\ UNCHANGED <<lt, lock, up, applied, timeouts, losses>>

daemon_request_call_from_client(n, c, df) ==
    /\ TryLock(n, cl[c].key)
    /\ \/ DaemonCallLocal(n, c, df)
       \/ ctdb_daemon_call_send_remote(n, c, df)

\* The daemon reads the request off the client's socket.
TakeCall(c) ==
    /\ up[NodeOf[c]]
    /\ cl[c].pc = "sent"
    /\ daemon_request_call_from_client(NodeOf[c], c, deferred)

\* The same on the contended path: the request is parked.
DeferCall(c) ==
    LET n == NodeOf[c] IN
    /\ up[n]
    /\ cl[c].pc = "sent"
    /\ Contended(n, cl[c].key)
    /\ deferred' = [deferred EXCEPT ![n] =
          Append(@, [key |-> cl[c].key, pkt |-> [op |-> "client_call", client |-> c]])]
    /\ cl' = [cl EXCEPT ![c].pc = "wait"]
    /\ UNCHANGED <<lt, lock, chan, calls, up, applied, timeouts, losses>>

\* lock_fetch_callback for a request of a client that is still there.
RetryCall(n, i) ==
    /\ up[n]
    /\ deferred[n][i].pkt.op = "client_call"
    /\ cl[deferred[n][i].pkt.client].pc # "exited"
    /\ daemon_request_call_from_client(n, deferred[n][i].pkt.client,
          [deferred EXCEPT ![n] = RemoveAt(@, i)])

\* The same for a client that was freed: lock_fetch_state still points to its
\* struct ctdb_client, and daemon_incoming_packet's talloc_get_type on it ends
\* the daemon (talloc's use-after-free abort or a NULL client).
RetryDeadCall(n, i) ==
    /\ up[n]
    /\ deferred[n][i].pkt.op = "client_call"
    /\ cl[deferred[n][i].pkt.client].pc = "exited"
    /\ lock[n][deferred[n][i].key] = None
    /\ up' = [up EXCEPT ![n] = FALSE]
    /\ deferred' = [deferred EXCEPT ![n] = RemoveAt(@, i)]
    /\ UNCHANGED <<lt, lock, chan, calls, cl, applied, timeouts, losses>>
=============================================================================
