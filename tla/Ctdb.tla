-------------------------------- MODULE Ctdb --------------------------------
(***************************************************************************)
(* A CTDB cluster: daemons, clients and the network together, and what     *)
(* the protocol promises about a record.                                   *)
(***************************************************************************)
EXTENDS CtdbClient

ClientNext(c) ==
    \/ \E op \in ClientOps[c], k \in Wants[c] : ClientStart(c, op, k)
    \/ ClientLock(c)
    \/ FetchHere(c)
    \/ FetchElsewhere(c)
    \/ ClientCallLocal(c)
    \/ ClientCallDaemon(c)
    \/ ClientReply(c)
    \/ ctdb_record_store(c)
    \/ ClientRelease(c)
    \/ ClientExit(c)
    \/ ClientDaemonGone(c)

DaemonNext(n) ==
    \/ \E m \in Node : RecvPacket(m, n) \/ DeferPacket(m, n)
    \/ \E i \in DOMAIN deferred[n] :
          RetryPacket(n, i) \/ RetryCall(n, i) \/ RetryDeadCall(n, i)
    \/ \E r \in ReqId : ctdb_call_timeout(n, r)

Next ==
    \/ \E c \in Client : ClientNext(c) \/ TakeCall(c) \/ DeferCall(c)
    \/ \E n \in Node : DaemonNext(n)
    \/ \E n, m \in Node : LosePacket(n, m)

Spec == Init /\ [][Next]_vars

\* The lockwait child of entry i has waited longest for its chain lock.
Oldest(n, i) == \A j \in DOMAIN deferred[n] : deferred[n][j].key = deferred[n][i].key => i <= j

\* A client process that can run does, an event loop gets round to every
\* connection and every client socket, and the kernel gives a chain lock to
\* the lockwait children in turn.  Nothing is said about starting operations,
\* exits, timeouts and losses.
Fairness ==
    /\ \A c \in Client :
          /\ WF_vars(ClientLock(c))
          /\ WF_vars(FetchHere(c) \/ FetchElsewhere(c) \/ ClientCallLocal(c)
                       \/ ClientCallDaemon(c) \/ ClientReply(c) \/ ClientRelease(c))
          /\ WF_vars(TakeCall(c) \/ DeferCall(c))
    /\ \A n \in Node :
          /\ \A m \in Node : WF_vars(RecvPacket(m, n) \/ DeferPacket(m, n))
          /\ \A k \in Key :
                WF_vars(\E i \in DOMAIN deferred[n] :
                           /\ deferred[n][i].key = k
                           /\ Oldest(n, i)
                           /\ RetryPacket(n, i) \/ RetryCall(n, i) \/ RetryDeadCall(n, i))

FairSpec == Spec /\ Fairness

-----------------------------------------------------------------------------
(* Properties *)

\* Every variable stays in its type, and a client works on its own records.
TypeOK ==
    /\ lt \in [Node -> [Key -> Record]]
    /\ lock \in [Node -> [Key -> Client \cup {None}]]
    /\ chan \in [Node -> [Node -> Seq(Packet)]]
    /\ deferred \in [Node -> Seq(Parked)]
    /\ calls \in [Node -> [ReqId -> CallState \cup {None}]]
    /\ cl \in [Client -> ClientState]
    /\ up \in [Node -> BOOLEAN]
    /\ applied \in [Key -> Nat]
    /\ timeouts \in 0..MaxTimeouts
    /\ losses \in 0..MaxLosses
    /\ \A c \in Client : cl[c].key \in Wants[c]

\* At most one node believes to be the dmaster of a record: the function of a
\* call "will be called on the DMASTER" (ctdb.h), and clients and daemon of
\* that node change the record without asking anybody (ctdb_call.c,
\* ctdb_client.c).
OneDmaster ==
    \A k \in Key : \A n, m \in Node :
        lt[n][k].dmaster = n /\ lt[m][k].dmaster = m => n = m

\* ctdb_call_send_dmaster goes through the lmaster, "which ensures that the
\* lmaster always knows who the dmaster is".
LmasterKnows ==
    \A k \in Key : \A n \in Node :
        lt[n][k].dmaster = n => lt[Lmaster[k]][k].dmaster = n

\* The copy of whoever is dmaster holds every update performed so far, by
\* calls on any node and by stores under ctdb_fetch_lock.
NoLostUpdate ==
    \A k \in Key : \A n \in Node :
        lt[n][k].dmaster = n => lt[n][k].data = applied[k]

\* A client with a record handle runs on the dmaster: the handle of
\* ctdb_fetch_lock excludes every other client of the cluster.
HolderIsDmaster ==
    /\ \A c \in Client : cl[c].pc \in {"held", "stored"} =>
          lt[NodeOf[c]][cl[c].key].dmaster = NodeOf[c]
    /\ \A c, d \in Client :
          /\ cl[c].pc \in {"held", "stored"}
          /\ cl[d].pc \in {"held", "stored"}
          /\ cl[c].key = cl[d].key
          => c = d

\* No daemon aborts: ctdb_request_dmaster never meets its protocol error, and
\* no parked request outlives its client.
NeverFatal == \A n \in Node : up[n]

-----------------------------------------------------------------------------
(* Refinement: seen from the clients the cluster is one record store. *)

\* The copy that counts is the dmaster's; while the role is on its way
\* nobody has one.
ValueOf(k) ==
    IF \E n \in Node : lt[n][k].dmaster = n
    THEN lt[CHOOSE n \in Node : lt[n][k].dmaster = n][k].data
    ELSE applied[k]

HolderOf(k) ==
    IF \E c \in Client : cl[c].key = k /\ cl[c].pc \in {"held", "stored"}
    THEN CHOOSE c \in Client : cl[c].key = k /\ cl[c].pc \in {"held", "stored"}
    ELSE None

\* A reply to the call of client c is on its way to c's daemon.
Answered(c) ==
    \E r \in ReqId, m \in Node :
        LET n == NodeOf[c] IN
        /\ calls[n][r] # None /\ calls[n][r].client = c
        /\ \E i \in DOMAIN chan[m][n] :
              chan[m][n][i].op = "reply_call" /\ chan[m][n][i].reqid = r

\* A "migrate" call is part of a fetch and has no effect of its own.
DoingOf(c) ==
    IF cl[c].pc = "idle" THEN "nothing"
    ELSE IF cl[c].pc \in {"held", "stored"} THEN "hold"
    ELSE IF cl[c].op \in {"fetch", "migrate"} THEN "fetch"
    ELSE IF cl[c].pc = "replied" \/ Answered(c) THEN "done"
    ELSE cl[c].op

SeenBy(c) == IF cl[c].pc \in {"held", "stored"} THEN cl[c].got.data ELSE None

AbstractRecord == INSTANCE CtdbRecord WITH
    value  <- [k \in Key |-> ValueOf(k)],
    holder <- [k \in Key |-> HolderOf(k)],
    doing  <- [c \in Client |-> DoingOf(c)],
    seen   <- [c \in Client |-> SeenBy(c)]

\* Every step of the cluster is a step of the one-copy record store or is
\* invisible to clients: calls of ctdb_call take effect exactly once, on the
\* latest body, and never between a ctdb_fetch_lock and its release.
ImplementsRecord == AbstractRecord!RSpec

-----------------------------------------------------------------------------
Fetching(c) == cl[c].pc # "idle" /\ cl[c].op \in {"fetch", "migrate"}

\* "Blocks until it gets the lock": ctdb_fetch_lock and ctdb_call return, unless
\* from some time on there is always another client that fetches the record.
\* Only fetches starve anyone, and they only starve together.
OperationReturns ==
    \A c \in Client : cl[c].pc = "lock" ~>
        \/ cl[c].pc \in {"held", "idle"}
        \/ [](\E d \in Client \ {c} : Fetching(d))
=============================================================================
