------------------------------ MODULE CtdbBase ------------------------------
(***************************************************************************)
(* The state of a CTDB cluster (source4/cluster/ctdb): what each node      *)
(* keeps in its local tdb, the packets between the daemons, the packets    *)
(* parked behind a chain lock, the calls a daemon has outstanding, and     *)
(* what each client process is doing.  The modules CtdbCall and            *)
(* CtdbClient add the operations, Ctdb puts them together.                 *)
(*                                                                         *)
(* A record's body is abstracted to the number of updates it has seen, so  *)
(* that a lost or repeated update is visible.  `applied' is the only       *)
(* history variable: it counts the updates that were really performed.     *)
(***************************************************************************)
EXTENDS Naturals, Sequences

CONSTANTS
    Node,           \* the vnn's of ctdb->nodes
    Key,            \* record keys of one ctdb database
    Client,         \* processes that opened the database through ctdb_client.c
    NodeOf,         \* [Client -> Node]: the node a client runs on
    Wants,          \* [Client -> SUBSET Key]: the records a client uses
    Lmaster,        \* [Key -> Node]: ctdb_hash(key) % num_nodes
    FirstDmaster,   \* [Key -> Node]: the data master in the initial state
    ReqId,          \* ids the idr tree hands out
    ClientOps,      \* [Client -> SUBSET StartOp]: the operations a client starts
    Mortal,         \* the clients that may exit
    MaxLacount,     \* ctdb->max_lacount
    MaxRedirect,    \* CTDB_MAX_REDIRECT
    MaxOps,         \* bound: operations per client
    MaxTimeouts,    \* bound: ctdb_call_timeout events
    MaxLosses,      \* bound: packets lost with a broken connection
    None            \* no client, no call

\* "fetch" is the loop of ctdb_fetch_lock with at most one ctdb_record_store,
\* "get" and "incr" a ctdb_call of a reading and of an updating function.
StartOp == {"fetch", "get", "incr"}

ASSUME ClusterAssumption ==
    /\ NodeOf \in [Client -> Node]
    /\ Wants \in [Client -> SUBSET Key]
    /\ \A c \in Client : Wants[c] # {}
    /\ Lmaster \in [Key -> Node]
    /\ FirstDmaster \in [Key -> Node]
    /\ ClientOps \in [Client -> SUBSET StartOp]
    /\ Mortal \subseteq Client
    /\ None \notin Client
    /\ ReqId \subseteq Nat

ASSUME BoundsAssumption ==
    /\ MaxLacount \in Nat
    /\ MaxRedirect \in Nat
    /\ MaxOps \in Nat
    /\ MaxTimeouts \in Nat
    /\ MaxLosses \in Nat

VARIABLES
    lt,        \* [Node -> [Key -> Record]]: the local tdb of each node
    lock,      \* [Node -> [Key -> client holding the chain lock, or None]]
    chan,      \* chan[n][m]: packets from n to m in order; chan[n][n] is the
               \* queue of zero-timed events that ctdb_defer_packet fills
    deferred,  \* [Node -> Seq(Parked)]: one lockwait child per entry
    calls,     \* [Node -> [ReqId -> CallState or None]]: the daemon's idr
    cl,        \* [Client -> ClientState]
    up,        \* [Node -> BOOLEAN]: FALSE once the daemon aborted
    applied,   \* [Key -> Nat]: updates performed so far (history)
    timeouts,  \* timeouts taken so far
    losses     \* packets lost so far

vars == <<lt, lock, chan, deferred, calls, cl, up, applied, timeouts, losses>>

-----------------------------------------------------------------------------
(* Records, packets, calls and clients *)

\* struct ctdb_ltdb_header (rsn is never changed in this version) and the body.
Record == [dmaster: Node, laccessor: Node, lacount: Nat, data: Nat]

\* The functions a call can name: CTDB_NULL_FUNC and every function that only
\* reads leave c->new_data NULL ("null"); an updating function sets it ("incr").
Func == {"null", "incr"}

\* struct ctdb_req_call: imm is the flag CTDB_IMMEDIATE_MIGRATION.
ReqCall == [op: {"req_call"}, src: Node, reqid: ReqId, key: Key, func: Func,
            imm: BOOLEAN]
\* struct ctdb_reply_call; the status and the reply data are left out.
ReplyCall == [op: {"reply_call"}, reqid: ReqId]
\* struct ctdb_reply_redirect
ReplyRedirect == [op: {"reply_redirect"}, reqid: ReqId, dmaster: Node]
\* struct ctdb_req_dmaster
ReqDmaster == [op: {"req_dmaster"}, src: Node, reqid: ReqId, key: Key,
               dmaster: Node, data: Nat]
\* struct ctdb_reply_dmaster: it names a request id and no key.
ReplyDmaster == [op: {"reply_dmaster"}, reqid: ReqId, data: Nat]

Packet ==
    ReqCall \cup ReplyCall \cup ReplyRedirect \cup ReqDmaster \cup ReplyDmaster

\* A CTDB_REQ_CALL that came over the unix socket of client c.
ClientCall == [op: {"client_call"}, client: Client]

\* struct lock_fetch_state with its lockwait child: a packet waiting for the
\* chain lock of key.
Parked == [key: Key, pkt: Packet \cup ClientCall]

\* struct ctdb_call_state; laccessor and lacount are the rest of state->header.
CallState == [client: Client, key: Key, func: Func, imm: BOOLEAN,
              laccessor: Node, lacount: Nat, redirects: 0..MaxRedirect + 1]

ASSUME NoneAssumption == None \notin CallState

\* What a client is executing: "migrate" is the ctdb_call that
\* ctdb_client_force_migration makes inside a "fetch".
Op == StartOp \cup {"migrate"}

\* Where a client is: waiting for the chain lock, holding it, holding it with
\* a record handle (before and after ctdb_record_store), waiting for the daemon
\* (request unread, request taken, reply unread), gone.
ClientPc == {"idle", "lock", "locked", "held", "stored", "sent", "wait",
             "replied", "exited"}

\* got is the record that ctdb_fetch_lock returned (h->header and *data).
\* left is the number of operations the client may still start.
ClientState == [pc: ClientPc, op: Op, key: Key, got: Record, left: 0..MaxOps]

\* What a client knows that is in no operation: fixed values for key and got,
\* which mean nothing then.
AnyKey(c) == CHOOSE k \in Wants[c] : TRUE
NoRecord(c) == [dmaster |-> NodeOf[c], laccessor |-> NodeOf[c], lacount |-> 0, data |-> 0]
Resting(c, pc, l) ==
    [pc |-> pc, op |-> "fetch", key |-> AnyKey(c), got |-> NoRecord(c), left |-> l]

-----------------------------------------------------------------------------
(* The initial state: ltdb_initial_header for a record that was never         *)
(* fetched, and for FirstDmaster[k] # Lmaster[k] the state an undisturbed     *)
(* migration from the lmaster to that node leaves behind.                     *)
ltdb_initial_header(n, k) ==
    [dmaster   |-> IF n \in {Lmaster[k], FirstDmaster[k]}
                   THEN FirstDmaster[k] ELSE Lmaster[k],
     laccessor |-> Lmaster[k],
     lacount   |-> 0,
     data      |-> 0]

Init ==
    /\ lt = [n \in Node |-> [k \in Key |-> ltdb_initial_header(n, k)]]
    /\ lock = [n \in Node |-> [k \in Key |-> None]]
    /\ chan = [n \in Node |-> [m \in Node |-> <<>>]]
    /\ deferred = [n \in Node |-> <<>>]
    /\ calls = [n \in Node |-> [r \in ReqId |-> None]]
    /\ cl = [c \in Client |-> Resting(c, "idle", MaxOps)]
    /\ up = [n \in Node |-> TRUE]
    /\ applied = [k \in Key |-> 0]
    /\ timeouts = 0
    /\ losses = 0
=============================================================================
