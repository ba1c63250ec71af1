# TLA+ models of Samba 4: shared databases, file locks, messages and WINS

The repository is Samba 4 (`src/source4`): a CIFS/SMB file server, an Active
Directory controller, a WINS/NBT name server and the libraries below them.
This project specifies its concurrent core in TLA+, model-checks it with TLC
on small instances and proves theorems about it with TLAPS.  Six parts are
modelled:

* the clustered database (CTDB);
* the transactions and the crash recovery of the local database below it (tdb);
* byte range locks, with requests that wait;
* opens, share modes and delete on close;
* messages and calls between server processes;
* the WINS server, its database and its replication.

## 1. Inventory

| Component | State | Operations | Interacts with | What is hard | What makes it correct |
|---|---|---|---|---|---|
| **CTDB call protocol** (`cluster/ctdb/common/ctdb_call.c`, `ctdb.c`, `ctdb_ltdb.c`, `ctdb_lockwait.c`) | per node a local tdb with a header per record (dmaster, laccessor, lacount), an id tree of outstanding calls, packets parked behind a chain lock, a queue of packets to itself | REQ_CALL, REPLY_CALL, REPLY_REDIRECT, REQ_DMASTER, REPLY_DMASTER, timeout, defer and retry | other daemons (packets), client processes (chain lock, unix socket) | migration of the role through a third node, stale hints, late replies, lost packets, packets to self | one dmaster per record, its copy is the latest, calls take effect once |
| **CTDB client library** (`ctdb_client.c`, `ctdb_daemon.c`) | record handles, the chain lock, calls waiting for the daemon | `ctdb_call`, `ctdb_fetch_lock`, `ctdb_record_store`, release, exit | the daemon of its node, the local tdb directly | two processes on one tdb, exit in the middle | a handle is exclusive in the cluster, every operation returns |
| CTDB transports (`ctdb_io.c`, `tcp/`, `ib/`) | connections, output queues, partial packets | connect, reconnect, send, receive | CTDB daemon | breaks, reconnects | in-order delivery, no packet mixed with another |
| CTDB messages and cluster glue (`ctdb_message.c`, `ctdb_cluster.c`, `cluster/*.c`) | list of message handlers | register, send, dispatch | messaging | handler of an exited client | a message reaches the process that registered |
| CTDB shutdown and connect barrier (`ctdb_daemon.c`, `ctdb.c`) | num_finished, num_connected | shutdown, finished, connect wait | all daemons | nested event loops, exact comparisons | no daemon leaves early, all leave |
| **tdb transactions and recovery** (`lib/tdb/common/transaction.c`, parts of `lock.c`, `io.c`, `open.c`) | the file and what of it is on the disk, the recovery area, the elements of a transaction, fcntl locks | open, close, lock for reading, transaction start, read, write, expand, cancel, commit, recovery | every database of Samba, other processes on the same file | a crash between any two writes, lost unsynced writes, a crash in the recovery, lock upgrade, nested transactions | after a crash all or nothing; nobody changes the database under a reader |
| tdb records (`lib/tdb/common/tdb.c`, `freelist.c`, `traverse.c`, chain locks of `lock.c`) | hash chains, free list, lock table | fetch, store, delete, traverse, chain locks | every database of Samba | traversal under deletes, lock counts, dead records | no record lost from a chain, no two writers on a chain |
| **Byte range locks** (`ntvfs/common/brlock_tdb.c`, `ntvfs/posix/pvfs_lock.c`, `pvfs_wait.c`) | array of locks per file, pending locks | lock, unlock, close, cancel, retry, time-out | messaging wakes waiters | requests for several ranges, lost wakeups, pending lock of a closed file | no two conflicting locks, requests are all or nothing and answered once |
| **Open files** (`ntvfs/common/opendb_tdb.c`, `ntvfs/posix/pvfs_open.c`, `pvfs_unlink.c`) | share mode entries, pending opens, delete-on-close | open, close, rename, set delete | messaging | names resolved before the record is locked, inode reuse, retry after a sharing violation, delete on last close | no two incompatible opens, entries match handles, the right file is deleted |
| Change notify (`ntvfs/common/notify.c`) | watches by path depth | add, remove, trigger | messaging, inotify | removal of an exited server's watches | an event reaches every watch on its path |
| **Messaging** (`lib/messaging/messaging.c`) | send queue, retry queue, irpc calls | send, retry with back-off, receive, reply | all processes | full sockets, exited receivers, late replies, event loops inside handlers | no message forgotten, order per receiver, every call returns |
| **WINS** (`nbt_server/wins`, `wrepl_server`) | records with state, owner, version id, expiry | register, refresh, release, challenge, replicate, scavenge | WINS partners | replication conflicts, broken pulls, two pull cycles at once, two processes on one database, answers applied to stale records | no member is lost, replication comes to rest, records stay readable |
| Event loop (`lib/events`) | timed, fd and signal events | loop once | everything | nested loops, events freed in handlers | every ready event is served |
| SMB server, process models, LDAP/ldb/dsdb, Kerberos, RPC | sessions, tree connections, directory objects | protocol requests | clients | mostly encoding, or vendored (heimdal) and generated (pidl) code | out of scope here |

The clustered database comes first: it is the part in which several machines
and several processes per machine change one record, and in which a mistake
silently loses file-server state.  tdb transactions come second: every
persistent database of the server relies on them after a crash.  Locks, opens
and messages are where the smbd processes meet, and WINS is where two servers
change the same names at once.

## 2. The system modelled

### CTDB

A CTDB database is a set of records.  Every node keeps a local tdb with a
copy of records it has used.  For a record exactly one node is meant to be the
*data master* (dmaster): it may change its copy without asking.  The *location
master* (lmaster) of a record, chosen by hashing the key, is meant to know who
the dmaster is.

* A call (`ctdb_call`) runs a registered function on the dmaster.  The caller's
  daemon sends `REQ_CALL` to whoever it believes to be dmaster, follows
  `REPLY_REDIRECT` hints, and gets `REPLY_CALL`.
* After `max_lacount` calls from the same node, or when the caller asks for it,
  the dmaster gives the record to the caller: it stores the lmaster as dmaster,
  sends `REQ_DMASTER` with the body to the lmaster, which stores the new
  dmaster and sends it `REPLY_DMASTER`.
* `ctdb_fetch_lock` takes the tdb chain lock of the record; if its node is the
  dmaster it returns with the lock held, otherwise it unlocks, asks the daemon
  to migrate the record here, and starts again.
* A daemon never blocks on a chain lock: a packet whose record is locked is
  parked, a forked child waits for the lock, and when the child exits the
  packet is handled again from the start.
* A packet to the own node goes through a queue of zero-timed events.

### tdb transactions

A tdb is one file that several processes open.  fcntl locks on bytes of it are
the only synchronisation: `TRANSACTION_LOCK` for the one transaction at a time,
the hash chains for reading or writing, `GLOBAL_LOCK` for opening and for the
commit.

* A transaction keeps its writes in a list in memory (`elements`); reads look
  there first.  Nested starts are counted; an inner cancel makes the outer
  commit fail.
* The commit upgrades its read lock on the chains, takes `GLOBAL_LOCK`, finds
  or allocates a recovery area in the same file, writes the old contents of
  all words it will change into it, syncs, sets the area's magic, syncs, grows
  the file, writes the elements, syncs, clears the magic and syncs.
* `tdb_open_ex` looks at the recovery area under `GLOBAL_LOCK`.  If its magic is
  set it writes the old words back, syncs, unlinks the area if it lies behind
  the old end of file, clears the magic, truncates the file and syncs.

### Byte range locks

`brlock.tdb` has one record per file, an unsorted array of granted and pending
locks.  Each call (`brl_lock`, `brl_unlock`, `brl_remove_pending`, `brl_close`)
holds the chain lock of the record.  An SMB request has a list of ranges to
unlock and one to lock; `pvfs_lock` makes one call per range.  When a range is
refused and the request has a timeout, a pending entry is left in the database
and the request waits; an unlock or a close sends the waiters a message, which
makes them try again.  A request that fails, times out or is cancelled gives
back the ranges it already had.  A close answers the requests that wait on the
handle and removes its entries.

### Opens

`openfiles.tdb` has one record per inode: entries of open handles, opens that
wait, and the delete-on-close flag.  `pvfs_open` looks the name up, locks the
record of the inode it found, adds its entry, and then opens the file by name;
when the name does not exist it creates the file first and registers it after.
A sharing violation makes the open wait for the next close and then start
again, until its timer ends it.  The destructor of a handle asks whether it is
the last one of a file to be deleted, unlinks the name, and removes the entry,
in three separate steps.

### Messaging

Every process has a unix datagram socket.  `messaging_send` tries to send at
once; a full socket puts the message into the queue of pending messages, which
the event loop serves when the socket can be written.  After `Tries` failures
of the message at the head it moves to a second queue, for which a timer of one
second is set.  An irpc call is a message with a call id from an id tree, a
timer, and a reply that is matched by the id.  `irpc_call_recv` runs an event
loop of its own until the call is done, inside whatever handler made it.

### WINS

Each server has a record per name with owner, version, state and addresses.
Registrations and releases change it; a registration that conflicts with an
active record first asks the old holder.  Every change that matters to others
gets the next version of the server.  A server pulls from its partner: it asks
for the highest version per owner, then, owner by owner, for the records in the
gap, and applies each by the conflict tables (replace, propagate, merge,
challenge, ignore).  A partner with something new can also send its table by
itself (UPDATE, the default of a push), which starts a pull cycle whether or not
one is in progress.  `nbtd` and `wrepl` are tasks of their own, in the default
process model (`standard`) two processes that share `wins.ldb`.  Scavenging turns expired records into released ones, these
into tombstones, deletes old tombstones, and has replicas verified by their
owner.

## 3. Modules

| Module | Contents |
|---|---|
| `CtdbBase` | constants and their assumptions, variables, types of records, packets, calls and clients, `Init` |
| `CtdbCall` | local tdb operations, one operator per packet handler, the dispatch `ctdb_recv_pkt`, and the daemon's steps: receive, defer, retry, timeout, loss |
| `CtdbClient` | steps of a client process (start, lock, fetch, call, store, release, exit) and of the daemon on a client's request |
| `Ctdb` | `Next`, `Spec`, fairness, properties, the refinement mapping |
| `CtdbRecord` | the abstract specification: one copy of every record, calls that take effect once, exclusive handles |
| `CtdbInv` | the inductive invariants `RoleInv` and `CallInv` and the conditions under which they hold (`OffLmaster`, with `OneRecord` or `NothingFails`) |
| `MCCtdb` | small clusters for TLC |
| `CtdbClusterProofs` | what holds whatever fails: proofs of `TypeOK` and of `ClientsOk`; lemmas on the packets that carry the dmaster role, proof of `RoleInv` and of the safety properties that follow from it |
| `CtdbCallProofs` | what holds while nothing fails, for any number of records: proof of `CallInv` and of the refinement of `CtdbRecord` |
| `TdbBase` | constants, variables, the file, `Init`, what a sync and an expansion do, which place of a process holds which lock |
| `TdbTransaction` | transactions and the commit, one action per write and per sync |
| `Tdb` | open, close, read lock, recovery, killed processes, pages written back, power cuts, `Spec`, properties |
| `TdbInv` | `ReadersSafe` and the inductive invariant around it |
| `TdbCrashInv` | what file and disk hold in each place of a commit and of a recovery (`CrashInv`), and the condition `Orderly` on kills and cuts |
| `MCTdb` | small databases for TLC |
| `TdbProofs` | proof of `ReadersSafe` and of `Isolation`; proof of `CrashInv` and of `TypeOK`, `AllOrNothing`, `AreaSound` and `OpenWorks` |
| `Subsequences` | what is left of an array when a loop takes elements out of it; used by `Brlock` and `Messaging` |
| `SubsequenceProofs` | where its elements are afterwards and how many; least elements of sets of numbers |
| `Brlock` | the array of a file in `brlock.tdb`: overlap, conflict, lock test, unlock, close, whom they notify |
| `PvfsLock` | requests over it: `pvfs_lock`, the retry, undo, cancel, close; `Spec`, fairness, properties |
| `PvfsLockInv` | the inductive invariants `WaitInv`, `Compatible`, `HoldInv` and what they ask of the clients |
| `PvfsLockProofs` | proofs of the invariants of `PvfsLock`, its types among them |
| `Opendb` | the record of a file in `openfiles.tdb`: share conflicts, open, close, pending, delete flag |
| `PvfsOpen` | opens, creations, retries, closes and deletes of one name over it and the file system |
| `PvfsOpenInv` | the inductive invariant `OpenInv`, what keeps handles in the record of their file, and `DeleteInv` for clients of which one process deletes (`OneDeleter`) |
| `PvfsOpenProofs` | proofs of the invariants of `PvfsOpen` and of its action properties |
| `Messaging` | sockets, the two queues, send, receive, back-off |
| `Irpc` | pings, calls, replies, time-outs and nested event loops over `Messaging`; `Spec`, properties |
| `IrpcInv` | the inductive invariants `OrderInv` and `CallInv` |
| `IrpcProofs` | proofs of the invariants of `Irpc` |
| `Winsdb` | a record and its address list, reading with expiry, the conflict tables and merges |
| `Wins` | servers and their two processes: registration, release, query, pull cycles, apply, challenge, scavenging, verification, restart |
| `WinsInv` | which records may be stored, about to be written and under way (`WinsInv`), and the condition `SeparateNames` |
| `WinsProofs` | proof of `WinsInv`, of `TypeOK` and of `AllReadable` |
| `MCPvfsLock`, `MCPvfsOpen`, `MCIrpc`, `MCWins` | small instances for TLC |

`Brlock`, `Opendb` and `Winsdb` have no variables: each operation of the code
holds the lock of the record it changes, so it is an operator from the record
to what it leaves.  The modules above them hold the state and decide which
calls make one step.

### Correspondence with the code: CTDB

| Variable | Code |
|---|---|
| `lt[n][k]` | the record in the local tdb: `struct ctdb_ltdb_header` and the body |
| `lock[n][k]` | the tdb chain lock, when a *client process* holds it; the daemon takes and returns it within one handler, so for the daemon it is the guard `TryLock` |
| `chan[n][m]` | bytes written by n and not yet read by m, as packets in order; `chan[n][n]` is the list of `queue_next` events |
| `deferred[n]` | one `struct lock_fetch_state` with its lockwait child per entry |
| `calls[n][r]` | `ctdb->idr`: `struct ctdb_call_state` by request id |
| `cl[c]` | program counter, current operation and record handle of a client process |
| `up[n]` | FALSE after `ctdb_fatal` or a crash of the daemon |
| `applied[k]` | history: number of updates performed on the record |

A record's body is the number of updates in it, so that a lost or repeated
update shows as a wrong number.  Registered functions are of two kinds: those
that leave `new_data` NULL (`"null"`) and those that set it (`"incr"`).  Each
handler is one atomic step, because the daemon is single-threaded and holds
the chain lock during it.  A client holds the chain lock between reading and
writing, and every point at which it holds it across a step is a state of its
own.  A handler is given the packet and what is left of the queues once the
packet is taken out, so the same operator models delivery from a socket, from
the own queue, and from a lockwait child.

A parked `REPLY_DMASTER` whose request id was freed and reused for another
record before its retry needs the chain lock of that other record; the model
retries it when both locks are free, which gives up only the order of retries.

### Correspondence with the code: tdb

| Variable | Code |
|---|---|
| `file` | the file as every process sees it (page cache and mmap): size, recovery head of `struct tdb_header`, words, and the recovery records (`struct list_struct` with magic, `rec_len`, and `key_len` with the saved data) by the word at which they start |
| `disk` | the same as of the last `transaction_sync`, or as written back by the kernel since |
| `pc[p]` | where the process is: not open, open, reading, in a transaction, or between two writes or syncs of the commit or the recovery |
| `tx[p]` | `struct tdb_transaction` with `tdb->map_size`, and the locals of commit and recovery |
| `begun`, `kills`, `cuts`, `backs` | counters for the bounds |
| `db` | history: contents of the database before and after the last commit that was begun |

The locks are functions of the place of a process (`InTransaction`,
`ReadsHash`, `WritesHash`, `HasGlobal`): fcntl gives them up when the process
exits, and so does a place.

The unit is a word.  Word 0 is the header, word 1 the heads of the hash chains
and the free list; the value of word 1 is the set of words that can be reached
from it, which is what makes a word part of the database.  A transaction
changes reachable words, or makes words reachable by expanding the file or by
freeing the old recovery area (of a freed area the first word becomes usable).
A recovery record takes one word and one more for each word it saves.  Writes
are single words, but for the record, which the code writes with one call.
The heads are the first element of every transaction (`tdb_transaction_start`
writes them) and the first to be written; the order of the others is free.

The kernel writes pages back when it likes.  `WriteBack` brings one word, the
size, the head, the record or its magic to the disk as it is now; it may be
written again before the next sync.  A power cut then keeps, place by place,
what was written last or what is on the disk, so of several unsynced writes to
one place any can be the one that survives.

`Place` is where a process is when it fails: its `pc`, but for the steps from
the writing of the head of a *new* recovery area to the first sync, which are
`"newarea"`.  There the head, the padding that `tdb_expand_file` wrote and the
record over it are all unsynced.

When the disk is full `AllocateFails` leaves the file at its old size or longer:
`tdb_expand_file` may have made part of the way.

### Correspondence with the code: locks and opens

| Variable | Code |
|---|---|
| `locks` | the array of `struct lock_struct` of the file |
| `open`, `lock_count`, `pending_list` | the handles and these fields of `struct pvfs_file` |
| `req[r]` | a request and where its handler is, or `struct pvfs_pending_lock` while it waits |
| `notices` | `MSG_BRL_RETRY` or `MSG_PVFS_RETRY_OPEN` messages on their way, by the pointer in them |
| `replies` | history: how often a request was answered |
| `link`, `gen` | the inode of the name, and history: how often an inode number was given out |
| `odb[k]` | `struct opendb_file` by locking key; the key of a name that did not exist has no inode |
| `op[r]` | an open or delete, its `struct pvfs_open_retry` while it waits, its `struct pvfs_file_handle` afterwards |

A process runs one handler at a time, and other processes run between its calls
on the database, so every call is a step; steps between which a chain lock is
held are joined.  Ranges are offsets below `Space`, which stands for 2^64, and
sums are taken modulo it.  The address of a lock request is not used again; the
addresses of waiting opens are (`Addr`).

### Correspondence with the code: messaging

| Variable | Code |
|---|---|
| `socket[p]` | what the kernel holds for the socket of p, at most `Cap` packets |
| `pending`, `retry_queue`, `retry_te`, `writeable` | these fields of `struct messaging_context` and the write flag of its fd event |
| `call[c]` | `struct irpc_request` |
| `stack[p]` | the calls for which p is in `irpc_call_recv`, the innermost last |
| `deferred[p]` | `struct irpc_message` with `defer_reply` set |
| `sent`, `pings`, `last` | history |

A packet has the number it was sent as and whether it was ever backed off; the
code has neither, they are there for `InOrder`.  `messaging_send_handler` is one
step: `GoOut` is how many messages it sends before one meets a full socket, and
`SentOut` the sockets then.

### Correspondence with the code: WINS

| Variable | Code |
|---|---|
| `rec[s]` | the record of the name in `wins.ldb` of server s |
| `maxVersion[s]` | `maxVersion` of `CN=VERSION` |
| `task[s][q]` | the write that process q (`nbtd` or `wrepl`) of s has decided on and not made: the operation, the record, the flags `WINSDB_FLAG_*`, and what was stored when it looked |
| `table[s]` | `service->table`, the highest version known of each owner, `Absent` where it has no entry |
| `pulled[s][p]` | `partner->pull.table` |
| `cycle[s][p][i]` | the pull cycles of s with p: 0 is `partner->pull.creq`, the others belong to UPDATE messages (`struct wreplsrv_in_update_state`) |
| `waiting` | states that wait for a name query: WACK of a registration, challenge, verification |
| `overtaken` | history: a write went over something newer than what it was made from |
| `events`, `scenario` | bounds |

A handler is two steps.  The first looks the record up and decides
(`nbtd_winsserver_register`, `nbtd_winsserver_release`, `WackAnswered`,
`wreplsrv_apply_records`, `wreplsrv_scavenging_run`); the second is the
transaction of `winsdb_add`, `winsdb_modify` or `winsdb_delete` (`NbtdWrites`,
`ApplyWrites`, `ScavengingWrites`), and where the code deletes and then adds
there is one step for each.  The other process can run in between; the process
itself does nothing else.  The handlers of challenge and verification write
without looking, which is one step.  An add fails where a record has come
meanwhile, a modify where it has gone, and in a pull that ends the cycle.

A cycle has the partner's table, asks for one owner, has the reply, applies it,
and goes on with the next owner of its list.  An owner that the own table does
not have is asked for even when its version is 0, and a request for versions up
to 0 has no upper limit, as in `wreplsrv_in_send_request`.

Time is what it does to a record: `AddressExpires` and `RecordExpires` let an
`expire_time` pass, and an entry says whether its own is the one of the record,
another one to come, or past.  An answer from a host is any set of addresses.

## 4. Runs

### CTDB

| Run | Cluster | Checks | Shows |
|---|---|---|---|
| `one_record` | 3 nodes, 3 clients, two of them on one node, one operation each (call, updating call, fetch-lock), no failures, fair | `TypeOK`, `HolderIsDmaster`, `NeverFatal`, `CallInv`, `ImplementsRecord` (the refinement of `CtdbRecord`), `OperationReturns` | to its clients the cluster is one copy of the record; an operation returns unless from some time on another client is always fetching |
| `failures` | 3 clients (two share a node), one timeout, one lost packet, one client that may exit at any point | `OneDmaster`, `LmasterKnows`, `NoLostUpdate`, `RoleInv` | failures may lose the role but never duplicate it or an update, and a handle protects its node's copy (`ClientsOk`, a part of `RoleInv`) |
| `lmaster_gives` (violation) | lmaster is the first dmaster | `LmasterKnows` | see findings |

### tdb

| Run | Instance | Checks | Shows |
|---|---|---|---|
| `crashes` | 1 process, 3 transactions, one kill, 2 power cuts and 2 write-backs | `TypeOK`, `AllOrNothing`, `AreaSound`, `OpenWorks` | the order of syncs makes commit and recovery atomic, also when a recovery is cut and repeated; after a kill the file can be opened |
| `processes` | 2 processes, 2 transactions with nesting, one write-back and one power cut, one kill outside the armed part of the commit | `ReadersSafe`, `Isolation` | locks keep commits and recoveries away from readers |
| `kill_setup` (violation) | a kill between the head of a new area and the first sync | `AllOrNothing` | see findings |

`KillAt` and `CutAt` are the places in which a process may be killed or the
power may fail.  The passing runs leave out only places in which a crash does
damage (section 5): `OutsideNew` the steps from the head of a new area to the
first sync (`"newarea"`), `OutsideEnds` also, since power cuts follow, those
before the last sync of a commit and of a recovery, `OutsideLive` the four in
which the magic is set.  In a commit that uses the existing area nothing is left
out of these steps.  `AllOrNothing` is stated for processes that have the file
open, so a file that cannot be opened any more does not violate it; `OpenWorks`
is about that, for histories without a power cut (section 5).

### Locks, opens, messages, WINS

| Run | Instance | Checks | Shows |
|---|---|---|---|
| `locks` | 3 handles in 2 processes, 3 requests for one or two of three overlapping ranges, shared or not, with unlocks, with and without a timeout | `TypeOK`, `Exclusion`, `LocksProtect`, `WaitersListed`, `NothingLeft`, `FailedHoldsNothing`, `AnsweredOnce` | no two holders of a byte, what is granted agrees with what I/O is let through, waiters are where they are looked for, a closed handle leaves nothing, a failed request nothing, one answer each |
| `lost_wakeup` (violation) | exclusive locks that wait | `NoLostWakeup` | see findings |
| `opens` | 4 opens or deletes of one name through 2 processes, 2 inodes, 2 addresses | `TypeOK`, `ShareModes`, `EntriesMatch`, `WaiterPending`, `DeletesItsOwn`, `DeletedOnClose`, `AnsweredOnce` | share modes hold between handles on one file in spite of races on the name; closes delete their own file and do delete it; waiters are told |
| `two_closers` (violation) | opens that share everything, in both processes | `DeletedOnClose` | see findings |
| `messaging` | 3 processes, one that may exit and one that never reads; 2 calls, nested or not, and a ping | `TypeOK`, `QueuesWatched`, `InOrder`, `OwnAnswer`, `Returns`, `Delivered` | a full socket does not hold up others; nothing is forgotten; calls return |
| `wins` | 2 servers with 2 processes each, 2 hosts, 13 scenarios: a logon group of hosts of both servers or of one, with a second pull cycle, a broken pull, a restart, release, expiry and scavenging; a normal group, a host name, a name of mixed types | `TypeOK`, `MembersAgree`, `NoPingPong`, `AllReadable` | replication comes to rest and leaves readable records, and loses no member unless a write overtook a newer one |

In `opens` the first process does all that deletes; handles of the second do
not share the right to delete, which is what keeps `two_closers` away
(`OneDeleter`, evaluated by TLC as the assumption `SeparateDeleters`).

Every property of a passing run is also run against a mutant of a mapped
definition (`PROJECT.json`, "mutants"; the mutants stand next to the
definitions they change) and is violated there.

**Bounds.** Three nodes are the smallest cluster in which lmaster, old dmaster
and new dmaster differ; two clients on one node give chain lock contention;
`MaxLacount = 1` makes the migration by use count happen on the second call
(the default is 7); `MaxRedirect` is 1 or 2 (the code has 2); two request ids
are enough for two clients per node.  `MaxOps` bounds operations per client,
`MaxTimeouts` and `MaxLosses` bound failures.  Runs stop when every client has
used its operations, so deadlock is not checked.  `one_record` has 147 000
states.

In the tdb runs `FirstSize` 3 or 4 leaves one or two words for data, and
`MaxSize` 8 or 9, the size at which the disk is full, is enough for a recovery
area, an expansion in the same or a later transaction, a second and larger area
with the first one freed, and for running out of space.  `Page` is 2 so that
rounding matters.  Three transactions are the least in which an area is
allocated, reused and replaced.  Two power cuts give a cut in the recovery from
a cut; two write-backs (`MaxBacks`) let two places have an earlier unsynced
value, one of them a pointer to the other.  One value besides padding is enough:
a transaction that writes it differs from one that does not (`crashes` 1 230 000
states, `processes` 1 550 000).  Deadlock is checked: a database can always be closed and opened.

Three lock requests are one that holds, one that waits and one that comes
between; three ranges of which the middle one overlaps both others make a
request for two ranges wait with one of them in hand (286 000 states).  Four
opens are two handles that deny each other, one that waits and one that deletes
or creates; two inodes let a number be given out again (348 000 states).  Two
calls are the least that nest; `Cap` 1 makes every second packet wait; `Tries`
is 1 in place of 3, which only shortens the way to the back-off (315 000
states).  Two WINS servers are the least that disagree; with one host each and
at most three registrations both a merge of two members and a later change of
one occur.  `bound` counts what comes from outside, pulls are unbounded.  Each
scenario has a few kinds of events rather than all of them, since every pair that
matters is in one of them; `MaxUpdates = 1` gives a server two cycles with its
partner.  The two servers are symmetric with their hosts (1 490 000 states).
These runs stop when their requests are used up, so deadlock is not
checked there either.

**Fairness.**  CTDB: a client process that can run does; a daemon's event loop
serves every connection and every client socket; the kernel gives a chain lock
to the waiting lockwait children in turn.  Nothing is assumed about starting
operations, storing through a handle, exits, timeouts and losses; a handle is
released in the end.  Locks and opens: a process runs its handler to its end,
its event loop serves messages, and every wait has a timer; nothing is assumed
about requests, cancels and closes.  Messaging: the event loop of a process
that is not `Busy` serves its socket and its timers; a `Busy` process may never
get back to its loop, and a server function may put its reply off for ever.
WINS has no liveness property: hosts and partners may never answer, and
`NoPingPong` bounds the versions that are given in place of saying that
replication ends.

## 5. Findings

Four runs show places in which the code does not do what a comment, a test or
the documentation says (quotations in `PROJECT.json`):

1. `lmaster_gives`: when the lmaster is the dmaster it can give the record
   away twice before it reads its own `REQ_DMASTER`; then two nodes are dmaster.
2. `kill_setup`: a kill between the head of a new area and its record leaves
   padding as `rec_len`; a later commit takes the area for huge and writes its log
   over the database.
3. `lost_wakeup`: `brl_tdb_notify_all` tests the type of the first entry for
   all of them, so after a close the waiters may not be told.
4. `two_closers`: two processes that close the last two handles at once both
   find an open count of two, and the file stays although it was to be deleted.

The restrictions of the passing runs and of the theorems have similar reasons,
each of which shows when the constant named is changed.

CTDB and tdb:

* `OneRecord`: with two records and a timeout a late `REPLY_DMASTER` matched by
  a reused request id makes a node dmaster of another record (`OneDmaster`;
  `ctdb_call.c:453`).
* `OperationReturns` leaves out clients that fetch for ever: two
  `ctdb_fetch_lock` loops can starve each other (`ctdb_client.c:568`).
* `OpenWorks` leaves out power cuts: the recovery truncates the file without a
  sync after it unlinked the area, and a cut can leave a head beyond the end of
  the file, which cannot be opened any more (`transaction.c:1033`).
* `NodeOf` puts no client on the lmaster (`OffLmaster`): there a client sees its
  node as dmaster while the node's own `REQ_DMASTER` is still queued, and gets a
  handle on a copy that was given away (`NoLostUpdate`).
* `one_record` has no timeouts: after `ctdb_call_timeout` the daemon forgets the
  call without an answer, and its client waits for ever (`OperationReturns`).
* `one_record` and `DaemonsNeverAbort` have no `Mortal` clients: the parked
  request of an exited client is handled with the freed client (`NeverFatal`).
* `CutAt` leaves out `"newarea"`: padding, head and record are written before the
  first sync (`io.c:237`, `transaction.c:657`, `:740`, `:750`).  A cut that has
  padding and head on the disk and loses the record leaves what the kill of
  `kill_setup` leaves, before the record is written or, with one write-back of
  the padding, after it (`AllOrNothing`, `AreaSound`).  The comment at
  `transaction.c:654` speaks of a sync after the head, which is not there.
* `KillAt` leaves out `sync4` and `rsync2` where power cuts follow: the end of
  the commit or of the recovery is in the file, not yet on the disk, and nobody
  syncs it after the kill.  Then a power cut in the setup of a later commit
  brings the old record back, and its recovery undoes a commit that others have
  seen (`AllOrNothing`; `transaction.c:898`), or it brings the old head back, in
  front of padding (`AreaSound`; `transaction.c:1041`).
* `KillAt` and `Live` are disjoint in `processes`, and in the proofs unless there
  is only one process (`LiveKillsAlone`): after a kill in the live part of a
  commit the processes that have the file open see half of the transaction
  (`AllOrNothing`), and the next open restores the old words under readers
  (`Isolation`).

`OffLmaster` and `OneRecord` in `CtdbInv` are exactly the conditions that keep
`lmaster_gives`, the reuse of request ids and handles on the lmaster away; under
them `RoleInv` holds with any failures.

Locks:

* `SMB2 = FALSE`: the undo of an SMB2 request also takes back the range that
  failed, so `lock_count` is one too small and the close may skip `brl_close`
  (`NothingLeft`; `pvfs_lock.c:385`).
* No client asks twice for one range: the undo unlocks by range, prefers an
  exclusive lock, and can take an older one of the same client.
* Ranges end before `Space`: one that wraps overlaps nothing (`Exclusion`;
  `brlock_tdb.c:151`).
* `pvfs_lock_cancel` compares with `i < ulock_cnt` and so does not see a
  difference in the ranges to lock; `CancelMatches` has it as it is.

Opens:

* A retry message is matched by an address that a later open of the process may
  have; the comment at `pvfs_open.c:807` that the pending entry is already
  removed does not hold then.  The entry that stays only causes a message that
  finds nobody.
* A delete resolves the name, checks the record of that inode and unlinks by
  name, possibly a newer file that someone has open exclusively
  (`pvfs_unlink.c:84`); `DeletesItsOwn` is about closes.
* A created file has no entry until it is registered, and the delete flag of an
  open does not keep others out before the close has set it in the record.  So
  with a second process that deletes, or that shares its opens with those that
  do, a close can unlink a file that somebody has just opened, or, after a reuse
  of the inode, the next file of the name (`DeletesItsOwn`; `pvfs_open.c:444`,
  `:601`).
* An open whose creation collides resolves the name again and goes on whatever
  comes out; if the file is gone once more its key has no inode
  (`pvfs_open.c:1089`).  Mostly the `open()` fails then; if the name comes back
  before it, the handle is entered in the record of no file and its share modes
  are not looked at (`EntriesMatch`).  In `opens` the file is there at the start,
  which makes four requests too few for it; with `FirstLink = None` they do.

Messaging:

* A call that a nested loop keeps from being seen can be answered and then
  overwritten by its own timer: `irpc_handler_reply` does not stop it.
* The id of a call that timed out is given to the next one, which a late reply
  then answers; `OwnAnswer` allows for exactly this.
* A message that was backed off is overtaken by later ones; `InOrder` leaves
  these out.

WINS:

* `NoPingPong` fails for a name that is unique at one server and a group at the
  other once a record expires (`wrepl_apply_records.c:422`, `:493`), and for one
  logon host that registers at both servers, which pull from each other at the
  same time (`Uses`).
* `AllReadable` fails for the types unique and group with three registrations
  and an expiry: an address keeps an expire_time older than that of the record,
  and the propagated record has no address left when it is read
  (`winsdb.c:772`).
* `MembersAgree` leaves out histories in which a write `Overtakes` a newer one,
  in two ways; without either part of the definition the run fails, and a member
  of a logon group is lost for good.  `wreplsrv_in_update` does not ask for
  `partner->pull.creq` (`wrepl_in_call.c:384`): when the reply of one cycle with
  version 1 is applied after that of the other with version 2,
  `replace_same_owner` puts version 1 back (`wrepl_apply_records.c:73`, `:1346`),
  while `service->table` stays at 2.  And a refresh that `nbtd` read before `wrepl`
  merged a member writes the old list over it without a new version
  (`winsserver.c:148`).  `NoPingPong` counts an UPDATE as an event: the late reply
  can cause one more merge.
* The handlers of challenge and verification write the record as it was when
  the question was sent; the one of a registration compares version and owner,
  and a release of one address of several gives no new version.  The model has
  all of this; the properties do not say that nothing is lost by it.

## 6. Proofs

`TypeCorrect` (module `CtdbClusterProofs`) proves `Spec => []TypeOK` from the
assumptions of `CtdbBase` alone, for every number of nodes, records, clients,
operations and failures.  `TypeOK` is inductive by itself because it includes
that a client works on its own records, which is what makes `NodeOf`, `Wants`
and the keys of calls and parked packets well-defined.  The proof has one
lemma per handler or group of client steps.

`ChainLockProtects` (same module) proves `Spec => []ClientsOk`
for every cluster, also those of the findings: a client between lock and
unlock holds the chain lock, and its handle and its node's tdb agree.  The
invariant ties the place of every client to the lock table; the lemmas show
that no handler of the daemon writes a record whose chain lock a client holds.

`RoleInOnePlace` (same module) proves `RoleInv`, the inductive
invariant for the main safety properties.  It says that the dmaster role is a
token: at home in one tdb, or in exactly one packet (in a channel or parked),
or lost; that a packet which carries it says what is still true (it is
addressed to the lmaster, or to the node the lmaster names, and has the latest
body); and that a client with a handle holds the chain lock of the dmaster's
copy.  Without the part about packets the properties are not inductive: a
`REPLY_DMASTER` in flight decides who will be dmaster and with which body.
The conditions are `OffLmaster` (no client on the record's lmaster, which is
not the first dmaster either) and `OneRecord`; timeouts, losses, exits and the
size of the cluster are arbitrary.  From it follow `NeverTwoDmasters`
(`OneDmaster`), `LmasterAlwaysKnows` (`LmasterKnows`), `UpdatesAreKept`
(`NoLostUpdate`), `HandleExcludes` (`HolderIsDmaster`), and, when no client
exits, `DaemonsNeverAbort` (`NeverFatal`).  They start from lemmas about taking
packets out of queues and appending them.

`OneCopy` (module `CtdbCallProofs`) proves that the cluster implements
`CtdbRecord`, for any number of nodes, clients and records, as long as no client
is on a record's lmaster (`OffLmaster`) and no call times out, no packet is lost
and no client exits (`NothingFails`; a call that times out is forgotten, so
without this the refinement does not hold).  The mapping is exact: a call takes
effect in the step in which the dmaster runs it, and every other step of a
daemon is a stutter.  What makes this inductive is `CallInv`
(`CallsAreCarried`): every outstanding call of a daemon is in exactly one request
or reply, in a channel or parked, that agrees with it about record, caller and
result; every client that waits has exactly one call or parked request; every
role on its way is in one packet that has the latest body.  `CallersCall` adds
that a client that waits for a call is not fetching.  `NoneAssumption` says that
"no call" is not a call, which the code has from `NULL`.  `EveryRecordSafe`
concludes the safety properties of `RoleInOnePlace` under these conditions for
any number of records, where request ids are shared between them.

`TdbProofs` proves, in its first part, `ReadersAreSafe` (`ReadersSafe`) and
`ReadersSeeNoChange` (`Isolation`) from `TdbAssumption` and the condition that
no process is killed while its commit has the magic set, or there is only one
(`LiveKillsAlone`), without which a recovery can meet a reader (section 5).
Processes, words, values, transactions, nesting, write-backs, power cuts and
other kills are arbitrary.  The
recovery takes no lock that a reader takes, so the argument is indirect: a
file with a valid record (`Armed`) is either in the live part of one commit,
which holds all locks, `GLOBAL_LOCK` among them, or it is open to nobody; so an
opener that holds `GLOBAL_LOCK` and finds the magic set is alone.  `Placed`
records what each place of the commit and of the recovery knows of head and
magic, which is what makes `Armed` change only where it should.

Its second part proves `TdbTypes` (`TypeOK`), `CommitsAreAtomic`
(`AllOrNothing`), `AreaIsSound` (`AreaSound`), `RecordCanBeRead` (`OpenWorks`) and
`RecordIsNeverRefused` (`transaction_oob` never turns a recovery record down) for
any number of processes, words, pages, values, transactions, write-backs, kills
and power cuts, from `TdbAssumption` and `Orderly`.  `Orderly` leaves out the
places in which a crash does damage (section 5): kills and cuts from the head of
a new area to the first sync (`"newarea"`), kills before the last sync of a commit
or a recovery, kills with the magic set while others have the file open.  It also leaves out kills in `rmagic` and
`rtrunc`, which `crashes` allows and which do no damage there: the disk then has
a valid record that leads to the contents it already shows, a case `Clean` does
not have.  `CrashInv` says three things.

* In each place of a commit or of a recovery, what file and disk hold
  (`Stage`).  Before the magic is set both show the old contents, and the area,
  with whichever of the two heads, sizes and `rec_len`s survives a cut, is no
  part of them (`Clean`; of a new area this is said once it is synced).  From then on the record leads back from any mixture of
  old and new words to the old contents (`Logged`): what is not saved is in file
  and disk, and the area is free of old and of new words.  Until the writes are
  synced the record is what counts (`Redo`); when the magic is taken away, what a
  cut leaves is the record or all of the new contents (`Either`).
* When nobody is in such a place, the file is `Clean`, or the next open goes back
  to the old contents (`Redo`), or a power cut has left a head behind the end
  of the file, which nobody can open (`Resting`).
* The disk has nothing behind its end (`Trimmed`): a head that reaches the disk
  with a hole behind it points to a `rec_len` of zero.

A power cut and a sync are treated alike: both leave a file whose words, head,
size and records are each those of file or disk (`CutOf`; a sync is a cut with
nothing lost).  `CutClean` and `CutEither` say what that makes of `Clean` and
`Either`, so a cut needs no case per place.  A write-back leaves the file as it is
and a disk whose places are each those of file or disk, so that everything the
invariant says of the disk has to hold of all such mixtures.  Types are part of the induction:
after a kill or a cut that is not `Orderly` a recovery may read a record that was
never written, and its end of file is then zero.  Before it was proved, TLC
checked `CrashInv` in the instance of `crashes` with the kills of `Orderly`, with
a longer file and with two processes.

**Locks** (`PvfsLockProofs`, invariants in `PvfsLockInv`), for any handles,
processes, requests, lists of ranges and timeouts.

* `WaitersAreListed` (`WaitersListed`) needs nothing of the clients.  Its
  invariant `WaitInv` ties the place of every request to its one pending entry
  in the array and to its one place in the list of its handle.  The proof first
  sorts the steps into ten effects on array and lists (a lock is granted, a
  request goes to wait, an entry is taken out, a handle is closed, ...), and then
  shows each part of the invariant once per effect.
* `LocksAlwaysProtect` (`LocksProtect`) and `LocksExclude` (`Exclusion`) rest on
  `Compatible`, which says of granted locks what `brl_tdb_conflict` compares.
  `Exclusion` speaks of bytes, and follows only where ranges end before the
  offset space does (`RangesEnd`, section 5).
* `OrderlyClientsHold`, `CloseLeavesNothing` and `FailedRequestsHoldNothing`
  (`NothingLeft`, `FailedHoldsNothing`) rest on `HoldInv`: what a request under
  way was granted is in the array, nothing else is, exclusive locks are there
  once, `lock_count` counts the entries, and all of it is on open handles.  The
  undo unlocks by range, so these need that it can only find its own lock
  (`UndoFindsOwn`: requests for several ranges are exclusive and not empty) and
  that nobody unlocks the ranges of a request that still waits for others
  (`OrderlyUnlocks`; `SeveralNotUnlocked` says it of what clients may send).
  `~SMB2` leaves out the undo that goes one range too far (section 5).
* `LocksTyped` (`TypeOK`) takes from `WaitInv` where in its lists each request
  can be, so that the undo never steps before the first range, and adds that a
  notification goes to finitely many entries.

**Opens** (`PvfsOpenProofs`, invariants in `PvfsOpenInv`), for any requests,
processes, inodes and addresses.

* `OpensTyped` (`TypeOK`) and `WaitersAreTold` (`WaiterPending`) hold of all
  clients.  `OpenInv` says that entries are those of handles, once each and
  without conflicts, that a file descriptor is there when it should be, and that
  waiters of one process have different addresses; without the last a remove
  of one waiter could take the entry of another.
* `FoundNamesShare` proves `ShareModes` and `EntriesMatch` for every behaviour
  with `NamesFound`; `OpensShare` and `OpensAreEntered` prove them for all
  behaviours of clients that send no `open_if` (`NoOpenIf`).  The invariant
  is `OwnRecord`: a handle is in the record of the file it has open.  Both
  conditions keep away the one way around it: after a create has collided
  (`pvfs_open.c:1089`) the name may be gone again, the key then has no inode, and
  if the name comes back before the `open()` the handle is in the record of no
  file.  The run `opens` has `open_if`, but not the requests that this takes
  (section 5).
* `ClosesDeleteTheirOwn` (`DeletesItsOwn`) and `LastCloseDeletes`
  (`DeletedOnClose`) are for clients of which one process does all that deletes,
  and in behaviours with `NamesFound`.  `OneDeleter` also asks that opens in other
  processes conflict with those that may delete; section 5 says what happens
  otherwise.  The invariant `DeleteInv` says that a record with the flag has only
  handles of that process, that a closer which was told to delete stays the last
  handle until it has removed the name (an open in between is denied, or finds
  the flag), that the files which the process has open are the ones the name
  leads to, in inode and generation, and that a closer which was told not to
  delete is not made to by what others do before it leaves.  The proof first says
  what every step does to a request (`Advances`), to the name (`NameStep`) and to
  a record (`RecordStep`).  TLC checked `DeleteInv` in the instance of `opens`.

**Messages and calls** (`IrpcProofs`, invariants in `IrpcInv`), for any
processes, calls, socket sizes, tries and exits, and without conditions.

* `MessagingTyped` (`TypeOK`) includes that `messaging_send_handler`, which sends
  several messages in one go, never overfills a socket, and that the id tree
  always has an id; `NothingForgotten` is `QueuesWatched`.
* `MessagesInOrder` (`InOrder`) rests on `OrderInv`: the numbers of messages that
  were not backed off grow along a socket, along a queue, and from the socket of
  the receiver to the queue of the sender; numbers in the queues were given out;
  what was taken is below what is on its way.
* `OwnAnswers` (`OwnAnswer`) rests on `CallInv`: for every call there is at most
  one request or reply on its way, which has the id and the process of the call
  (`Once`, `Carried`), and no call gets an id that another one in flight has
  (`IdsDiffer`).  To show `Once`, every place of a message after a step is traced
  to one place before it.  If a reply is taken for a call that it is not for,
  the call it is for was earlier, had the same id, and is ended; it has not had
  its own answer, since that is the reply at hand, so it timed out or took the
  answer of a third, for which the same holds.

**WINS** (`WinsProofs`, invariant in `WinsInv`), for any servers, finite set of
addresses, limit of the address list and scenarios.

* `VersionsAreOwners` (`TypeOK`) needs no condition: a version that is stored,
  about to be written, in a pull cycle or with a question was given by its owner,
  also after restarts and merges.
* `StoredIsReadable` (`AllReadable`) is for `SeparateNames`: where a name is used
  both for a group and for a host, no time runs out.  What is written is what was
  read earlier, with addresses added, taken away or expired, and what is stored may
  have changed since, by the other process, another cycle or a late answer; so the
  invariant says of every record, stored, in a job (`SoundJob`), in a cycle
  (`SoundCycle`) or with a question, that
  writing it leaves something readable (`Storable`), and which types it can have
  and whether an address of it can have expired (`OfScenario`).  The condition is
  needed: a normal group of which the only address is older than the record is
  read without it, and the conflict with a host name writes it back
  (`winsdb.c:770`, section 5).

**Only model-checked.**  Liveness under fairness is out of the prover's reach
(`OperationReturns`, `Returns`, `Delivered`, `AnsweredOnce`).  Not proved are
`MembersAgree` and `NoPingPong` of WINS, which are about how far two servers can
drive each other before they come to rest (`NoPingPong` sums up with a fold, and
both would need an order on the exchanges of a pull); what holds in
clusters outside `OffLmaster`; the refinement of `CtdbRecord` when packets are
lost, which would need an abstract call that is never answered; and what holds
of tdb after kills that are not `Orderly`, where no power cut follows them.
Where a proof needs to count
(`Subsequence`, `GoOut`, `idr_get_new`), the induction is replaced by taking the
least number with a property (`LeastNat`), and the library's facts about
cardinalities.

## 7. Not modelled

The repository has about 590 000 lines of code, of which the modules map some
9 000 (1.5%).  Most of the rest is not a protocol but encoding (SMB, RPC, LDAP,
Kerberos, generated by pidl or vendored from Heimdal), tests (`torture`), an
embedded web server, and directory code whose state is the database below it.
A state machine of these would repeat the code; the share of lines that the
map covers is small for that reason and will stay so.

* CTDB: `CTDB_REPLY_ERROR` (it is sent for an unknown database or a failed tdb
  read; every program attaches its databases before it starts the daemon),
  allocation failures, the id tree when all 64k ids are used, the test switches
  `CTDB_FLAG_TORTURE` and `CTDB_FLAG_SELF_CONNECT`, counters, a packet cut in
  two by a broken connection, srvid messages, connect wait, the shutdown
  barrier (`ctdb_daemon.c:184`), node list configuration.
* tdb: system calls that fail (a failed sync returns from the commit with its
  locks held, `transaction.c:887`; a failed expansion cancels with the magic
  set, `transaction.c:848`), `TDB_NOSYNC`, `TDB_NOLOCK`, `TDB_CLEAR_IF_FIRST`,
  read-only and internal databases, `tdb_reopen`, byte order, writes outside a
  transaction and the traverse locks; a `tdb->map_size` that is stale because
  another process truncated the file, which needs the same kill.
* Locks: the cached last lock (it only chooses between two error codes), failing
  database calls, a killed process that leaves its entries in `brlock.tdb`,
  `brlock_ctdb.c` (the same algorithm inside a ctdb call).
* Opens: directories, streams, DENY_DOS handles, oplocks (off by default),
  overwriting dispositions, rename, access control, a killed process that
  leaves its entries, `opendb_ctdb.c`.
* Messaging: other cluster nodes, registration of handlers, the names database
  (in which servers that died stay, and of which callers use the first), bodies.
* WINS: static records, the UPDATE2 and INFORM2 forms, which only keep the
  connection, the association protocol, inverse tables, timer intervals, node
  types, the 0x1B name in a 0x1C answer, the dns proxy.  A process runs one handler
  at a time and does not go back to its event loop between lookup and write.
* Change notify, event loop, SMB server, process models, directory replication,
  ldb, Kerberos, RPC: section 1.

## 8. Plan

1. An abstract specification of a cluster that may lose calls, and the
   refinement of it with timeouts and losses; `MembersAgree` as a theorem.
2. `AllOrNothing` and `OpenWorks` without power cuts, for kills in all places but
   `"newarea"`.
3. tdb: failing system calls in commit and recovery; an abstract specification
   (an atomic store with crash) that `Tdb` implements.
4. `TdbLock`: the per-process lock table of `lock.c`, chain and global locks,
   and writes outside transactions.
5. `CtdbShutdown`: the barrier of `daemon_request_shutdown`; `Notify`.
