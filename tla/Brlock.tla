------------------------------- MODULE Brlock -------------------------------
(***************************************************************************)
(* The byte range lock database: what brlock_tdb.c does with the record of *)
(* one file, an unsorted array of lock_struct.  Every operation holds the  *)
(* chain lock of the record, so each is an operator from the array to what *)
(* it leaves in the array and whom it notifies.                            *)
(***************************************************************************)
EXTENDS Integers, FiniteSets, SequencesExt, Subsequences

CONSTANTS
    Server,     \* smbd processes
    Handle,     \* open file handles, struct ntvfs_handle
    ServerOf,   \* the process that has a handle open
    Pid,        \* smbpid values
    Request,    \* lock requests; also their address, notify_ptr
    Space       \* number of offsets, 2^64 in the code

ASSUME BrlAssumption ==
    /\ ServerOf \in [Handle -> Server]
    /\ Space \in Nat \ {0}

LockType == {"READ", "WRITE", "PENDING_READ", "PENDING_WRITE"}

\* struct lock_struct.  The handle stands for ntvfs and brl context together.
\* req is notify_ptr; a granted lock keeps the request it was granted to,
\* which the code never looks at.
Lock == [handle: Handle, pid: Pid, start: 0 .. Space - 1, size: 0 .. Space - 1,
         type: LockType, req: Request]

IsPending(l) == l.type \in {"PENDING_READ", "PENDING_WRITE"}

-----------------------------------------------------------------------------
(* Conflicts *)

brl_tdb_same_context(l1, l2) ==
    ServerOf[l1.handle] = ServerOf[l2.handle] /\ l1.pid = l2.pid

End(l) == (l.start + l.size) % Space

\* Mutant of brl_tdb_overlap: ranges count as apart when they end together.
ApartAtEnd(l1, l2) ==
    l1.start < End(l2) /\ l2.start < End(l1) /\ End(l1) # End(l2)

\* The sums wrap at the end of the offset space, as they do in the code.
brl_tdb_overlap(l1, l2) ==
    \/ l1.size # 0 /\ l1.start = l2.start /\ l1.size = l2.size
    \/ l1.start < End(l2) /\ l2.start < End(l1)

\* l2 can not be added when l1 is in place.
brl_tdb_conflict(l1, l2) ==
    /\ ~IsPending(l1) /\ ~IsPending(l2)
    /\ ~(l1.type = "READ" /\ l2.type = "READ")
    /\ ~(brl_tdb_same_context(l1, l2) /\ l2.type = "READ" /\ l1.handle = l2.handle)
    /\ brl_tdb_overlap(l1, l2)

\* Mutant of brl_tdb_conflict_other: a holder of any lock on the handle may
\* do any I/O through it.
HandleIgnored(l1, l2) ==
    /\ ~IsPending(l1) /\ ~IsPending(l2)
    /\ ~(l1.type = "READ" /\ l2.type = "READ")
    /\ l1.handle # l2.handle
    /\ brl_tdb_overlap(l1, l2)

\* I/O of kind l2 is not allowed when l1 is in place.
brl_tdb_conflict_other(l1, l2) ==
    /\ ~IsPending(l1) /\ ~IsPending(l2)
    /\ ~(l1.type = "READ" /\ l2.type = "READ")
    /\ ~(/\ brl_tdb_same_context(l1, l2) /\ l1.handle = l2.handle
         /\ l2.type = "READ" \/ l1.type = "WRITE")
    /\ brl_tdb_overlap(l1, l2)

brl_tdb_locktest(lk, io) == \A i \in DOMAIN lk : ~brl_tdb_conflict_other(lk[i], io)

-----------------------------------------------------------------------------
(* Notifications: the messages MSG_BRL_RETRY, each by the request it is for  *)
(* and the place in the loop at which it is sent.                            *)

\* The entries that a scan of the array notifies: those that wait for the range
\* that is free, but not for that of the last writer notified before.
Notified(lk, removed) ==
    LET last_notice(told, i) ==
            {j \in told : /\ j < i /\ lk[j].type = "PENDING_WRITE"
                          /\ \A k \in told : j < k /\ k < i => lk[k].type # "PENDING_WRITE"}
    IN  UNION {told \in SUBSET DOMAIN lk : \A i \in DOMAIN lk :
                 i \in told <=> /\ IsPending(lk[i]) /\ brl_tdb_overlap(lk[i], removed)
                                /\ \A j \in last_notice(told, i) : ~brl_tdb_overlap(lk[i], lk[j])}

brl_tdb_notify_unlock(lk, removed) == {<<lk[i].req, i>> : i \in Notified(lk, removed)}

\* For each entry in turn.  The test in the loop is on the first one.
brl_tdb_notify_all(lk) ==
    IF lk # <<>> /\ IsPending(lk[1])
    THEN UNION {{<<lk[i].req, <<k, i>>>> : i \in Notified(lk, lk[k])} : k \in DOMAIN lk}
    ELSE {}

-----------------------------------------------------------------------------
(* The operations on the array *)

\* brl_tdb_lock finds no conflict.
CanLock(lk, lock) == \A i \in DOMAIN lk : ~brl_tdb_conflict(lk[i], lock)

AsPending(lock) ==
    [lock EXCEPT !.type = IF @ = "READ" THEN "PENDING_READ" ELSE "PENDING_WRITE"]

\* The entry that brl_tdb_unlock takes out, 0 for none: exclusive locks first.
UnlockIndex(lk, h, pid, start, size) ==
    LET Same(l) == l.handle = h /\ l.pid = pid /\ l.start = start /\ l.size = size
        write == SelectInSeq(lk, LAMBDA l : Same(l) /\ l.type = "WRITE")
    IN  IF write # 0 THEN write ELSE SelectInSeq(lk, LAMBDA l : Same(l) /\ ~IsPending(l))

\* The array without the pending entry of request r.
brl_tdb_remove_pending(lk, r) == RemoveFirstMatch(lk, LAMBDA l : IsPending(l) /\ l.req = r)

\* The array without the entries of handle h.
brl_tdb_close(lk, h) == Subsequence(lk, {i \in DOMAIN lk : lk[i].handle # h})
=============================================================================
