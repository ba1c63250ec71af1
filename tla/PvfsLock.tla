------------------------------ MODULE PvfsLock ------------------------------
(***************************************************************************)
(* Lock requests of SMB clients on one file: pvfs_lock.c and pvfs_wait.c   *)
(* over the lock database.  A server process runs one handler at a time,   *)
(* but a handler makes several calls on the database and other processes   *)
(* run between them, so every call is a step.                              *)
(***************************************************************************)
EXTENDS Brlock

CONSTANTS
    Inputs,     \* lock requests clients may send
    SMB2        \* the dialect of the connections

VARIABLES
    locks,          \* the record of the file in brlock.tdb
    open,           \* handles that are open
    lock_count,     \* of struct pvfs_file
    pending_list,   \* of struct pvfs_file, the newest first
    req,            \* what became of each request
    replies,        \* replies sent to each request
    notices         \* MSG_BRL_RETRY messages not yet received, by request

vars == <<locks, open, lock_count, pending_list, req, replies, notices>>

\* smb_lock_entry and the fields of union smb_lock that pvfs_lock looks at.
Entry == [pid: Pid, start: 0 .. Space - 1, size: 0 .. Space - 1]
Input == [handle: Handle, shared: BOOLEAN, timed: BOOLEAN,
          ulocks: Seq(Entry), locks: Seq(Entry)]

ASSUME InputAssumption == Inputs \subseteq Input /\ SMB2 \in BOOLEAN /\ Request \subseteq Nat

\* Where a request is: not sent; between two calls on the database (the
\* handler runs); waiting for a retry message; answered.
Running == {"unlock", "lock", "granted", "gaveup", "undo"}
Unsent == [pc |-> "unsent"]

\* Of a request: its input and the entry i of its unlocks or locks it is at,
\* pending->pending_lock while it waits.
ReqState == {Unsent} \cup
    [pc: Running \cup {"wait", "ok", "failed"}, in: Inputs, i: Nat]

Init ==
    /\ locks = <<>>
    /\ open = Handle
    /\ lock_count = [h \in Handle |-> 0]
    /\ pending_list = [h \in Handle |-> <<>>]
    /\ req = [r \in Request |-> Unsent]
    /\ replies = [r \in Request |-> 0]
    /\ notices = [r \in Request |-> 0]

-----------------------------------------------------------------------------

HandleOf(r) == req[r].in.handle

\* No handler runs in the process that has h open: it is in its event loop.
Idle(h) == \A r \in Request : req[r].pc \in Running => ServerOf[HandleOf(r)] # ServerOf[h]

\* messaging_send_ptr of every message of the set sent.
Send(sent) ==
    notices' = [r \in Request |-> notices[r] + Cardinality({m \in sent : m[1] = r})]

\* lock_struct for entry e of input in.
LockFor(r, in, e) ==
    [handle |-> in.handle, pid |-> e.pid, start |-> e.start, size |-> e.size,
     type |-> IF in.shared THEN "READ" ELSE "WRITE", req |-> r]

Goto(r, pc, i) == req' = [req EXCEPT ![r].pc = pc, ![r].i = i]

\* The reply to r, synchronous or with send_fn.
Reply(r, pc) ==
    /\ req' = [req EXCEPT ![r].pc = pc, ![r].i = 0]
    /\ replies' = [replies EXCEPT ![r] = @ + 1]

\* brl_tdb_unlock found entry k: it is removed and waiters are told.  A count
\* of one deletes the record without a scan, when there is no one to tell.
brl_tdb_unlock(k) ==
    LET rest == RemoveAt(locks, k)
    IN  locks' = rest /\ Send(brl_tdb_notify_unlock(rest, locks[k]))

\* The entry of the database that the i-th of entries es would unlock.
Held(r, e) == UnlockIndex(locks, HandleOf(r), e.pid, e.start, e.size)

-----------------------------------------------------------------------------
(* pvfs_lock *)

\* A request arrives.  The unlocks happen first.  Requests are numbered in the
\* order in which they arrive.
StartLock(r, in) ==
    /\ req[r] = Unsent
    /\ \A q \in Request : q < r => req[q] # Unsent
    /\ in.handle \in open
    /\ Idle(in.handle)
    /\ req' = [req EXCEPT ![r] = [pc |-> "unlock", in |-> in, i |-> 1]]
    /\ UNCHANGED <<locks, open, lock_count, pending_list, replies, notices>>

UnlocksDone(r) ==
    /\ req[r].pc = "unlock" /\ req[r].i > Len(req[r].in.ulocks)
    /\ Goto(r, "lock", 1)
    /\ UNCHANGED <<locks, open, lock_count, pending_list, replies, notices>>

UnlockNext(r) ==
    LET in == req[r].in
    IN  /\ req[r].pc = "unlock" /\ req[r].i <= Len(in.ulocks)
        /\ LET k == Held(r, in.ulocks[req[r].i])
           IN  \/ /\ k # 0
                  /\ brl_tdb_unlock(k)
                  /\ lock_count' = [lock_count EXCEPT ![in.handle] = @ - 1]
                  /\ Goto(r, "unlock", req[r].i + 1)
                  /\ UNCHANGED replies
               \/ /\ k = 0
                  /\ Reply(r, "failed")
                  /\ UNCHANGED <<locks, lock_count, notices>>
        /\ UNCHANGED <<open, pending_list>>

\* All the locks are there.
LocksDone(r) ==
    /\ req[r].pc = "lock" /\ req[r].i > Len(req[r].in.locks)
    /\ Reply(r, "ok")
    /\ UNCHANGED <<locks, open, lock_count, pending_list, notices>>

\* Mutant of FirstUndone: one too far back.
UndoSkipsOne(i) == i - 2

\* The undo starts before the lock that failed, in SMB2 with it.
FirstUndone(i) == IF SMB2 THEN i ELSE i - 1

\* One brl_tdb_lock: granted, or left pending in the same step when the
\* request has a timeout, or refused.
LockNext(r) ==
    LET in == req[r].in
        lock == LockFor(r, in, in.locks[req[r].i])
    IN  /\ req[r].pc = "lock" /\ req[r].i <= Len(in.locks)
        /\ \/ /\ CanLock(locks, lock)
              /\ locks' = Append(locks, lock)
              /\ lock_count' = [lock_count EXCEPT ![in.handle] = @ + 1]
              /\ Goto(r, "lock", req[r].i + 1)
              /\ UNCHANGED pending_list
           \/ /\ ~CanLock(locks, lock) /\ in.timed
              /\ locks' = Append(locks, AsPending(lock))
              /\ pending_list' = [pending_list EXCEPT ![in.handle] = Cons(r, @)]
              /\ Goto(r, "wait", req[r].i)
              /\ UNCHANGED lock_count
           \/ /\ ~CanLock(locks, lock) /\ ~in.timed
              /\ Goto(r, "undo", FirstUndone(req[r].i))
              /\ UNCHANGED <<locks, lock_count, pending_list>>
        /\ UNCHANGED <<open, replies, notices>>

\* Mutant of UndoNext: the undo takes the entries from the first up.
UndoForward(r) ==
    LET in == req[r].in
    IN  /\ req[r].pc = "undo" /\ req[r].i > 0
        /\ LET k == Held(r, in.locks[Len(in.locks) + 1 - req[r].i])
           IN  IF k # 0 THEN brl_tdb_unlock(k) ELSE UNCHANGED <<locks, notices>>
        /\ lock_count' = [lock_count EXCEPT ![in.handle] = @ - 1]
        /\ Goto(r, "undo", req[r].i - 1)
        /\ UNCHANGED <<open, pending_list, replies>>

\* One brl_unlock of the undo loops of pvfs_lock and pvfs_lock_async_failed.
\* Its status is not looked at.
UndoNext(r) ==
    LET in == req[r].in
    IN  /\ req[r].pc = "undo" /\ req[r].i > 0
        /\ LET k == Held(r, in.locks[req[r].i])
           IN  IF k # 0 THEN brl_tdb_unlock(k) ELSE UNCHANGED <<locks, notices>>
        /\ lock_count' = [lock_count EXCEPT ![in.handle] = @ - 1]
        /\ Goto(r, "undo", req[r].i - 1)
        /\ UNCHANGED <<open, pending_list, replies>>

UndoDone(r) ==
    /\ req[r].pc = "undo" /\ req[r].i = 0
    /\ Reply(r, "failed")
    /\ UNCHANGED <<locks, open, lock_count, pending_list, notices>>

-----------------------------------------------------------------------------
(* pvfs_pending_lock_continue *)

Unlisted(r) == [pending_list EXCEPT ![HandleOf(r)] = RemoveFirst(@, r)]

\* The request gets the lock it waits for.
TryGranted(r) ==
    LET in == req[r].in
        lock == LockFor(r, in, in.locks[req[r].i])
    IN  /\ CanLock(locks, lock)
        /\ locks' = Append(locks, lock)
        /\ lock_count' = [lock_count EXCEPT ![in.handle] = @ + 1]
        /\ pending_list' = Unlisted(r)
        /\ Goto(r, "granted", req[r].i)

\* It does not.  After a message it waits on, in front of the list; after the
\* timeout there are no more chances.
TryRefused(r, timed_out) ==
    LET in == req[r].in
    IN  /\ ~CanLock(locks, LockFor(r, in, in.locks[req[r].i]))
        /\ IF timed_out
           THEN /\ pending_list' = Unlisted(r)
                /\ Goto(r, "gaveup", req[r].i)
           ELSE /\ pending_list' = [Unlisted(r) EXCEPT ![in.handle] = Cons(r, @)]
                /\ UNCHANGED req
        /\ UNCHANGED <<locks, lock_count>>

Waits(r) == req[r].pc = "wait" /\ Idle(HandleOf(r))

\* pvfs_wait_dispatch of a retry message, for a request that waits.
Retry(r) ==
    /\ notices[r] > 0
    /\ Waits(r)
    /\ notices' = [notices EXCEPT ![r] = @ - 1]
    /\ TryGranted(r) \/ TryRefused(r, FALSE)
    /\ UNCHANGED <<open, replies>>

\* The message finds no wait with its pointer.
DropNotice(r) ==
    /\ notices[r] > 0
    /\ req[r].pc # "wait" /\ Idle(HandleOf(r))
    /\ notices' = [notices EXCEPT ![r] = @ - 1]
    /\ UNCHANGED <<locks, open, lock_count, pending_list, req, replies>>

\* Mutant of Timeout: the request waits on.
TimeoutWaitsOn(r) ==
    /\ Waits(r)
    /\ TryGranted(r) \/ TryRefused(r, FALSE)
    /\ UNCHANGED <<open, replies, notices>>

\* pvfs_wait_timeout: a last try.
Timeout(r) ==
    /\ Waits(r)
    /\ TryGranted(r) \/ TryRefused(r, TRUE)
    /\ UNCHANGED <<open, replies, notices>>

\* pvfs_cancel: no retry.
Cancel(r) ==
    /\ Waits(r)
    /\ pending_list' = Unlisted(r)
    /\ Goto(r, "gaveup", req[r].i)
    /\ UNCHANGED <<locks, open, lock_count, replies, notices>>

\* The comparison of pvfs_lock_cancel: the first entry in which the requests
\* differ is looked at only if it is one of the unlocks.
CancelMatches(p, in) ==
    LET all(x) == x.ulocks \o x.locks
    IN  /\ Len(p.ulocks) = Len(in.ulocks) /\ Len(p.locks) = Len(in.locks)
        /\ p.shared = in.shared
        /\ \A j \in DOMAIN in.ulocks : all(p)[j] = all(in)[j]

\* pvfs_lock_cancel: the first match in the list has its timeout triggered.
pvfs_lock_cancel(in) ==
    LET h == in.handle
        k == SelectInSeq(pending_list[h], LAMBDA p : CancelMatches(req[p].in, in))
    IN  /\ h \in open /\ Idle(h)
        /\ k # 0
        /\ LET p == pending_list[h][k] IN TryGranted(p) \/ TryRefused(p, TRUE)
        /\ UNCHANGED <<open, replies, notices>>

\* Mutant of RemovePending: after a timeout the entry stays in the database.
RemoveIfGranted(r) ==
    /\ req[r].pc \in {"granted", "gaveup"}
    /\ locks' = IF req[r].pc = "granted" THEN brl_tdb_remove_pending(locks, r) ELSE locks
    /\ IF req[r].pc = "granted" THEN Goto(r, "lock", req[r].i + 1)
                                ELSE Goto(r, "undo", FirstUndone(req[r].i))
    /\ UNCHANGED <<open, lock_count, pending_list, replies, notices>>

\* The pending entry is no longer needed: on to the rest of the locks, which
\* may wait again, or back out of the ones that were granted.
RemovePending(r) ==
    /\ req[r].pc \in {"granted", "gaveup"}
    /\ locks' = brl_tdb_remove_pending(locks, r)
    /\ IF req[r].pc = "granted" THEN Goto(r, "lock", req[r].i + 1)
                                ELSE Goto(r, "undo", FirstUndone(req[r].i))
    /\ UNCHANGED <<open, lock_count, pending_list, replies, notices>>

-----------------------------------------------------------------------------
(* pvfs_lock_close *)

\* brl_close, when the handle has or waits for locks: waiters of others are
\* told, but for those of the closed handle, whose requests are answered.
CloseLocks(h) ==
    LET rest == brl_tdb_close(locks, h)
    IN  IF lock_count[h] # 0 \/ pending_list[h] # <<>>
        THEN /\ locks' = rest
             /\ Send(IF Len(rest) < Len(locks) THEN brl_tdb_notify_all(rest) ELSE {})
        ELSE UNCHANGED <<locks, notices>>

\* Mutant of pvfs_lock_close: only handles that have been granted a lock are
\* closed in the database.
CloseIfCounted(h) ==
    LET waiting == ToSet(pending_list[h])
        rest == brl_tdb_close(locks, h)
    IN  /\ h \in open
        /\ Idle(h)
        /\ IF lock_count[h] # 0
           THEN locks' = rest /\ Send(brl_tdb_notify_all(rest))
           ELSE UNCHANGED <<locks, notices>>
        /\ open' = open \ {h}
        /\ lock_count' = [lock_count EXCEPT ![h] = 0]
        /\ pending_list' = [pending_list EXCEPT ![h] = <<>>]
        /\ req' = [r \in Request |-> IF r \in waiting THEN [req[r] EXCEPT !.pc = "failed", !.i = 0]
                                                      ELSE req[r]]
        /\ replies' = [r \in Request |-> IF r \in waiting THEN replies[r] + 1 ELSE replies[r]]

pvfs_lock_close(h) ==
    LET waiting == ToSet(pending_list[h])
    IN  /\ h \in open
        /\ Idle(h)
        /\ CloseLocks(h)
        /\ open' = open \ {h}
        /\ lock_count' = [lock_count EXCEPT ![h] = 0]
        /\ pending_list' = [pending_list EXCEPT ![h] = <<>>]
        /\ req' = [r \in Request |-> IF r \in waiting THEN [req[r] EXCEPT !.pc = "failed", !.i = 0]
                                                      ELSE req[r]]
        /\ replies' = [r \in Request |-> IF r \in waiting THEN replies[r] + 1 ELSE replies[r]]

-----------------------------------------------------------------------------

\* A step of the handler that runs for request r.
Handler(r) ==
    \/ UnlocksDone(r) \/ UnlockNext(r)
    \/ LocksDone(r) \/ LockNext(r)
    \/ UndoNext(r) \/ UndoDone(r)
    \/ RemovePending(r)

Next ==
    \/ \E r \in Request, in \in Inputs : StartLock(r, in)
    \/ \E r \in Request : Handler(r)
    \/ \E r \in Request : Retry(r) \/ DropNotice(r)
    \/ \E r \in Request : Timeout(r)
    \/ \E r \in Request : Cancel(r)
    \/ \E in \in Inputs : pvfs_lock_cancel(in)
    \/ \E h \in Handle : pvfs_lock_close(h)

Spec == Init /\ [][Next]_vars

\* A process runs a handler to its end, its event loop serves messages, and
\* every wait has a timer.
Fairness ==
    \A r \in Request : WF_vars(Handler(r)) /\ WF_vars(Retry(r) \/ DropNotice(r))
                       /\ WF_vars(Timeout(r))

FairSpec == Spec /\ Fairness

-----------------------------------------------------------------------------
(* Properties *)

\* The variables have their types; of a request, that the undo loops stay
\* within its entries.
TypeOK ==
    /\ locks \in Seq(Lock)
    /\ open \subseteq Handle
    /\ lock_count \in [Handle -> Int]
    /\ pending_list \in [Handle -> Seq(Request)]
    /\ req \in [Request -> ReqState]
    /\ replies \in [Request -> Nat]
    /\ notices \in [Request -> Nat]

\* The offsets a range covers, up to the end of the offset space.
Bytes(l) == {b \in 0 .. Space - 1 : l.start <= b /\ b < l.start + l.size}

Granted == {i \in DOMAIN locks : ~IsPending(locks[i])}

\* Exclusion, which is what locks are for: two handles, or two pids on one
\* handle, never both hold a byte that one of them locked for writing,
\* whatever unlocks, retries and undos came before (brl_tdb_lock).
Exclusion ==
    \A i, j \in Granted :
        Bytes(locks[i]) \cap Bytes(locks[j]) # {} =>
            \/ locks[i].type = "READ" /\ locks[j].type = "READ"
            \/ locks[i].handle = locks[j].handle /\ locks[i].pid = locks[j].pid

\* What brl_tdb_locktest lets through agrees with what brl_tdb_lock granted:
\* the holder of a lock may read what it locked; nobody else may read or write
\* what is locked for writing; and nobody but its writers may write what is
\* locked for reading.
LocksProtect ==
    \A i \in Granted, h \in Handle, p \in Pid, kind \in {"READ", "WRITE"} :
        LET io == [locks[i] EXCEPT !.handle = h, !.pid = p, !.type = kind]
            own == h = locks[i].handle /\ p = locks[i].pid
        IN  Bytes(io) # {} =>
                /\ own /\ kind = "READ" => brl_tdb_locktest(locks, io)
                /\ ~own /\ locks[i].type = "WRITE" => ~brl_tdb_locktest(locks, io)
                /\ locks[i].type = "READ" /\ kind = "WRITE" => ~brl_tdb_locktest(locks, io)

\* The database, the list of the handle and the request agree on who waits for
\* what: a pending entry is the one of a request that waits for that range (or
\* is about to remove it), a waiting request has exactly one, and is listed
\* once.  Otherwise a retry message would carry the address of something freed.
WaitersListed ==
    /\ \A i \in DOMAIN locks : IsPending(locks[i]) =>
        LET r == locks[i].req
        IN  /\ req[r].pc \in {"wait", "granted", "gaveup"}
            /\ locks[i] = AsPending(LockFor(r, req[r].in, req[r].in.locks[req[r].i]))
    /\ \A r \in Request : req[r].pc = "wait" =>
        /\ Cardinality({i \in DOMAIN locks : IsPending(locks[i]) /\ locks[i].req = r}) = 1
        /\ Cardinality({k \in DOMAIN pending_list[HandleOf(r)] :
                            pending_list[HandleOf(r)][k] = r}) = 1
    /\ \A h \in Handle : \A k \in DOMAIN pending_list[h] :
        req[pending_list[h][k]].pc = "wait" /\ HandleOf(pending_list[h][k]) = h

\* A handle that is closed leaves nothing in the database, neither locks nor
\* pending locks: lock_count, by which pvfs_lock_close skips brl_close, says how
\* many locks the handle has after every retry, undo and cancel.
NothingLeft ==
    /\ \A h \in Handle :
        lock_count[h] = Cardinality({i \in Granted : locks[i].handle = h})
    /\ \A i \in DOMAIN locks : locks[i].handle \in open

\* All or nothing: a request that failed holds none of its locks, not those it
\* got before it had to wait either (pvfs_lock_async_failed).
FailedHoldsNothing ==
    \A i \in Granted : req[locks[i].req].pc # "failed"

\* A request that waits could have its lock, and no message tells it to try.
Forgotten(r) ==
    /\ req[r].pc = "wait"
    /\ notices[r] = 0
    /\ CanLock(locks, LockFor(r, req[r].in, req[r].in.locks[req[r].i]))

\* No lost wakeup: a waiter whose range has become free is told, by
\* brl_tdb_notify_unlock or, after a close, by brl_tdb_notify_all.
NoLostWakeup == \A r \in Request : ~Forgotten(r)

\* Every lock request is answered, one that waits at the latest after the
\* timeout of pvfs_wait_message, even if no retry message reaches it; and it is
\* answered only once, also when its handle is closed or it is cancelled while a
\* message or the timeout for it is on its way.  (Requests are finitely many, so
\* in the end no new one comes.)
AnsweredOnce == <>[](\A r \in Request : req[r].pc # "unsent" => replies[r] = 1)
=============================================================================
