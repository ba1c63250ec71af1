---------------------------- MODULE PvfsLockInv ----------------------------
(***************************************************************************)
(* The invariants of PvfsLock that its proofs rest on, and what they ask   *)
(* of the clients.                                                         *)
(***************************************************************************)
EXTENDS PvfsLock

(* What the clients send *)

\* No range reaches the end of the offset space, where the sums of
\* brl_tdb_overlap wrap.
RangesEnd ==
    \A in \in Inputs : \A j \in DOMAIN in.locks : in.locks[j].start + in.locks[j].size < Space

\* A request for several ranges, which may have to be undone, is for exclusive
\* locks on ranges that are not empty: the lock that brl_tdb_unlock finds for
\* one of its entries can then be no other than its own.
UndoFindsOwn ==
    \A in \in Inputs : Len(in.locks) > 1 =>
        ~in.shared /\ \A j \in DOMAIN in.locks : in.locks[j].size > 0

\* A request unlocks only what an answered request has: what a request that
\* still waits for the rest of its ranges was granted is left alone.
OrderlyUnlocks ==
    \A r \in Request :
        LET k == Held(r, req[r].in.ulocks[req[r].i])
        IN  req[r].pc = "unlock" /\ req[r].i <= Len(req[r].in.ulocks) /\ k # 0 =>
                req[locks[k].req].pc = "ok"

\* No request has an unlock for a range of a request for several.
SeveralNotUnlocked ==
    \A in1, in2 \in Inputs : Len(in1.locks) > 1 /\ in1.handle = in2.handle =>
        \A j \in DOMAIN in1.locks, k \in DOMAIN in2.ulocks : in1.locks[j] # in2.ulocks[k]

-----------------------------------------------------------------------------
(* The parts of the inductive invariants *)

\* The types, and that a request is at one of its entries.
Typed ==
    /\ locks \in Seq(Lock)
    /\ open \subseteq Handle
    /\ lock_count \in [Handle -> Int]
    /\ pending_list \in [Handle -> Seq(Request)]
    /\ req \in [Request -> ReqState]

Position(r) ==
    LET n == Len(req[r].in.locks)
    IN  /\ req[r].pc = "unlock" => req[r].i \in 1 .. Len(req[r].in.ulocks) + 1
        /\ req[r].pc = "lock" => req[r].i \in 1 .. n + 1
        /\ req[r].pc \in {"wait", "granted", "gaveup"} => req[r].i \in 1 .. n
        /\ req[r].pc = "undo" => req[r].i \in 0 .. n /\ (~SMB2 => req[r].i < n)

\* The requests whose pending entry is in the database.
Pends(r) == req[r].pc \in {"wait", "granted", "gaveup"}

\* What request r waits for, as the database has it.
PendingEntry(r) == AsPending(LockFor(r, req[r].in, req[r].in.locks[req[r].i]))

PendingEntries ==
    /\ \A x \in DOMAIN locks, r \in Request : IsPending(locks[x]) /\ locks[x].req = r =>
        Pends(r) /\ locks[x] = PendingEntry(r)
    /\ \A r \in Request : Pends(r) =>
        \E x \in DOMAIN locks : IsPending(locks[x]) /\ locks[x].req = r
    /\ \A x, y \in DOMAIN locks :
        IsPending(locks[x]) /\ IsPending(locks[y]) /\ locks[x].req = locks[y].req => x = y

Listed(s, r) == \E k \in DOMAIN s : s[k] = r
Once(s) == \A k, m \in DOMAIN s : s[k] = s[m] => k = m

\* The list of a handle has the requests that wait on it, each once.
ListedWaiters ==
    /\ \A h \in Handle, r \in Request :
        Listed(pending_list[h], r) <=> req[r].pc = "wait" /\ HandleOf(r) = h
    /\ \A h \in Handle : Once(pending_list[h])

\* Exclusion by what brl_tdb_conflict compares.
Compatible ==
    \A x, y \in Granted : brl_tdb_overlap(locks[x], locks[y]) =>
        \/ locks[x].type = "READ" /\ locks[y].type = "READ"
        \/ locks[x].handle = locks[y].handle /\ locks[x].pid = locks[y].pid

\* Ranges in the database end before the offset space does.
EntriesEnd == \A x \in DOMAIN locks : locks[x].start + locks[x].size < Space

\* A process runs one handler at a time.
OneHandler ==
    \A q, r \in Request :
        /\ req[q].pc \in Running /\ req[r].pc \in Running
        /\ ServerOf[HandleOf(q)] = ServerOf[HandleOf(r)]
        => q = r

\* Requests that are under way are on open handles, and so is what they got.
OnOpenHandles ==
    /\ \A r \in Request : req[r].pc \in Running \cup {"wait"} => HandleOf(r) \in open
    /\ \A x \in DOMAIN locks : locks[x].handle \in open

\* How many of its entries request r has been granted and has not given back.
Got(r) == IF req[r].pc \in {"lock", "wait", "gaveup"} THEN req[r].i - 1
          ELSE IF req[r].pc \in {"granted", "undo"} THEN req[r].i ELSE 0

Nth(r, j) == LockFor(r, req[r].in, req[r].in.locks[j])

\* What a request under way was granted is there, and is all different; and
\* everything that is there was granted to a request under way or answered.
GotIsThere ==
    /\ \A r \in Request : \A j \in 1 .. Got(r) : \E x \in DOMAIN locks : locks[x] = Nth(r, j)
    /\ \A r \in Request : \A j, k \in 1 .. Got(r) : Nth(r, j) = Nth(r, k) => j = k

ThereWasGot ==
    \A x \in Granted, r \in Request : locks[x].req = r =>
        req[r].pc = "ok" \/ \E j \in 1 .. Got(r) : locks[x] = Nth(r, j)

\* An exclusive lock is in the database once.
OneWriter ==
    \A x, y \in Granted :
        /\ locks[x].type = "WRITE" /\ locks[y].type = "WRITE"
        /\ locks[x].handle = locks[y].handle /\ locks[x].pid = locks[y].pid
        /\ locks[x].start = locks[y].start /\ locks[x].size = locks[y].size
        /\ locks[x].size # 0
        => x = y

Counted ==
    \A h \in Handle : lock_count[h] = Cardinality({x \in Granted : locks[x].handle = h})

\* Who waits for what.
WaitInv == Typed /\ (\A r \in Request : Position(r)) /\ PendingEntries /\ ListedWaiters

\* Who holds what, with unlocks that are orderly.
HoldInv ==
    /\ WaitInv /\ OneHandler /\ OnOpenHandles
    /\ GotIsThere /\ ThereWasGot /\ OneWriter /\ Counted
=============================================================================
