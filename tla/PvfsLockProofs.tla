--------------------------- MODULE PvfsLockProofs ---------------------------
(***************************************************************************)
(* Byte range locks for any number of processes, handles, requests and     *)
(* offsets: who waits for what (WaitersListed), that no two conflicting    *)
(* locks are granted (Exclusion, LocksProtect), and, when clients unlock   *)
(* only what they have been told they have, that nothing is left behind by *)
(* a request that failed or a handle that was closed.                      *)
(***************************************************************************)
EXTENDS PvfsLockInv, SubsequenceProofs

(* Entries and requests *)

\* The lock of a request for one of its entries.
LEMMA LockForIsLock ==
    ASSUME NEW r \in Request, NEW in \in Inputs, NEW j \in DOMAIN in.locks
    PROVE  LET l == LockFor(r, in, in.locks[j])
           IN  /\ l \in Lock /\ AsPending(l) \in Lock
               /\ ~IsPending(l) /\ IsPending(AsPending(l))
               /\ l.req = r /\ l.handle = in.handle
               /\ l.pid = in.locks[j].pid /\ l.start = in.locks[j].start /\ l.size = in.locks[j].size
               /\ l.type = (IF in.shared THEN "READ" ELSE "WRITE")
               /\ AsPending(l).req = r /\ AsPending(l).handle = in.handle
               /\ AsPending(l).start = l.start /\ AsPending(l).size = l.size
<1>1. in \in Input /\ in.locks[j] \in Entry
  BY InputAssumption DEF Input
<1> QED
  BY <1>1 DEF LockFor, Lock, LockType, AsPending, IsPending, Input, Entry

\* A request that was sent is a record with the input it was sent with.
LEMMA SentRequest ==
    ASSUME NEW r \in Request, req \in [Request -> ReqState], req[r].pc # "unsent"
    PROVE  /\ req[r] \in [pc: Running \cup {"wait", "ok", "failed"}, in: Inputs, i: Nat]
           /\ req[r].in \in Inputs /\ req[r].in \in Input /\ HandleOf(r) \in Handle
           /\ req[r].i \in Nat
<1>1. req[r] # Unsent
  BY DEF Unsent
<1>2. req[r] \in [pc: Running \cup {"wait", "ok", "failed"}, in: Inputs, i: Nat]
  BY <1>1 DEF ReqState
<1> QED
  BY <1>2, InputAssumption DEF HandleOf, Input

\* The request r is at pc and i, all others are where they were.
Moved(r, pc, i) ==
    /\ req' \in [Request -> ReqState]
    /\ req'[r] = [pc |-> pc, in |-> req[r].in, i |-> i]
    /\ \A q \in Request : q # r => req'[q] = req[q]

\* What moving a request leaves of its record.
LEMMA MovedRecord ==
    ASSUME NEW x \in [pc: Running \cup {"wait", "ok", "failed"}, in: Inputs, i: Nat],
           NEW pc \in Running \cup {"wait", "ok", "failed"}, NEW i \in Nat
    PROVE  [x EXCEPT !.pc = pc, !.i = i] = [pc |-> pc, in |-> x.in, i |-> i]
<1> DEFINE y == [x EXCEPT !.pc = pc, !.i = i]
<1>1. y \in [pc: Running \cup {"wait", "ok", "failed"}, in: Inputs, i: Nat]
  OBVIOUS
<1>2. y.pc = pc /\ y.in = x.in /\ y.i = i
  OBVIOUS
<1> HIDE DEF y
<1>3. y = [pc |-> y.pc, in |-> y.in, i |-> y.i]
  BY <1>1
<1> QED
  BY <1>2, <1>3 DEF y

\* What Goto and Reply do to the requests.
LEMMA GotoMoves ==
    ASSUME NEW r \in Request, req \in [Request -> ReqState], req[r].pc # "unsent",
           NEW pc \in Running \cup {"wait", "ok", "failed"}, NEW i \in Nat, Goto(r, pc, i)
    PROVE  Moved(r, pc, i)
<1>1. req[r] \in [pc: Running \cup {"wait", "ok", "failed"}, in: Inputs, i: Nat]
  BY SentRequest
<1>2. req' = [req EXCEPT ![r] = [pc |-> pc, in |-> req[r].in, i |-> i]]
  <2>1. [req[r] EXCEPT !.pc = pc, !.i = i] = [pc |-> pc, in |-> req[r].in, i |-> i]
    BY <1>1, MovedRecord
  <2>2. req' = [req EXCEPT ![r] = [@ EXCEPT !.pc = pc, !.i = i]]
    BY DEF Goto
  <2> QED
    BY <2>1, <2>2
<1>3. [pc |-> pc, in |-> req[r].in, i |-> i] \in ReqState
  BY <1>1 DEF ReqState
<1> QED
  BY <1>2, <1>3 DEF Moved

\* Answering a request moves it to its end.
LEMMA ReplyMoves ==
    ASSUME NEW r \in Request, req \in [Request -> ReqState], req[r].pc # "unsent",
           NEW pc \in {"ok", "failed"}, Reply(r, pc)
    PROVE  Moved(r, pc, 0)
<1>1. Goto(r, pc, 0)
  BY DEF Reply, Goto
<1> QED
  BY <1>1, GotoMoves

-----------------------------------------------------------------------------
(* The operations on the array *)

\* brl_tdb_unlock takes out a lock that is granted on exactly the range, and
\* an exclusive one if there is one.
LEMMA UnlockIndexFinds ==
    ASSUME NEW lk \in Seq(Lock), NEW h, NEW pid, NEW start, NEW size
    PROVE  LET k == UnlockIndex(lk, h, pid, start, size)
               Same(l) == l.handle = h /\ l.pid = pid /\ l.start = start /\ l.size = size
           IN  /\ k # 0 => k \in DOMAIN lk /\ Same(lk[k]) /\ ~IsPending(lk[k])
               /\ \A x \in DOMAIN lk : Same(lk[x]) /\ lk[x].type = "WRITE" =>
                      k # 0 /\ lk[k].type = "WRITE"
<1> DEFINE Same(l) == l.handle = h /\ l.pid = pid /\ l.start = start /\ l.size = size
           W == {i \in 1 .. Len(lk) : Same(lk[i]) /\ lk[i].type = "WRITE"}
           G == {i \in 1 .. Len(lk) : Same(lk[i]) /\ ~IsPending(lk[i])}
           k == UnlockIndex(lk, h, pid, start, size)
<1>1. W \in SUBSET Nat /\ G \in SUBSET Nat /\ W \subseteq G
  BY DEF IsPending
<1>2. (W # {} => Min(W) \in W) /\ (G # {} => Min(G) \in G)
  BY <1>1, MinNat
<1>3. k = (IF W # {} /\ Min(W) # 0 THEN Min(W) ELSE IF G # {} THEN Min(G) ELSE 0)
  BY DEF UnlockIndex, SelectInSeq
<1>4. DOMAIN lk = 1 .. Len(lk)
  OBVIOUS
<1> HIDE DEF k
<1>5. W # {} => k \in W
  BY <1>2, <1>3
<1>6. W = {} => (k = 0 \/ k \in G)
  BY <1>2, <1>3
<1>7. k # 0 => k \in G
  BY <1>1, <1>5, <1>6
<1>8. \A x \in DOMAIN lk : Same(lk[x]) /\ lk[x].type = "WRITE" => k # 0 /\ lk[k].type = "WRITE"
  BY <1>4, <1>5
<1> QED
  BY <1>4, <1>7, <1>8 DEF k

\* brl_tdb_remove_pending takes out the entry of the request if it has one.
LEMMA RemovePendingKeeps ==
    ASSUME NEW lk \in Seq(Lock), NEW r, NEW x \in DOMAIN lk, IsPending(lk[x]), lk[x].req = r,
           \A y \in DOMAIN lk : IsPending(lk[y]) /\ lk[y].req = r => y = x
    PROVE  /\ brl_tdb_remove_pending(lk, r) \in Seq(Lock)
           /\ Keeps(brl_tdb_remove_pending(lk, r), lk, DOMAIN lk \ {x})
<1> DEFINE P == {i \in 1 .. Len(lk) : IsPending(lk[i]) /\ lk[i].req = r}
<1>1. P = {x}
  OBVIOUS
<1>2. P \in SUBSET Nat /\ P # {}
  BY <1>1
<1>3. Min(P) = x
  BY <1>1, <1>2, MinNat
<1>4. brl_tdb_remove_pending(lk, r) = RemoveAt(lk, x)
  BY <1>1, <1>3 DEF brl_tdb_remove_pending, RemoveFirstMatch, SelectInSeq
<1> QED
  BY <1>4, RemoveAtKeeps

\* A list without an element that it has once.
LEMMA RemoveFirstKeeps ==
    ASSUME NEW S, NEW s \in Seq(S), NEW x \in DOMAIN s, \A y \in DOMAIN s : s[y] = s[x] => y = x
    PROVE  /\ RemoveFirst(s, s[x]) \in Seq(S)
           /\ Keeps(RemoveFirst(s, s[x]), s, DOMAIN s \ {x})
<1> DEFINE P == {i \in 1 .. Len(s) : s[i] = s[x]}
<1>1. P = {x}
  OBVIOUS
<1>2. P \in SUBSET Nat /\ P # {}
  BY <1>1
<1>3. Min(P) = x
  BY <1>1, <1>2, MinNat
<1>4. RemoveFirst(s, s[x]) = RemoveAt(s, x)
  BY <1>1, <1>3 DEF RemoveFirst, SelectInSeq
<1> QED
  BY <1>4, RemoveAtKeeps

\* brl_tdb_close keeps the entries of other handles, in their order.
LEMMA CloseKeeps ==
    ASSUME NEW lk \in Seq(Lock), NEW h
    PROVE  /\ brl_tdb_close(lk, h) \in Seq(Lock)
           /\ Keeps(brl_tdb_close(lk, h), lk, {x \in DOMAIN lk : lk[x].handle # h})
<1>1. {x \in DOMAIN lk : lk[x].handle # h} \in SUBSET DOMAIN lk
  OBVIOUS
<1> QED
  BY <1>1, SubsequenceKeeps DEF brl_tdb_close

-----------------------------------------------------------------------------
(* What the steps do, by their effect on the locks and the requests *)

LockOf(r) == LockFor(r, req[r].in, req[r].in.locks[req[r].i])

\* A request arrives.
Arrives(r, in) ==
    /\ req[r].pc = "unsent" /\ in.handle \in open /\ Idle(in.handle)
    /\ req' \in [Request -> ReqState]
    /\ req'[r] = [pc |-> "unlock", in |-> in, i |-> 1]
    /\ \A q \in Request : q # r => req'[q] = req[q]
    /\ UNCHANGED <<locks, open, lock_count, pending_list>>

\* A handler goes on or answers without a call that changes the database.
Walks(r) ==
    /\ UNCHANGED <<locks, open, lock_count, pending_list>>
    /\ \/ req[r].pc = "unlock" /\ req[r].i > Len(req[r].in.ulocks) /\ Moved(r, "lock", 1)
       \/ req[r].pc = "unlock" /\ Moved(r, "failed", 0)
       \/ req[r].pc = "lock" /\ req[r].i > Len(req[r].in.locks) /\ Moved(r, "ok", 0)
       \/ /\ req[r].pc = "lock" /\ req[r].i <= Len(req[r].in.locks)
          /\ Moved(r, "undo", FirstUndone(req[r].i))
       \/ req[r].pc = "undo" /\ req[r].i = 0 /\ Moved(r, "failed", 0)

\* A lock is granted, at once or to a request that waited.
GetsLock(r) ==
    /\ req[r].i <= Len(req[r].in.locks)
    /\ CanLock(locks, LockOf(r))
    /\ locks' = Append(locks, LockOf(r))
    /\ lock_count' = [lock_count EXCEPT ![HandleOf(r)] = @ + 1]
    /\ \/ req[r].pc = "lock" /\ Moved(r, "lock", req[r].i + 1) /\ UNCHANGED pending_list
       \/ /\ req[r].pc = "wait" /\ Idle(HandleOf(r)) /\ Moved(r, "granted", req[r].i)
          /\ pending_list' = Unlisted(r)
    /\ UNCHANGED open

GoesToWait(r) ==
    /\ req[r].pc = "lock" /\ req[r].i <= Len(req[r].in.locks)
    /\ locks' = Append(locks, AsPending(LockOf(r)))
    /\ pending_list' = [pending_list EXCEPT ![HandleOf(r)] = Cons(r, @)]
    /\ Moved(r, "wait", req[r].i)
    /\ UNCHANGED <<open, lock_count>>

\* A waiting request gives up or goes to the front of the list.
StopsOrWaitsOn(r) ==
    /\ req[r].pc = "wait" /\ Idle(HandleOf(r))
    /\ \/ pending_list' = Unlisted(r) /\ Moved(r, "gaveup", req[r].i)
       \/ /\ pending_list' = [Unlisted(r) EXCEPT ![HandleOf(r)] = Cons(r, @)]
          /\ UNCHANGED req
    /\ UNCHANGED <<locks, open, lock_count>>

TakesOut(r, k) ==
    /\ locks' = RemoveAt(locks, k)
    /\ lock_count' = [lock_count EXCEPT ![HandleOf(r)] = @ - 1]
    /\ \/ /\ req[r].pc = "unlock" /\ req[r].i <= Len(req[r].in.ulocks)
          /\ k = Held(r, req[r].in.ulocks[req[r].i])
          /\ Moved(r, "unlock", req[r].i + 1)
       \/ /\ req[r].pc = "undo" /\ req[r].i > 0
          /\ k = Held(r, req[r].in.locks[req[r].i])
          /\ Moved(r, "undo", req[r].i - 1)
    /\ UNCHANGED <<open, pending_list>>

\* The undo finds nothing.
UndoMisses(r) ==
    /\ req[r].pc = "undo" /\ req[r].i > 0
    /\ Held(r, req[r].in.locks[req[r].i]) = 0
    /\ lock_count' = [lock_count EXCEPT ![HandleOf(r)] = @ - 1]
    /\ Moved(r, "undo", req[r].i - 1)
    /\ UNCHANGED <<locks, open, pending_list>>

ForgetsPending(r) ==
    /\ locks' = brl_tdb_remove_pending(locks, r)
    /\ \/ req[r].pc = "granted" /\ Moved(r, "lock", req[r].i + 1)
       \/ req[r].pc = "gaveup" /\ Moved(r, "undo", FirstUndone(req[r].i))
    /\ UNCHANGED <<open, lock_count, pending_list>>

Closes(h) ==
    /\ h \in open /\ Idle(h)
    /\ \/ locks' = brl_tdb_close(locks, h)
       \/ lock_count[h] = 0 /\ pending_list[h] = <<>> /\ UNCHANGED locks
    /\ open' = open \ {h}
    /\ lock_count' = [lock_count EXCEPT ![h] = 0]
    /\ pending_list' = [pending_list EXCEPT ![h] = <<>>]
    /\ req' = [r \in Request |-> IF \E k \in DOMAIN pending_list[h] : pending_list[h][k] = r
                                 THEN [req[r] EXCEPT !.pc = "failed", !.i = 0] ELSE req[r]]

NoEffect == UNCHANGED <<locks, open, lock_count, pending_list, req>>

Effect ==
    \/ NoEffect
    \/ \E r \in Request, in \in Inputs : Arrives(r, in)
    \/ \E r \in Request : Walks(r)
    \/ \E r \in Request : GetsLock(r)
    \/ \E r \in Request : GoesToWait(r)
    \/ \E r \in Request : StopsOrWaitsOn(r)
    \/ \E r \in Request, k \in DOMAIN locks : TakesOut(r, k)
    \/ \E r \in Request : UndoMisses(r)
    \/ \E r \in Request : ForgetsPending(r)
    \/ \E h \in Handle : Closes(h)

Positions == \A r \in Request : Position(r)

\* What brl_tdb_unlock finds is in the array.
LEMMA HeldFinds ==
    ASSUME Typed, NEW r \in Request, NEW e
    PROVE  Held(r, e) = 0 \/ Held(r, e) \in DOMAIN locks
BY UnlockIndexFinds DEF Typed, Held

\* Every step of the handler of a request is one of the effects listed.
LEMMA HandlerEffect ==
    ASSUME Typed, Positions, NEW r \in Request, Handler(r)
    PROVE  Effect
<1> USE DEF Running
<1>0. req \in [Request -> ReqState]
  BY DEF Typed
<1>1. CASE UnlocksDone(r)
  <2>1. Moved(r, "lock", 1)
    BY <1>0, <1>1, GotoMoves DEF UnlocksDone
  <2> QED
    BY <1>1, <2>1 DEF UnlocksDone, Walks, Effect
<1>2. CASE UnlockNext(r)
  <2> DEFINE k == Held(r, req[r].in.ulocks[req[r].i])
  <2>0. req[r].pc = "unlock" /\ req[r].i <= Len(req[r].in.ulocks) /\ UNCHANGED <<open, pending_list>>
    BY <1>2 DEF UnlockNext
  <2>1. req[r].i + 1 \in Nat /\ (k = 0 \/ k \in DOMAIN locks)
    BY <1>0, <2>0, SentRequest, HeldFinds
  <2>2. CASE k # 0 /\ brl_tdb_unlock(k) /\ Goto(r, "unlock", req[r].i + 1)
             /\ lock_count' = [lock_count EXCEPT ![HandleOf(r)] = @ - 1]
    <3>1. Moved(r, "unlock", req[r].i + 1)
      BY <1>0, <2>0, <2>1, <2>2, GotoMoves
    <3>2. locks' = RemoveAt(locks, k)
      BY <2>2 DEF brl_tdb_unlock
    <3> HIDE DEF k
    <3>3. k \in DOMAIN locks
      BY <2>1, <2>2
    <3>4. TakesOut(r, k)
      BY <2>0, <2>2, <3>1, <3>2 DEF TakesOut, k
    <3> QED
      BY <3>3, <3>4 DEF Effect
  <2>3. CASE Reply(r, "failed") /\ UNCHANGED <<locks, lock_count>>
    <3>1. Moved(r, "failed", 0)
      BY <1>0, <2>0, <2>3, ReplyMoves
    <3> QED
      BY <2>0, <2>3, <3>1 DEF Walks, Effect
  <2> QED
    BY <1>2, <2>2, <2>3 DEF UnlockNext, HandleOf
<1>3. CASE LocksDone(r)
  <2>1. Moved(r, "ok", 0)
    BY <1>0, <1>3, ReplyMoves DEF LocksDone
  <2> QED
    BY <1>3, <2>1 DEF LocksDone, Walks, Effect
<1>4. CASE LockNext(r)
  <2>0. req[r].pc = "lock" /\ req[r].i <= Len(req[r].in.locks) /\ UNCHANGED open
    BY <1>4 DEF LockNext
  <2>1. req[r].i \in Nat /\ req[r].i + 1 \in Nat /\ FirstUndone(req[r].i) \in Nat
    <3>1. req[r].i \in 1 .. Len(req[r].in.locks) + 1
      BY <2>0 DEF Positions, Position
    <3>2. Len(req[r].in.locks) \in Nat
      BY <1>0, <2>0, SentRequest DEF Input
    <3> QED
      BY <3>1, <3>2 DEF FirstUndone
  <2>2. CASE /\ CanLock(locks, LockOf(r)) /\ locks' = Append(locks, LockOf(r))
             /\ lock_count' = [lock_count EXCEPT ![HandleOf(r)] = @ + 1]
             /\ Goto(r, "lock", req[r].i + 1) /\ UNCHANGED pending_list
    <3>1. Moved(r, "lock", req[r].i + 1)
      BY <1>0, <2>0, <2>1, <2>2, GotoMoves
    <3> QED
      BY <2>0, <2>2, <3>1 DEF GetsLock, Effect
  <2>3. CASE /\ locks' = Append(locks, AsPending(LockOf(r)))
             /\ pending_list' = [pending_list EXCEPT ![HandleOf(r)] = Cons(r, @)]
             /\ Goto(r, "wait", req[r].i) /\ UNCHANGED lock_count
    <3>1. Moved(r, "wait", req[r].i)
      BY <1>0, <2>0, <2>1, <2>3, GotoMoves
    <3> QED
      BY <2>0, <2>3, <3>1 DEF GoesToWait, Effect
  <2>4. CASE Goto(r, "undo", FirstUndone(req[r].i)) /\ UNCHANGED <<locks, lock_count, pending_list>>
    <3>1. Moved(r, "undo", FirstUndone(req[r].i))
      BY <1>0, <2>0, <2>1, <2>4, GotoMoves
    <3> QED
      BY <2>0, <2>4, <3>1 DEF Walks, Effect
  <2> QED
    BY <1>4, <2>2, <2>3, <2>4 DEF LockNext, HandleOf, LockOf
<1>5. CASE UndoNext(r)
  <2> DEFINE k == Held(r, req[r].in.locks[req[r].i])
  <2>0. /\ req[r].pc = "undo" /\ req[r].i > 0 /\ UNCHANGED <<open, pending_list>>
        /\ lock_count' = [lock_count EXCEPT ![HandleOf(r)] = @ - 1]
        /\ Goto(r, "undo", req[r].i - 1)
    BY <1>5 DEF UndoNext, HandleOf
  <2>1. req[r].i - 1 \in Nat /\ (k = 0 \/ k \in DOMAIN locks)
    BY <1>0, <2>0, SentRequest, HeldFinds
  <2>2. Moved(r, "undo", req[r].i - 1)
    BY <1>0, <2>0, <2>1, GotoMoves
  <2>3. CASE k # 0
    <3>1. locks' = RemoveAt(locks, k)
      BY <1>5, <2>3 DEF UndoNext, brl_tdb_unlock
    <3> HIDE DEF k
    <3>2. k \in DOMAIN locks
      BY <2>1, <2>3
    <3>3. TakesOut(r, k)
      BY <2>0, <2>2, <2>3, <3>1 DEF TakesOut, k
    <3> QED
      BY <3>2, <3>3 DEF Effect
  <2>4. CASE k = 0
    <3>1. UNCHANGED locks
      BY <1>5, <2>4 DEF UndoNext
    <3> QED
      BY <2>0, <2>2, <2>4, <3>1 DEF UndoMisses, Effect
  <2> QED
    BY <2>3, <2>4
<1>6. CASE UndoDone(r)
  <2>1. Moved(r, "failed", 0)
    BY <1>0, <1>6, ReplyMoves DEF UndoDone
  <2> QED
    BY <1>6, <2>1 DEF UndoDone, Walks, Effect
<1>7. CASE RemovePending(r)
  <2>0. /\ req[r].pc \in {"granted", "gaveup"}
        /\ locks' = brl_tdb_remove_pending(locks, r)
        /\ UNCHANGED <<open, lock_count, pending_list>>
    BY <1>7 DEF RemovePending
  <2>1. req[r].i + 1 \in Nat /\ FirstUndone(req[r].i) \in Nat
    <3>1. req[r].i \in 1 .. Len(req[r].in.locks)
      BY <2>0 DEF Positions, Position
    <3> QED
      BY <3>1 DEF FirstUndone
  <2>2. CASE req[r].pc = "granted"
    <3>1. Moved(r, "lock", req[r].i + 1)
      BY <1>0, <1>7, <2>1, <2>2, GotoMoves DEF RemovePending
    <3> QED
      BY <2>0, <2>2, <3>1 DEF ForgetsPending, Effect
  <2>3. CASE req[r].pc = "gaveup"
    <3>1. Moved(r, "undo", FirstUndone(req[r].i))
      BY <1>0, <1>7, <2>1, <2>3, GotoMoves DEF RemovePending
    <3> QED
      BY <2>0, <2>3, <3>1 DEF ForgetsPending, Effect
  <2> QED
    BY <2>0, <2>2, <2>3
<1> QED
  BY <1>1, <1>2, <1>3, <1>4, <1>5, <1>6, <1>7 DEF Handler

\* So is what the retry of a pending lock does.
LEMMA TryEffect ==
    ASSUME Typed, Positions, NEW r \in Request, req[r].pc = "wait", Idle(HandleOf(r)),
           UNCHANGED open,
           \/ TryGranted(r) \/ TryRefused(r, TRUE) \/ TryRefused(r, FALSE)
           \/ /\ pending_list' = Unlisted(r) /\ Goto(r, "gaveup", req[r].i)
              /\ UNCHANGED <<locks, lock_count>>
    PROVE  Effect
<1> USE DEF Running
<1>0. req \in [Request -> ReqState] /\ req[r].i \in Nat
  BY SentRequest DEF Typed
<1>1. req[r].i <= Len(req[r].in.locks)
  BY DEF Positions, Position
<1>2. CASE TryGranted(r)
  <2>1. Moved(r, "granted", req[r].i)
    BY <1>0, <1>2, GotoMoves DEF TryGranted
  <2> QED
    BY <1>1, <1>2, <2>1 DEF TryGranted, GetsLock, LockOf, HandleOf, Effect
<1>3. CASE /\ pending_list' = Unlisted(r) /\ Goto(r, "gaveup", req[r].i)
           /\ UNCHANGED <<locks, lock_count>>
  <2>1. Moved(r, "gaveup", req[r].i)
    BY <1>0, <1>3, GotoMoves
  <2> QED
    BY <1>3, <2>1 DEF StopsOrWaitsOn, Effect
<1>4. CASE TryRefused(r, TRUE)
  BY <1>3, <1>4 DEF TryRefused
<1>5. CASE TryRefused(r, FALSE)
  <2>1. StopsOrWaitsOn(r)
    BY <1>5 DEF TryRefused, StopsOrWaitsOn, HandleOf
  <2> QED
    BY <2>1 DEF Effect
<1> QED
  BY <1>2, <1>3, <1>4, <1>5

\* Every step has one of the effects.
LEMMA StepEffect ==
    ASSUME Typed, Positions, ListedWaiters, [Next]_vars
    PROVE  Effect
<1>1. CASE \E r \in Request, in \in Inputs : StartLock(r, in)
  <2>1. PICK r \in Request, in \in Inputs : StartLock(r, in)
    BY <1>1
  <2>2. req' = [req EXCEPT ![r] = [pc |-> "unlock", in |-> in, i |-> 1]]
    BY <2>1 DEF StartLock
  <2>3. [pc |-> "unlock", in |-> in, i |-> 1] \in ReqState
    BY DEF ReqState, Running
  <2>4. /\ req' \in [Request -> ReqState] /\ req'[r] = [pc |-> "unlock", in |-> in, i |-> 1]
        /\ \A q \in Request : q # r => req'[q] = req[q]
    BY <2>2, <2>3 DEF Typed
  <2>5. req[r].pc = "unsent"
    BY <2>1 DEF StartLock, Unsent
  <2>6. Arrives(r, in)
    BY <2>1, <2>4, <2>5 DEF StartLock, Arrives
  <2> QED
    BY <2>6 DEF Effect
<1>2. CASE \E r \in Request : Handler(r)
  BY <1>2, HandlerEffect
<1>3. CASE \E r \in Request : Retry(r)
  BY <1>3, TryEffect DEF Retry, Waits
<1>4. CASE \E r \in Request : DropNotice(r)
  BY <1>4 DEF DropNotice, NoEffect, Effect
<1>5. CASE \E r \in Request : Timeout(r)
  BY <1>5, TryEffect DEF Timeout, Waits
<1>6. CASE \E r \in Request : Cancel(r)
  BY <1>6, TryEffect DEF Cancel, Waits
<1>7. CASE \E in \in Inputs : pvfs_lock_cancel(in)
  <2>1. PICK in \in Inputs : pvfs_lock_cancel(in)
    BY <1>7
  <2> DEFINE h == in.handle
             M == {i \in 1 .. Len(pending_list[h]) : CancelMatches(req[pending_list[h][i]].in, in)}
             k == IF M # {} THEN Min(M) ELSE 0
             p == pending_list[h][k]
  <2>2. h \in Handle /\ Idle(h) /\ UNCHANGED open /\ k # 0
        /\ (TryGranted(p) \/ TryRefused(p, TRUE))
    BY <2>1 DEF pvfs_lock_cancel, SelectInSeq, Typed
  <2>3. pending_list[h] \in Seq(Request)
    BY <2>2 DEF Typed
  <2>4. M \in SUBSET Nat /\ M \subseteq DOMAIN pending_list[h]
    BY <2>3
  <2> HIDE DEF M
  <2>5. k \in M
    BY <2>2, <2>4, MinNat
  <2> HIDE DEF k
  <2>6. k \in DOMAIN pending_list[h] /\ p \in Request
    <3>1. k \in DOMAIN pending_list[h]
      BY <2>4, <2>5
    <3> QED
      BY <2>3, <3>1
  <2>7. req[p].pc = "wait" /\ HandleOf(p) = h
    <3>1. Listed(pending_list[h], p)
      BY <2>6 DEF Listed
    <3> QED
      BY <2>2, <2>6, <3>1 DEF ListedWaiters
  <2> QED
    BY <2>2, <2>6, <2>7, TryEffect
<1>8. CASE \E h \in Handle : pvfs_lock_close(h)
  <2>1. PICK h \in Handle : pvfs_lock_close(h)
    BY <1>8
  <2>2. \/ locks' = brl_tdb_close(locks, h)
        \/ lock_count[h] = 0 /\ pending_list[h] = <<>> /\ UNCHANGED locks
    BY <2>1 DEF pvfs_lock_close, CloseLocks
  <2>3. \A r : r \in ToSet(pending_list[h]) <=> \E k \in DOMAIN pending_list[h] : pending_list[h][k] = r
    BY DEF ToSet
  <2>4. Closes(h)
    BY <2>1, <2>2, <2>3 DEF pvfs_lock_close, Closes
  <2> QED
    BY <2>4 DEF Effect
<1>9. CASE UNCHANGED vars
  BY <1>9 DEF vars, NoEffect, Effect
<1> QED
  BY <1>1, <1>2, <1>3, <1>4, <1>5, <1>6, <1>7, <1>8, <1>9 DEF Next

-----------------------------------------------------------------------------
(* Who waits for what *)

\* What a close does to the requests, and that no other request of the handle
\* is under way.
LEMMA CloseMoves ==
    ASSUME Typed, ListedWaiters, NEW h \in Handle, Closes(h)
    PROVE  /\ req' \in [Request -> ReqState]
           /\ \A r \in Request : req[r].pc = "wait" /\ HandleOf(r) = h =>
                 req'[r] = [pc |-> "failed", in |-> req[r].in, i |-> 0]
           /\ \A r \in Request : ~(req[r].pc = "wait" /\ HandleOf(r) = h) => req'[r] = req[r]
           /\ \A r \in Request : req[r].pc \in Running => HandleOf(r) # h
<1> DEFINE listed(r) == \E k \in DOMAIN pending_list[h] : pending_list[h][k] = r
<1>1. \A r \in Request : listed(r) <=> req[r].pc = "wait" /\ HandleOf(r) = h
  BY DEF Typed, ListedWaiters, Listed
<1>2. \A r \in Request : req[r].pc = "wait" =>
        [req[r] EXCEPT !.pc = "failed", !.i = 0] = [pc |-> "failed", in |-> req[r].in, i |-> 0]
  <2> SUFFICES ASSUME NEW r \in Request, req[r].pc = "wait"
               PROVE  [req[r] EXCEPT !.pc = "failed", !.i = 0] =
                      [pc |-> "failed", in |-> req[r].in, i |-> 0]
    OBVIOUS
  <2>1. req[r] \in [pc: Running \cup {"wait", "ok", "failed"}, in: Inputs, i: Nat]
    BY SentRequest DEF Typed
  <2> QED
    BY <2>1, MovedRecord
<1>3. req' = [r \in Request |-> IF listed(r) THEN [req[r] EXCEPT !.pc = "failed", !.i = 0] ELSE req[r]]
  BY DEF Closes
<1> HIDE DEF listed
<1>4. /\ \A r \in Request : req[r].pc = "wait" /\ HandleOf(r) = h =>
           req'[r] = [pc |-> "failed", in |-> req[r].in, i |-> 0]
      /\ \A r \in Request : ~(req[r].pc = "wait" /\ HandleOf(r) = h) => req'[r] = req[r]
  BY <1>1, <1>2, <1>3
<1>5. \A r \in Request : req'[r] \in ReqState
  <2> TAKE r \in Request
  <2>1. CASE req[r].pc = "wait" /\ HandleOf(r) = h
    <3>1. req[r].in \in Inputs
      BY <2>1, SentRequest DEF Typed
    <3>2. [pc |-> "failed", in |-> req[r].in, i |-> 0] \in ReqState
      BY <3>1 DEF ReqState
    <3> QED
      BY <1>4, <2>1, <3>2
  <2>2. CASE ~(req[r].pc = "wait" /\ HandleOf(r) = h)
    BY <1>4, <2>2 DEF Typed
  <2> QED
    BY <2>1, <2>2
<1>6. \A r \in Request : req[r].pc \in Running => HandleOf(r) # h
  BY DEF Closes, Idle
<1> QED
  BY <1>3, <1>4, <1>5, <1>6

\* A request that waits is in the list of its handle, once: taking it out.
LEMMA UnlistedKeeps ==
    ASSUME Typed, ListedWaiters, NEW r \in Request, req[r].pc = "wait"
    PROVE  LET h == HandleOf(r)
               l == Unlisted(r)[h]
           IN  /\ h \in Handle /\ l \in Seq(Request)
               /\ Unlisted(r) \in [Handle -> Seq(Request)]
               /\ Unlisted(r) = [pending_list EXCEPT ![h] = l]
               /\ Once(l) /\ \A q : Listed(l, q) <=> q # r /\ Listed(pending_list[h], q)
<1> DEFINE h == HandleOf(r)
           s == pending_list[h]
<1>1. h \in Handle
  BY SentRequest DEF Typed
<1>2. s \in Seq(Request)
  BY <1>1 DEF Typed
<1>3. PICK x \in DOMAIN s : s[x] = r /\ \A y \in DOMAIN s : s[y] = s[x] => y = x
  BY <1>1 DEF ListedWaiters, Listed, Once
<1>4. Unlisted(r) = [pending_list EXCEPT ![h] = RemoveFirst(s, r)]
  BY DEF Unlisted
<1>5. Unlisted(r)[h] = RemoveFirst(s, r)
  BY <1>1, <1>4 DEF Typed
<1> HIDE DEF s, h
<1>6. RemoveFirst(s, r) \in Seq(Request) /\ Keeps(RemoveFirst(s, r), s, DOMAIN s \ {x})
  BY <1>2, <1>3, RemoveFirstKeeps
<1>7. Unlisted(r) \in [Handle -> Seq(Request)]
  BY <1>1, <1>4, <1>6 DEF Typed
<1>8. PICK f : KeptFrom(f, RemoveFirst(s, r), s, DOMAIN s \ {x})
  BY <1>6 DEF Keeps
<1>9. Once(RemoveFirst(s, r))
  BY <1>1, <1>8 DEF KeptFrom, Once, ListedWaiters, s
<1>10. \A q : Listed(RemoveFirst(s, r), q) <=> q # r /\ Listed(s, q)
  BY <1>3, <1>8 DEF KeptFrom, Listed
<1> QED
  BY <1>1, <1>4, <1>5, <1>6, <1>7, <1>9, <1>10 DEF s, h

\* The i-th entry of a request under way is a lock.
LEMMA LockOfIsLock ==
    ASSUME Typed, NEW r \in Request, req[r].pc # "unsent", NEW j \in DOMAIN req[r].in.locks
    PROVE  LET l == Nth(r, j)
           IN  /\ l \in Lock /\ AsPending(l) \in Lock
               /\ ~IsPending(l) /\ IsPending(AsPending(l))
               /\ l.req = r /\ l.handle = HandleOf(r)
               /\ l.pid = req[r].in.locks[j].pid /\ l.start = req[r].in.locks[j].start
               /\ l.size = req[r].in.locks[j].size
               /\ l.type = (IF req[r].in.shared THEN "READ" ELSE "WRITE")
               /\ AsPending(l).req = r /\ AsPending(l).handle = HandleOf(r)
               /\ AsPending(l).start = l.start /\ AsPending(l).size = l.size
<1>1. req[r].in \in Inputs
  BY SentRequest DEF Typed
<1> QED
  BY <1>1, LockForIsLock DEF Nth, HandleOf

\* The steps keep the types.
LEMMA TypedStep ==
    ASSUME Typed, Positions, PendingEntries, ListedWaiters, Effect
    PROVE  Typed'
<1>1. CASE NoEffect
  BY <1>1 DEF NoEffect, Typed
<1>2. ASSUME NEW r \in Request, NEW in \in Inputs, Arrives(r, in)
      PROVE  Typed'
  BY <1>2 DEF Arrives, Typed
<1>3. ASSUME NEW r \in Request, Walks(r)
      PROVE  Typed'
  BY <1>3 DEF Walks, Moved, Typed
<1>4. ASSUME NEW r \in Request, GetsLock(r)
      PROVE  Typed'
  <2>1. req[r].pc \in {"lock", "wait"} /\ req[r].i \in DOMAIN req[r].in.locks
    <3>1. req[r].pc \in {"lock", "wait"} /\ req[r].i <= Len(req[r].in.locks)
      BY <1>4 DEF GetsLock
    <3>2. req[r].in.locks \in Seq(Entry)
      BY <3>1, SentRequest DEF Typed, Input
    <3>3. req[r].i \in 1 .. Len(req[r].in.locks)
      BY <3>1, <3>2 DEF Positions, Position
    <3> QED
      BY <3>1, <3>2, <3>3
  <2>2. LockOf(r) \in Lock /\ HandleOf(r) \in Handle
    BY <2>1, LockOfIsLock, SentRequest DEF LockOf, Nth, Typed
  <2>3. locks' \in Seq(Lock)
    BY <1>4, <2>2 DEF GetsLock, Typed
  <2>4. lock_count' \in [Handle -> Int]
    BY <1>4, <2>2 DEF GetsLock, Typed
  <2>5. pending_list' \in [Handle -> Seq(Request)]
    <3>1. CASE UNCHANGED pending_list
      BY <3>1 DEF Typed
    <3>2. CASE req[r].pc = "wait" /\ pending_list' = Unlisted(r)
      BY <3>2, UnlistedKeeps DEF Typed
    <3> QED
      BY <1>4, <3>1, <3>2 DEF GetsLock
  <2> QED
    BY <1>4, <2>3, <2>4, <2>5 DEF GetsLock, Moved, Typed
<1>5. ASSUME NEW r \in Request, GoesToWait(r)
      PROVE  Typed'
  <2>1. req[r].pc = "lock" /\ req[r].i \in DOMAIN req[r].in.locks
    <3>1. req[r].pc = "lock" /\ req[r].i <= Len(req[r].in.locks)
      BY <1>5 DEF GoesToWait
    <3>2. req[r].in.locks \in Seq(Entry)
      BY <3>1, SentRequest DEF Typed, Input
    <3>3. req[r].i \in 1 .. Len(req[r].in.locks)
      BY <3>1, <3>2 DEF Positions, Position
    <3> QED
      BY <3>1, <3>2, <3>3
  <2>2. AsPending(LockOf(r)) \in Lock /\ HandleOf(r) \in Handle
    BY <2>1, LockOfIsLock, SentRequest DEF LockOf, Nth, Typed
  <2>3. locks' \in Seq(Lock)
    BY <1>5, <2>2 DEF GoesToWait, Typed
  <2>4. pending_list' \in [Handle -> Seq(Request)]
    BY <1>5, <2>2 DEF GoesToWait, Typed, Cons
  <2> QED
    BY <1>5, <2>3, <2>4 DEF GoesToWait, Moved, Typed
<1>6. ASSUME NEW r \in Request, StopsOrWaitsOn(r)
      PROVE  Typed'
  <2>1. req[r].pc = "wait"
    BY <1>6 DEF StopsOrWaitsOn
  <2>2. HandleOf(r) \in Handle /\ Unlisted(r) \in [Handle -> Seq(Request)]
    BY <2>1, UnlistedKeeps DEF Typed
  <2>3. pending_list' \in [Handle -> Seq(Request)]
    <3> DEFINE u == Unlisted(r)
               h == HandleOf(r)
    <3>1. <<r>> \o u[h] \in Seq(Request)
      BY <2>2
    <3>2. [u EXCEPT ![h] = <<r>> \o u[h]] \in [Handle -> Seq(Request)]
      BY <2>2, <3>1
    <3>3. pending_list' = u \/ pending_list' = [u EXCEPT ![h] = <<r>> \o u[h]]
      BY <1>6 DEF StopsOrWaitsOn, Cons
    <3> QED
      BY <2>2, <3>2, <3>3
  <2>4. req' \in [Request -> ReqState]
    BY <1>6 DEF StopsOrWaitsOn, Moved, Typed
  <2> QED
    BY <1>6, <2>3, <2>4 DEF StopsOrWaitsOn, Typed
<1>7. ASSUME NEW r \in Request, NEW k \in DOMAIN locks, TakesOut(r, k)
      PROVE  Typed'
  <2>1. HandleOf(r) \in Handle
    BY <1>7, SentRequest DEF TakesOut, Typed
  <2>2. locks' \in Seq(Lock)
    BY <1>7, RemoveAtKeeps DEF TakesOut, Typed
  <2>3. lock_count' \in [Handle -> Int]
    BY <1>7, <2>1 DEF TakesOut, Typed
  <2> QED
    BY <1>7, <2>2, <2>3 DEF TakesOut, Moved, Typed
<1>8. ASSUME NEW r \in Request, UndoMisses(r)
      PROVE  Typed'
  <2>1. HandleOf(r) \in Handle
    BY <1>8, SentRequest DEF UndoMisses, Typed
  <2> QED
    BY <1>8, <2>1 DEF UndoMisses, Moved, Typed
<1>9. ASSUME NEW r \in Request, ForgetsPending(r)
      PROVE  Typed'
  <2>1. Pends(r)
    BY <1>9 DEF ForgetsPending, Pends
  <2>2. PICK x \in DOMAIN locks : IsPending(locks[x]) /\ locks[x].req = r
    BY <2>1 DEF PendingEntries
  <2>3. \A y \in DOMAIN locks : IsPending(locks[y]) /\ locks[y].req = r => y = x
    BY <2>2 DEF PendingEntries
  <2>4. locks' \in Seq(Lock)
    BY <1>9, <2>2, <2>3, RemovePendingKeeps DEF ForgetsPending, Typed
  <2> QED
    BY <1>9, <2>4 DEF ForgetsPending, Moved, Typed
<1>10. ASSUME NEW h \in Handle, Closes(h)
       PROVE  Typed'
  <2>1. locks' \in Seq(Lock)
    BY <1>10, CloseKeeps DEF Closes, Typed
  <2>2. req' \in [Request -> ReqState]
    BY <1>10, CloseMoves
  <2>3. lock_count' \in [Handle -> Int] /\ open' \subseteq Handle
    <3>1. lock_count' = [lock_count EXCEPT ![h] = 0] /\ open' = open \ {h}
      BY <1>10 DEF Closes
    <3> QED
      BY <3>1 DEF Typed
  <2>4. <<>> \in Seq(Request)
    OBVIOUS
  <2>5. pending_list' \in [Handle -> Seq(Request)]
    <3>1. pending_list' = [pending_list EXCEPT ![h] = <<>>]
      BY <1>10 DEF Closes
    <3> QED
      BY <2>4, <3>1 DEF Typed
  <2> QED
    BY <2>1, <2>2, <2>3, <2>5 DEF Typed
<1> QED
  BY <1>1, <1>2, <1>3, <1>4, <1>5, <1>6, <1>7, <1>8, <1>9, <1>10 DEF Effect

\* A handler stays within the entries of its request.
LEMMA PositionsStep ==
    ASSUME Typed, Positions, ListedWaiters, Effect
    PROVE  Positions'
<1> SUFFICES ASSUME NEW q \in Request
             PROVE  Position(q)'
  BY DEF Positions
<1> USE DEF Position
<1>0. Position(q) /\ SMB2 \in BOOLEAN
  BY InputAssumption DEF Positions
<1>1. req'[q] = req[q] => Position(q)'
  BY <1>0
<1>2. ASSUME NEW r \in Request, NEW in \in Inputs, Arrives(r, in)
      PROVE  Position(q)'
  <2>1. in.ulocks \in Seq(Entry)
    BY InputAssumption DEF Input
  <2> QED
    BY <1>1, <1>2, <2>1 DEF Arrives
<1>3. ASSUME NEW r \in Request, NEW pc, NEW i, Moved(r, pc, i), req[r].pc # "unsent",
             LET n == Len(req[r].in.locks)
             IN  /\ pc = "unlock" => i \in 1 .. Len(req[r].in.ulocks) + 1
                 /\ pc = "lock" => i \in 1 .. n + 1
                 /\ pc \in {"wait", "granted", "gaveup"} => i \in 1 .. n
                 /\ pc = "undo" => i \in 0 .. n /\ (~SMB2 => i < n)
      PROVE  Position(q)'
  BY <1>1, <1>3 DEF Moved
<1>4. \A r \in Request : req[r].pc # "unsent" =>
         /\ Len(req[r].in.locks) \in Nat /\ Len(req[r].in.ulocks) \in Nat /\ req[r].i \in Nat
         /\ Position(r)
  <2> SUFFICES ASSUME NEW r \in Request, req[r].pc # "unsent"
               PROVE  /\ Len(req[r].in.locks) \in Nat /\ Len(req[r].in.ulocks) \in Nat
                      /\ req[r].i \in Nat
    BY DEF Positions
  <2>1. req[r].in \in Input /\ req[r].i \in Nat
    BY SentRequest DEF Typed
  <2> QED
    BY <2>1 DEF Input
<1>u. ASSUME NEW n \in Nat, NEW i \in 1 .. n
      PROVE  FirstUndone(i) \in 0 .. n /\ (~SMB2 => FirstUndone(i) < n)
  <2>1. CASE SMB2
    BY <2>1 DEF FirstUndone
  <2>2. CASE ~SMB2
    BY <2>2 DEF FirstUndone
  <2> QED
    BY <2>1, <2>2
<1>5. ASSUME NEW r \in Request, Walks(r)
      PROVE  Position(q)'
  <2>1. CASE req[r].pc = "unlock" /\ Moved(r, "lock", 1)
    BY <1>3, <1>4, <2>1
  <2>2. CASE req[r].pc \in {"unlock", "undo"} /\ Moved(r, "failed", 0)
    BY <1>3, <2>2
  <2>3. CASE req[r].pc = "lock" /\ Moved(r, "ok", 0)
    BY <1>3, <2>3
  <2>4. CASE /\ req[r].pc = "lock" /\ req[r].i <= Len(req[r].in.locks)
             /\ Moved(r, "undo", FirstUndone(req[r].i))
    <3>1. FirstUndone(req[r].i) \in 0 .. Len(req[r].in.locks) /\
          (~SMB2 => FirstUndone(req[r].i) < Len(req[r].in.locks))
      <4>1. req[r].i \in 1 .. Len(req[r].in.locks) /\ Len(req[r].in.locks) \in Nat
        BY <1>0, <1>4, <2>4
      <4> QED
        BY <1>u, <4>1
    <3> QED
      BY <1>3, <2>4, <3>1
  <2> QED
    BY <1>5, <2>1, <2>2, <2>3, <2>4 DEF Walks
<1>6. ASSUME NEW r \in Request, GetsLock(r)
      PROVE  Position(q)'
  BY <1>3, <1>4, <1>6 DEF GetsLock
<1>7. ASSUME NEW r \in Request, GoesToWait(r)
      PROVE  Position(q)'
  BY <1>3, <1>4, <1>7 DEF GoesToWait
<1>8. ASSUME NEW r \in Request, StopsOrWaitsOn(r)
      PROVE  Position(q)'
  BY <1>1, <1>3, <1>4, <1>8 DEF StopsOrWaitsOn
<1>9. ASSUME NEW r \in Request, NEW k \in DOMAIN locks, TakesOut(r, k)
      PROVE  Position(q)'
  <2>1. CASE /\ req[r].pc = "unlock" /\ req[r].i <= Len(req[r].in.ulocks)
             /\ Moved(r, "unlock", req[r].i + 1)
    BY <1>3, <1>4, <2>1
  <2>2. CASE req[r].pc = "undo" /\ req[r].i > 0 /\ Moved(r, "undo", req[r].i - 1)
    BY <1>3, <1>4, <2>2
  <2> QED
    BY <1>9, <2>1, <2>2 DEF TakesOut
<1>10. ASSUME NEW r \in Request, UndoMisses(r)
       PROVE  Position(q)'
  BY <1>3, <1>4, <1>10 DEF UndoMisses
<1>11. ASSUME NEW r \in Request, ForgetsPending(r)
       PROVE  Position(q)'
  <2>1. CASE req[r].pc = "granted" /\ Moved(r, "lock", req[r].i + 1)
    BY <1>3, <1>4, <2>1
  <2>2. CASE req[r].pc = "gaveup" /\ Moved(r, "undo", FirstUndone(req[r].i))
    <3>1. FirstUndone(req[r].i) \in 0 .. Len(req[r].in.locks) /\
          (~SMB2 => FirstUndone(req[r].i) < Len(req[r].in.locks))
      <4>1. req[r].i \in 1 .. Len(req[r].in.locks) /\ Len(req[r].in.locks) \in Nat
        BY <1>0, <1>4, <2>2
      <4> QED
        BY <1>u, <4>1
    <3> QED
      BY <1>3, <2>2, <3>1
  <2> QED
    BY <1>11, <2>1, <2>2 DEF ForgetsPending
<1>12. ASSUME NEW h \in Handle, Closes(h)
       PROVE  Position(q)'
  <2>1. req'[q] = req[q] \/ req'[q].pc = "failed"
    <3>1. CASE req[q].pc = "wait" /\ HandleOf(q) = h
      <4>1. req'[q] = [pc |-> "failed", in |-> req[q].in, i |-> 0]
        BY <1>12, <3>1, CloseMoves
      <4> QED
        BY <4>1
    <3>2. CASE ~(req[q].pc = "wait" /\ HandleOf(q) = h)
      BY <1>12, <3>2, CloseMoves
    <3> QED
      BY <3>1, <3>2
  <2> QED
    BY <1>1, <2>1
<1>13. CASE NoEffect
  BY <1>1, <1>13 DEF NoEffect
<1> QED
  BY <1>2, <1>5, <1>6, <1>7, <1>8, <1>9, <1>10, <1>11, <1>12, <1>13 DEF Effect

\* A request in front of a list.
LEMMA ConsLists ==
    ASSUME NEW s \in Seq(Request), NEW r \in Request
    PROVE  /\ \A q : Listed(Cons(r, s), q) <=> q = r \/ Listed(s, q)
           /\ Once(s) /\ ~Listed(s, r) => Once(Cons(r, s))
<1>1. Cons(r, s) = <<r>> \o s
  BY DEF Cons
<1>2. /\ Len(Cons(r, s)) = Len(s) + 1 /\ Cons(r, s) \in Seq(Request)
      /\ Cons(r, s)[1] = r
      /\ \A k \in 1 .. Len(s) : Cons(r, s)[k + 1] = s[k]
  BY <1>1
<1> DEFINE t == Cons(r, s)
<1> HIDE DEF t
<1>3. DOMAIN t = 1 .. Len(s) + 1 /\ DOMAIN s = 1 .. Len(s)
  BY <1>2 DEF t
<1>4. t[1] = r /\ \A k \in DOMAIN t : k # 1 => k - 1 \in DOMAIN s /\ t[k] = s[k - 1]
  <2> SUFFICES ASSUME NEW k \in DOMAIN t, k # 1
               PROVE  k - 1 \in DOMAIN s /\ t[k] = s[k - 1]
    BY <1>2 DEF t
  <2>1. k - 1 \in 1 .. Len(s) /\ k = (k - 1) + 1
    BY <1>3
  <2> QED
    BY <1>2, <1>3, <2>1 DEF t
<1>5. \A k \in DOMAIN s : k + 1 \in DOMAIN t /\ t[k + 1] = s[k]
  BY <1>2, <1>3 DEF t
<1>6. 1 \in DOMAIN t
  BY <1>3
<1>7. \A q : Listed(t, q) <=> q = r \/ Listed(s, q)
  BY <1>4, <1>5, <1>6 DEF Listed
<1>8. ASSUME Once(s), ~Listed(s, r)
      PROVE  Once(t)
  <2> SUFFICES ASSUME NEW k \in DOMAIN t, NEW m \in DOMAIN t, t[k] = t[m], k # m
               PROVE  FALSE
    BY DEF Once
  <2>1. k \in Nat /\ m \in Nat
    BY <1>3
  <2>2. CASE k # 1 /\ m # 1
    BY <1>4, <1>8, <2>1, <2>2 DEF Once
  <2>3. CASE k = 1 \/ m = 1
    BY <1>4, <1>8, <2>3 DEF Listed
  <2> QED
    BY <2>2, <2>3
<1> QED
  BY <1>7, <1>8 DEF t

\* The lists of the handles go with the requests that wait.
LEMMA ListedWaitersStep ==
    ASSUME Typed, Positions, ListedWaiters, Effect
    PROVE  ListedWaiters'
<1>a. pending_list \in [Handle -> Seq(Request)] /\ req \in [Request -> ReqState]
  BY DEF Typed
<1>b. /\ \A h \in Handle, r \in Request :
           Listed(pending_list[h], r) <=> req[r].pc = "wait" /\ req[r].in.handle = h
      /\ \A h \in Handle : Once(pending_list[h])
  BY DEF ListedWaiters, HandleOf
<1>c. \A r \in Request : req[r].pc # "unsent" => req[r].in.handle \in Handle
  BY <1>a, SentRequest DEF HandleOf
<1>d. ASSUME /\ \A h \in Handle, r \in Request :
                  Listed(pending_list'[h], r) <=> req'[r].pc = "wait" /\ req'[r].in.handle = h
             /\ \A h \in Handle : Once(pending_list'[h])
      PROVE  ListedWaiters'
  BY <1>d DEF ListedWaiters, HandleOf
\* The request waits neither before nor after.
<1>e. ASSUME NEW r \in Request, req[r].pc # "wait", req'[r].pc # "wait",
             \A q \in Request : q # r => req'[q] = req[q], UNCHANGED pending_list
      PROVE  ListedWaiters'
  <2>1. \A q \in Request : req'[q] = req[q] \/ (req[q].pc # "wait" /\ req'[q].pc # "wait")
    BY <1>e
  <2> QED
    BY <1>b, <1>d, <1>e, <2>1
\* The request waits no longer.
<1>f. ASSUME NEW r \in Request, req[r].pc = "wait", req'[r].pc # "wait",
             \A q \in Request : q # r => req'[q] = req[q], pending_list' = Unlisted(r)
      PROVE  ListedWaiters'
  <2> DEFINE h == req[r].in.handle
             l == Unlisted(r)[h]
  <2>1. /\ h \in Handle /\ pending_list' = [pending_list EXCEPT ![h] = l]
        /\ Once(l) /\ \A q : Listed(l, q) <=> q # r /\ Listed(pending_list[h], q)
    BY <1>f, UnlistedKeeps DEF HandleOf
  <2> HIDE DEF l
  <2>2. pending_list'[h] = l /\ \A g \in Handle : g # h => pending_list'[g] = pending_list[g]
    BY <1>a, <2>1
  <2>3. \A g \in Handle : Once(pending_list'[g])
    BY <1>b, <2>1, <2>2
  <2>4. \A g \in Handle, q \in Request :
           Listed(pending_list'[g], q) <=> req'[q].pc = "wait" /\ req'[q].in.handle = g
    <3> TAKE g \in Handle, q \in Request
    <3>1. CASE g = h
      BY <1>b, <1>f, <2>1, <2>2, <3>1
    <3>2. CASE g # h
      BY <1>b, <1>f, <2>2, <3>2
    <3> QED
      BY <3>1, <3>2
  <2> QED
    BY <1>d, <2>3, <2>4
<1>1. CASE NoEffect
  BY <1>1, <1>b, <1>d DEF NoEffect
<1>2. ASSUME NEW r \in Request, NEW in \in Inputs, Arrives(r, in)
      PROVE  ListedWaiters'
  BY <1>2, <1>e DEF Arrives
<1>3. ASSUME NEW r \in Request, Walks(r)
      PROVE  ListedWaiters'
  <2>1. req[r].pc # "wait" /\ req'[r].pc # "wait"
    BY <1>3 DEF Walks, Moved
  <2>2. \A q \in Request : q # r => req'[q] = req[q]
    BY <1>3 DEF Walks, Moved
  <2> QED
    BY <1>3, <1>e, <2>1, <2>2 DEF Walks
<1>4. ASSUME NEW r \in Request, GetsLock(r)
      PROVE  ListedWaiters'
  <2>1. CASE req[r].pc = "lock" /\ Moved(r, "lock", req[r].i + 1) /\ UNCHANGED pending_list
    BY <1>e, <2>1 DEF Moved
  <2>2. CASE req[r].pc = "wait" /\ Moved(r, "granted", req[r].i) /\ pending_list' = Unlisted(r)
    BY <1>f, <2>2 DEF Moved
  <2> QED
    BY <1>4, <2>1, <2>2 DEF GetsLock
<1>5. ASSUME NEW r \in Request, GoesToWait(r)
      PROVE  ListedWaiters'
  <2> DEFINE h == req[r].in.handle
             l == Cons(r, pending_list[h])
  <2>1. /\ req[r].pc = "lock" /\ req'[r].pc = "wait" /\ req'[r].in = req[r].in
        /\ pending_list' = [pending_list EXCEPT ![h] = l]
        /\ \A q \in Request : q # r => req'[q] = req[q]
    BY <1>5 DEF GoesToWait, Moved, HandleOf
  <2>2. h \in Handle /\ pending_list[h] \in Seq(Request) /\ ~Listed(pending_list[h], r)
    BY <1>a, <1>b, <1>c, <2>1
  <2>3. Once(l) /\ \A q : Listed(l, q) <=> q = r \/ Listed(pending_list[h], q)
    BY <1>b, <2>2, ConsLists
  <2> HIDE DEF l
  <2>4. pending_list'[h] = l /\ \A g \in Handle : g # h => pending_list'[g] = pending_list[g]
    BY <1>a, <2>1, <2>2
  <2>5. \A g \in Handle : Once(pending_list'[g])
    BY <1>b, <2>3, <2>4
  <2>6. \A g \in Handle, q \in Request :
           Listed(pending_list'[g], q) <=> req'[q].pc = "wait" /\ req'[q].in.handle = g
    <3> TAKE g \in Handle, q \in Request
    <3>1. CASE g = h
      BY <1>b, <2>1, <2>3, <2>4, <3>1
    <3>2. CASE g # h
      BY <1>b, <2>1, <2>4, <3>2
    <3> QED
      BY <3>1, <3>2
  <2> QED
    BY <1>d, <2>5, <2>6
<1>6. ASSUME NEW r \in Request, StopsOrWaitsOn(r)
      PROVE  ListedWaiters'
  <2>0. req[r].pc = "wait"
    BY <1>6 DEF StopsOrWaitsOn
  <2>1. CASE pending_list' = Unlisted(r) /\ Moved(r, "gaveup", req[r].i)
    BY <1>f, <2>0, <2>1 DEF Moved
  <2>2. CASE /\ pending_list' = [Unlisted(r) EXCEPT ![HandleOf(r)] = Cons(r, @)]
             /\ UNCHANGED req
    <3> DEFINE h == req[r].in.handle
               u == Unlisted(r)
               l == Cons(r, u[h])
    <3>1. /\ h \in Handle /\ u[h] \in Seq(Request)
          /\ u = [pending_list EXCEPT ![h] = u[h]]
          /\ Once(u[h]) /\ \A q : Listed(u[h], q) <=> q # r /\ Listed(pending_list[h], q)
      BY <2>0, UnlistedKeeps DEF HandleOf
    <3>2. pending_list' = [u EXCEPT ![h] = l]
      BY <2>2 DEF HandleOf
    <3> HIDE DEF u
    <3>3. Once(l) /\ \A q : Listed(l, q) <=> q = r \/ Listed(u[h], q)
      BY <3>1, ConsLists
    <3> HIDE DEF l
    <3>4. DOMAIN u = Handle /\ \A g \in Handle : g # h => u[g] = pending_list[g]
      BY <1>a, <3>1
    <3>5. pending_list'[h] = l /\ \A g \in Handle : g # h => pending_list'[g] = pending_list[g]
      BY <3>1, <3>2, <3>4
    <3>6. \A g \in Handle : Once(pending_list'[g])
      BY <1>b, <3>3, <3>5
    <3>7. \A q \in Request : Listed(l, q) <=> Listed(pending_list[h], q)
      BY <1>b, <2>0, <3>1, <3>3
    <3>8. \A g \in Handle, q \in Request :
             Listed(pending_list'[g], q) <=> req'[q].pc = "wait" /\ req'[q].in.handle = g
      BY <1>b, <2>2, <3>5, <3>7
    <3> QED
      BY <1>d, <3>6, <3>8
  <2> QED
    BY <1>6, <2>1, <2>2 DEF StopsOrWaitsOn
<1>7. ASSUME NEW r \in Request, NEW k \in DOMAIN locks, TakesOut(r, k)
      PROVE  ListedWaiters'
  <2>1. /\ req[r].pc # "wait" /\ req'[r].pc # "wait"
        /\ \A q \in Request : q # r => req'[q] = req[q]
    BY <1>7 DEF TakesOut, Moved
  <2> QED
    BY <1>7, <1>e, <2>1 DEF TakesOut
<1>8. ASSUME NEW r \in Request, UndoMisses(r)
      PROVE  ListedWaiters'
  BY <1>8, <1>e DEF UndoMisses, Moved
<1>9. ASSUME NEW r \in Request, ForgetsPending(r)
      PROVE  ListedWaiters'
  <2>1. /\ req[r].pc # "wait" /\ req'[r].pc # "wait"
        /\ \A q \in Request : q # r => req'[q] = req[q]
    BY <1>9 DEF ForgetsPending, Moved
  <2> QED
    BY <1>9, <1>e, <2>1 DEF ForgetsPending
<1>10. ASSUME NEW h \in Handle, Closes(h)
       PROVE  ListedWaiters'
  <2>1. pending_list' = [pending_list EXCEPT ![h] = <<>>]
    BY <1>10 DEF Closes
  <2>2. pending_list'[h] = <<>> /\ \A g \in Handle : g # h => pending_list'[g] = pending_list[g]
    BY <1>a, <2>1
  <2>3. Once(<<>>) /\ \A q : ~Listed(<<>>, q)
    BY DEF Once, Listed
  <2>4. \A q \in Request : req[q].pc = "wait" /\ req[q].in.handle = h => req'[q].pc = "failed"
    <3> SUFFICES ASSUME NEW q \in Request, req[q].pc = "wait", req[q].in.handle = h
                 PROVE  req'[q].pc = "failed"
      OBVIOUS
    <3>1. req'[q] = [pc |-> "failed", in |-> req[q].in, i |-> 0]
      BY <1>10, CloseMoves DEF HandleOf
    <3> QED
      BY <3>1
  <2>5. \A q \in Request : ~(req[q].pc = "wait" /\ req[q].in.handle = h) => req'[q] = req[q]
    BY <1>10, CloseMoves DEF HandleOf
  <2>6. \A g \in Handle, q \in Request :
           Listed(pending_list'[g], q) <=> req'[q].pc = "wait" /\ req'[q].in.handle = g
    <3> TAKE g \in Handle, q \in Request
    <3>1. CASE g = h
      BY <2>2, <2>3, <2>4, <2>5, <3>1
    <3>2. CASE g # h
      BY <1>b, <2>2, <2>4, <2>5, <3>2
    <3> QED
      BY <3>1, <3>2
  <2> QED
    BY <1>b, <1>d, <2>2, <2>3, <2>6
<1> QED
  BY <1>1, <1>2, <1>3, <1>4, <1>5, <1>6, <1>7, <1>8, <1>9, <1>10 DEF Effect

\* Every entry belongs to a request.
LEMMA RequestOfLock ==
    ASSUME Typed
    PROVE  \A x \in DOMAIN locks : locks[x] \in Lock /\ locks[x].req \in Request
<1>1. \A l \in Lock : l.req \in Request
  BY DEF Lock
<1>2. \A x \in DOMAIN locks : locks[x] \in Lock
  BY DEF Typed
<1> QED
  BY <1>1, <1>2

\* Steps that keep the pending entries of the requests that still wait.
LEMMA PendingKept ==
    ASSUME Typed, PendingEntries, NEW I \in SUBSET DOMAIN locks, Keeps(locks', locks, I),
           \A x \in I, q \in Request : IsPending(locks[x]) /\ locks[x].req = q =>
               Pends(q)' /\ req'[q].in = req[q].in /\ req'[q].i = req[q].i,
           \A q \in Request : Pends(q)' => \E x \in I : IsPending(locks[x]) /\ locks[x].req = q
    PROVE  PendingEntries'
<1>1. PICK f : KeptFrom(f, locks', locks, I)
  BY DEF Keeps
<1>2. \A q \in Request : req'[q].in = req[q].in /\ req'[q].i = req[q].i =>
         PendingEntry(q)' = PendingEntry(q)
  BY DEF PendingEntry
<1>3. \A x \in DOMAIN locks : locks[x].req \in Request
  BY RequestOfLock DEF Typed
<1>4. ASSUME NEW n \in DOMAIN locks', NEW q \in Request, IsPending(locks'[n]), locks'[n].req = q
      PROVE  Pends(q)' /\ locks'[n] = PendingEntry(q)'
  <2>1. f[n] \in I /\ locks'[n] = locks[f[n]]
    BY <1>1 DEF KeptFrom
  <2>2. locks[f[n]] = PendingEntry(q)
    BY <1>4, <2>1 DEF PendingEntries
  <2> QED
    BY <1>2, <1>3, <1>4, <2>1, <2>2
<1>5. ASSUME NEW q \in Request, Pends(q)'
      PROVE  \E n \in DOMAIN locks' : IsPending(locks'[n]) /\ locks'[n].req = q
  <2>1. PICK x \in I : IsPending(locks[x]) /\ locks[x].req = q
    BY <1>5
  <2>2. PICK n \in DOMAIN locks' : f[n] = x
    BY <1>1 DEF KeptFrom
  <2> QED
    BY <1>1, <2>1, <2>2 DEF KeptFrom
<1>6. ASSUME NEW n \in DOMAIN locks', NEW m \in DOMAIN locks',
             IsPending(locks'[n]), IsPending(locks'[m]), locks'[n].req = locks'[m].req
      PROVE  n = m
  <2>1. /\ f[n] \in DOMAIN locks /\ locks'[n] = locks[f[n]]
        /\ f[m] \in DOMAIN locks /\ locks'[m] = locks[f[m]]
    BY <1>1 DEF KeptFrom
  <2>2. f[n] = f[m]
    BY <1>6, <2>1 DEF PendingEntries
  <2> QED
    BY <1>1, <2>2 DEF KeptFrom
<1> QED
  BY <1>4, <1>5, <1>6 DEF PendingEntries

\* Steps after which the same requests have their pending entries.
LEMMA PendingSame ==
    ASSUME Typed, PendingEntries, UNCHANGED locks,
           \A q \in Request : Pends(q)' <=> Pends(q),
           \A q \in Request : Pends(q) => req'[q].in = req[q].in /\ req'[q].i = req[q].i
    PROVE  PendingEntries'
<1>1. locks \in Seq(Lock) /\ \A x \in DOMAIN locks : locks[x].req \in Request
  BY RequestOfLock DEF Typed
<1>2. Keeps(locks', locks, DOMAIN locks)
  BY <1>1, KeepsAll
<1>3. DOMAIN locks \in SUBSET DOMAIN locks
  OBVIOUS
<1>4. \A x \in DOMAIN locks, q \in Request : IsPending(locks[x]) /\ locks[x].req = q => Pends(q)
  BY DEF PendingEntries
<1>5. \A q \in Request : Pends(q) => \E x \in DOMAIN locks : IsPending(locks[x]) /\ locks[x].req = q
  BY DEF PendingEntries
<1> QED
  BY <1>1, <1>2, <1>3, <1>4, <1>5, PendingKept

\* A request that waits keeps one pending entry, and no other request has one.
LEMMA PendingEntriesStep ==
    ASSUME Typed, Positions, PendingEntries, ListedWaiters, Effect
    PROVE  PendingEntries'
<1> USE DEF Pends
<1>1. CASE NoEffect
  BY <1>1, PendingSame DEF NoEffect
<1>2. ASSUME NEW r \in Request, NEW in \in Inputs, Arrives(r, in)
      PROVE  PendingEntries'
  <2>1. \A q \in Request : req'[q] = req[q] \/ (~Pends(q) /\ ~Pends(q)')
    BY <1>2 DEF Arrives
  <2> QED
    BY <1>2, <2>1, PendingSame DEF Arrives
<1>3. ASSUME NEW r \in Request, Walks(r)
      PROVE  PendingEntries'
  <2>1. \A q \in Request : req'[q] = req[q] \/ (~Pends(q) /\ ~Pends(q)')
    BY <1>3 DEF Walks, Moved
  <2> QED
    BY <1>3, <2>1, PendingSame DEF Walks
<1>4. ASSUME NEW r \in Request, GetsLock(r)
      PROVE  PendingEntries'
  <2> DEFINE n == Len(locks) + 1
             l == LockOf(r)
  <2>1. req[r].pc # "unsent" /\ req[r].i \in DOMAIN req[r].in.locks
    <3>1. req[r].pc \in {"lock", "wait"} /\ req[r].i <= Len(req[r].in.locks)
      BY <1>4 DEF GetsLock
    <3>2. req[r].in.locks \in Seq(Entry)
      BY <3>1, SentRequest DEF Typed, Input
    <3>3. req[r].i \in 1 .. Len(req[r].in.locks)
      BY <3>1, <3>2 DEF Positions, Position
    <3> QED
      BY <3>1, <3>2, <3>3
  <2>2. l \in Lock /\ ~IsPending(l)
    BY <2>1, LockOfIsLock DEF LockOf, Nth
  <2> HIDE DEF l
  <2>3. locks' = Append(locks, l) /\ locks \in Seq(Lock)
    BY <1>4 DEF GetsLock, Typed, l
  <2>4. /\ DOMAIN locks' = DOMAIN locks \cup {n} /\ locks'[n] = l
        /\ \A x \in DOMAIN locks : locks'[x] = locks[x]
    BY <2>2, <2>3, AppendPlaces
  <2>5. \A q \in Request : req'[q] = req[q] \/
           (/\ Pends(q) <=> Pends(q)'
            /\ Pends(q) => req'[q].in = req[q].in /\ req'[q].i = req[q].i)
    <3>1. CASE req[r].pc = "lock" /\ Moved(r, "lock", req[r].i + 1)
      BY <3>1 DEF Moved
    <3>2. CASE req[r].pc = "wait" /\ Moved(r, "granted", req[r].i)
      BY <3>2 DEF Moved
    <3> QED
      BY <1>4, <3>1, <3>2 DEF GetsLock
  <2>6. \A q \in Request : Pends(q) <=> Pends(q)'
    BY <2>5
  <2>7. \A q \in Request : Pends(q) => PendingEntry(q)' = PendingEntry(q)
    BY <2>5 DEF PendingEntry
  <2>8. \A x \in DOMAIN locks : locks[x].req \in Request
    BY RequestOfLock DEF Typed
  <2>9. \A x \in DOMAIN locks' : IsPending(locks'[x]) => x \in DOMAIN locks /\ locks'[x] = locks[x]
    BY <2>2, <2>4
  <2> HIDE DEF n, Pends
  <2>10. \A x \in DOMAIN locks', q \in Request : IsPending(locks'[x]) /\ locks'[x].req = q =>
           Pends(q)' /\ locks'[x] = PendingEntry(q)'
    BY <2>6, <2>7, <2>8, <2>9 DEF PendingEntries
  <2>11. \A q \in Request : Pends(q)' =>
           \E x \in DOMAIN locks' : IsPending(locks'[x]) /\ locks'[x].req = q
    BY <2>4, <2>6 DEF PendingEntries
  <2>12. \A x, y \in DOMAIN locks' :
           IsPending(locks'[x]) /\ IsPending(locks'[y]) /\ locks'[x].req = locks'[y].req => x = y
    BY <2>9 DEF PendingEntries
  <2> QED
    BY <2>10, <2>11, <2>12 DEF PendingEntries
<1>5. ASSUME NEW r \in Request, GoesToWait(r)
      PROVE  PendingEntries'
  <2> DEFINE n == Len(locks) + 1
             l == AsPending(LockOf(r))
  <2>1. req[r].pc = "lock" /\ req[r].i \in DOMAIN req[r].in.locks
    <3>1. req[r].pc = "lock" /\ req[r].i <= Len(req[r].in.locks)
      BY <1>5 DEF GoesToWait
    <3>2. req[r].in.locks \in Seq(Entry)
      BY <3>1, SentRequest DEF Typed, Input
    <3>3. req[r].i \in 1 .. Len(req[r].in.locks)
      BY <3>1, <3>2 DEF Positions, Position
    <3> QED
      BY <3>1, <3>2, <3>3
  <2>2. l \in Lock /\ IsPending(l) /\ l.req = r
    BY <2>1, LockOfIsLock DEF LockOf, Nth
  <2>3. l = PendingEntry(r)'
    BY <1>5 DEF GoesToWait, Moved, PendingEntry, LockOf
  <2> HIDE DEF l
  <2>4. locks' = Append(locks, l) /\ locks \in Seq(Lock)
    BY <1>5 DEF GoesToWait, Typed, l
  <2>5. /\ DOMAIN locks' = DOMAIN locks \cup {n} /\ locks'[n] = l
        /\ \A x \in DOMAIN locks : locks'[x] = locks[x]
    BY <2>2, <2>4, AppendPlaces
  <2>6. Pends(r)' /\ ~Pends(r) /\ \A q \in Request : q # r => req'[q] = req[q]
    BY <1>5 DEF GoesToWait, Moved
  <2>7. \A q \in Request : q # r => PendingEntry(q)' = PendingEntry(q) /\ (Pends(q)' <=> Pends(q))
    BY <2>6 DEF PendingEntry
  <2>8. \A x \in DOMAIN locks : locks[x].req \in Request
    BY RequestOfLock DEF Typed
  <2>9. \A x \in DOMAIN locks : IsPending(locks[x]) => locks[x].req # r
    BY <2>6 DEF PendingEntries
  <2> HIDE DEF n, Pends
  <2>10. \A x \in DOMAIN locks', q \in Request : IsPending(locks'[x]) /\ locks'[x].req = q =>
           Pends(q)' /\ locks'[x] = PendingEntry(q)'
    BY <2>2, <2>3, <2>5, <2>6, <2>7, <2>8, <2>9 DEF PendingEntries
  <2>11. \A q \in Request : Pends(q)' =>
           \E x \in DOMAIN locks' : IsPending(locks'[x]) /\ locks'[x].req = q
    BY <2>2, <2>5, <2>7 DEF PendingEntries
  <2>12. \A x, y \in DOMAIN locks' :
           IsPending(locks'[x]) /\ IsPending(locks'[y]) /\ locks'[x].req = locks'[y].req => x = y
    BY <2>2, <2>5, <2>9 DEF PendingEntries
  <2> QED
    BY <2>10, <2>11, <2>12 DEF PendingEntries
<1>6. ASSUME NEW r \in Request, StopsOrWaitsOn(r)
      PROVE  PendingEntries'
  <2>1. CASE UNCHANGED req
    BY <1>6, <2>1, PendingSame DEF StopsOrWaitsOn
  <2>2. CASE Moved(r, "gaveup", req[r].i)
    <3>1. Pends(r) /\ Pends(r)' /\ req'[r].in = req[r].in /\ req'[r].i = req[r].i
      BY <1>6, <2>2 DEF StopsOrWaitsOn, Moved
    <3>2. \A q \in Request : q # r => req'[q] = req[q]
      BY <2>2 DEF Moved
    <3>3. /\ \A q \in Request : Pends(q)' <=> Pends(q)
          /\ \A q \in Request : Pends(q) => req'[q].in = req[q].in /\ req'[q].i = req[q].i
      BY <3>1, <3>2
    <3> QED
      BY <1>6, <3>3, PendingSame DEF StopsOrWaitsOn
  <2> QED
    BY <1>6, <2>1, <2>2 DEF StopsOrWaitsOn
<1>7. ASSUME NEW r \in Request, NEW k \in DOMAIN locks, TakesOut(r, k)
      PROVE  PendingEntries'
  <2>1. \A q \in Request : req'[q] = req[q] \/ (~Pends(q) /\ ~Pends(q)')
    BY <1>7 DEF TakesOut, Moved
  <2>2. ~IsPending(locks[k])
    <3>1. PICK e : k = Held(r, e)
      BY <1>7 DEF TakesOut
    <3>2. k # 0 /\ locks \in Seq(Lock)
      BY DEF Typed
    <3> QED
      BY <3>1, <3>2, UnlockIndexFinds DEF Held
  <2>3. Keeps(locks', locks, DOMAIN locks \ {k}) /\ DOMAIN locks \ {k} \in SUBSET DOMAIN locks
    BY <1>7, RemoveAtKeeps DEF TakesOut, Typed
  <2>4. \A x \in DOMAIN locks : locks[x].req \in Request
    BY RequestOfLock DEF Typed
  <2> HIDE DEF Pends
  <2>5. \A x \in DOMAIN locks \ {k}, q \in Request : IsPending(locks[x]) /\ locks[x].req = q =>
           Pends(q)' /\ req'[q].in = req[q].in /\ req'[q].i = req[q].i
    <3> SUFFICES ASSUME NEW x \in DOMAIN locks, NEW q \in Request, IsPending(locks[x]), locks[x].req = q
                 PROVE  Pends(q)' /\ req'[q] = req[q]
      OBVIOUS
    <3>1. Pends(q)
      BY DEF PendingEntries
    <3>2. req'[q] = req[q]
      BY <2>1, <2>4, <3>1
    <3> QED
      BY <3>1, <3>2 DEF Pends
  <2>6. \A q \in Request : Pends(q)' =>
           \E x \in DOMAIN locks \ {k} : IsPending(locks[x]) /\ locks[x].req = q
    <3> SUFFICES ASSUME NEW q \in Request, Pends(q)'
                 PROVE  \E x \in DOMAIN locks \ {k} : IsPending(locks[x]) /\ locks[x].req = q
      OBVIOUS
    <3>1. Pends(q)
      BY <2>1 DEF Pends
    <3> QED
      BY <2>2, <3>1 DEF PendingEntries
  <2> QED
    BY <2>3, <2>5, <2>6, PendingKept
<1>8. ASSUME NEW r \in Request, UndoMisses(r)
      PROVE  PendingEntries'
  <2>1. \A q \in Request : req'[q] = req[q] \/ (~Pends(q) /\ ~Pends(q)')
    BY <1>8 DEF UndoMisses, Moved
  <2> QED
    BY <1>8, <2>1, PendingSame DEF UndoMisses
<1>9. ASSUME NEW r \in Request, ForgetsPending(r)
      PROVE  PendingEntries'
  <2>1. Pends(r) /\ ~Pends(r)' /\ \A q \in Request : q # r => req'[q] = req[q]
    BY <1>9 DEF ForgetsPending, Moved
  <2>2. PICK k \in DOMAIN locks : IsPending(locks[k]) /\ locks[k].req = r
    BY <2>1 DEF PendingEntries
  <2>3. \A y \in DOMAIN locks : IsPending(locks[y]) /\ locks[y].req = r => y = k
    BY <2>2 DEF PendingEntries
  <2>4. Keeps(locks', locks, DOMAIN locks \ {k}) /\ DOMAIN locks \ {k} \in SUBSET DOMAIN locks
    BY <1>9, <2>2, <2>3, RemovePendingKeeps DEF ForgetsPending, Typed
  <2>5. \A x \in DOMAIN locks : locks[x].req \in Request
    BY RequestOfLock DEF Typed
  <2> HIDE DEF Pends
  <2>6. \A x \in DOMAIN locks \ {k}, q \in Request : IsPending(locks[x]) /\ locks[x].req = q =>
           Pends(q)' /\ req'[q].in = req[q].in /\ req'[q].i = req[q].i
    <3> SUFFICES ASSUME NEW x \in DOMAIN locks \ {k}, NEW q \in Request, IsPending(locks[x]), locks[x].req = q
                 PROVE  Pends(q)' /\ req'[q] = req[q]
      OBVIOUS
    <3>1. Pends(q) /\ q # r
      BY <2>3 DEF PendingEntries
    <3>2. req'[q] = req[q]
      BY <2>1, <2>5, <3>1
    <3> QED
      BY <3>1, <3>2 DEF Pends
  <2>7. \A q \in Request : Pends(q)' =>
           \E x \in DOMAIN locks \ {k} : IsPending(locks[x]) /\ locks[x].req = q
    <3> SUFFICES ASSUME NEW q \in Request, Pends(q)'
                 PROVE  \E x \in DOMAIN locks \ {k} : IsPending(locks[x]) /\ locks[x].req = q
      OBVIOUS
    <3>1. q # r /\ Pends(q)
      BY <2>1 DEF Pends
    <3> QED
      BY <2>2, <3>1 DEF PendingEntries
  <2> QED
    BY <2>4, <2>6, <2>7, PendingKept
<1>10. ASSUME NEW h \in Handle, Closes(h)
       PROVE  PendingEntries'
  <2> DEFINE I == {x \in DOMAIN locks : locks[x].handle # h}
  <2>1. \A x \in DOMAIN locks : IsPending(locks[x]) =>
           locks[x].req \in Request /\ HandleOf(locks[x].req) = locks[x].handle
    <3> SUFFICES ASSUME NEW x \in DOMAIN locks, IsPending(locks[x])
                 PROVE  locks[x].req \in Request /\ HandleOf(locks[x].req) = locks[x].handle
      OBVIOUS
    <3> DEFINE q == locks[x].req
    <3>1. q \in Request
      BY RequestOfLock DEF Typed
    <3>2. Pends(q) /\ locks[x] = AsPending(Nth(q, req[q].i))
      BY <3>1 DEF PendingEntries, PendingEntry, Nth
    <3>3. req[q].i \in DOMAIN req[q].in.locks
      <4>1. req[q].in.locks \in Seq(Entry)
        BY <3>1, <3>2, SentRequest DEF Typed, Input
      <4>2. req[q].i \in 1 .. Len(req[q].in.locks)
        BY <3>1, <3>2 DEF Positions, Position
      <4> QED
        BY <4>1, <4>2
    <3>4. AsPending(Nth(q, req[q].i)).handle = HandleOf(q)
      BY <3>1, <3>2, <3>3, LockOfIsLock
    <3> QED
      BY <3>1, <3>2, <3>4
  <2>2. \A q \in Request : Pends(q) /\ HandleOf(q) = h => req[q].pc = "wait"
    BY <1>10, CloseMoves DEF Running
  <2>3. \A q \in Request : req[q].pc = "wait" /\ HandleOf(q) = h => ~Pends(q)'
    <3> SUFFICES ASSUME NEW q \in Request, req[q].pc = "wait", HandleOf(q) = h
                 PROVE  ~Pends(q)'
      OBVIOUS
    <3>1. req'[q] = [pc |-> "failed", in |-> req[q].in, i |-> 0]
      BY <1>10, CloseMoves
    <3> QED
      BY <3>1
  <2>4. \A q \in Request : ~(req[q].pc = "wait" /\ HandleOf(q) = h) => req'[q] = req[q]
    BY <1>10, CloseMoves
  <2>5. I \in SUBSET DOMAIN locks
    OBVIOUS
  <2> HIDE DEF Pends
  <2>6. \A x \in I, q \in Request : IsPending(locks[x]) /\ locks[x].req = q =>
           Pends(q)' /\ req'[q].in = req[q].in /\ req'[q].i = req[q].i
    <3> SUFFICES ASSUME NEW x \in I, NEW q \in Request, IsPending(locks[x]), locks[x].req = q
                 PROVE  Pends(q)' /\ req'[q] = req[q]
      OBVIOUS
    <3>1. Pends(q)
      BY DEF PendingEntries
    <3>2. req'[q] = req[q]
      BY <2>1, <2>4
    <3> QED
      BY <3>1, <3>2 DEF Pends
  <2>7. \A q \in Request : Pends(q)' => \E x \in I : IsPending(locks[x]) /\ locks[x].req = q
    <3> SUFFICES ASSUME NEW q \in Request, Pends(q)'
                 PROVE  \E x \in I : IsPending(locks[x]) /\ locks[x].req = q
      OBVIOUS
    <3>1. ~(req[q].pc = "wait" /\ HandleOf(q) = h)
      BY <2>3
    <3>2. Pends(q)
      BY <2>4, <3>1 DEF Pends
    <3>3. PICK x \in DOMAIN locks : IsPending(locks[x]) /\ locks[x].req = q
      BY <3>2 DEF PendingEntries
    <3>4. locks[x].handle # h
      BY <2>1, <2>2, <3>1, <3>2, <3>3
    <3> QED
      BY <3>3, <3>4
  <2>8. CASE locks' = brl_tdb_close(locks, h)
    <3>1. Keeps(locks', locks, I)
      BY <2>8, CloseKeeps DEF Typed
    <3> HIDE DEF I
    <3> QED
      BY <2>5, <2>6, <2>7, <3>1, PendingKept
  <2>9. CASE pending_list[h] = <<>> /\ UNCHANGED locks
    <3>1. \A q \in Request : ~(req[q].pc = "wait" /\ HandleOf(q) = h)
      BY <2>9 DEF ListedWaiters, Listed
    <3>2. \A q \in Request : req'[q] = req[q]
      BY <2>4, <3>1
    <3> QED
      BY <2>9, <3>2, PendingSame DEF Pends
  <2> QED
    BY <1>10, <2>8, <2>9 DEF Closes
<1> QED
  BY <1>1, <1>2, <1>3, <1>4, <1>5, <1>6, <1>7, <1>8, <1>9, <1>10 DEF Effect

\* The invariant of the waiters holds at the start.
LEMMA WaitInvInit == Init => WaitInv
<1> SUFFICES ASSUME Init
             PROVE  WaitInv
  OBVIOUS
<1>1. /\ locks = <<>> /\ open = Handle /\ lock_count = [h \in Handle |-> 0]
      /\ pending_list = [h \in Handle |-> <<>>] /\ req = [r \in Request |-> Unsent]
  BY DEF Init
<1>2. <<>> \in Seq(Lock) /\ <<>> \in Seq(Request)
  OBVIOUS
<1>3. \A r \in Request : req[r].pc = "unsent"
  BY <1>1 DEF Unsent
<1>4. Typed
  BY <1>1, <1>2 DEF Typed, ReqState
<1>5. \A r \in Request : Position(r)
  BY <1>3 DEF Position
<1>6. PendingEntries
  BY <1>1, <1>3 DEF PendingEntries, Pends
<1>7. ListedWaiters
  BY <1>1, <1>3 DEF ListedWaiters, Listed, Once
<1> QED
  BY <1>4, <1>5, <1>6, <1>7 DEF WaitInv

\* Every step keeps it and is one of the effects.
LEMMA WaitInvStep == WaitInv /\ [Next]_vars => WaitInv' /\ Effect
<1> SUFFICES ASSUME WaitInv, [Next]_vars
             PROVE  WaitInv' /\ Effect
  OBVIOUS
<1>1. Typed /\ Positions /\ PendingEntries /\ ListedWaiters
  BY DEF WaitInv, Positions
<1>2. Effect
  BY <1>1, StepEffect
<1>3. Typed' /\ Positions' /\ PendingEntries' /\ ListedWaiters'
  BY <1>1, <1>2, TypedStep, PositionsStep, PendingEntriesStep, ListedWaitersStep
<1> QED
  BY <1>2, <1>3 DEF WaitInv, Positions

\* It gives that waiters are where brl_close and pvfs_lock_close look for
\* them.
LEMMA WaitInvGives == WaitInv => WaitersListed
<1> SUFFICES ASSUME WaitInv
             PROVE  WaitersListed
  OBVIOUS
<1>0. Typed /\ PendingEntries /\ ListedWaiters
  BY DEF WaitInv
<1>1. \A x \in DOMAIN locks : IsPending(locks[x]) =>
         LET r == locks[x].req
         IN  /\ req[r].pc \in {"wait", "granted", "gaveup"}
             /\ locks[x] = AsPending(LockFor(r, req[r].in, req[r].in.locks[req[r].i]))
  BY <1>0, RequestOfLock DEF PendingEntries, PendingEntry, Pends
<1>2. ASSUME NEW r \in Request, req[r].pc = "wait"
      PROVE  Cardinality({x \in DOMAIN locks : IsPending(locks[x]) /\ locks[x].req = r}) = 1
  <2> DEFINE X == {x \in DOMAIN locks : IsPending(locks[x]) /\ locks[x].req = r}
  <2>1. PICK x \in DOMAIN locks : IsPending(locks[x]) /\ locks[x].req = r
    BY <1>0, <1>2 DEF PendingEntries, Pends
  <2>2. X \in SUBSET DOMAIN locks /\ x \in X
    BY <2>1
  <2>3. \A y \in X : y = x
    BY <1>0, <2>1 DEF PendingEntries
  <2> HIDE DEF X
  <2>4. Cardinality(X) = 1
    BY <2>1, <2>2, <2>3, OnePlace
  <2> QED
    BY <2>4 DEF X
<1>3. ASSUME NEW r \in Request, req[r].pc = "wait"
      PROVE  Cardinality({k \in DOMAIN pending_list[HandleOf(r)] :
                             pending_list[HandleOf(r)][k] = r}) = 1
  <2> DEFINE s == pending_list[HandleOf(r)]
             X == {k \in DOMAIN s : s[k] = r}
  <2>1. HandleOf(r) \in Handle
    BY <1>0, <1>3, SentRequest DEF Typed
  <2>2. PICK k \in DOMAIN s : s[k] = r
    BY <1>0, <1>3, <2>1 DEF ListedWaiters, Listed
  <2>3. X \in SUBSET DOMAIN s /\ k \in X
    BY <2>2
  <2>4. \A y \in X : y = k
    BY <1>0, <2>1, <2>2 DEF ListedWaiters, Once
  <2> HIDE DEF X
  <2>5. Cardinality(X) = 1
    BY <2>2, <2>3, <2>4, OnePlace
  <2> QED
    BY <2>5 DEF X
<1>4. ASSUME NEW h \in Handle, NEW k \in DOMAIN pending_list[h]
      PROVE  req[pending_list[h][k]].pc = "wait" /\ HandleOf(pending_list[h][k]) = h
  <2>1. pending_list[h] \in Seq(Request)
    BY <1>0 DEF Typed
  <2>2. pending_list[h][k] \in Request /\ Listed(pending_list[h], pending_list[h][k])
    BY <2>1 DEF Listed
  <2> QED
    BY <1>0, <2>2 DEF ListedWaiters
<1> QED
  BY <1>1, <1>2, <1>3, <1>4 DEF WaitersListed

\* The database, the lists of the handles and the requests agree on who waits
\* for what, whatever the requests are and however waits, retries, timeouts,
\* cancels and closes interleave (pvfs_pending_lock_continue, pvfs_lock_close).
THEOREM WaitersAreListed == Spec => []WaitersListed
BY WaitInvInit, WaitInvStep, WaitInvGives, PTL DEF Spec

-----------------------------------------------------------------------------
(* Types *)

\* The values of a function on a finite set are finitely many.
LEMMA FiniteImage ==
    ASSUME NEW S, IsFiniteSet(S), NEW f, DOMAIN f = S
    PROVE  IsFiniteSet({f[x] : x \in S})
<1> DEFINE T == {f[x] : x \in S}
           g == [x \in S |-> f[x]]
<1>1. g \in Surjection(S, T)
  BY DEF Surjection
<1> QED
  BY <1>1, FS_Surjection

\* A notification is sent for finitely many entries.
LEMMA FinitelyNotified ==
    ASSUME NEW lk \in Seq(Lock)
    PROVE  /\ \A l : IsFiniteSet(brl_tdb_notify_unlock(lk, l))
           /\ IsFiniteSet(brl_tdb_notify_all(lk))
<1>1. DOMAIN lk = 1 .. Len(lk) /\ Len(lk) \in Nat
  OBVIOUS
<1>2. IsFiniteSet(DOMAIN lk)
  BY <1>1, FS_Interval
<1>3. \A l : Notified(lk, l) \subseteq DOMAIN lk
  BY DEF Notified
<1>4. ASSUME NEW l
      PROVE  IsFiniteSet(brl_tdb_notify_unlock(lk, l))
  <2> DEFINE f == [i \in Notified(lk, l) |-> <<lk[i].req, i>>]
  <2>1. IsFiniteSet(Notified(lk, l))
    BY <1>2, <1>3, FS_Subset
  <2>2. IsFiniteSet({f[i] : i \in Notified(lk, l)})
    BY <2>1, FiniteImage
  <2>3. brl_tdb_notify_unlock(lk, l) = {f[i] : i \in Notified(lk, l)}
    BY DEF brl_tdb_notify_unlock
  <2> QED
    BY <2>2, <2>3
<1>5. IsFiniteSet(brl_tdb_notify_all(lk))
  <2> DEFINE D == DOMAIN lk
             P == D \X D
             f == [p \in P |-> <<lk[p[2]].req, <<p[1], p[2]>>>>]
             T == {f[p] : p \in P}
  <2>1. IsFiniteSet(P)
    <3>1. IsFiniteSet(D)
      BY <1>2
    <3> HIDE DEF D
    <3> QED
      BY <3>1, FS_Product
  <2>2. IsFiniteSet(T)
    <3>1. DOMAIN f = P
      OBVIOUS
    <3> HIDE DEF P, f
    <3> QED
      BY <2>1, <3>1, FiniteImage
  <2>3. ASSUME NEW m \in brl_tdb_notify_all(lk)
        PROVE  m \in T
    <3>1. PICK k \in D : m \in {<<lk[i].req, <<k, i>>>> : i \in Notified(lk, lk[k])}
      BY <2>3 DEF brl_tdb_notify_all
    <3>2. PICK i \in Notified(lk, lk[k]) : m = <<lk[i].req, <<k, i>>>>
      BY <3>1
    <3>3. i \in D
      BY <1>3, <3>2
    <3> HIDE DEF D
    <3>4. <<k, i>> \in P
      BY <3>3
    <3> HIDE DEF P
    <3>5. f[<<k, i>>] = m
      BY <3>2, <3>4
    <3> HIDE DEF f
    <3> QED
      BY <3>4, <3>5
  <2>4. brl_tdb_notify_all(lk) \subseteq T
    BY <2>3
  <2> HIDE DEF T
  <2> QED
    BY <2>2, <2>4, FS_Subset
<1> QED
  BY <1>4, <1>5

\* Replies and messages are counted.
CountersTyped == replies \in [Request -> Nat] /\ notices \in [Request -> Nat]

LEMMA SendTyped ==
    ASSUME CountersTyped, NEW sent, IsFiniteSet(sent), Send(sent)
    PROVE  notices' \in [Request -> Nat]
<1>1. ASSUME NEW r \in Request
      PROVE  Cardinality({m \in sent : m[1] = r}) \in Nat
  <2>1. IsFiniteSet({m \in sent : m[1] = r})
    BY FS_Subset
  <2> QED
    BY <2>1, FS_CardinalityType
<1> QED
  BY <1>1 DEF Send, CountersTyped

\* Every step counts on.
LEMMA CountersStep ==
    ASSUME WaitInv, WaitInv', CountersTyped, [Next]_vars
    PROVE  CountersTyped'
<1>1. locks' \in Seq(Lock)
  BY DEF WaitInv, Typed
<1>2. ASSUME NEW k, brl_tdb_unlock(k)
      PROVE  notices' \in [Request -> Nat]
  <2>1. Send(brl_tdb_notify_unlock(locks', locks[k]))
    BY <1>2 DEF brl_tdb_unlock
  <2> QED
    BY <1>1, <2>1, FinitelyNotified, SendTyped
<1>3. ASSUME NEW r \in Request, NEW pc, Reply(r, pc)
      PROVE  replies' \in [Request -> Nat]
  BY <1>3 DEF Reply, CountersTyped
<1>4. CASE UNCHANGED <<replies, notices>>
  BY <1>4 DEF CountersTyped
<1>5. ASSUME NEW r \in Request, Handler(r)
      PROVE  CountersTyped'
  <2>1. CASE UnlocksDone(r) \/ LockNext(r) \/ RemovePending(r)
    BY <1>4, <2>1 DEF UnlocksDone, LockNext, RemovePending
  <2>2. CASE UnlockNext(r)
    <3>1. \/ UNCHANGED replies /\ \E k : brl_tdb_unlock(k)
          \/ Reply(r, "failed") /\ UNCHANGED notices
      BY <2>2 DEF UnlockNext
    <3> QED
      BY <1>2, <1>3, <3>1 DEF CountersTyped
  <2>3. CASE UndoNext(r)
    <3>1. UNCHANGED replies /\ (UNCHANGED notices \/ \E k : brl_tdb_unlock(k))
      BY <2>3 DEF UndoNext
    <3> QED
      BY <1>2, <3>1 DEF CountersTyped
  <2>4. CASE LocksDone(r) \/ UndoDone(r)
    <3>1. UNCHANGED notices /\ (Reply(r, "ok") \/ Reply(r, "failed"))
      BY <2>4 DEF LocksDone, UndoDone
    <3> QED
      BY <1>3, <3>1 DEF CountersTyped
  <2> QED
    BY <1>5, <2>1, <2>2, <2>3, <2>4 DEF Handler
<1>6. ASSUME NEW r \in Request, Retry(r) \/ DropNotice(r)
      PROVE  CountersTyped'
  <2>1. notices[r] > 0 /\ notices[r] \in Nat
    BY <1>6 DEF Retry, DropNotice, CountersTyped
  <2>2. notices' = [notices EXCEPT ![r] = @ - 1] /\ UNCHANGED replies
    BY <1>6 DEF Retry, DropNotice
  <2>3. notices[r] - 1 \in Nat
    BY <2>1
  <2> QED
    BY <2>2, <2>3 DEF CountersTyped
<1>7. ASSUME NEW h \in Handle, pvfs_lock_close(h)
      PROVE  CountersTyped'
  <2> DEFINE rest == brl_tdb_close(locks, h)
  <2>1. replies' \in [Request -> Nat]
    <3> DEFINE W == ToSet(pending_list[h])
    <3>1. replies' = [r \in Request |-> IF r \in W THEN replies[r] + 1 ELSE replies[r]]
      BY <1>7 DEF pvfs_lock_close
    <3> HIDE DEF W
    <3> QED
      BY <3>1 DEF CountersTyped
  <2>2. CASE UNCHANGED notices
    BY <2>1, <2>2 DEF CountersTyped
  <2>3. CASE locks' = rest /\ Send(IF Len(rest) < Len(locks) THEN brl_tdb_notify_all(rest) ELSE {})
    <3>1. rest \in Seq(Lock)
      BY <1>1, <2>3
    <3> HIDE DEF rest
    <3>2. IsFiniteSet(brl_tdb_notify_all(rest)) /\ IsFiniteSet({})
      BY <3>1, FinitelyNotified, FS_EmptySet
    <3>3. notices' \in [Request -> Nat]
      BY <2>3, <3>2, SendTyped
    <3> QED
      BY <2>1, <3>3 DEF CountersTyped
  <2>4. CloseLocks(h)
    BY <1>7 DEF pvfs_lock_close
  <2> QED
    BY <2>2, <2>3, <2>4 DEF CloseLocks
<1>8. ASSUME \/ \E r \in Request, in \in Inputs : StartLock(r, in)
             \/ \E r \in Request : Timeout(r) \/ Cancel(r)
             \/ \E in \in Inputs : pvfs_lock_cancel(in)
             \/ UNCHANGED vars
      PROVE  UNCHANGED <<replies, notices>>
  BY <1>8 DEF StartLock, Timeout, Cancel, pvfs_lock_cancel, vars
<1> QED
  BY <1>4, <1>5, <1>6, <1>7, <1>8 DEF Next

\* The state of every request stays one that pvfs_lock.c knows: the undo loops
\* stop at its first entry and never go beyond, for requests of any length that
\* wait, fail and are undone in any order (pvfs_lock_async_failed, pvfs_lock).
THEOREM LocksTyped == Spec => []TypeOK
<1>1. Init => WaitInv /\ CountersTyped
  BY WaitInvInit DEF Init, CountersTyped
<1>2. WaitInv /\ CountersTyped /\ [Next]_vars => (WaitInv /\ CountersTyped)'
  BY WaitInvStep, CountersStep
<1>3. WaitInv /\ CountersTyped => TypeOK
  BY DEF WaitInv, Typed, CountersTyped, TypeOK
<1> QED
  BY <1>1, <1>2, <1>3, PTL DEF Spec

-----------------------------------------------------------------------------
(* No conflicting locks *)

\* A request at one of its locks.
AtLock(r) == req[r].pc # "unsent" /\ req[r].i \in DOMAIN req[r].in.locks

\* What a step does to the array: entries go, or a lock that has no conflict
\* comes, or a pending entry comes.
ArrayStep ==
    \/ \E I \in SUBSET DOMAIN locks : Keeps(locks', locks, I)
    \/ \E r \in Request : AtLock(r) /\ CanLock(locks, LockOf(r)) /\ locks' = Append(locks, LockOf(r))
    \/ \E r \in Request : AtLock(r) /\ locks' = Append(locks, AsPending(LockOf(r)))

\* Where the handler takes a lock or waits for one, the request is at it.
LEMMA TakesAtLock ==
    ASSUME Typed, Positions, NEW r \in Request, req[r].pc \in {"lock", "wait"},
           req[r].i <= Len(req[r].in.locks)
    PROVE  AtLock(r)
<1>1. req[r].in.locks \in Seq(Entry)
  BY SentRequest DEF Typed, Input
<1>2. req[r].i \in 1 .. Len(req[r].in.locks)
  BY <1>1 DEF Positions, Position
<1> QED
  BY <1>1, <1>2 DEF AtLock

\* What an effect does to the array: entries are taken out, or one is
\* appended, pending or granted by the lock test.
LEMMA EffectOnArray ==
    ASSUME WaitInv, Effect
    PROVE  ArrayStep
<1>0. Typed /\ Positions /\ PendingEntries /\ ListedWaiters /\ locks \in Seq(Lock)
  BY DEF WaitInv, Positions, Typed
<1>1. CASE UNCHANGED locks
  <2>1. Keeps(locks', locks, DOMAIN locks)
    BY <1>0, <1>1, KeepsAll
  <2>2. DOMAIN locks \in SUBSET DOMAIN locks
    OBVIOUS
  <2> QED
    BY <2>1, <2>2 DEF ArrayStep
<1>2. ASSUME NEW r \in Request, GetsLock(r)
      PROVE  ArrayStep
  <2>1. AtLock(r)
    BY <1>0, <1>2, TakesAtLock DEF GetsLock
  <2> QED
    BY <1>2, <2>1 DEF GetsLock, ArrayStep
<1>3. ASSUME NEW r \in Request, GoesToWait(r)
      PROVE  ArrayStep
  <2>1. AtLock(r)
    BY <1>0, <1>3, TakesAtLock DEF GoesToWait
  <2> QED
    BY <1>3, <2>1 DEF GoesToWait, ArrayStep
<1>4. ASSUME NEW r \in Request, NEW k \in DOMAIN locks, TakesOut(r, k)
      PROVE  ArrayStep
  <2>1. Keeps(locks', locks, DOMAIN locks \ {k}) /\ DOMAIN locks \ {k} \in SUBSET DOMAIN locks
    BY <1>0, <1>4, RemoveAtKeeps DEF TakesOut
  <2> QED
    BY <2>1 DEF ArrayStep
<1>5. ASSUME NEW r \in Request, ForgetsPending(r)
      PROVE  ArrayStep
  <2>1. Pends(r)
    BY <1>5 DEF ForgetsPending, Pends
  <2>2. PICK k \in DOMAIN locks : IsPending(locks[k]) /\ locks[k].req = r
    BY <1>0, <2>1 DEF PendingEntries
  <2>3. \A y \in DOMAIN locks : IsPending(locks[y]) /\ locks[y].req = r => y = k
    BY <1>0, <2>2 DEF PendingEntries
  <2>4. Keeps(locks', locks, DOMAIN locks \ {k}) /\ DOMAIN locks \ {k} \in SUBSET DOMAIN locks
    BY <1>0, <1>5, <2>2, <2>3, RemovePendingKeeps DEF ForgetsPending
  <2> QED
    BY <2>4 DEF ArrayStep
<1>6. ASSUME NEW h \in Handle, Closes(h)
      PROVE  ArrayStep
  <2>1. CASE locks' = brl_tdb_close(locks, h)
    <3> DEFINE I == {x \in DOMAIN locks : locks[x].handle # h}
    <3>1. Keeps(locks', locks, I) /\ I \in SUBSET DOMAIN locks
      BY <1>0, <2>1, CloseKeeps
    <3> HIDE DEF I
    <3> QED
      BY <3>1 DEF ArrayStep
  <2> QED
    BY <1>1, <1>6, <2>1 DEF Closes
<1> QED
  BY <1>1, <1>2, <1>3, <1>4, <1>5, <1>6
  DEF Effect, NoEffect, Arrives, Walks, StopsOrWaitsOn, UndoMisses

\* Two entries may be there together, by what brl_tdb_conflict compares.
Agree(l, m) ==
    ~IsPending(l) /\ ~IsPending(m) /\ brl_tdb_overlap(l, m) =>
        \/ l.type = "READ" /\ m.type = "READ"
        \/ l.handle = m.handle /\ l.pid = m.pid

\* Locks that brl_tdb_conflict lets through may be held together, in either
\* order.
LEMMA NoConflictAgrees ==
    ASSUME NEW l \in Lock, NEW m \in Lock, ~brl_tdb_conflict(l, m)
    PROVE  Agree(l, m) /\ Agree(m, l)
<1>1. brl_tdb_overlap(l, m) <=> brl_tdb_overlap(m, l)
  BY DEF brl_tdb_overlap
<1> QED
  BY <1>1 DEF brl_tdb_conflict, brl_tdb_same_context, Agree

\* Every change of the array keeps granted locks compatible.
LEMMA CompatibleStep ==
    ASSUME WaitInv, Compatible, ArrayStep
    PROVE  Compatible'
<1>0. Typed /\ locks \in Seq(Lock)
  BY DEF WaitInv, Typed
<1>1. \A x, y \in DOMAIN locks : Agree(locks[x], locks[y])
  BY DEF Compatible, Agree, Granted
<1>2. ASSUME \A x, y \in DOMAIN locks' : Agree(locks'[x], locks'[y])
      PROVE  Compatible'
  BY <1>2 DEF Compatible, Agree, Granted
<1>3. ASSUME NEW I \in SUBSET DOMAIN locks, Keeps(locks', locks, I)
      PROVE  \A x, y \in DOMAIN locks' : Agree(locks'[x], locks'[y])
  <2>1. PICK f : KeptFrom(f, locks', locks, I)
    BY <1>3 DEF Keeps
  <2>2. \A x \in DOMAIN locks' : f[x] \in DOMAIN locks /\ locks'[x] = locks[f[x]]
    BY <2>1 DEF KeptFrom
  <2> QED
    BY <1>1, <2>2
<1>4. ASSUME NEW l \in Lock, locks' = Append(locks, l),
             \A x \in DOMAIN locks : Agree(locks[x], l) /\ Agree(l, locks[x]), Agree(l, l)
      PROVE  \A x, y \in DOMAIN locks' : Agree(locks'[x], locks'[y])
  <2> DEFINE n == Len(locks) + 1
  <2>1. /\ DOMAIN locks' = DOMAIN locks \cup {n} /\ locks'[n] = l
        /\ \A x \in DOMAIN locks : locks'[x] = locks[x]
    BY <1>0, <1>4, AppendPlaces
  <2> HIDE DEF n
  <2> QED
    BY <1>1, <1>4, <2>1
<1>5. ASSUME NEW r \in Request, AtLock(r), CanLock(locks, LockOf(r)),
             locks' = Append(locks, LockOf(r))
      PROVE  \A x, y \in DOMAIN locks' : Agree(locks'[x], locks'[y])
  <2>1. LockOf(r) \in Lock
    BY <1>0, <1>5, LockOfIsLock DEF AtLock, LockOf, Nth
  <2>2. \A x \in DOMAIN locks : locks[x] \in Lock /\ ~brl_tdb_conflict(locks[x], LockOf(r))
    BY <1>0, <1>5, RequestOfLock DEF CanLock
  <2>3. \A x \in DOMAIN locks : Agree(locks[x], LockOf(r)) /\ Agree(LockOf(r), locks[x])
    BY <2>1, <2>2, NoConflictAgrees
  <2>4. Agree(LockOf(r), LockOf(r))
    BY DEF Agree
  <2> QED
    BY <1>4, <1>5, <2>1, <2>3, <2>4
<1>6. ASSUME NEW r \in Request, AtLock(r), locks' = Append(locks, AsPending(LockOf(r)))
      PROVE  \A x, y \in DOMAIN locks' : Agree(locks'[x], locks'[y])
  <2>1. AsPending(LockOf(r)) \in Lock /\ IsPending(AsPending(LockOf(r)))
    BY <1>0, <1>6, LockOfIsLock DEF AtLock, LockOf, Nth
  <2>2. /\ \A x \in DOMAIN locks : /\ Agree(locks[x], AsPending(LockOf(r)))
                                   /\ Agree(AsPending(LockOf(r)), locks[x])
        /\ Agree(AsPending(LockOf(r)), AsPending(LockOf(r)))
    BY <2>1 DEF Agree
  <2> QED
    BY <1>4, <1>6, <2>1, <2>2
<1> QED
  BY <1>2, <1>3, <1>5, <1>6 DEF ArrayStep

\* Ranges that clients send end before the offset space, so those in the array
\* do.
LEMMA EntriesEndStep ==
    ASSUME WaitInv, EntriesEnd, RangesEnd, ArrayStep
    PROVE  EntriesEnd'
<1>0. Typed /\ locks \in Seq(Lock)
  BY DEF WaitInv, Typed
<1>1. ASSUME NEW I \in SUBSET DOMAIN locks, Keeps(locks', locks, I)
      PROVE  EntriesEnd'
  <2>1. PICK f : KeptFrom(f, locks', locks, I)
    BY <1>1 DEF Keeps
  <2>2. \A x \in DOMAIN locks' : f[x] \in DOMAIN locks /\ locks'[x] = locks[f[x]]
    BY <2>1 DEF KeptFrom
  <2> QED
    BY <2>2 DEF EntriesEnd
<1>2. ASSUME NEW l \in Lock, locks' = Append(locks, l), l.start + l.size < Space
      PROVE  EntriesEnd'
  <2> DEFINE n == Len(locks) + 1
  <2>1. /\ DOMAIN locks' = DOMAIN locks \cup {n} /\ locks'[n] = l
        /\ \A x \in DOMAIN locks : locks'[x] = locks[x]
    BY <1>0, <1>2, AppendPlaces
  <2> HIDE DEF n
  <2> QED
    BY <1>2, <2>1 DEF EntriesEnd
<1>3. ASSUME NEW r \in Request, AtLock(r)
      PROVE  /\ LockOf(r) \in Lock /\ LockOf(r).start + LockOf(r).size < Space
             /\ AsPending(LockOf(r)) \in Lock
             /\ AsPending(LockOf(r)).start + AsPending(LockOf(r)).size < Space
  <2>1. /\ LockOf(r) \in Lock /\ AsPending(LockOf(r)) \in Lock
        /\ LockOf(r).start = req[r].in.locks[req[r].i].start
        /\ LockOf(r).size = req[r].in.locks[req[r].i].size
        /\ AsPending(LockOf(r)).start = LockOf(r).start
        /\ AsPending(LockOf(r)).size = LockOf(r).size
    BY <1>0, <1>3, LockOfIsLock DEF AtLock, LockOf, Nth
  <2>2. req[r].in \in Inputs
    BY <1>0, <1>3, SentRequest DEF AtLock, Typed
  <2>3. req[r].in.locks[req[r].i].start + req[r].in.locks[req[r].i].size < Space
    BY <1>3, <2>2 DEF AtLock, RangesEnd
  <2> QED
    BY <2>1, <2>3
<1> QED
  BY <1>1, <1>2, <1>3 DEF ArrayStep

\* Ranges that end within the space and share a byte overlap in the sense of
\* the code.
LEMMA CommonByteOverlaps ==
    ASSUME NEW l \in Lock, NEW m \in Lock, l.start + l.size < Space, m.start + m.size < Space,
           Bytes(l) \cap Bytes(m) # {}
    PROVE  brl_tdb_overlap(l, m)
<1>0. Space \in Nat \ {0}
  BY BrlAssumption
<1>1. l.start \in Nat /\ l.size \in Nat /\ m.start \in Nat /\ m.size \in Nat
  BY <1>0 DEF Lock
<1>2. \A a \in Nat : a < Space => a % Space = a
  BY <1>0
<1>3. End(l) = l.start + l.size /\ End(m) = m.start + m.size
  BY <1>1, <1>2 DEF End
<1>4. PICK b \in Nat : l.start <= b /\ b < l.start + l.size /\ m.start <= b /\ b < m.start + m.size
  BY <1>0 DEF Bytes
<1>5. l.start < End(m) /\ m.start < End(l)
  BY <1>1, <1>3, <1>4
<1> QED
  BY <1>5 DEF brl_tdb_overlap

\* Compatible locks on ranges that end have no byte in common.
LEMMA CompatibleGivesExclusion ==
    ASSUME WaitInv, Compatible, EntriesEnd
    PROVE  Exclusion
<1>1. \A x \in Granted : locks[x] \in Lock /\ locks[x].start + locks[x].size < Space
  BY RequestOfLock DEF WaitInv, EntriesEnd, Granted
<1>2. \A x, y \in Granted : Bytes(locks[x]) \cap Bytes(locks[y]) # {} =>
         brl_tdb_overlap(locks[x], locks[y])
  BY <1>1, CommonByteOverlaps
<1> QED
  BY <1>2 DEF Exclusion, Compatible

\* What brl_locktest tells I/O agrees with the locks granted.
LEMMA CompatibleGivesLocksProtect ==
    ASSUME WaitInv, Compatible
    PROVE  LocksProtect
<1> SUFFICES ASSUME NEW x \in Granted, NEW h \in Handle, NEW p \in Pid, NEW kind \in {"READ", "WRITE"},
                    Bytes([locks[x] EXCEPT !.handle = h, !.pid = p, !.type = kind]) # {}
             PROVE  LET io == [locks[x] EXCEPT !.handle = h, !.pid = p, !.type = kind]
                        own == h = locks[x].handle /\ p = locks[x].pid
                    IN  /\ own /\ kind = "READ" => brl_tdb_locktest(locks, io)
                        /\ ~own /\ locks[x].type = "WRITE" => ~brl_tdb_locktest(locks, io)
                        /\ locks[x].type = "READ" /\ kind = "WRITE" => ~brl_tdb_locktest(locks, io)
  BY DEF LocksProtect
<1> DEFINE l == locks[x]
           io == [l EXCEPT !.handle = h, !.pid = p, !.type = kind]
           own == h = l.handle /\ p = l.pid
<1>1. l \in Lock /\ ~IsPending(l) /\ x \in DOMAIN locks
  BY RequestOfLock DEF WaitInv, Granted
<1> HIDE DEF l
<1>2. /\ io.handle = h /\ io.pid = p /\ io.type = kind
      /\ io.start = l.start /\ io.size = l.size
  BY <1>1 DEF Lock
<1>3. l.size # 0 /\ l.start \in Nat /\ l.size \in Nat
  <2>1. l.start \in Nat /\ l.size \in Nat
    BY <1>1, BrlAssumption DEF Lock
  <2>2. Bytes(io) # {}
    BY DEF l
  <2> HIDE DEF io
  <2>3. PICK b \in Nat : l.start <= b /\ b < l.start + l.size
    BY <1>2, <2>2, BrlAssumption DEF Bytes
  <2> QED
    BY <2>1, <2>3
<1> HIDE DEF io
<1>4. \A m : brl_tdb_overlap(m, io) <=> brl_tdb_overlap(m, l)
  BY <1>2 DEF brl_tdb_overlap, End
<1>5. ~IsPending(io) /\ brl_tdb_overlap(l, io)
  <2>1. brl_tdb_overlap(l, l)
    BY <1>3 DEF brl_tdb_overlap
  <2> QED
    BY <1>2, <1>4, <2>1 DEF IsPending
<1>6. ASSUME own, kind = "READ", NEW y \in DOMAIN locks
      PROVE  ~brl_tdb_conflict_other(locks[y], io)
  <2> SUFFICES ASSUME brl_tdb_conflict_other(locks[y], io)
               PROVE  FALSE
    OBVIOUS
  <2>1. y \in Granted /\ brl_tdb_overlap(locks[y], l) /\ ~(locks[y].type = "READ")
    BY <1>2, <1>4, <1>6 DEF brl_tdb_conflict_other, Granted
  <2>2. locks[y].handle = l.handle /\ locks[y].pid = l.pid
    BY <2>1 DEF Compatible, l
  <2> QED
    BY <1>2, <1>6, <2>2 DEF brl_tdb_conflict_other, brl_tdb_same_context
<1>7. ASSUME ~own, l.type = "WRITE"
      PROVE  brl_tdb_conflict_other(l, io)
  BY <1>1, <1>2, <1>5, <1>7 DEF brl_tdb_conflict_other, brl_tdb_same_context
<1>8. ASSUME l.type = "READ", kind = "WRITE"
      PROVE  brl_tdb_conflict_other(l, io)
  BY <1>1, <1>2, <1>5, <1>8 DEF brl_tdb_conflict_other, brl_tdb_same_context
<1>9. /\ own /\ kind = "READ" => brl_tdb_locktest(locks, io)
      /\ ~own /\ l.type = "WRITE" => ~brl_tdb_locktest(locks, io)
      /\ l.type = "READ" /\ kind = "WRITE" => ~brl_tdb_locktest(locks, io)
  BY <1>1, <1>6, <1>7, <1>8 DEF brl_tdb_locktest, l
<1> QED
  BY <1>9 DEF l, io

\* The empty array is compatible.
LEMMA CompatibleInit == Init => Compatible /\ EntriesEnd
BY DEF Init, Compatible, EntriesEnd, Granted

\* What may be read and written agrees with what is locked, for any ranges,
\* zero-sized ones and those that wrap at the end of the offset space too
\* (brl_tdb_lock, brl_tdb_locktest).
THEOREM LocksAlwaysProtect == Spec => []LocksProtect
<1>1. WaitInv /\ Compatible /\ [Next]_vars => (WaitInv /\ Compatible)'
  BY WaitInvStep, EffectOnArray, CompatibleStep
<1>2. WaitInv /\ Compatible => LocksProtect
  BY CompatibleGivesLocksProtect
<1> QED
  BY WaitInvInit, CompatibleInit, <1>1, <1>2, PTL DEF Spec

\* No byte is held by two if one of them writes, as long as no range reaches
\* the end of the offset space (brl_tdb_lock, brl_tdb_overlap).
THEOREM LocksExclude == ASSUME RangesEnd PROVE Spec => []Exclusion
<1> DEFINE Inv == WaitInv /\ Compatible /\ EntriesEnd
<1>1. Init => Inv
  BY WaitInvInit, CompatibleInit
<1>2. Inv /\ [Next]_vars => Inv'
  BY WaitInvStep, EffectOnArray, CompatibleStep, EntriesEndStep
<1>3. Inv => Exclusion
  BY CompatibleGivesExclusion
<1> QED
  BY <1>1, <1>2, <1>3, PTL DEF Spec

-----------------------------------------------------------------------------
(* Who holds what *)

\* A process does not start a handler while it runs one.
LEMMA OneHandlerStep ==
    ASSUME WaitInv, OneHandler, Effect
    PROVE  OneHandler'
<1> USE DEF HandleOf
<1>0. Typed /\ ListedWaiters
  BY DEF WaitInv
<1>1. ASSUME \A q \in Request : req'[q].pc \in Running =>
                 req[q].pc \in Running /\ req'[q].in = req[q].in
      PROVE  OneHandler'
  BY <1>1 DEF OneHandler
<1>2. ASSUME NEW r \in Request, NEW h, Idle(h), req'[r].in.handle = h,
             \A q \in Request : q # r => req'[q] = req[q]
      PROVE  OneHandler'
  <2>1. \A q \in Request : q # r /\ req'[q].pc \in Running =>
           ServerOf[req'[q].in.handle] # ServerOf[h]
    BY <1>2 DEF Idle
  <2> QED
    BY <1>2, <2>1 DEF OneHandler
<1>3. ASSUME NEW r \in Request, NEW pc, NEW i, Moved(r, pc, i), req[r].pc \in Running
      PROVE  OneHandler'
  <2>1. req'[r].in = req[r].in /\ \A q \in Request : q # r => req'[q] = req[q]
    BY <1>3 DEF Moved
  <2> QED
    BY <1>1, <1>3, <2>1
<1>4. ASSUME NEW r \in Request, NEW pc, NEW i, Moved(r, pc, i), Idle(HandleOf(r))
      PROVE  OneHandler'
  <2>1. req'[r].in = req[r].in /\ \A q \in Request : q # r => req'[q] = req[q]
    BY <1>4 DEF Moved
  <2> QED
    BY <1>2, <1>4, <2>1
<1>5. CASE UNCHANGED req
  BY <1>1, <1>5
<1>6. ASSUME NEW r \in Request, NEW in \in Inputs, Arrives(r, in)
      PROVE  OneHandler'
  <2>1. req'[r].in = in
    BY <1>6 DEF Arrives
  <2> QED
    BY <1>2, <1>6, <2>1 DEF Arrives
<1>7. ASSUME NEW h \in Handle, Closes(h)
      PROVE  OneHandler'
  <2>1. \A q \in Request : req'[q].pc \in Running => req'[q] = req[q]
    <3> SUFFICES ASSUME NEW q \in Request, req'[q] # req[q]
                 PROVE  req'[q].pc \notin Running
      OBVIOUS
    <3>1. req'[q] = [pc |-> "failed", in |-> req[q].in, i |-> 0]
      BY <1>0, <1>7, CloseMoves
    <3> QED
      BY <3>1 DEF Running
  <2> QED
    BY <1>1, <2>1
<1>8. ASSUME NEW r \in Request, Walks(r)
      PROVE  OneHandler'
  BY <1>3, <1>8 DEF Walks, Running
<1>9. ASSUME NEW r \in Request, GetsLock(r)
      PROVE  OneHandler'
  BY <1>3, <1>4, <1>9 DEF GetsLock, Running
<1>10. ASSUME NEW r \in Request, GoesToWait(r)
       PROVE  OneHandler'
  BY <1>3, <1>10 DEF GoesToWait, Running
<1>11. ASSUME NEW r \in Request, StopsOrWaitsOn(r)
       PROVE  OneHandler'
  BY <1>4, <1>5, <1>11 DEF StopsOrWaitsOn
<1>12. ASSUME NEW r \in Request, NEW k \in DOMAIN locks, TakesOut(r, k)
       PROVE  OneHandler'
  BY <1>3, <1>12 DEF TakesOut, Running
<1>13. ASSUME NEW r \in Request, UndoMisses(r)
       PROVE  OneHandler'
  BY <1>3, <1>13 DEF UndoMisses, Running
<1>14. ASSUME NEW r \in Request, ForgetsPending(r)
       PROVE  OneHandler'
  BY <1>3, <1>14 DEF ForgetsPending, Running
<1> QED
  BY <1>5, <1>6, <1>7, <1>8, <1>9, <1>10, <1>11, <1>12, <1>13, <1>14 DEF Effect, NoEffect

\* An exclusive lock that is there is a conflict with the same lock.
LEMMA SameWriterConflicts ==
    ASSUME NEW l \in Lock, NEW m \in Lock, l.type = "WRITE", m.type = "WRITE",
           l.start = m.start, l.size = m.size, l.size # 0
    PROVE  brl_tdb_conflict(l, m)
BY DEF brl_tdb_conflict, brl_tdb_overlap, IsPending

\* An exclusive lock is not granted twice.
LEMMA OneWriterStep ==
    ASSUME WaitInv, OneWriter, ArrayStep
    PROVE  OneWriter'
<1>0. Typed /\ locks \in Seq(Lock)
  BY DEF WaitInv, Typed
<1> DEFINE Same(l, m) == /\ l.type = "WRITE" /\ m.type = "WRITE"
                         /\ l.handle = m.handle /\ l.pid = m.pid
                         /\ l.start = m.start /\ l.size = m.size /\ l.size # 0
<1>1. \A x, y \in DOMAIN locks : Same(locks[x], locks[y]) => x = y
  BY DEF OneWriter, Granted, IsPending
<1>2. ASSUME \A x, y \in DOMAIN locks' : Same(locks'[x], locks'[y]) => x = y
      PROVE  OneWriter'
  BY <1>2 DEF OneWriter, Granted
<1>3. ASSUME NEW I \in SUBSET DOMAIN locks, Keeps(locks', locks, I)
      PROVE  OneWriter'
  <2> HIDE DEF Same
  <2>1. PICK f : KeptFrom(f, locks', locks, I)
    BY <1>3 DEF Keeps
  <2>2. \A x \in DOMAIN locks' : f[x] \in DOMAIN locks /\ locks'[x] = locks[f[x]]
    BY <2>1 DEF KeptFrom
  <2>3. \A x, y \in DOMAIN locks' : f[x] = f[y] => x = y
    BY <2>1 DEF KeptFrom
  <2> QED
    BY <1>1, <1>2, <2>2, <2>3
<1>4. ASSUME NEW l \in Lock, locks' = Append(locks, l),
             \A x \in DOMAIN locks : ~Same(locks[x], l) /\ ~Same(l, locks[x])
      PROVE  OneWriter'
  <2> DEFINE n == Len(locks) + 1
  <2>1. /\ DOMAIN locks' = DOMAIN locks \cup {n} /\ locks'[n] = l
        /\ \A x \in DOMAIN locks : locks'[x] = locks[x]
    BY <1>0, <1>4, AppendPlaces
  <2> HIDE DEF n, Same
  <2> QED
    BY <1>1, <1>2, <1>4, <2>1
<1>5. ASSUME NEW r \in Request, AtLock(r), CanLock(locks, LockOf(r)),
             locks' = Append(locks, LockOf(r))
      PROVE  OneWriter'
  <2>1. LockOf(r) \in Lock
    BY <1>0, <1>5, LockOfIsLock DEF AtLock, LockOf, Nth
  <2>2. \A x \in DOMAIN locks : locks[x] \in Lock /\ ~brl_tdb_conflict(locks[x], LockOf(r))
    BY <1>0, <1>5, RequestOfLock DEF CanLock
  <2>3. \A x \in DOMAIN locks : ~Same(locks[x], LockOf(r)) /\ ~Same(LockOf(r), locks[x])
    BY <2>1, <2>2, SameWriterConflicts
  <2> QED
    BY <1>4, <1>5, <2>1, <2>3
<1>6. ASSUME NEW r \in Request, AtLock(r), locks' = Append(locks, AsPending(LockOf(r)))
      PROVE  OneWriter'
  <2>1. AsPending(LockOf(r)) \in Lock /\ IsPending(AsPending(LockOf(r)))
    BY <1>0, <1>6, LockOfIsLock DEF AtLock, LockOf, Nth
  <2>2. AsPending(LockOf(r)).type # "WRITE"
    BY <2>1 DEF IsPending
  <2> QED
    BY <1>4, <1>6, <2>1, <2>2
<1> QED
  BY <1>3, <1>5, <1>6 DEF ArrayStep

(* How many locks of a handle there are *)

OfHandle(h) == {l \in Lock : ~IsPending(l) /\ l.handle = h}
Count(lk, h) == Cardinality(Among(lk, DOMAIN lk, OfHandle(h)))

\* Counted in terms of the number of granted entries of a handle.
LEMMA CountIsCounted ==
    ASSUME Typed
    PROVE  Counted <=> \A h \in Handle : lock_count[h] = Count(locks, h)
<1>1. ASSUME NEW h \in Handle
      PROVE  {x \in Granted : locks[x].handle = h} = Among(locks, DOMAIN locks, OfHandle(h))
  BY RequestOfLock DEF Granted, OfHandle, Among
<1> QED
  BY <1>1 DEF Counted, Count

\* This number is a number.
LEMMA CountNat ==
    ASSUME NEW lk \in Seq(Lock), NEW h
    PROVE  IsFiniteSet(Among(lk, DOMAIN lk, OfHandle(h))) /\ Count(lk, h) \in Nat
<1>1. IsFiniteSet(Among(lk, DOMAIN lk, OfHandle(h)))
  BY FS_Interval, FS_Subset DEF Among
<1> QED
  BY <1>1, FS_CardinalityType DEF Count

\* It goes up by one with a granted entry of the handle.
LEMMA CountAppend ==
    ASSUME NEW lk \in Seq(Lock), NEW l \in Lock, NEW h
    PROVE  /\ l \in OfHandle(h) => Count(Append(lk, l), h) = Count(lk, h) + 1
           /\ l \notin OfHandle(h) => Count(Append(lk, l), h) = Count(lk, h)
<1> DEFINE n == Len(lk) + 1
           t == Append(lk, l)
           A == Among(lk, DOMAIN lk, OfHandle(h))
           B == Among(t, DOMAIN t, OfHandle(h))
<1>1. /\ DOMAIN t = DOMAIN lk \cup {n} /\ n \notin DOMAIN lk /\ t[n] = l
      /\ \A x \in DOMAIN lk : t[x] = lk[x]
  BY AppendPlaces
<1>2. IsFiniteSet(A)
  BY CountNat
<1> HIDE DEF n, t
<1>3. CASE l \in OfHandle(h)
  <2>1. B = A \cup {n} /\ n \notin A
    BY <1>1, <1>3 DEF Among
  <2>2. Cardinality(B) = Cardinality(A) + 1
    BY <1>2, <2>1, FS_AddElement
  <2> QED
    BY <1>3, <2>2 DEF Count, t
<1>4. CASE l \notin OfHandle(h)
  <2>1. B = A
    BY <1>1, <1>4 DEF Among
  <2> QED
    BY <1>4, <2>1 DEF Count, t
<1> QED
  BY <1>3, <1>4

\* It goes down by one when such an entry is taken out.
LEMMA CountRemove ==
    ASSUME NEW lk \in Seq(Lock), NEW t \in Seq(Lock), NEW k \in DOMAIN lk,
           Keeps(t, lk, DOMAIN lk \ {k}), NEW h
    PROVE  /\ lk[k] \in OfHandle(h) => Count(t, h) = Count(lk, h) - 1
           /\ lk[k] \notin OfHandle(h) => Count(t, h) = Count(lk, h)
<1> DEFINE A == Among(lk, DOMAIN lk, OfHandle(h))
           B == Among(lk, DOMAIN lk \ {k}, OfHandle(h))
<1>1. DOMAIN lk \ {k} \in SUBSET DOMAIN lk
  OBVIOUS
<1>2. Count(t, h) = Cardinality(B)
  BY <1>1, KeepsCount DEF Count
<1>3. IsFiniteSet(A)
  BY CountNat
<1>4. CASE lk[k] \in OfHandle(h)
  <2>1. B = A \ {k} /\ k \in A
    BY <1>4 DEF Among
  <2>2. Cardinality(B) = Cardinality(A) - 1
    BY <1>3, <2>1, FS_RemoveElement
  <2> QED
    BY <1>2, <1>4, <2>2 DEF Count
<1>5. CASE lk[k] \notin OfHandle(h)
  <2>1. B = A
    BY <1>5 DEF Among
  <2> QED
    BY <1>2, <1>5, <2>1 DEF Count
<1> QED
  BY <1>4, <1>5

\* A close makes it zero and leaves that of other handles.
LEMMA CountClose ==
    ASSUME NEW lk \in Seq(Lock), NEW t \in Seq(Lock), NEW h,
           Keeps(t, lk, {x \in DOMAIN lk : lk[x].handle # h})
    PROVE  Count(t, h) = 0 /\ \A g : g # h => Count(t, g) = Count(lk, g)
<1> DEFINE I == {x \in DOMAIN lk : lk[x].handle # h}
<1>1. I \in SUBSET DOMAIN lk
  OBVIOUS
<1>2. \A g : Count(t, g) = Cardinality(Among(lk, I, OfHandle(g)))
  <2> TAKE g
  <2> HIDE DEF I
  <2>1. Keeps(t, lk, I)
    BY DEF I
  <2> QED
    BY <1>1, <2>1, KeepsCount DEF Count
<1>3. Among(lk, I, OfHandle(h)) = {}
  BY DEF OfHandle, Among
<1>4. \A g : g # h => Among(lk, I, OfHandle(g)) = Among(lk, DOMAIN lk, OfHandle(g))
  BY DEF OfHandle, Among
<1> HIDE DEF I
<1>5. Count(t, h) = 0
  <2>1. Count(t, h) = Cardinality({})
    BY <1>2, <1>3
  <2> QED
    BY <2>1, FS_EmptySet
<1>6. \A g : g # h => Count(t, g) = Count(lk, g)
  BY <1>2, <1>4 DEF Count
<1> QED
  BY <1>5, <1>6

(* What a request got *)

\* What a request was granted is a front part of its list.
LEMMA GotRange ==
    ASSUME Typed, Positions, NEW r \in Request
    PROVE  /\ Got(r) \in Nat
           /\ Got(r) > 0 => /\ req[r].pc \in {"lock", "wait", "gaveup", "granted", "undo"}
                            /\ req[r].in.locks \in Seq(Entry)
                            /\ Got(r) <= Len(req[r].in.locks)
           /\ \A j \in 1 .. Got(r) : j \in DOMAIN req[r].in.locks
<1>1. CASE req[r].pc \in {"lock", "wait", "gaveup", "granted", "undo"}
  <2>1. req[r].in.locks \in Seq(Entry) /\ req[r].i \in Nat
    BY <1>1, SentRequest DEF Typed, Input
  <2>2. Len(req[r].in.locks) \in Nat
    BY <2>1
  <2>3. Got(r) \in Nat /\ Got(r) <= Len(req[r].in.locks)
    BY <1>1, <2>1, <2>2 DEF Positions, Position, Got
  <2> QED
    BY <1>1, <2>1, <2>3
<1>2. CASE req[r].pc \notin {"lock", "wait", "gaveup", "granted", "undo"}
  BY <1>2 DEF Got
<1> QED
  BY <1>1, <1>2

\* A lock that a request got.
LEMMA NthGot ==
    ASSUME Typed, Positions, NEW r \in Request, NEW j \in 1 .. Got(r)
    PROVE  /\ Nth(r, j) \in Lock /\ ~IsPending(Nth(r, j)) /\ Nth(r, j).req = r
           /\ Nth(r, j).handle = HandleOf(r)
           /\ j \in DOMAIN req[r].in.locks /\ req[r].in \in Inputs
           /\ req[r].pc \in {"lock", "wait", "gaveup", "granted", "undo"}
<1>1. Got(r) > 0 /\ j \in DOMAIN req[r].in.locks
  BY GotRange
<1>2. req[r].pc \in {"lock", "wait", "gaveup", "granted", "undo"}
  BY <1>1, GotRange
<1> QED
  BY <1>1, <1>2, LockOfIsLock, SentRequest DEF Typed

\* One of several locks of a request, all of which are exclusive.
LEMMA OneOfSeveral ==
    ASSUME Typed, UndoFindsOwn, NEW r \in Request, req[r].pc # "unsent",
           NEW j \in DOMAIN req[r].in.locks, Len(req[r].in.locks) > 1
    PROVE  Nth(r, j).type = "WRITE" /\ Nth(r, j).size # 0
<1>1. req[r].in \in Inputs
  BY SentRequest DEF Typed
<1>2. ~req[r].in.shared /\ req[r].in.locks[j].size > 0
  BY <1>1 DEF UndoFindsOwn
<1>3. Nth(r, j).type = (IF req[r].in.shared THEN "READ" ELSE "WRITE")
      /\ Nth(r, j).size = req[r].in.locks[j].size
  BY LockOfIsLock
<1> QED
  BY <1>2, <1>3

\* Steps that take entries out of the array, or none.
LEMMA HoldKept ==
    ASSUME Typed, Positions, GotIsThere, ThereWasGot,
           NEW I \in SUBSET DOMAIN locks, Keeps(locks', locks, I),
           \A q \in Request : \A j \in 1 .. Got(q)' :
               /\ j \in 1 .. Got(q) /\ Nth(q, j)' = Nth(q, j)
               /\ \A x \in DOMAIN locks : locks[x] = Nth(q, j) => x \in I,
           \A x \in I, q \in Request : ~IsPending(locks[x]) /\ locks[x].req = q =>
               req'[q].pc = "ok" \/ \E j \in 1 .. Got(q)' : locks[x] = Nth(q, j)'
    PROVE  GotIsThere' /\ ThereWasGot'
<1>1. PICK f : KeptFrom(f, locks', locks, I)
  BY DEF Keeps
<1>2. ASSUME NEW q \in Request, NEW j \in 1 .. Got(q)'
      PROVE  \E n \in DOMAIN locks' : locks'[n] = Nth(q, j)'
  <2>1. PICK x \in DOMAIN locks : locks[x] = Nth(q, j)
    BY DEF GotIsThere
  <2>2. x \in I
    BY <2>1
  <2>3. PICK n \in DOMAIN locks' : f[n] = x
    BY <1>1, <2>2 DEF KeptFrom
  <2> QED
    BY <1>1, <2>1, <2>3 DEF KeptFrom
<1>3. ASSUME NEW q \in Request, NEW j \in 1 .. Got(q)', NEW k \in 1 .. Got(q)', Nth(q, j)' = Nth(q, k)'
      PROVE  j = k
  <2>1. Nth(q, j) = Nth(q, k) /\ j \in 1 .. Got(q) /\ k \in 1 .. Got(q)
    BY <1>3
  <2> QED
    BY <2>1 DEF GotIsThere
<1>4. ASSUME NEW n \in DOMAIN locks', NEW q \in Request, ~IsPending(locks'[n]), locks'[n].req = q
      PROVE  req'[q].pc = "ok" \/ \E j \in 1 .. Got(q)' : locks'[n] = Nth(q, j)'
  <2>1. f[n] \in I /\ locks'[n] = locks[f[n]]
    BY <1>1 DEF KeptFrom
  <2> QED
    BY <1>4, <2>1
<1>5. GotIsThere'
  BY <1>2, <1>3 DEF GotIsThere
<1>6. ThereWasGot'
  BY <1>4 DEF ThereWasGot, Granted
<1> QED
  BY <1>5, <1>6

\* Steps that leave the array alone: every request has what it had, or is
\* answered.
LEMMA HoldSame ==
    ASSUME Typed, Positions, GotIsThere, ThereWasGot, UNCHANGED locks,
           \A q \in Request : \/ Got(q)' = Got(q) /\ req'[q].in = req[q].in
                              \/ Got(q)' = 0 /\ (Got(q) = 0 \/ req'[q].pc = "ok"),
           \A q \in Request : req[q].pc = "ok" => req'[q].pc = "ok"
    PROVE  GotIsThere' /\ ThereWasGot'
<1>1. Keeps(locks', locks, DOMAIN locks) /\ DOMAIN locks \in SUBSET DOMAIN locks
  BY KeepsAll DEF Typed
<1>2. \A q \in Request, j \in Nat : req'[q].in = req[q].in => Nth(q, j)' = Nth(q, j)
  BY DEF Nth
<1>3. \A q \in Request : Got(q) \in Nat
  BY GotRange
<1>4. ASSUME NEW q \in Request, NEW j \in 1 .. Got(q)'
      PROVE  j \in 1 .. Got(q) /\ Nth(q, j)' = Nth(q, j)
  BY <1>2, <1>3
<1>5. ASSUME NEW x \in DOMAIN locks, NEW q \in Request, ~IsPending(locks[x]), locks[x].req = q
      PROVE  req'[q].pc = "ok" \/ \E j \in 1 .. Got(q)' : locks[x] = Nth(q, j)'
  <2>1. req[q].pc = "ok" \/ \E j \in 1 .. Got(q) : locks[x] = Nth(q, j)
    BY <1>5 DEF ThereWasGot, Granted
  <2>2. CASE req[q].pc = "ok"
    BY <2>2
  <2>3. ASSUME NEW j \in 1 .. Got(q), locks[x] = Nth(q, j), req'[q].pc # "ok"
        PROVE  \E i \in 1 .. Got(q)' : locks[x] = Nth(q, i)'
    <3>1. Got(q)' = Got(q) /\ req'[q].in = req[q].in
      BY <1>3, <2>3
    <3> QED
      BY <1>2, <1>3, <2>3, <3>1
  <2> QED
    BY <2>1, <2>2, <2>3
<1> QED
  BY <1>1, <1>4, <1>5, HoldKept

\* A pending entry is on the handle of its request.
LEMMA PendingHandle ==
    ASSUME Typed, Positions, PendingEntries, NEW x \in DOMAIN locks, IsPending(locks[x])
    PROVE  /\ locks[x].req \in Request /\ Pends(locks[x].req)
           /\ HandleOf(locks[x].req) = locks[x].handle
<1> DEFINE q == locks[x].req
<1>1. q \in Request
  BY RequestOfLock
<1>2. Pends(q) /\ locks[x] = AsPending(Nth(q, req[q].i))
  BY <1>1 DEF PendingEntries, PendingEntry, Nth
<1>3. req[q].i \in DOMAIN req[q].in.locks
  <2>1. req[q].in.locks \in Seq(Entry)
    BY <1>1, <1>2, SentRequest DEF Typed, Input, Pends
  <2>2. req[q].i \in 1 .. Len(req[q].in.locks)
    BY <1>1, <1>2 DEF Positions, Position, Pends
  <2> QED
    BY <2>1, <2>2
<1>4. AsPending(Nth(q, req[q].i)).handle = HandleOf(q)
  BY <1>1, <1>2, <1>3, LockOfIsLock DEF Pends
<1> QED
  BY <1>1, <1>2, <1>4

\* A close leaves exactly the entries of the other handles, also when
\* lock_count and pending_list make it skip brl_close.
LEMMA CloseKeepsOthers ==
    ASSUME WaitInv, Counted, NEW h \in Handle, Closes(h)
    PROVE  Keeps(locks', locks, {x \in DOMAIN locks : locks[x].handle # h})
<1>0. Typed /\ Positions /\ PendingEntries /\ ListedWaiters /\ locks \in Seq(Lock)
  BY DEF WaitInv, Positions, Typed
<1>1. CASE locks' = brl_tdb_close(locks, h)
  BY <1>0, <1>1, CloseKeeps
<1>2. CASE lock_count[h] = 0 /\ pending_list[h] = <<>> /\ UNCHANGED locks
  <2>1. ASSUME NEW x \in DOMAIN locks, locks[x].handle = h, IsPending(locks[x])
        PROVE  FALSE
    <3>1. /\ locks[x].req \in Request /\ Pends(locks[x].req) /\ HandleOf(locks[x].req) = h
      BY <1>0, <2>1, PendingHandle
    <3>2. req[locks[x].req].pc = "wait"
      BY <1>0, <3>1, CloseMoves DEF Pends, Running
    <3>3. Listed(pending_list[h], locks[x].req)
      BY <1>0, <3>1, <3>2 DEF ListedWaiters
    <3> QED
      BY <1>2, <3>3 DEF Listed
  <2>2. ASSUME NEW x \in DOMAIN locks, locks[x].handle = h, ~IsPending(locks[x])
        PROVE  FALSE
    <3>1. Count(locks, h) = 0
      BY <1>0, <1>2, CountIsCounted
    <3>2. Among(locks, DOMAIN locks, OfHandle(h)) = {}
      BY <1>0, <3>1, CountNat, FS_EmptySet DEF Count
    <3>3. locks[x] \in OfHandle(h)
      BY <1>0, <2>2, RequestOfLock DEF OfHandle
    <3> QED
      BY <3>2, <3>3 DEF Among
  <2>3. {x \in DOMAIN locks : locks[x].handle # h} = DOMAIN locks
    BY <2>1, <2>2
  <2>4. Keeps(locks', locks, DOMAIN locks)
    BY <1>0, <1>2, KeepsAll
  <2> QED
    BY <2>3, <2>4
<1> QED
  BY <1>1, <1>2 DEF Closes

\* The undo of a request finds the lock that the request got.
LEMMA UndoFinds ==
    ASSUME WaitInv, GotIsThere, OneWriter, UndoFindsOwn, ~SMB2,
           NEW r \in Request, req[r].pc = "undo", req[r].i > 0
    PROVE  LET k == Held(r, req[r].in.locks[req[r].i])
           IN  /\ k \in DOMAIN locks /\ locks[k] = Nth(r, req[r].i)
               /\ \A x \in DOMAIN locks : locks[x] = Nth(r, req[r].i) => x = k
<1> DEFINE i == req[r].i
           e == req[r].in.locks[i]
           k == Held(r, e)
<1>0. Typed /\ Positions /\ locks \in Seq(Lock)
  BY DEF WaitInv, Positions, Typed
<1>1. Got(r) = i /\ i \in 1 .. Got(r)
  BY <1>0, GotRange DEF Got
<1>2. i \in DOMAIN req[r].in.locks /\ Len(req[r].in.locks) > 1
  <2>1. i \in DOMAIN req[r].in.locks /\ Len(req[r].in.locks) \in Nat
    BY <1>0, <1>1, GotRange
  <2>2. i < Len(req[r].in.locks) /\ i \in Nat
    BY <1>0, SentRequest DEF Positions, Position, Typed
  <2> QED
    BY <2>1, <2>2
<1>3. Nth(r, i).type = "WRITE" /\ Nth(r, i).size # 0
  BY <1>0, <1>2, OneOfSeveral
<1>4. /\ Nth(r, i).handle = HandleOf(r) /\ Nth(r, i).pid = e.pid
      /\ Nth(r, i).start = e.start /\ Nth(r, i).size = e.size
  BY <1>0, <1>2, LockOfIsLock
<1>5. \A x \in DOMAIN locks : locks[x] = Nth(r, i) =>
         /\ k \in DOMAIN locks /\ ~IsPending(locks[k]) /\ locks[k].type = "WRITE"
         /\ locks[k].handle = HandleOf(r) /\ locks[k].pid = e.pid
         /\ locks[k].start = e.start /\ locks[k].size = e.size
  <2> SUFFICES ASSUME NEW x \in DOMAIN locks, locks[x] = Nth(r, i)
               PROVE  /\ k \in DOMAIN locks /\ ~IsPending(locks[k]) /\ locks[k].type = "WRITE"
                      /\ locks[k].handle = HandleOf(r) /\ locks[k].pid = e.pid
                      /\ locks[k].start = e.start /\ locks[k].size = e.size
    OBVIOUS
  <2> HIDE DEF e, i
  <2>1. /\ locks[x].handle = HandleOf(r) /\ locks[x].pid = e.pid /\ locks[x].start = e.start
        /\ locks[x].size = e.size /\ locks[x].type = "WRITE"
    BY <1>3, <1>4
  <2>2. k # 0 /\ locks[k].type = "WRITE"
    BY <1>0, <2>1, UnlockIndexFinds DEF Held
  <2> QED
    BY <1>0, <2>2, UnlockIndexFinds DEF Held
<1>6. \A x \in DOMAIN locks : locks[x] = Nth(r, i) => x = k
  <2> SUFFICES ASSUME NEW x \in DOMAIN locks, locks[x] = Nth(r, i)
               PROVE  x = k
    OBVIOUS
  <2> HIDE DEF e, k, i
  <2>1. k \in Granted /\ x \in Granted
    BY <1>3, <1>5 DEF Granted, IsPending
  <2> QED
    BY <1>3, <1>4, <1>5, <2>1 DEF OneWriter
<1>7. PICK x \in DOMAIN locks : locks[x] = Nth(r, i)
  BY <1>1 DEF GotIsThere
<1> HIDE DEF k, e, i
<1>8. k \in DOMAIN locks /\ locks[k] = Nth(r, i)
  BY <1>6, <1>7
<1> QED
  BY <1>6, <1>8 DEF k, e, i

\* Every step keeps that what requests were granted is in the array and
\* nothing else is.
LEMMA HoldStep ==
    ASSUME WaitInv, GotIsThere, ThereWasGot, OneWriter, Counted, UndoFindsOwn, ~SMB2,
           OrderlyUnlocks, Effect
    PROVE  GotIsThere' /\ ThereWasGot'
<1>0. Typed /\ Positions /\ PendingEntries /\ ListedWaiters /\ locks \in Seq(Lock)
  BY DEF WaitInv, Positions, Typed
<1>a. \A q \in Request : req'[q] = req[q] => Got(q)' = Got(q) /\ req'[q].in = req[q].in
  BY DEF Got
<1>b. \A q \in Request, j \in Nat : req'[q].in = req[q].in => Nth(q, j)' = Nth(q, j)
  BY DEF Nth
<1>c. \A q \in Request : Got(q) \in Nat
  BY <1>0, GotRange
<1>d. \A q \in Request : req[q].pc = "ok" => Got(q) = 0
  BY DEF Got
\* A request goes on with what it has.
<1>e. ASSUME NEW r \in Request, NEW pc, NEW i, Moved(r, pc, i), UNCHANGED locks,
             req[r].pc # "ok", Got(r)' = Got(r)
      PROVE  GotIsThere' /\ ThereWasGot'
  <2>1. req'[r].in = req[r].in /\ \A q \in Request : q # r => req'[q] = req[q]
    BY <1>e DEF Moved
  <2>2. /\ \A q \in Request : Got(q)' = Got(q) /\ req'[q].in = req[q].in
        /\ \A q \in Request : req[q].pc = "ok" => req'[q].pc = "ok"
    BY <1>a, <1>e, <2>1
  <2> QED
    BY <1>0, <1>e, <2>2, HoldSame
<1>1. CASE UNCHANGED <<locks, req>>
  BY <1>0, <1>a, <1>1, HoldSame
<1>2. ASSUME NEW r \in Request, NEW in \in Inputs, Arrives(r, in)
      PROVE  GotIsThere' /\ ThereWasGot'
  <2>1. Got(r) = 0 /\ Got(r)' = 0 /\ req[r].pc # "ok" /\ \A q \in Request : q # r => req'[q] = req[q]
    BY <1>2 DEF Arrives, Got
  <2>2. /\ \A q \in Request : (Got(q)' = Got(q) /\ req'[q].in = req[q].in) \/ (Got(q)' = 0 /\ Got(q) = 0)
        /\ \A q \in Request : req[q].pc = "ok" => req'[q].pc = "ok"
    BY <1>a, <2>1
  <2> QED
    BY <1>0, <1>2, <2>2, HoldSame DEF Arrives
<1>3. ASSUME NEW r \in Request, Walks(r)
      PROVE  GotIsThere' /\ ThereWasGot'
  <2>0. UNCHANGED locks
    BY <1>3 DEF Walks
  <2>1. CASE req[r].pc = "unlock" /\ Moved(r, "lock", 1)
    <3>1. Got(r) = 0 /\ Got(r)' = 0
      BY <2>1 DEF Moved, Got
    <3> QED
      BY <1>e, <2>0, <2>1, <3>1
  <2>2. CASE req[r].pc = "unlock" /\ Moved(r, "failed", 0)
    <3>1. Got(r) = 0 /\ Got(r)' = 0
      BY <2>2 DEF Moved, Got
    <3> QED
      BY <1>e, <2>0, <2>2, <3>1
  <2>3. CASE req[r].pc = "lock" /\ Moved(r, "ok", 0)
    <3>1. Got(r)' = 0 /\ req'[r].pc = "ok" /\ \A q \in Request : q # r => req'[q] = req[q]
      BY <2>3 DEF Moved, Got
    <3>2. /\ \A q \in Request : \/ Got(q)' = Got(q) /\ req'[q].in = req[q].in
                                \/ Got(q)' = 0 /\ req'[q].pc = "ok"
          /\ \A q \in Request : req[q].pc = "ok" => req'[q].pc = "ok"
      BY <1>a, <2>3, <3>1
    <3> QED
      BY <1>0, <2>0, <3>2, HoldSame
  <2>4. CASE req[r].pc = "lock" /\ Moved(r, "undo", FirstUndone(req[r].i))
    <3>1. Got(r) = req[r].i - 1 /\ Got(r)' = req[r].i - 1
      BY <2>4 DEF Moved, Got, FirstUndone
    <3> QED
      BY <1>e, <2>0, <2>4, <3>1
  <2>5. CASE req[r].pc = "undo" /\ req[r].i = 0 /\ Moved(r, "failed", 0)
    <3>1. Got(r) = 0 /\ Got(r)' = 0
      BY <2>5 DEF Moved, Got
    <3> QED
      BY <1>e, <2>0, <2>5, <3>1
  <2> QED
    BY <1>3, <2>1, <2>2, <2>3, <2>4, <2>5 DEF Walks
<1>4. ASSUME NEW r \in Request, GetsLock(r)
      PROVE  GotIsThere' /\ ThereWasGot'
  <2> DEFINE n == Len(locks) + 1
  <2>a. AtLock(r) /\ req[r].pc \in {"lock", "wait"} /\ req[r].i \in Nat
    BY <1>0, <1>4, TakesAtLock, SentRequest DEF GetsLock, Typed
  <2>b. PICK i \in Nat : i = req[r].i
    BY <2>a
  <2>0. AtLock(r) /\ req[r].pc \in {"lock", "wait"} /\ i \in Nat /\ i = req[r].i
    BY <2>a, <2>b
  <2>1. LockOf(r) = Nth(r, i) /\ Nth(r, i) \in Lock /\ ~IsPending(Nth(r, i)) /\ Nth(r, i).req = r
    BY <1>0, <2>0, LockOfIsLock DEF AtLock, LockOf, Nth
  <2>2. /\ locks' = Append(locks, Nth(r, i)) /\ CanLock(locks, Nth(r, i))
    BY <1>4, <2>1 DEF GetsLock
  <2>3. /\ DOMAIN locks' = DOMAIN locks \cup {n} /\ locks'[n] = Nth(r, i)
        /\ \A x \in DOMAIN locks : locks'[x] = locks[x]
    BY <1>0, <2>1, <2>2, AppendPlaces
  <2>4. /\ Got(r) = i - 1 /\ Got(r)' = i
        /\ req'[r].in = req[r].in /\ \A q \in Request : q # r => req'[q] = req[q]
    <3>1. CASE req[r].pc = "lock" /\ Moved(r, "lock", i + 1)
      BY <2>0, <3>1 DEF Moved, Got
    <3>2. CASE req[r].pc = "wait" /\ Moved(r, "granted", i)
      BY <2>0, <3>2 DEF Moved, Got
    <3> QED
      BY <1>4, <2>0, <3>1, <3>2 DEF GetsLock
  <2>5. \A q \in Request, j \in Nat : Nth(q, j)' = Nth(q, j)
    BY <1>b, <2>4
  <2>6. \A q \in Request : q # r => Got(q)' = Got(q)
    BY <1>a, <2>4
  <2> HIDE DEF n
  <2>7. ASSUME NEW j \in 1 .. Got(r)
        PROVE  Nth(r, j) # Nth(r, i)
    <3>1. PICK x \in DOMAIN locks : locks[x] = Nth(r, j)
      BY DEF GotIsThere
    <3>2. i \in DOMAIN req[r].in.locks /\ Len(req[r].in.locks) > 1
      <4>1. req[r].in.locks \in Seq(Entry)
        BY <1>0, <2>0, SentRequest DEF Typed, Input
      <4>2. i \in DOMAIN req[r].in.locks
        BY <2>0 DEF AtLock
      <4>3. i > 1
        BY <2>4, <2>0
      <4> QED
        BY <4>1, <4>2, <4>3
    <3>3. Nth(r, i).type = "WRITE" /\ Nth(r, i).size # 0
      BY <1>0, <2>0, <3>2, OneOfSeveral
    <3>4. ~brl_tdb_conflict(locks[x], Nth(r, i))
      BY <2>2, <3>1 DEF CanLock
    <3> QED
      BY <2>1, <3>1, <3>3, <3>4, SameWriterConflicts
  <2>8. ASSUME NEW q \in Request, NEW j \in 1 .. Got(q)'
        PROVE  \E x \in DOMAIN locks' : locks'[x] = Nth(q, j)'
    <3>1. CASE q = r /\ j = i
      BY <2>3, <2>5, <2>0, <3>1
    <3>2. CASE ~(q = r /\ j = i)
      <4>1. j \in 1 .. Got(q)
        BY <1>c, <2>0, <2>4, <2>6, <3>2
      <4>2. PICK x \in DOMAIN locks : locks[x] = Nth(q, j)
        BY <4>1 DEF GotIsThere
      <4>3. Nth(q, j)' = Nth(q, j)
        BY <1>c, <2>5, <4>1
      <4> QED
        BY <2>3, <4>2, <4>3
    <3> QED
      BY <3>1, <3>2
  <2>9. ASSUME NEW q \in Request, NEW j \in 1 .. Got(q)', NEW k \in 1 .. Got(q)', Nth(q, j)' = Nth(q, k)'
        PROVE  j = k
    <3>1. Nth(q, j) = Nth(q, k)
      <4>1. j \in Nat /\ k \in Nat
        BY <2>0, <2>4, <2>6, <1>c
      <4> QED
        BY <2>5, <2>9, <4>1
    <3>2. CASE q # r
      BY <2>6, <3>1, <3>2 DEF GotIsThere
    <3>3. CASE q = r
      <4>1. j \in 1 .. i /\ k \in 1 .. i /\ Got(r) = i - 1
        BY <2>4, <3>3
      <4>2. CASE j = i \/ k = i
        BY <2>0, <2>7, <3>1, <3>3, <4>1, <4>2
      <4>3. CASE j # i /\ k # i
        BY <2>0, <3>1, <3>3, <4>1, <4>3 DEF GotIsThere
      <4> QED
        BY <4>2, <4>3
    <3> QED
      BY <3>2, <3>3
  <2>10. ASSUME NEW x \in DOMAIN locks', NEW q \in Request, ~IsPending(locks'[x]), locks'[x].req = q
         PROVE  req'[q].pc = "ok" \/ \E j \in 1 .. Got(q)' : locks'[x] = Nth(q, j)'
    <3>1. CASE x = n
      <4>1. q = r /\ locks'[x] = Nth(r, i)'
        BY <2>0, <2>1, <2>3, <2>5, <2>10, <3>1
      <4>2. i \in 1 .. Got(r)'
        BY <1>c, <2>0, <2>4
      <4> QED
        BY <4>1, <4>2
    <3>2. CASE x \in DOMAIN locks
      <4>1. req[q].pc = "ok" \/ \E j \in 1 .. Got(q) : locks[x] = Nth(q, j)
        BY <2>3, <2>10, <3>2 DEF ThereWasGot, Granted
      <4>2. req[q].pc = "ok" => req'[q].pc = "ok"
        BY <2>0, <2>4
      <4>3. \A j \in 1 .. Got(q) : j \in 1 .. Got(q)' /\ Nth(q, j)' = Nth(q, j)
        BY <1>c, <2>0, <2>4, <2>5, <2>6
      <4> QED
        BY <2>3, <3>2, <4>1, <4>2, <4>3
    <3> QED
      BY <2>3, <3>1, <3>2
  <2>11. GotIsThere'
    BY <2>8, <2>9 DEF GotIsThere
  <2>12. ThereWasGot'
    BY <2>10 DEF ThereWasGot, Granted
  <2> QED
    BY <2>11, <2>12
<1>5. ASSUME NEW r \in Request, GoesToWait(r)
      PROVE  GotIsThere' /\ ThereWasGot'
  <2> DEFINE n == Len(locks) + 1
             l == AsPending(LockOf(r))
  <2>1. l \in Lock /\ IsPending(l)
    <3>1. AtLock(r)
      BY <1>0, <1>5, TakesAtLock DEF GoesToWait
    <3> QED
      BY <1>0, <3>1, LockOfIsLock DEF AtLock, LockOf, Nth
  <2> HIDE DEF l
  <2>2. /\ DOMAIN locks' = DOMAIN locks \cup {n} /\ locks'[n] = l
        /\ \A x \in DOMAIN locks : locks'[x] = locks[x]
    BY <1>0, <1>5, <2>1, AppendPlaces DEF GoesToWait, l
  <2>3. /\ Got(r)' = Got(r) /\ req[r].pc = "lock"
        /\ req'[r].in = req[r].in /\ \A q \in Request : q # r => req'[q] = req[q]
    BY <1>5 DEF GoesToWait, Moved, Got
  <2>4. \A q \in Request : /\ Got(q)' = Got(q) /\ \A j \in Nat : Nth(q, j)' = Nth(q, j)
                           /\ req[q].pc = "ok" => req'[q].pc = "ok"
    BY <1>a, <1>b, <2>3
  <2>5. \A q \in Request : \A j \in 1 .. Got(q) : j \in Nat
    BY <1>c
  <2> HIDE DEF n
  <2>6. GotIsThere'
    <3>1. ASSUME NEW q \in Request, NEW j \in 1 .. Got(q)'
          PROVE  \E x \in DOMAIN locks' : locks'[x] = Nth(q, j)'
      <4>1. PICK x \in DOMAIN locks : locks[x] = Nth(q, j)
        BY <2>4 DEF GotIsThere
      <4> QED
        BY <2>2, <2>4, <2>5, <4>1
    <3>2. ASSUME NEW q \in Request, NEW j \in 1 .. Got(q)', NEW k \in 1 .. Got(q)', Nth(q, j)' = Nth(q, k)'
          PROVE  j = k
      BY <2>4, <2>5, <3>2 DEF GotIsThere
    <3> QED
      BY <3>1, <3>2 DEF GotIsThere
  <2>7. ASSUME NEW x \in DOMAIN locks', NEW q \in Request, ~IsPending(locks'[x]), locks'[x].req = q
        PROVE  req'[q].pc = "ok" \/ \E j \in 1 .. Got(q)' : locks'[x] = Nth(q, j)'
    <3>1. x \in DOMAIN locks /\ locks'[x] = locks[x]
      BY <2>1, <2>2, <2>7
    <3>2. req[q].pc = "ok" \/ \E j \in 1 .. Got(q) : locks[x] = Nth(q, j)
      BY <2>7, <3>1 DEF ThereWasGot, Granted
    <3> QED
      BY <2>4, <2>5, <3>1, <3>2
  <2> QED
    BY <2>6, <2>7 DEF ThereWasGot, Granted
<1>6. ASSUME NEW r \in Request, StopsOrWaitsOn(r)
      PROVE  GotIsThere' /\ ThereWasGot'
  <2>1. CASE Moved(r, "gaveup", req[r].i)
    <3>1. Got(r)' = Got(r) /\ req[r].pc # "ok"
      BY <1>6, <2>1 DEF StopsOrWaitsOn, Moved, Got
    <3> QED
      BY <1>6, <1>e, <2>1, <3>1 DEF StopsOrWaitsOn
  <2> QED
    BY <1>1, <1>6, <2>1 DEF StopsOrWaitsOn
<1>7. ASSUME NEW r \in Request, NEW k \in DOMAIN locks, TakesOut(r, k)
      PROVE  GotIsThere' /\ ThereWasGot'
  <2> DEFINE I == DOMAIN locks \ {k}
  <2>1. I \in SUBSET DOMAIN locks /\ Keeps(locks', locks, I)
    BY <1>0, <1>7, RemoveAtKeeps DEF TakesOut
  <2> HIDE DEF I
  <2>2. req'[r].in = req[r].in /\ \A q \in Request : q # r => req'[q] = req[q]
    BY <1>7 DEF TakesOut, Moved
  <2>3. \A q \in Request, j \in Nat : Nth(q, j)' = Nth(q, j)
    BY <1>b, <2>2
  <2>4. \A q \in Request : q # r => Got(q)' = Got(q)
    BY <1>a, <2>2
  <2>5. CASE /\ req[r].pc = "unlock" /\ req[r].i <= Len(req[r].in.ulocks)
             /\ k = Held(r, req[r].in.ulocks[req[r].i]) /\ Moved(r, "unlock", req[r].i + 1)
    <3>1. Got(r) = 0 /\ Got(r)' = 0
      BY <2>5 DEF Moved, Got
    <3>2. k # 0 /\ locks[k].req \in Request
      BY <1>0, RequestOfLock
    <3>3. req[locks[k].req].pc = "ok"
      BY <2>5, <3>2 DEF OrderlyUnlocks
    <3>4. Got(locks[k].req) = 0
      BY <1>d, <3>2, <3>3
    <3>5. ASSUME NEW q \in Request, NEW j \in 1 .. Got(q)'
          PROVE  /\ j \in 1 .. Got(q) /\ Nth(q, j)' = Nth(q, j)
                 /\ \A x \in DOMAIN locks : locks[x] = Nth(q, j) => x \in I
      <4>1. Got(q)' = Got(q)
        BY <2>4, <3>1
      <4>2. Nth(q, j).req = q
        BY <1>0, <4>1, NthGot
      <4>3. locks[k].req # q
        BY <1>c, <3>4, <4>1
      <4>4. j \in Nat
        BY <1>c, <4>1
      <4> QED
        BY <2>3, <4>1, <4>2, <4>3, <4>4 DEF I
    <3>6. ASSUME NEW x \in I, NEW q \in Request, ~IsPending(locks[x]), locks[x].req = q
          PROVE  req'[q].pc = "ok" \/ \E j \in 1 .. Got(q)' : locks[x] = Nth(q, j)'
      <4>1. req[q].pc = "ok" \/ \E j \in 1 .. Got(q) : locks[x] = Nth(q, j)
        BY <3>6 DEF I, ThereWasGot, Granted
      <4>2. req[q].pc = "ok" => req'[q].pc = "ok"
        BY <2>2, <2>5
      <4>3. Got(q)' = Got(q) /\ \A j \in 1 .. Got(q) : Nth(q, j)' = Nth(q, j)
        BY <1>c, <2>3, <2>4, <3>1
      <4> QED
        BY <4>1, <4>2, <4>3
    <3> QED
      BY <1>0, <2>1, <3>5, <3>6, HoldKept
  <2>6. CASE /\ req[r].pc = "undo" /\ req[r].i > 0
             /\ k = Held(r, req[r].in.locks[req[r].i]) /\ Moved(r, "undo", req[r].i - 1)
    <3>1. PICK i \in Nat : i = req[r].i
      BY <1>0, <2>6, SentRequest DEF Typed
    <3>2. Got(r) = i /\ Got(r)' = i - 1 /\ i > 0
      BY <2>6, <3>1 DEF Moved, Got
    <3>3. locks[k] = Nth(r, i) /\ \A x \in DOMAIN locks : locks[x] = Nth(r, i) => x = k
      BY <2>6, <3>1, UndoFinds
    <3>4. ASSUME NEW q \in Request, NEW j \in 1 .. Got(q)'
          PROVE  /\ j \in 1 .. Got(q) /\ Nth(q, j)' = Nth(q, j)
                 /\ \A x \in DOMAIN locks : locks[x] = Nth(q, j) => x \in I
      <4>1. j \in 1 .. Got(q) /\ j \in Nat /\ (q = r => j # i)
        BY <1>c, <2>4, <3>1, <3>2
      <4>2. Nth(q, j) # Nth(r, i)
        <5>1. CASE q = r
          BY <3>2, <4>1, <5>1 DEF GotIsThere
        <5>2. CASE q # r
          <6>1. i \in 1 .. Got(r)
            BY <3>1, <3>2
          <6> QED
            BY <1>0, <4>1, <5>2, <6>1, NthGot
        <5> QED
          BY <5>1, <5>2
      <4> QED
        BY <2>3, <3>3, <4>1, <4>2 DEF I
    <3>5. ASSUME NEW x \in I, NEW q \in Request, ~IsPending(locks[x]), locks[x].req = q
          PROVE  req'[q].pc = "ok" \/ \E j \in 1 .. Got(q)' : locks[x] = Nth(q, j)'
      <4>1. req[q].pc = "ok" \/ \E j \in 1 .. Got(q) : locks[x] = Nth(q, j)
        BY <3>5 DEF I, ThereWasGot, Granted
      <4>2. req[q].pc = "ok" => req'[q].pc = "ok"
        BY <2>2, <2>6
      <4>3. ASSUME NEW j \in 1 .. Got(q), locks[x] = Nth(q, j)
            PROVE  j \in 1 .. Got(q)' /\ Nth(q, j)' = Nth(q, j)
        <5>1. j \in Nat
          BY <1>c
        <5>2. CASE q # r
          BY <2>3, <2>4, <5>1, <5>2
        <5>3. CASE q = r
          <6>1. x \in DOMAIN locks /\ x # k
            BY DEF I
          <6>2. j # i
            BY <3>3, <4>3, <5>3, <6>1
          <6> QED
            BY <2>3, <3>1, <3>2, <5>1, <5>3, <6>2
        <5> QED
          BY <5>2, <5>3
      <4> QED
        BY <4>1, <4>2, <4>3
    <3> QED
      BY <1>0, <2>1, <3>4, <3>5, HoldKept
  <2> QED
    BY <1>7, <2>5, <2>6 DEF TakesOut
<1>8. ASSUME NEW r \in Request, UndoMisses(r)
      PROVE  FALSE
  <2>1. Held(r, req[r].in.locks[req[r].i]) \in DOMAIN locks
    BY <1>8, UndoFinds DEF UndoMisses
  <2> QED
    BY <1>0, <1>8, <2>1 DEF UndoMisses
<1>9. ASSUME NEW r \in Request, ForgetsPending(r)
      PROVE  GotIsThere' /\ ThereWasGot'
  <2>1. Pends(r) /\ req[r].pc # "ok"
    BY <1>9 DEF ForgetsPending, Pends
  <2>2. PICK k \in DOMAIN locks : IsPending(locks[k]) /\ locks[k].req = r
    BY <1>0, <2>1 DEF PendingEntries
  <2>3. \A y \in DOMAIN locks : IsPending(locks[y]) /\ locks[y].req = r => y = k
    BY <1>0, <2>2 DEF PendingEntries
  <2> DEFINE I == DOMAIN locks \ {k}
  <2>4. I \in SUBSET DOMAIN locks /\ Keeps(locks', locks, I)
    BY <1>0, <1>9, <2>2, <2>3, RemovePendingKeeps DEF ForgetsPending
  <2> HIDE DEF I
  <2>5. req'[r].in = req[r].in /\ \A q \in Request : q # r => req'[q] = req[q]
    BY <1>9 DEF ForgetsPending, Moved
  <2>6. Got(r)' = Got(r)
    <3>1. req[r].i \in Nat
      BY <1>0, <2>1, SentRequest DEF Typed, Pends
    <3> QED
      BY <1>9, <3>1 DEF ForgetsPending, Moved, Got, FirstUndone
  <2>7. \A q \in Request : Got(q)' = Got(q) /\ (req[q].pc = "ok" => req'[q].pc = "ok")
    BY <1>a, <2>1, <2>5, <2>6
  <2>8. \A q \in Request, j \in Nat : Nth(q, j)' = Nth(q, j)
    BY <1>b, <2>5
  <2>9. ASSUME NEW q \in Request, NEW j \in 1 .. Got(q)'
        PROVE  /\ j \in 1 .. Got(q) /\ Nth(q, j)' = Nth(q, j)
               /\ \A x \in DOMAIN locks : locks[x] = Nth(q, j) => x \in I
    <3>1. j \in 1 .. Got(q) /\ j \in Nat
      BY <1>c, <2>7
    <3>2. ~IsPending(Nth(q, j))
      BY <1>0, <3>1, NthGot
    <3> QED
      BY <2>2, <2>8, <3>1, <3>2 DEF I
  <2>10. ASSUME NEW x \in I, NEW q \in Request, ~IsPending(locks[x]), locks[x].req = q
         PROVE  req'[q].pc = "ok" \/ \E j \in 1 .. Got(q)' : locks[x] = Nth(q, j)'
    <3>1. req[q].pc = "ok" \/ \E j \in 1 .. Got(q) : locks[x] = Nth(q, j)
      BY <2>10 DEF I, ThereWasGot, Granted
    <3>2. Got(q)' = Got(q) /\ \A j \in 1 .. Got(q) : Nth(q, j)' = Nth(q, j)
      BY <1>c, <2>7, <2>8
    <3> QED
      BY <2>7, <3>1, <3>2
  <2> QED
    BY <1>0, <2>4, <2>9, <2>10, HoldKept
<1>10. ASSUME NEW h \in Handle, Closes(h)
       PROVE  GotIsThere' /\ ThereWasGot'
  <2> DEFINE I == {x \in DOMAIN locks : locks[x].handle # h}
  <2>1. I \in SUBSET DOMAIN locks /\ Keeps(locks', locks, I)
    BY <1>10, CloseKeepsOthers
  <2>2. \A x \in DOMAIN locks : x \in I <=> locks[x].handle # h
    OBVIOUS
  <2> HIDE DEF I
  <2>3. ASSUME NEW q \in Request, Got(q) > 0, HandleOf(q) # h
        PROVE  req'[q] = req[q]
    BY <1>0, <1>10, <2>3, CloseMoves
  <2>4. ASSUME NEW q \in Request, Got(q) > 0, HandleOf(q) = h
        PROVE  Got(q)' = 0
    <3>1. req[q].pc = "wait"
      <4>1. req[q].pc \in Running \cup {"wait"}
        BY <1>0, <2>4, GotRange DEF Running
      <4> QED
        BY <1>0, <1>10, <2>4, <4>1, CloseMoves
    <3>2. req'[q] = [pc |-> "failed", in |-> req[q].in, i |-> 0]
      BY <1>0, <1>10, <2>4, <3>1, CloseMoves
    <3> QED
      BY <3>2 DEF Got
  <2>5. ASSUME NEW q \in Request, Got(q) = 0
        PROVE  Got(q)' = 0
    <3>1. CASE req[q].pc = "wait" /\ HandleOf(q) = h
      <4>1. req'[q] = [pc |-> "failed", in |-> req[q].in, i |-> 0]
        BY <1>0, <1>10, <3>1, CloseMoves
      <4> QED
        BY <4>1 DEF Got
    <3>2. CASE ~(req[q].pc = "wait" /\ HandleOf(q) = h)
      BY <1>0, <1>10, <1>a, <2>5, <3>2, CloseMoves
    <3> QED
      BY <3>1, <3>2
  <2>6. ASSUME NEW q \in Request, NEW j \in 1 .. Got(q)'
        PROVE  /\ j \in 1 .. Got(q) /\ Nth(q, j)' = Nth(q, j)
               /\ \A x \in DOMAIN locks : locks[x] = Nth(q, j) => x \in I
    <3>1. Got(q) > 0 /\ HandleOf(q) # h
      BY <1>c, <2>4, <2>5
    <3>2. req'[q] = req[q]
      BY <2>3, <3>1
    <3>3. j \in 1 .. Got(q) /\ j \in Nat
      BY <1>a, <1>c, <3>2
    <3>4. Nth(q, j).handle = HandleOf(q)
      BY <1>0, <3>3, NthGot
    <3> QED
      BY <1>b, <2>2, <3>1, <3>2, <3>3, <3>4
  <2>7. ASSUME NEW x \in I, NEW q \in Request, ~IsPending(locks[x]), locks[x].req = q
        PROVE  req'[q].pc = "ok" \/ \E j \in 1 .. Got(q)' : locks[x] = Nth(q, j)'
    <3>1. x \in DOMAIN locks /\ locks[x].handle # h
      BY <2>1, <2>2
    <3>2. CASE req[q].pc = "ok"
      BY <1>0, <1>10, <3>2, CloseMoves
    <3>3. ASSUME NEW j \in 1 .. Got(q), locks[x] = Nth(q, j)
          PROVE  \E n \in 1 .. Got(q)' : locks[x] = Nth(q, n)'
      <4>1. HandleOf(q) # h /\ Got(q) > 0 /\ j \in Nat
        BY <1>0, <1>c, <3>1, <3>3, NthGot
      <4>2. req'[q] = req[q]
        BY <2>3, <4>1
      <4> QED
        BY <1>a, <1>b, <3>3, <4>1, <4>2
    <3>4. req[q].pc = "ok" \/ \E j \in 1 .. Got(q) : locks[x] = Nth(q, j)
      BY <2>7, <3>1 DEF ThereWasGot, Granted
    <3> QED
      BY <3>2, <3>3, <3>4
  <2> QED
    BY <1>0, <2>1, <2>6, <2>7, HoldKept
<1> QED
  BY <1>1, <1>2, <1>3, <1>4, <1>5, <1>6, <1>7, <1>8, <1>9, <1>10 DEF Effect, NoEffect

\* lock_count counts, undos that find their lock included.
LEMMA CountedStep ==
    ASSUME WaitInv, GotIsThere, OneWriter, Counted, UndoFindsOwn, ~SMB2, Effect, Typed'
    PROVE  Counted'
<1>0. Typed /\ Positions /\ PendingEntries /\ ListedWaiters /\ locks \in Seq(Lock)
  BY DEF WaitInv, Positions, Typed
<1>1. /\ \A h \in Handle : lock_count[h] = Count(locks, h)
      /\ \A h \in Handle : Count(locks, h) \in Nat
  BY <1>0, CountIsCounted, CountNat
<1>2. locks' \in Seq(Lock) /\ lock_count \in [Handle -> Int]
  BY <1>0 DEF Typed
<1>3. ASSUME \A h \in Handle : lock_count'[h] = Count(locks', h)
      PROVE  Counted'
  <2>1. ASSUME NEW h \in Handle
        PROVE  {x \in Granted' : locks'[x].handle = h} = Among(locks', DOMAIN locks', OfHandle(h))
    BY <1>2 DEF Granted, OfHandle, Among
  <2> QED
    BY <1>3, <2>1 DEF Counted, Count
<1>4. CASE UNCHANGED <<locks, lock_count>>
  BY <1>1, <1>3, <1>4
<1>5. ASSUME NEW r \in Request, GetsLock(r)
      PROVE  Counted'
  <2>1. AtLock(r)
    BY <1>0, <1>5, TakesAtLock DEF GetsLock
  <2>2. LockOf(r) \in Lock /\ ~IsPending(LockOf(r)) /\ LockOf(r).handle = HandleOf(r)
    BY <1>0, <2>1, LockOfIsLock DEF AtLock, LockOf, Nth
  <2>3. \A h \in Handle : LockOf(r) \in OfHandle(h) <=> h = HandleOf(r)
    BY <2>2 DEF OfHandle
  <2>4. \A h \in Handle : /\ h = HandleOf(r) => Count(locks', h) = Count(locks, h) + 1
                          /\ h # HandleOf(r) => Count(locks', h) = Count(locks, h)
    BY <1>0, <1>5, <2>2, <2>3, CountAppend DEF GetsLock
  <2>5. \A h \in Handle : /\ h = HandleOf(r) => lock_count'[h] = lock_count[h] + 1
                          /\ h # HandleOf(r) => lock_count'[h] = lock_count[h]
    BY <1>2, <1>5 DEF GetsLock
  <2> QED
    BY <1>1, <1>3, <2>4, <2>5
<1>6. ASSUME NEW r \in Request, GoesToWait(r)
      PROVE  Counted'
  <2>1. AtLock(r)
    BY <1>0, <1>6, TakesAtLock DEF GoesToWait
  <2>2. AsPending(LockOf(r)) \in Lock /\ IsPending(AsPending(LockOf(r)))
    BY <1>0, <2>1, LockOfIsLock DEF AtLock, LockOf, Nth
  <2>3. \A h \in Handle : AsPending(LockOf(r)) \notin OfHandle(h)
    BY <2>2 DEF OfHandle
  <2>4. \A h \in Handle : Count(locks', h) = Count(locks, h)
    BY <1>0, <1>6, <2>2, <2>3, CountAppend DEF GoesToWait
  <2> QED
    BY <1>1, <1>3, <1>6, <2>4 DEF GoesToWait
<1>7. ASSUME NEW r \in Request, NEW k \in DOMAIN locks, TakesOut(r, k)
      PROVE  Counted'
  <2>1. Keeps(locks', locks, DOMAIN locks \ {k})
    BY <1>0, <1>7, RemoveAtKeeps DEF TakesOut
  <2>2. locks[k] \in Lock /\ ~IsPending(locks[k]) /\ locks[k].handle = HandleOf(r)
    <3>1. PICK e : k = Held(r, e)
      BY <1>7 DEF TakesOut
    <3>2. k # 0
      BY <1>0
    <3> QED
      BY <1>0, <3>1, <3>2, UnlockIndexFinds DEF Held
  <2>3. \A h \in Handle : locks[k] \in OfHandle(h) <=> h = HandleOf(r)
    BY <2>2 DEF OfHandle
  <2>4. \A h \in Handle : /\ h = HandleOf(r) => Count(locks', h) = Count(locks, h) - 1
                          /\ h # HandleOf(r) => Count(locks', h) = Count(locks, h)
    BY <1>0, <1>2, <2>1, <2>3, CountRemove
  <2>5. \A h \in Handle : /\ h = HandleOf(r) => lock_count'[h] = lock_count[h] - 1
                          /\ h # HandleOf(r) => lock_count'[h] = lock_count[h]
    BY <1>2, <1>7 DEF TakesOut
  <2> QED
    BY <1>1, <1>3, <2>4, <2>5
<1>8. ASSUME NEW r \in Request, UndoMisses(r)
      PROVE  FALSE
  <2>1. Held(r, req[r].in.locks[req[r].i]) \in DOMAIN locks
    BY <1>8, UndoFinds DEF UndoMisses
  <2> QED
    BY <1>0, <1>8, <2>1 DEF UndoMisses
<1>9. ASSUME NEW r \in Request, ForgetsPending(r)
      PROVE  Counted'
  <2>1. Pends(r)
    BY <1>9 DEF ForgetsPending, Pends
  <2>2. PICK k \in DOMAIN locks : IsPending(locks[k]) /\ locks[k].req = r
    BY <1>0, <2>1 DEF PendingEntries
  <2>3. \A y \in DOMAIN locks : IsPending(locks[y]) /\ locks[y].req = r => y = k
    BY <1>0, <2>2 DEF PendingEntries
  <2>4. Keeps(locks', locks, DOMAIN locks \ {k})
    BY <1>0, <1>9, <2>2, <2>3, RemovePendingKeeps DEF ForgetsPending
  <2>5. \A h \in Handle : locks[k] \notin OfHandle(h)
    BY <2>2 DEF OfHandle
  <2>6. \A h \in Handle : Count(locks', h) = Count(locks, h)
    BY <1>0, <1>2, <2>4, <2>5, CountRemove
  <2> QED
    BY <1>1, <1>3, <1>9, <2>6 DEF ForgetsPending
<1>10. ASSUME NEW h \in Handle, Closes(h)
       PROVE  Counted'
  <2>1. Keeps(locks', locks, {x \in DOMAIN locks : locks[x].handle # h})
    BY <1>10, CloseKeepsOthers
  <2>2. Count(locks', h) = 0 /\ \A g : g # h => Count(locks', g) = Count(locks, g)
    BY <1>0, <1>2, <2>1, CountClose
  <2>3. lock_count'[h] = 0 /\ \A g \in Handle : g # h => lock_count'[g] = lock_count[g]
    BY <1>2, <1>10 DEF Closes
  <2> QED
    BY <1>1, <1>3, <2>2, <2>3
<1> QED
  BY <1>4, <1>5, <1>6, <1>7, <1>8, <1>9, <1>10
  DEF Effect, NoEffect, Arrives, Walks, StopsOrWaitsOn

\* What is in the array, and who is under way, is on open handles: a close
\* takes all of it away.
LEMMA OnOpenHandlesStep ==
    ASSUME WaitInv, Counted, OnOpenHandles, Effect, Typed'
    PROVE  OnOpenHandles'
<1> USE DEF HandleOf
<1>0. Typed /\ Positions /\ PendingEntries /\ ListedWaiters /\ locks \in Seq(Lock)
  BY DEF WaitInv, Positions, Typed
\* The requests.
<1>1. \A r \in Request : req'[r].pc \in Running \cup {"wait"} => HandleOf(r)' \in open'
  <2> SUFFICES ASSUME NEW q \in Request, req'[q].pc \in Running \cup {"wait"}
               PROVE  req'[q].in.handle \in open'
    BY DEF HandleOf
  <2>1. CASE open' = open /\ req'[q].in = req[q].in /\ req[q].pc \in Running \cup {"wait"}
    BY <2>1 DEF OnOpenHandles
  <2>2. ASSUME NEW r \in Request, NEW pc, NEW i, Moved(r, pc, i), open' = open,
               req[r].pc \in Running \cup {"wait"}
        PROVE  req'[q].in.handle \in open'
    BY <2>1, <2>2 DEF Moved
  <2>3. CASE NoEffect
    BY <2>1, <2>3 DEF NoEffect
  <2>4. ASSUME NEW r \in Request, NEW in \in Inputs, Arrives(r, in)
        PROVE  req'[q].in.handle \in open'
    <3>1. open' = open /\ in.handle \in open /\ req'[r].in = in /\ (q # r => req'[q] = req[q])
      BY <2>4 DEF Arrives
    <3> QED
      BY <2>1, <3>1
  <2>5. ASSUME NEW r \in Request, Walks(r)
        PROVE  req'[q].in.handle \in open'
    BY <2>2, <2>5 DEF Walks, Running
  <2>6. ASSUME NEW r \in Request, GetsLock(r)
        PROVE  req'[q].in.handle \in open'
    <3>1. open' = open /\ req[r].pc \in Running \cup {"wait"} /\ \E pc, i : Moved(r, pc, i)
      BY <2>6 DEF GetsLock, Running
    <3> QED
      BY <2>2, <3>1
  <2>7. ASSUME NEW r \in Request, GoesToWait(r)
        PROVE  req'[q].in.handle \in open'
    BY <2>2, <2>7 DEF GoesToWait, Running
  <2>8. ASSUME NEW r \in Request, StopsOrWaitsOn(r)
        PROVE  req'[q].in.handle \in open'
    BY <2>1, <2>2, <2>8 DEF StopsOrWaitsOn, Running
  <2>9. ASSUME NEW r \in Request, NEW k \in DOMAIN locks, TakesOut(r, k)
        PROVE  req'[q].in.handle \in open'
    BY <2>2, <2>9 DEF TakesOut, Running
  <2>10. ASSUME NEW r \in Request, UndoMisses(r)
         PROVE  req'[q].in.handle \in open'
    BY <2>2, <2>10 DEF UndoMisses, Running
  <2>11. ASSUME NEW r \in Request, ForgetsPending(r)
         PROVE  req'[q].in.handle \in open'
    BY <2>2, <2>11 DEF ForgetsPending, Running
  <2>12. ASSUME NEW h \in Handle, Closes(h)
         PROVE  req'[q].in.handle \in open'
    <3>1. req'[q] = req[q] /\ HandleOf(q) # h
      <4>1. CASE req[q].pc = "wait" /\ HandleOf(q) = h
        <5>1. req'[q] = [pc |-> "failed", in |-> req[q].in, i |-> 0]
          BY <1>0, <2>12, <4>1, CloseMoves
        <5> QED
          BY <5>1 DEF Running
      <4>2. CASE ~(req[q].pc = "wait" /\ HandleOf(q) = h)
        <5>1. req'[q] = req[q]
          BY <1>0, <2>12, <4>2, CloseMoves
        <5>2. req[q].pc \in Running => HandleOf(q) # h
          BY <1>0, <2>12, CloseMoves
        <5> QED
          BY <4>2, <5>1, <5>2
      <4> QED
        BY <4>1, <4>2
    <3>2. HandleOf(q) \in open
      BY <3>1 DEF OnOpenHandles
    <3>3. open' = open \ {h}
      BY <2>12 DEF Closes
    <3> QED
      BY <3>1, <3>2, <3>3
  <2> QED
    BY <2>3, <2>4, <2>5, <2>6, <2>7, <2>8, <2>9, <2>10, <2>11, <2>12 DEF Effect
\* The locks.
<1>2. \A x \in DOMAIN locks' : locks'[x].handle \in open'
  <2>1. ASSUME NEW I \in SUBSET DOMAIN locks, Keeps(locks', locks, I),
               \A x \in I : locks[x].handle \in open'
        PROVE  \A x \in DOMAIN locks' : locks'[x].handle \in open'
    <3>1. PICK f : KeptFrom(f, locks', locks, I)
      BY <2>1 DEF Keeps
    <3>2. \A x \in DOMAIN locks' : f[x] \in I /\ locks'[x] = locks[f[x]]
      BY <3>1 DEF KeptFrom
    <3> QED
      BY <2>1, <3>2
  <2>2. CASE open' = open /\ \E I \in SUBSET DOMAIN locks : Keeps(locks', locks, I)
    BY <2>1, <2>2 DEF OnOpenHandles
  <2>3. ASSUME open' = open, NEW r \in Request, AtLock(r), req[r].pc \in {"lock", "wait"},
               NEW l \in {LockOf(r), AsPending(LockOf(r))}, locks' = Append(locks, l)
        PROVE  \A x \in DOMAIN locks' : locks'[x].handle \in open'
    <3>1. l \in Lock /\ l.handle = HandleOf(r)
      BY <1>0, <2>3, LockOfIsLock DEF AtLock, LockOf, Nth
    <3>2. HandleOf(r) \in open
      BY <2>3 DEF OnOpenHandles, Running
    <3> DEFINE n == Len(locks) + 1
    <3>3. /\ DOMAIN locks' = DOMAIN locks \cup {n} /\ locks'[n] = l
          /\ \A x \in DOMAIN locks : locks'[x] = locks[x]
      BY <1>0, <2>3, <3>1, AppendPlaces
    <3> HIDE DEF n
    <3> QED
      BY <2>3, <3>1, <3>2, <3>3 DEF OnOpenHandles
  <2>4. CASE open' = open /\ UNCHANGED locks
    BY <2>4 DEF OnOpenHandles
  <2>5. ASSUME NEW r \in Request, GetsLock(r)
        PROVE  \A x \in DOMAIN locks' : locks'[x].handle \in open'
    <3>1. AtLock(r)
      BY <1>0, <2>5, TakesAtLock DEF GetsLock
    <3> QED
      BY <2>3, <2>5, <3>1 DEF GetsLock
  <2>6. ASSUME NEW r \in Request, GoesToWait(r)
        PROVE  \A x \in DOMAIN locks' : locks'[x].handle \in open'
    <3>1. AtLock(r)
      BY <1>0, <2>6, TakesAtLock DEF GoesToWait
    <3> QED
      BY <2>3, <2>6, <3>1 DEF GoesToWait
  <2>7. ASSUME NEW r \in Request, NEW k \in DOMAIN locks, TakesOut(r, k)
        PROVE  \A x \in DOMAIN locks' : locks'[x].handle \in open'
    <3>1. Keeps(locks', locks, DOMAIN locks \ {k}) /\ DOMAIN locks \ {k} \in SUBSET DOMAIN locks
      BY <1>0, <2>7, RemoveAtKeeps DEF TakesOut
    <3> QED
      BY <2>2, <2>7, <3>1 DEF TakesOut
  <2>8. ASSUME NEW r \in Request, ForgetsPending(r)
        PROVE  \A x \in DOMAIN locks' : locks'[x].handle \in open'
    <3>1. PICK k \in DOMAIN locks : IsPending(locks[k]) /\ locks[k].req = r
      BY <1>0, <2>8 DEF PendingEntries, ForgetsPending, Pends
    <3>2. \A y \in DOMAIN locks : IsPending(locks[y]) /\ locks[y].req = r => y = k
      BY <1>0, <3>1 DEF PendingEntries
    <3>3. Keeps(locks', locks, DOMAIN locks \ {k}) /\ DOMAIN locks \ {k} \in SUBSET DOMAIN locks
      BY <1>0, <2>8, <3>1, <3>2, RemovePendingKeeps DEF ForgetsPending
    <3> QED
      BY <2>2, <2>8, <3>3 DEF ForgetsPending
  <2>9. ASSUME NEW h \in Handle, Closes(h)
        PROVE  \A x \in DOMAIN locks' : locks'[x].handle \in open'
    <3> DEFINE I == {x \in DOMAIN locks : locks[x].handle # h}
    <3>1. I \in SUBSET DOMAIN locks /\ Keeps(locks', locks, I)
      BY <2>9, CloseKeepsOthers
    <3>2. \A x \in I : locks[x].handle \in open'
      BY <2>9 DEF OnOpenHandles, Closes
    <3> HIDE DEF I
    <3> QED
      BY <2>1, <3>1, <3>2
  <2> QED
    BY <2>4, <2>5, <2>6, <2>7, <2>8, <2>9
    DEF Effect, NoEffect, Arrives, Walks, StopsOrWaitsOn, UndoMisses
<1> QED
  BY <1>1, <1>2 DEF OnOpenHandles

\* The invariant of the holders holds at the start.
LEMMA HoldInvInit == Init => HoldInv
<1> SUFFICES ASSUME Init
             PROVE  HoldInv
  OBVIOUS
<1>0. WaitInv /\ Typed
  BY WaitInvInit DEF WaitInv
<1>1. /\ locks = <<>> /\ open = Handle /\ lock_count = [h \in Handle |-> 0]
      /\ req = [r \in Request |-> Unsent]
  BY DEF Init
<1>2. DOMAIN locks = {} /\ Granted = {} /\ \A r \in Request : req[r].pc = "unsent"
  BY <1>1 DEF Unsent, Granted
<1>3. \A r \in Request : Got(r) = 0
  BY <1>2 DEF Got
<1>4. OneHandler /\ OnOpenHandles
  BY <1>2 DEF OneHandler, OnOpenHandles, Running
<1>5. GotIsThere /\ ThereWasGot /\ OneWriter
  BY <1>2, <1>3 DEF GotIsThere, ThereWasGot, OneWriter
<1>6. Counted
  <2>1. \A h \in Handle : {x \in Granted : locks[x].handle = h} = {}
    BY <1>2
  <2> QED
    BY <1>1, <2>1, FS_EmptySet DEF Counted
<1> QED
  BY <1>0, <1>4, <1>5, <1>6 DEF HoldInv

\* Every step keeps it while unlocks are orderly.
LEMMA HoldInvStep ==
    ASSUME ~SMB2, UndoFindsOwn
    PROVE  HoldInv /\ OrderlyUnlocks /\ [Next]_vars => HoldInv'
<1> SUFFICES ASSUME HoldInv, OrderlyUnlocks, [Next]_vars
             PROVE  HoldInv'
  OBVIOUS
<1>1. /\ WaitInv /\ OneHandler /\ OnOpenHandles
      /\ GotIsThere /\ ThereWasGot /\ OneWriter /\ Counted
  BY DEF HoldInv
<1>2. WaitInv' /\ Effect
  BY <1>1, WaitInvStep
<1>3. ArrayStep /\ Typed'
  BY <1>1, <1>2, EffectOnArray DEF WaitInv
<1>4. OneHandler' /\ OnOpenHandles'
  BY <1>1, <1>2, <1>3, OneHandlerStep, OnOpenHandlesStep
<1>5. GotIsThere' /\ ThereWasGot'
  BY <1>1, <1>2, HoldStep
<1>6. OneWriter' /\ Counted'
  BY <1>1, <1>2, <1>3, OneWriterStep, CountedStep
<1> QED
  BY <1>2, <1>4, <1>5, <1>6 DEF HoldInv

\* It gives what is said of closed handles and of requests that failed.
LEMMA HoldInvGives ==
    ASSUME HoldInv
    PROVE  NothingLeft /\ FailedHoldsNothing
<1>1. Typed /\ Positions /\ Counted /\ OnOpenHandles /\ ThereWasGot
  BY DEF HoldInv, WaitInv, Positions
<1>2. NothingLeft
  BY <1>1 DEF NothingLeft, Counted, OnOpenHandles
<1>3. FailedHoldsNothing
  <2> SUFFICES ASSUME NEW x \in Granted
               PROVE  req[locks[x].req].pc # "failed"
    BY DEF FailedHoldsNothing
  <2>1. locks[x].req \in Request
    BY <1>1, RequestOfLock DEF Granted
  <2>2. req[locks[x].req].pc = "ok" \/ 1 .. Got(locks[x].req) # {}
    BY <1>1, <2>1 DEF ThereWasGot
  <2>3. req[locks[x].req].pc = "failed" => Got(locks[x].req) = 0
    BY DEF Got
  <2> QED
    BY <2>2, <2>3
<1> QED
  BY <1>2, <1>3

\* While a request is being served, what a request of the same handle has got
\* is what it got before it had to wait for more: one of several.
LEMMA SeveralGiveOrder ==
    ASSUME HoldInv, SeveralNotUnlocked
    PROVE  OrderlyUnlocks
<1>0. Typed /\ Positions /\ OneHandler /\ ThereWasGot /\ locks \in Seq(Lock)
  BY DEF HoldInv, WaitInv, Positions, Typed
<1> DEFINE e(r) == req[r].in.ulocks[req[r].i]
<1> SUFFICES ASSUME NEW r \in Request, req[r].pc = "unlock",
                    req[r].i <= Len(req[r].in.ulocks), Held(r, e(r)) # 0
             PROVE  req[locks[Held(r, e(r))].req].pc = "ok"
  BY DEF OrderlyUnlocks
<1>1. PICK k : k = Held(r, e(r))
  OBVIOUS
<1>2. /\ k \in DOMAIN locks /\ locks[k].handle = HandleOf(r) /\ ~IsPending(locks[k])
      /\ locks[k].pid = e(r).pid /\ locks[k].start = e(r).start /\ locks[k].size = e(r).size
  <2> HIDE DEF e
  <2>1. k = UnlockIndex(locks, HandleOf(r), e(r).pid, e(r).start, e(r).size) /\ k # 0
    BY <1>1 DEF Held
  <2> QED
    BY <1>0, <2>1, UnlockIndexFinds
<1>3. PICK q \in Request : q = locks[k].req
  BY <1>0, <1>2, RequestOfLock
<1>4. req[r].in \in Inputs /\ req[r].in.ulocks \in Seq(Entry) /\ req[r].i \in DOMAIN req[r].in.ulocks
  <2>1. req[r].in \in Inputs /\ req[r].in.ulocks \in Seq(Entry)
    BY <1>0, SentRequest DEF Typed, Input
  <2>2. req[r].i \in 1 .. Len(req[r].in.ulocks) + 1 /\ Len(req[r].in.ulocks) \in Nat
    BY <1>0, <2>1 DEF Positions, Position
  <2> QED
    BY <2>1, <2>2
<1>5. e(r) \in Entry
  BY <1>4
<1> HIDE DEF e
<1>6. ASSUME NEW j \in 1 .. Got(q), locks[k] = Nth(q, j)
      PROVE  FALSE
  <2>1. /\ j \in DOMAIN req[q].in.locks /\ req[q].in \in Inputs
        /\ req[q].pc \in {"lock", "wait", "gaveup", "granted", "undo"}
        /\ HandleOf(q) = HandleOf(r)
    BY <1>0, <1>2, <1>6, NthGot
  <2>2. q # r
    BY <2>1
  <2>3. req[q].pc \notin Running
    BY <1>0, <2>1, <2>2 DEF OneHandler, Running
  <2>4. req[q].pc = "wait"
    BY <2>1, <2>3 DEF Running
  <2>5. Len(req[q].in.locks) > 1
    <3>1. req[q].i \in 1 .. Len(req[q].in.locks) /\ Got(q) = req[q].i - 1
      BY <1>0, <2>4 DEF Positions, Position, Got
    <3>2. req[q].in.locks \in Seq(Entry)
      BY <1>0, <2>4, SentRequest DEF Typed, Input
    <3> QED
      BY <3>1, <3>2
  <2>6. /\ req[q].in.locks[j] \in Entry
        /\ req[q].in.locks[j].pid = e(r).pid /\ req[q].in.locks[j].start = e(r).start
        /\ req[q].in.locks[j].size = e(r).size
    <3>1. req[q].in.locks \in Seq(Entry)
      BY <1>0, <2>4, SentRequest DEF Typed, Input
    <3>2. /\ Nth(q, j).pid = req[q].in.locks[j].pid /\ Nth(q, j).start = req[q].in.locks[j].start
          /\ Nth(q, j).size = req[q].in.locks[j].size
      BY <1>0, <2>1, <2>4, LockOfIsLock
    <3> QED
      BY <1>2, <1>6, <2>1, <3>1, <3>2
  <2>7. req[q].in.locks[j] = e(r)
    BY <1>5, <2>6 DEF Entry
  <2> QED
    BY <1>4, <2>1, <2>5, <2>7 DEF SeveralNotUnlocked, HandleOf, e
<1>7. req[q].pc = "ok"
  BY <1>0, <1>2, <1>3, <1>6 DEF ThereWasGot, Granted
<1> QED
  BY <1>1, <1>3, <1>7

\* SMB: lock_count says how many locks a handle has, a closed handle leaves
\* nothing behind, and a request that failed holds none of its locks, as long
\* as unlocks are orderly and an undo can find no lock but its own
\* (pvfs_lock, pvfs_lock_async_failed, pvfs_lock_close).
THEOREM OrderlyClientsHold ==
    ASSUME ~SMB2, UndoFindsOwn
    PROVE  Spec /\ []OrderlyUnlocks => [](NothingLeft /\ FailedHoldsNothing)
<1>1. HoldInv => NothingLeft /\ FailedHoldsNothing
  BY HoldInvGives
<1> QED
  BY HoldInvInit, HoldInvStep, <1>1, PTL DEF Spec

\* The same by what the clients may send: requests for several ranges are for
\* exclusive locks that no request unlocks one by one.
LEMMA HoldInvAlways ==
    ASSUME ~SMB2, UndoFindsOwn, SeveralNotUnlocked
    PROVE  Spec => []HoldInv
<1>1. HoldInv => OrderlyUnlocks
  BY SeveralGiveOrder
<1> QED
  BY HoldInvInit, HoldInvStep, <1>1, PTL DEF Spec

\* A closed handle leaves nothing in the database, for such clients.
THEOREM CloseLeavesNothing ==
    ASSUME ~SMB2, UndoFindsOwn, SeveralNotUnlocked
    PROVE  Spec => []NothingLeft
<1>1. HoldInv => NothingLeft
  BY HoldInvGives
<1> QED
  BY HoldInvAlways, <1>1, PTL

\* A request that failed holds nothing, for such clients.
THEOREM FailedRequestsHoldNothing ==
    ASSUME ~SMB2, UndoFindsOwn, SeveralNotUnlocked
    PROVE  Spec => []FailedHoldsNothing
<1>1. HoldInv => FailedHoldsNothing
  BY HoldInvGives
<1> QED
  BY HoldInvAlways, <1>1, PTL
=============================================================================
