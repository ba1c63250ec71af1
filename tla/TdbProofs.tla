----------------------------- MODULE TdbProofs ------------------------------
(***************************************************************************)
(* Proofs about tdb, for any number of processes, words and transactions.  *)
(*                                                                         *)
(* Nobody changes the database under a reader or under a transaction:      *)
(* Isolation holds with any power cuts, as long as no process is killed    *)
(* while its commit has the magic set and others may have the database     *)
(* open.                                                                   *)
(*                                                                         *)
(* tdb_transaction_commit is atomic, with any number of kills and power    *)
(* cuts, where Orderly leaves out the places in which a crash does damage. *)
(* Good is the invariant: locks and places (Inv), types, and what file and *)
(* disk hold in each place (CrashInv).                                     *)
(***************************************************************************)
EXTENDS TdbCrashInv, Integers, FiniteSetTheorems, TLAPS

(* Sizes *)

\* Rounding up to pages does not make a size smaller.
LEMMA AlignedGrows ==
    ASSUME NEW n \in Nat
    PROVE  Aligned(n) \in Nat /\ n <= Aligned(n)
<1> DEFINE m == n + Page - 1
<1>1. Page \in Nat /\ Page > 0
  BY TdbAssumption
<1>2. m \in Nat
  BY <1>1
<1>3. \A k \in Nat, d \in Nat : d > 0 =>
         (k \div d) * d \in Nat /\ k - (d - 1) <= (k \div d) * d
  BY Z3
<1>4. (m \div Page) * Page \in Nat /\ m - (Page - 1) <= (m \div Page) * Page
  BY <1>1, <1>2, <1>3
<1> QED
  BY <1>1, <1>4 DEF Aligned

\* A set of words has a size.
LEMMA SizeOfWords ==
    ASSUME NEW S, S \subseteq Off
    PROVE  Cardinality(S) \in Nat
<1>1. IsFiniteSet(Off)
  BY TdbAssumption, FS_Interval DEF Off
<1>2. IsFiniteSet(S)
  BY <1>1, FS_Subset
<1> QED
  BY <1>2, FS_CardinalityType

\* What a sync leaves of the file.
LEMMA TrimKeeps ==
    ASSUME NEW f, FileShape(f)
    PROVE  /\ FileShape(Trim(f))
           /\ Trim(f).size = f.size /\ Trim(f).head = f.head
           /\ Trim(f).magic = {o \in f.magic : o < f.size}
<1>1. /\ Trim(f).size = f.size /\ Trim(f).head = f.head
      /\ Trim(f).magic = {o \in f.magic : o < f.size}
      /\ Trim(f).log = [o \in Off |-> IF o < f.size THEN f.log[o] ELSE NoLog]
  BY DEF Trim, FileShape
<1>2. Trim(f) \in [size: Nat, head: Off, data: {Trim(f).data}, magic: SUBSET Off,
                   max: {Trim(f).max}, log: {Trim(f).log}]
  BY DEF Trim, FileShape
<1>3. NoLog.eof \in Nat /\ DOMAIN NoLog.saved \subseteq Off
  BY DEF NoLog, NoWords
<1> QED
  BY <1>1, <1>2, <1>3 DEF FileShape

\* What tdb_expand_file makes of the file.
LEMMA ExpandKeeps ==
    ASSUME NEW f, FileShape(f), NEW old \in Nat, NEW new \in Nat
    PROVE  /\ FileShape(tdb_expand_file(f, old, new))
           /\ tdb_expand_file(f, old, new).size = new
           /\ tdb_expand_file(f, old, new).head = f.head
           /\ tdb_expand_file(f, old, new).magic \subseteq f.magic
           /\ \A o \in tdb_expand_file(f, old, new).magic : o < old \/ new <= o
<1> DEFINE g == tdb_expand_file(f, old, new)
<1>1. /\ g.size = new /\ g.head = f.head /\ g.magic = f.magic \ (old..new - 1)
      /\ g.log = [o \in Off |-> IF o \in old..new - 1 THEN NoLog ELSE f.log[o]]
  BY DEF tdb_expand_file, FileShape
<1>2. g \in [size: Nat, head: Off, data: {g.data}, magic: SUBSET Off, max: {g.max}, log: {g.log}]
  BY DEF tdb_expand_file, FileShape
<1>3. NoLog.eof \in Nat /\ DOMAIN NoLog.saved \subseteq Off
  BY DEF NoLog, NoWords
<1>4. \A o \in g.magic : o < old \/ new <= o
  <2>1. \A o \in f.magic : o \in Nat
    BY TdbAssumption DEF FileShape, Off
  <2> QED
    BY <1>1, <2>1
<1> QED
  BY <1>1, <1>2, <1>3, <1>4 DEF FileShape

\* A process without a transaction.
LEMMA NoTxShape == TxShape(NoTx)
  BY TdbAssumption DEF TxShape, NoTx, NoWords, Off

-----------------------------------------------------------------------------
(* Who else is there *)

\* While a process commits, the others have no lock.
LEMMA CommitsAlone ==
    ASSUME Inv, NEW p \in Proc, pc[p] \in Committing \ {"global"}
    PROVE  \A q \in Others(p) : pc[q] \in {"closed", "idle"}
<1> SUFFICES ASSUME NEW q \in Others(p)
             PROVE  pc[q] \in {"closed", "idle"}
  OBVIOUS
<1>1. q \in Proc /\ pc[q] \in Pc
  BY DEF Others, Inv, Shape
<1>2. ~ InTransaction(q) /\ ~ ReadsHash(q) /\ ~ HasGlobal(q)
  BY DEF Inv, ReadersSafe, LocksExclude, InTransaction, WritesHash, HasGlobal
<1> QED
  BY <1>1, <1>2 DEF InTransaction, ReadsHash, HasGlobal, Pc

\* A file is armed only in the live places of a commit, or when it is not in use.
LEMMA NotArmed ==
    ASSUME Inv, NEW p \in Proc, pc[p] \in Committing \ ({"global"} \cup Live)
    PROVE  ~ Armed
<1>1. \A q \in Others(p) : pc[q] \in {"closed", "idle"}
  BY CommitsAlone
<1>2. ~ \E q \in Proc : pc[q] \in Live
  BY <1>1 DEF Others, Live
<1>3. pc[p] \notin {"closed"} \cup Recovering
  BY DEF Committing, Recovering
<1> QED
  BY <1>2, <1>3 DEF Inv, ReadersSafe, ArmedInCommit

-----------------------------------------------------------------------------
(* Steps of a process p to a place x *)

\* A step that leaves the file alone.
LEMMA FileKept ==
    ASSUME Inv, Shape', NEW p \in Proc, NEW x \in Pc,
           file' = file, pc' = [pc EXCEPT ![p] = x],
           \A q \in Others(p) : tx'[q] = tx[q],
           \A q \in Others(p) :
             /\ x \in {"tx", "upgrade"} \cup Committing => ~ InTransaction(q)
             /\ x \in {"reading", "tx", "upgrade"} => ~ WritesHash(q)
             /\ x \in Committing => ~ ReadsHash(q)
             /\ x \in Recovering \cup (Committing \ {"global"}) => ~ HasGlobal(q),
           x \in Recovering \ {"recover"} => \A q \in Others(p) : pc[q] = "closed",
           x # "closed" => \A q \in Others(p) : pc[q] \notin Recovering \ {"recover"},
           Armed => \/ \E q \in Others(p) : pc[q] \in Live
                    \/ /\ x \in {"closed"} \cup Recovering
                       /\ \A q \in Others(p) : pc[q] \in {"closed"} \cup Recovering,
           Placed(p)'
    PROVE  Inv'
<1>1. DOMAIN pc = Proc /\ pc'[p] = x /\ \A q \in Others(p) : q \in Proc /\ pc'[q] = pc[q]
  BY DEF Inv, Shape, Others
<1>2. \A q \in Proc : q = p \/ q \in Others(p)
  BY DEF Others
<1>3. LocksExclude'
  <2> SUFFICES ASSUME NEW r \in Proc, NEW q \in Others(r)
               PROVE  (/\ InTransaction(r) => ~ InTransaction(q)
                       /\ WritesHash(r) => ~ ReadsHash(q)
                       /\ HasGlobal(r) => ~ HasGlobal(q))'
    BY DEF LocksExclude, Others
  <2>0. q \in Proc /\ r \in Others(q) /\ q # r
    BY DEF Others
  <2>1. CASE r = p
    BY <2>0, <2>1, <1>1 DEF InTransaction, WritesHash, ReadsHash, HasGlobal
  <2>2. CASE q = p
    BY <2>0, <2>2, <1>1, <1>2 DEF InTransaction, WritesHash, ReadsHash, HasGlobal
  <2>3. CASE r # p /\ q # p
    <3>1. pc'[r] = pc[r] /\ pc'[q] = pc[q]
      BY <2>0, <2>3, <1>1, <1>2
    <3> QED
      BY <3>1 DEF Inv, ReadersSafe, LocksExclude, InTransaction, WritesHash, ReadsHash, HasGlobal
  <2> QED
    BY <2>1, <2>2, <2>3
<1>4. ArmedInCommit'
  <2> SUFFICES ASSUME Armed
               PROVE  \/ \E q \in Proc : pc'[q] \in Live
                      \/ \A q \in Proc : pc'[q] \in {"closed"} \cup Recovering
    BY DEF ArmedInCommit, Armed
  <2> QED
    BY <1>1, <1>2
<1>5. RecoveryAlone'
  <2> SUFFICES ASSUME NEW r \in Proc, pc'[r] \in Recovering \ {"recover"}, NEW q \in Others(r)
               PROVE  pc'[q] = "closed"
    BY DEF RecoveryAlone, Others
  <2>0. q \in Proc /\ q # r
    BY DEF Others
  <2>1. CASE r = p
    BY <2>0, <2>1, <1>1
  <2>2. CASE r # p
    <3>1. pc[r] \in Recovering \ {"recover"} /\ r \in Others(p)
      BY <2>2, <1>1, <1>2
    <3>2. pc[q] = "closed"
      BY <3>1 DEF Inv, ReadersSafe, RecoveryAlone
    <3> QED
      BY <3>1, <3>2, <2>0, <1>1, <1>2
  <2> QED
    BY <2>1, <2>2
<1>7. \A q \in Proc : Placed(q)'
  <2> SUFFICES ASSUME NEW q \in Others(p) PROVE Placed(q)'
    BY <1>2
  <2>1. q \in Proc /\ pc'[q] = pc[q] /\ tx'[q] = tx[q] /\ Placed(q)
    BY <1>1 DEF Others, Inv, ReadersSafe
  <2> QED
    BY <2>1 DEF Placed, Armed
<1> QED
  BY <1>3, <1>4, <1>5, <1>7 DEF Inv, ReadersSafe

\* A step of a commit that holds its locks.
LEMMA CommitStep ==
    ASSUME Inv, Shape', NEW p \in Proc, NEW x,
           pc[p] \in Committing \ {"global"},
           x \in (Committing \ {"global"}) \cup {"idle"},
           pc' = [pc EXCEPT ![p] = x],
           Armed' => x \in Live,
           Placed(p)'
    PROVE  Inv'
<1>1. DOMAIN pc = Proc /\ pc'[p] = x /\ \A q \in Others(p) : q \in Proc /\ pc'[q] = pc[q]
  BY DEF Inv, Shape, Others
<1>2. \A q \in Proc : q = p \/ q \in Others(p)
  BY DEF Others
<1>3. \A q \in Others(p) : pc'[q] \in {"closed", "idle"}
  BY <1>1, CommitsAlone
<1>4. LocksExclude'
  <2> SUFFICES ASSUME NEW r \in Proc, NEW q \in Others(r)
               PROVE  (/\ InTransaction(r) => ~ InTransaction(q)
                       /\ WritesHash(r) => ~ ReadsHash(q)
                       /\ HasGlobal(r) => ~ HasGlobal(q))'
    BY DEF LocksExclude, Others
  <2>1. r # q /\ q \in Proc
    BY DEF Others
  <2>2. pc'[r] \in {"closed", "idle"} \/ pc'[q] \in {"closed", "idle"}
    BY <2>1, <1>2, <1>3
  <2> QED
    BY <2>2 DEF InTransaction, WritesHash, ReadsHash, HasGlobal, Committing, Recovering
<1>5. ArmedInCommit'
  BY <1>1 DEF ArmedInCommit
<1>6. RecoveryAlone'
  <2>1. \A q \in Proc : pc'[q] \notin Recovering
    BY <1>1, <1>2, <1>3 DEF Committing, Recovering
  <2> QED
    BY <2>1 DEF RecoveryAlone
<1>8. \A q \in Proc : Placed(q)'
  <2> SUFFICES ASSUME NEW q \in Others(p) PROVE Placed(q)'
    BY <1>2
  <2>1. pc'[q] \in {"closed", "idle"}
    BY <1>3
  <2> QED
    BY <2>1 DEF Placed, Live, Committing
<1> QED
  BY <1>4, <1>5, <1>6, <1>8 DEF Inv, ReadersSafe

\* A step of a recovery that has read the record.
LEMMA RestoreStep ==
    ASSUME Inv, Shape', NEW p \in Proc, NEW x,
           pc[p] \in Recovering \ {"recover"},
           x \in (Recovering \ {"recover"}) \cup {"idle", "closed"},
           pc' = [pc EXCEPT ![p] = x],
           Armed' => x # "idle",
           Placed(p)'
    PROVE  Inv'
<1>1. DOMAIN pc = Proc /\ pc'[p] = x /\ \A q \in Others(p) : q \in Proc /\ pc'[q] = pc[q]
  BY DEF Inv, Shape, Others
<1>2. \A q \in Proc : q = p \/ q \in Others(p)
  BY DEF Others
<1>3. \A q \in Others(p) : pc'[q] = "closed"
  BY <1>1 DEF Inv, ReadersSafe, RecoveryAlone
<1>4. LocksExclude'
  <2> SUFFICES ASSUME NEW r \in Proc, NEW q \in Others(r)
               PROVE  (/\ InTransaction(r) => ~ InTransaction(q)
                       /\ WritesHash(r) => ~ ReadsHash(q)
                       /\ HasGlobal(r) => ~ HasGlobal(q))'
    BY DEF LocksExclude, Others
  <2>1. r # q /\ q \in Proc
    BY DEF Others
  <2>2. pc'[r] = "closed" \/ pc'[q] = "closed"
    BY <2>1, <1>2, <1>3
  <2> QED
    BY <2>2 DEF InTransaction, WritesHash, ReadsHash, HasGlobal, Committing, Recovering
<1>5. ArmedInCommit'
  BY <1>1, <1>2, <1>3 DEF ArmedInCommit
<1>6. RecoveryAlone'
  <2> SUFFICES ASSUME NEW r \in Proc, pc'[r] \in Recovering \ {"recover"}, NEW q \in Others(r)
               PROVE  pc'[q] = "closed"
    BY DEF RecoveryAlone, Others
  <2>1. r = p
    BY <1>2, <1>3 DEF Recovering
  <2> QED
    BY <2>1, <1>3
<1>8. \A q \in Proc : Placed(q)'
  <2> SUFFICES ASSUME NEW q \in Others(p) PROVE Placed(q)'
    BY <1>2
  <2>1. pc'[q] = "closed"
    BY <1>3
  <2> QED
    BY <2>1 DEF Placed, Live, Committing
<1> QED
  BY <1>4, <1>5, <1>6, <1>8 DEF Inv, ReadersSafe

-----------------------------------------------------------------------------
(* Shapes *)

\* A step that changes one transaction and one place.
LEMMA ShapeOfTx ==
    ASSUME Inv, NEW p \in Proc, NEW x \in Pc, NEW t,
           TxShape(t), FileShape(file'), FileShape(disk'),
           pc' = [pc EXCEPT ![p] = x], tx' = [tx EXCEPT ![p] = t]
    PROVE  Shape' /\ tx'[p] = t /\ pc'[p] = x /\ \A q \in Others(p) : tx'[q] = tx[q]
<1>1. DOMAIN tx = Proc /\ pc \in [Proc -> Pc] /\ \A q \in Proc : TxShape(tx[q])
  BY DEF Inv, Shape
<1>2. tx'[p] = t /\ pc'[p] = x /\ \A q \in Others(p) : tx'[q] = tx[q]
  BY <1>1 DEF Others
<1>3. DOMAIN tx' = Proc /\ pc' \in [Proc -> Pc]
  BY <1>1
<1>4. \A q \in Proc : TxShape(tx'[q])
  BY <1>1, <1>2 DEF Others
<1> QED
  BY <1>2, <1>3, <1>4 DEF Shape

\* A step that changes one place.
LEMMA ShapeOfPc ==
    ASSUME Inv, NEW p \in Proc, NEW x \in Pc, FileShape(file'), FileShape(disk'),
           pc' = [pc EXCEPT ![p] = x], tx' = tx
    PROVE  Shape' /\ pc'[p] = x /\ \A q \in Others(p) : tx'[q] = tx[q]
  BY DEF Inv, Shape, Others

\* What the steps below need of the shape.
LEMMA Shapes ==
    ASSUME Inv, NEW p \in Proc
    PROVE  /\ FileShape(file) /\ FileShape(disk) /\ TxShape(tx[p]) /\ pc[p] \in Pc
           /\ DOMAIN tx = Proc /\ pc = [pc EXCEPT ![p] = pc[p]]
  BY DEF Inv, Shape

-----------------------------------------------------------------------------
(* Steps inside a transaction *)

\* A step that only changes the transaction in memory, but not what was read
\* of the file when it began.
LEMMA InMemory ==
    ASSUME Inv, NEW p \in Proc, NEW t, TxShape(t), pc[p] = "tx",
           tx' = [tx EXCEPT ![p] = t], t.old = tx[p].old, tx[p].map <= t.map,
           UNCHANGED <<file, disk, pc>>
    PROVE  Inv'
<1>1. pc' = [pc EXCEPT ![p] = "tx"] /\ "tx" \in Pc
  BY Shapes DEF Pc
<1>2. Shape' /\ tx'[p] = t /\ pc'[p] = "tx" /\ \A q \in Others(p) : tx'[q] = tx[q]
  BY <1>1, Shapes, ShapeOfTx
<1>3. Placed(p)'
  <2>1. tx[p].old = file.size /\ file.size <= tx[p].map
    BY DEF Inv, ReadersSafe, Placed
  <2>2. file.size \in Nat /\ tx[p].map \in Nat /\ t.map \in Nat
    BY Shapes DEF FileShape, TxShape
  <2> QED
    BY <1>2, <2>1, <2>2 DEF Placed, Live, Committing
<1>4. InTransaction(p) /\ ReadsHash(p)
  BY DEF InTransaction, ReadsHash
<1>5. \A q \in Others(p) : ~ InTransaction(q) /\ ~ WritesHash(q)
  BY <1>4 DEF Inv, ReadersSafe, LocksExclude, Others
<1>6. \A q \in Others(p) : pc[q] \notin Recovering \ {"recover"}
  BY DEF Inv, ReadersSafe, RecoveryAlone, Others
<1>7. Armed => \E q \in Others(p) : pc[q] \in Live
  BY DEF Inv, ReadersSafe, ArmedInCommit, Others, Live, Recovering
<1> QED
  BY <1>1, <1>2, <1>3, <1>5, <1>6, <1>7, FileKept DEF Committing, Recovering

\* Leaving a transaction, a read lock or the file, with the file as it is.
LEMMA Leaves ==
    ASSUME Inv, NEW p \in Proc, NEW x \in {"idle", "closed"},
           pc[p] \notin {"closed"} \cup Recovering \cup Live,
           Leave(p, x), UNCHANGED <<file, disk>>
    PROVE  Inv'
<1>1. x \in Pc /\ pc' = [pc EXCEPT ![p] = x] /\ tx' = [tx EXCEPT ![p] = NoTx]
  BY DEF Pc, Leave, Go
<1>2. Shape' /\ pc'[p] = x /\ \A q \in Others(p) : tx'[q] = tx[q]
  BY <1>1, Shapes, NoTxShape, ShapeOfTx
<1>3. Placed(p)'
  BY <1>2 DEF Placed, Live, Committing
<1>4. \A q \in Others(p) : pc[q] \notin Recovering \ {"recover"}
  BY DEF Inv, ReadersSafe, RecoveryAlone, Others
<1>5. Armed => \E q \in Others(p) : pc[q] \in Live
  BY DEF Inv, ReadersSafe, ArmedInCommit, Others
<1> QED
  BY <1>1, <1>2, <1>3, <1>4, <1>5, FileKept DEF Committing, Recovering

\* tdb_transaction_start.
LEMMA StartInv ==
    ASSUME Inv, NEW p \in Proc, tdb_transaction_start(p)
    PROVE  Inv'
<1> DEFINE t == [NoTx EXCEPT !.elems = [o \in {Heads} |-> file.data[Heads]],
                             !.map = file.size, !.old = file.size]
<1>1. "tx" \in Pc /\ pc' = [pc EXCEPT ![p] = "tx"] /\ tx' = [tx EXCEPT ![p] = t]
      /\ UNCHANGED <<file, disk>> /\ pc[p] = "idle"
  BY DEF Pc, tdb_transaction_start, Go
<1>2. Heads \in Off
  BY TdbAssumption DEF Heads, Off
<1>3. TxShape(t) /\ t.old = file.size /\ t.map = file.size
  <2>1. file.size \in Nat
    BY Shapes DEF FileShape
  <2> QED
    BY <1>2, <2>1, NoTxShape DEF TxShape, NoTx
<1> HIDE DEF t
<1>4. Shape' /\ tx'[p] = t /\ pc'[p] = "tx" /\ \A q \in Others(p) : tx'[q] = tx[q]
  BY <1>1, <1>3, Shapes, ShapeOfTx
<1>5. Placed(p)'
  BY <1>1, <1>3, <1>4, Shapes DEF Placed, Live, Committing, FileShape
<1>6. \A q \in Others(p) : ~ InTransaction(q) /\ ~ WritesHash(q)
  BY DEF tdb_transaction_start, InTransaction, WritesHash
<1>7. \A q \in Others(p) : pc[q] \notin Recovering \ {"recover"}
  BY <1>1 DEF Inv, ReadersSafe, RecoveryAlone, Others
<1>8. Armed => \E q \in Others(p) : pc[q] \in Live
  BY <1>1 DEF Inv, ReadersSafe, ArmedInCommit, Others, Live, Recovering
<1> QED
  BY <1>1, <1>4, <1>5, <1>6, <1>7, <1>8, FileKept DEF Committing, Recovering

\* Cancelling, in a transaction or in a commit that has not armed the file.
LEMMA CancelInv ==
    ASSUME Inv, NEW p \in Proc, Cancel(p), UNCHANGED <<file, disk>>,
           pc[p] = "tx" \/ (pc[p] \in {"upgrade"} \cup (Committing \ Live) /\ tx[p].nesting = 0)
    PROVE  Inv'
<1>1. CASE tx[p].nesting # 0
  <2> DEFINE t == [tx[p] EXCEPT !.nesting = @ - 1, !.error = TRUE]
  <2>1. tx' = [tx EXCEPT ![p] = t] /\ UNCHANGED pc /\ pc[p] = "tx"
    BY <1>1, Shapes DEF Cancel, TxShape
  <2>2. TxShape(t) /\ t.old = tx[p].old /\ t.map = tx[p].map
    <3>1. TxShape(tx[p])
      BY Shapes
    <3>2. PICK m, e : m = tx[p].nesting - 1 /\ e = TRUE
      OBVIOUS
    <3>3. t = [tx[p] EXCEPT !.nesting = m, !.error = e]
      BY <3>2, Zenon
    <3> DEFINE v == [tx[p] EXCEPT !.nesting = m]
               u == [v EXCEPT !.error = e]
    <3>4. TxShape(v) /\ v.old = tx[p].old /\ v.map = tx[p].map
      BY <3>1 DEF TxShape
    <3>5. t = u
      BY <3>3, Zenon
    <3> HIDE DEF t, v
    <3>6. TxShape(u) /\ u.old = v.old /\ u.map = v.map
      BY <3>4 DEF TxShape
    <3> HIDE DEF u
    <3> QED
      BY <3>4, <3>5, <3>6
  <2>3. tx[p].map <= t.map
    BY <2>2, Shapes DEF TxShape
  <2> HIDE DEF t
  <2> QED
    BY <2>1, <2>2, <2>3, InMemory
<1>2. CASE tx[p].nesting = 0
  <2>1. Leave(p, "idle")
    BY <1>2 DEF Cancel
  <2>2. pc[p] \notin Recovering \cup Live /\ pc[p] # "closed"
    BY DEF Committing, Recovering, Live
  <2> QED
    BY <2>1, <2>2, Leaves
<1> QED
  BY <1>1, <1>2

\* The other steps of a transaction that change it only in memory.
LEMMA MemoryInv ==
    ASSUME Inv, NEW p \in Proc,
           \/ NestedStart(p) \/ CommitNested(p)
           \/ \E o \in Off, v \in Val \ {Pad} : transaction_write(p, o, v)
           \/ transaction_expand_file(p)
           \/ \E held \in BOOLEAN : TxLock(p, held)
    PROVE  Inv'
<1>0. TxShape(tx[p]) /\ DOMAIN tx = Proc
  BY Shapes
<1>1. CASE NestedStart(p)
  <2> DEFINE t == [tx[p] EXCEPT !.nesting = @ + 1]
  <2>1. tx' = [tx EXCEPT ![p] = t] /\ UNCHANGED <<file, disk, pc>> /\ pc[p] = "tx"
    BY <1>1, <1>0 DEF NestedStart, TxShape
  <2>2. TxShape(t) /\ t.old = tx[p].old /\ tx[p].map <= t.map
    BY <1>0 DEF TxShape
  <2> HIDE DEF t
  <2> QED
    BY <2>1, <2>2, InMemory
<1>2. CASE CommitNested(p)
  <2> DEFINE t == [tx[p] EXCEPT !.nesting = @ - 1]
  <2>1. tx' = [tx EXCEPT ![p] = t] /\ UNCHANGED <<file, disk, pc>> /\ pc[p] = "tx"
    BY <1>2, <1>0 DEF CommitNested, TxShape
  <2>2. TxShape(t) /\ t.old = tx[p].old /\ tx[p].map <= t.map
    BY <1>0 DEF TxShape
  <2> HIDE DEF t
  <2> QED
    BY <2>1, <2>2, InMemory
<1>3. CASE \E o \in Off, v \in Val \ {Pad} : transaction_write(p, o, v)
  <2> PICK o \in Off, v \in Val \ {Pad} : transaction_write(p, o, v)
    BY <1>3
  <2> DEFINE t == [tx[p] EXCEPT !.elems = Over(@, [y \in {o} |-> v])]
  <2>1. tx' = [tx EXCEPT ![p] = t] /\ UNCHANGED <<file, disk, pc>> /\ pc[p] = "tx"
    BY <1>0 DEF transaction_write, TxShape
  <2>2. DOMAIN Over(tx[p].elems, [y \in {o} |-> v]) \subseteq Off
    BY <1>0 DEF Over, TxShape
  <2>3. TxShape(t) /\ t.old = tx[p].old /\ tx[p].map <= t.map
    BY <1>0, <2>2 DEF TxShape
  <2> HIDE DEF t
  <2> QED
    BY <2>1, <2>3, InMemory
<1>4. CASE transaction_expand_file(p)
  <2> DEFINE map == Aligned(tx[p].map + 1)
             new == tx[p].map..map - 1
             u == [o \in new \cup {Heads} |->
                     IF o = Heads THEN transaction_read(p)[Heads] \cup new ELSE Pad]
             t == [tx[p] EXCEPT !.map = map, !.elems = Over(@, u)]
  <2>1. tx' = [tx EXCEPT ![p] = t] /\ UNCHANGED <<file, disk, pc>> /\ pc[p] = "tx" /\ map <= MaxSize
    BY <1>4, <1>0 DEF transaction_expand_file, TxShape
  <2>2. map \in Nat /\ tx[p].map <= map /\ tx[p].map \in Nat
    <3>1. tx[p].map \in Nat /\ tx[p].map + 1 \in Nat
      BY <1>0 DEF TxShape
    <3>2. map \in Nat /\ tx[p].map + 1 <= map
      BY <3>1, AlignedGrows
    <3> QED
      BY <3>1, <3>2
  <2> HIDE DEF map
  <2>3. new \cup {Heads} \subseteq Off
    BY <2>1, <2>2, TdbAssumption DEF Off, Heads
  <2>4. DOMAIN Over(tx[p].elems, u) \subseteq Off
    <3>1. DOMAIN u = new \cup {Heads}
      OBVIOUS
    <3> HIDE DEF u, new
    <3> QED
      BY <3>1, <2>3, <1>0 DEF Over, TxShape
  <2> HIDE DEF u, new
  <2>5. TxShape(t) /\ t.old = tx[p].old /\ t.map = map
    BY <1>0, <2>2, <2>4 DEF TxShape
  <2> HIDE DEF t
  <2> QED
    BY <2>1, <2>2, <2>5, InMemory
<1>5. CASE \E held \in BOOLEAN : TxLock(p, held)
  <2> PICK held \in BOOLEAN : TxLock(p, held)
    BY <1>5
  <2> DEFINE t == [tx[p] EXCEPT !.locks = held]
  <2>1. tx' = [tx EXCEPT ![p] = t] /\ UNCHANGED <<file, disk, pc>> /\ pc[p] = "tx"
    BY <1>0 DEF TxLock, TxShape
  <2>2. TxShape(t) /\ t.old = tx[p].old /\ tx[p].map <= t.map
    BY <1>0 DEF TxShape
  <2> HIDE DEF t
  <2> QED
    BY <2>1, <2>2, InMemory
<1> QED
  BY <1>1, <1>2, <1>3, <1>4, <1>5

\* The steps that give a transaction up before its file is armed.
LEMMA GivesUpInv ==
    ASSUME Inv, NEW p \in Proc,
           \/ tdb_transaction_cancel(p) \/ CommitRefused(p)
           \/ UpgradeFails(p) \/ RecordRefused(p)
    PROVE  Inv'
<1>1. Cancel(p) /\ UNCHANGED <<file, disk>> /\ pc[p] \in {"tx", "upgrade", "body"}
  BY DEF tdb_transaction_cancel, CommitRefused, UpgradeFails, RecordRefused
<1>2. pc[p] = "tx" \/ (pc[p] \in {"upgrade"} \cup (Committing \ Live) /\ tx[p].nesting = 0)
  BY <1>1 DEF Inv, ReadersSafe, Placed, Committing, Live
<1> QED
  BY <1>1, <1>2, CancelInv

\* The commit is given up for want of a recovery area; the file may have grown.
LEMMA AllocateFailsInv ==
    ASSUME Inv, NEW p \in Proc, AllocateFails(p)
    PROVE  Inv'
<1>0. tx[p].nesting = 0 /\ pc[p] = "setup" /\ pc[p] \in Committing \ ({"global"} \cup Live)
  BY DEF AllocateFails, Inv, ReadersSafe, Placed, Committing, Live
<1>1. pc' = [pc EXCEPT ![p] = "idle"] /\ tx' = [tx EXCEPT ![p] = NoTx] /\ disk' = disk
  BY <1>0 DEF AllocateFails, Cancel, Leave, Go
<1>2. FileShape(file) /\ FileShape(disk) /\ TxShape(tx[p])
  BY Shapes
<1>3. FileShape(file') /\ file'.head = file.head /\ file'.magic \subseteq file.magic
  <2>1. CASE file' = file
    BY <1>2, <2>1
  <2>2. CASE \E new \in tx[p].old..MaxSize : file' = tdb_expand_file(file, tx[p].old, new)
    <3>1. PICK new \in tx[p].old..MaxSize : file' = tdb_expand_file(file, tx[p].old, new)
      BY <2>2
    <3>2. tx[p].old \in Nat /\ new \in Nat
      BY <1>2, TdbAssumption DEF TxShape
    <3> QED
      BY <1>2, <3>1, <3>2, ExpandKeeps
  <2> QED
    BY <2>1, <2>2 DEF AllocateFails
<1>4. ~ Armed'
  BY <1>0, <1>3, NotArmed DEF Armed
<1>5. Shape' /\ pc'[p] = "idle"
  <2>1. "idle" \in Pc
    BY DEF Pc
  <2> QED
    BY <1>1, <1>2, <1>3, <2>1, Shapes, NoTxShape, ShapeOfTx
<1>6. Placed(p)'
  BY <1>5 DEF Placed, Live, Committing
<1> QED
  BY <1>0, <1>1, <1>4, <1>5, <1>6, CommitStep

-----------------------------------------------------------------------------
(* Steps of a commit *)

\* The commit takes its locks.
LEMMA LockInv ==
    ASSUME Inv, NEW p \in Proc,
           tdb_transaction_commit(p) \/ tdb_brlock_upgrade(p) \/ TakeGlobal(p)
    PROVE  Inv'
<1>1. PICK x \in {"upgrade", "global", "setup"} :
         /\ pc' = [pc EXCEPT ![p] = x]
         /\ x = "upgrade" => pc[p] = "tx"
         /\ x = "global" => pc[p] = "upgrade" /\ \A q \in Others(p) : ~ ReadsHash(q)
         /\ x = "setup" => pc[p] = "global" /\ \A q \in Others(p) : ~ HasGlobal(q)
  BY DEF tdb_transaction_commit, tdb_brlock_upgrade, TakeGlobal, Go
<1>2. UNCHANGED <<file, disk, tx>> /\ tx[p].nesting = 0
  BY DEF tdb_transaction_commit, tdb_brlock_upgrade, TakeGlobal, Inv, ReadersSafe, Placed, Committing
<1>3. x \in Pc
  BY DEF Pc, Committing
<1>4. Shape' /\ pc'[p] = x /\ \A q \in Others(p) : tx'[q] = tx[q]
  BY <1>1, <1>2, <1>3, Shapes, ShapeOfPc
<1>5. pc[p] \in {"tx", "upgrade", "global"}
  BY <1>1
<1>6. Placed(p)'
  <2>1. tx[p].old = file.size /\ file.size <= tx[p].map
    BY <1>5 DEF Inv, ReadersSafe, Placed
  <2> QED
    BY <1>2, <1>4, <2>1 DEF Placed, Live
<1>7. \A q \in Others(p) : ~ InTransaction(q) /\ ~ WritesHash(q)
  <2>1. InTransaction(p)
    BY <1>5 DEF InTransaction, Committing
  <2> QED
    BY <2>1 DEF Inv, ReadersSafe, LocksExclude, Others, InTransaction, WritesHash
<1>8. \A q \in Others(p) : x \in Committing => ~ ReadsHash(q)
  <2>1. x = "setup" => WritesHash(p)
    BY <1>1 DEF WritesHash, Committing
  <2> QED
    BY <2>1, <1>1 DEF Inv, ReadersSafe, LocksExclude, Committing
<1>9. \A q \in Others(p) : pc[q] \notin Recovering \ {"recover"}
  BY <1>5 DEF Inv, ReadersSafe, RecoveryAlone, Others
<1>10. Armed => \E q \in Others(p) : pc[q] \in Live
  BY <1>5 DEF Inv, ReadersSafe, ArmedInCommit, Others, Live, Recovering
<1>11. x \notin Recovering /\ \A q \in Others(p) : x \in Committing \ {"global"} => ~ HasGlobal(q)
  BY <1>1 DEF Recovering, Committing
<1> QED
  BY <1>1, <1>2, <1>3, <1>4, <1>6, <1>7, <1>8, <1>9, <1>10, <1>11, FileKept

\* The record goes to the existing area.
LEMMA UseAreaInv ==
    ASSUME Inv, NEW p \in Proc, UseArea(p)
    PROVE  Inv'
<1> DEFINE t == [tx[p] EXCEPT !.where = file.head, !.room = file.max[file.head], !.eof = tx[p].old]
<1>0. TxShape(tx[p]) /\ DOMAIN tx = Proc /\ FileShape(file) /\ FileShape(disk)
  BY Shapes
<1>1. /\ tx' = [tx EXCEPT ![p] = t] /\ pc' = [pc EXCEPT ![p] = "body"] /\ pc[p] = "setup"
      /\ UNCHANGED <<file, disk>> /\ file.head # 0
  BY <1>0 DEF UseArea, TxShape, Go, Fits
<1>2. TxShape(t) /\ t.where = file.head /\ t.nesting = tx[p].nesting
  BY <1>0 DEF TxShape, FileShape
<1> HIDE DEF t
<1>3. "body" \in Pc /\ "body" \in Committing \ {"global"} /\ "setup" \in Committing \ ({"global"} \cup Live)
  BY DEF Pc, Committing, Live
<1>4. Shape' /\ tx'[p] = t /\ pc'[p] = "body"
  BY <1>0, <1>1, <1>2, <1>3, ShapeOfTx
<1>5. ~ Armed /\ ~ Armed'
  BY <1>1, <1>3, NotArmed DEF Armed
<1>6. Placed(p)'
  <2>1. tx[p].nesting = 0 /\ file.head \notin file.magic
    BY <1>1, <1>3, <1>5 DEF Inv, ReadersSafe, Placed, Armed
  <2> QED
    BY <1>1, <1>2, <1>4, <2>1 DEF Placed, Live, Committing
<1> QED
  BY <1>1, <1>3, <1>4, <1>5, <1>6, CommitStep

\* A new area behind everything else.
LEMMA NewAreaInv ==
    ASSUME Inv, NEW p \in Proc, NewArea(p)
    PROVE  Inv'
<1> DEFINE size == Aligned(1 + tdb_recovery_size(Freed(p), tx[p].old))
           end == NewEnd(p)
           t == [tx[p] EXCEPT !.elems = Freed(p), !.where = tx[p].map, !.room = end - tx[p].map - 1,
                              !.eof = tx[p].old, !.map = end, !.old = end]
<1>0. TxShape(tx[p]) /\ DOMAIN tx = Proc /\ FileShape(file) /\ FileShape(disk)
  BY Shapes
<1>1. /\ tx' = [tx EXCEPT ![p] = t] /\ pc' = [pc EXCEPT ![p] = "head"] /\ pc[p] = "setup"
      /\ file' = tdb_expand_file(file, tx[p].old, end) /\ UNCHANGED disk /\ end <= MaxSize
  BY <1>0 DEF NewArea, TxShape, Go
<1>2. DOMAIN Freed(p) \subseteq Off
  <2>1. DOMAIN tx[p].elems \subseteq Off /\ file.head \in Off
    BY <1>0 DEF TxShape, FileShape
  <2>2. Heads \in Off
    BY TdbAssumption DEF Heads, Off
  <2> QED
    BY <2>1, <2>2 DEF Freed, Over
<1>3. end \in Nat /\ tx[p].map \in Nat /\ tx[p].old \in Nat /\ tx[p].map < end
  <2>1. tdb_recovery_size(Freed(p), tx[p].old) \in Nat
    BY <1>2, SizeOfWords DEF tdb_recovery_size, Saved
  <2>2. 1 + tdb_recovery_size(Freed(p), tx[p].old) \in Nat
    BY <2>1
  <2>3. size \in Nat /\ 1 + tdb_recovery_size(Freed(p), tx[p].old) <= size
    BY <2>2, AlignedGrows
  <2>4. tx[p].map \in Nat /\ tx[p].old \in Nat
    BY <1>0 DEF TxShape
  <2>5. end = tx[p].map + size
    BY DEF NewEnd
  <2> HIDE DEF size, end
  <2> QED
    BY <2>1, <2>3, <2>4, <2>5
<1> HIDE DEF end
<1>4. tx[p].map \in Off /\ tx[p].old <= tx[p].map /\ tx[p].nesting = 0
  <2>1. tx[p].map \in Off
    BY <1>1, <1>3, TdbAssumption DEF Off
  <2>2. tx[p].old <= tx[p].map /\ tx[p].nesting = 0
    BY <1>1 DEF Inv, ReadersSafe, Placed, Committing
  <2> QED
    BY <2>1, <2>2
<1>5. TxShape(t) /\ t.where = tx[p].map /\ t.nesting = tx[p].nesting
  BY <1>0, <1>2, <1>3, <1>4 DEF TxShape
<1> HIDE DEF t
<1>6. "head" \in Pc /\ "head" \in Committing \ {"global"} /\ "setup" \in Committing \ ({"global"} \cup Live)
  BY DEF Pc, Committing, Live
<1>7. FileShape(file') /\ file'.head = file.head /\ file'.magic \subseteq file.magic
      /\ \A o \in file'.magic : o < tx[p].old \/ end <= o
  <2>1. PICK old \in Nat, new \in Nat : old = tx[p].old /\ new = end
    BY <1>3
  <2> DEFINE f == tdb_expand_file(file, old, new)
  <2>2. file' = f
    BY <1>1, <2>1
  <2>3. FileShape(f) /\ f.head = file.head /\ f.magic \subseteq file.magic
        /\ \A o \in f.magic : o < old \/ new <= o
    BY <1>0, ExpandKeeps
  <2> HIDE DEF f
  <2> QED
    BY <2>1, <2>2, <2>3
<1>8. Shape' /\ tx'[p] = t /\ pc'[p] = "head"
  BY <1>0, <1>1, <1>5, <1>6, <1>7, ShapeOfTx
<1>9. ~ Armed'
  <2>1. ~ Armed
    BY <1>1, <1>6, NotArmed
  <2> QED
    BY <1>7, <2>1 DEF Armed
<1>10. Placed(p)'
  <2>2. t.where \notin file'.magic
    BY <1>3, <1>4, <1>5, <1>7
  <2> QED
    BY <1>4, <1>5, <1>8, <2>2 DEF Placed, Live, Committing
<1> QED
  BY <1>1, <1>6, <1>8, <1>9, <1>10, CommitStep

\* A step of a commit that leaves its transaction alone.
LEMMA CommitKeepsTx ==
    ASSUME Inv, NEW p \in Proc, pc[p] \in Committing \ {"global"},
           NEW x \in Committing \ {"global", "setup", "head"},
           pc' = [pc EXCEPT ![p] = x], tx' = tx,
           FileShape(file'), FileShape(disk'),
           x # "sync4" => file'.head = tx[p].where,
           x \notin Live => ~ Armed',
           x \in {"body", "sync1", "magic"} => file'.head \notin file'.magic
    PROVE  Inv'
<1>1. x \in Pc
  BY DEF Pc
<1>2. Shape' /\ pc'[p] = x
  BY <1>1, ShapeOfPc
<1>3. Placed(p)'
  <2>1. tx[p].nesting = 0 /\ x \notin Recovering
    BY DEF Recovering, Committing, Inv, ReadersSafe, Placed
  <2>2. tx'[p] = tx[p] /\ x \notin {"tx", "upgrade", "global", "setup", "head"}
    BY DEF Committing
  <2>3. x \in Live \cup {"body", "sync1", "magic"} => x # "sync4"
    BY DEF Live
  <2>4. x \notin {"restore", "rhead", "rmagic", "rtrunc", "rsync2"}
    BY <2>1 DEF Recovering
  <2> QED
    BY <1>2, <2>1, <2>2, <2>3, <2>4 DEF Placed
<1> QED
  BY <1>2, <1>3, CommitStep

\* The syncs of a commit.
LEMMA SyncInv ==
    ASSUME Inv, NEW p \in Proc, SyncRecord(p) \/ SyncMagic(p) \/ SyncWrites(p)
    PROVE  Inv'
<1>1. PICK x \in {"magic", "expand", "unmagic"} :
         /\ pc' = [pc EXCEPT ![p] = x]
         /\ pc[p] \in {"sync1", "sync2", "write"}
         /\ x = "magic" => pc[p] = "sync1"
  BY DEF SyncRecord, SyncMagic, SyncWrites, Go
<1>2. tx' = tx /\ file' = Trim(file) /\ disk' = Trim(file)
  BY DEF SyncRecord, SyncMagic, SyncWrites, transaction_sync
<1>3. /\ FileShape(file') /\ FileShape(disk')
      /\ file'.head = file.head /\ file'.magic \subseteq file.magic
  BY <1>2, Shapes, TrimKeeps
<1>4. file.head = tx[p].where /\ (x = "magic" => file.head \notin file.magic)
  BY <1>1 DEF Inv, ReadersSafe, Placed, Live
<1>5. /\ x \in Committing \ {"global", "setup", "head"} /\ (x \notin Live => x = "magic")
      /\ pc[p] \in Committing \ {"global"} /\ (x \in {"body", "sync1", "magic"} => x = "magic")
  BY <1>1 DEF Committing, Live
<1>6. x \notin Live => ~ Armed'
  BY <1>3, <1>4, <1>5 DEF Armed
<1> QED
  BY <1>1, <1>2, <1>3, <1>4, <1>5, <1>6, CommitKeepsTx

\* The writes of a commit that change head or magic.
LEMMA HeadAndMagicInv ==
    ASSUME Inv, NEW p \in Proc, WriteHead(p) \/ WriteMagic(p) \/ RemoveMagic(p)
    PROVE  Inv'
<1>0. FileShape(file) /\ FileShape(disk) /\ tx[p].where \in Off
  BY Shapes DEF TxShape
<1>1. CASE WriteHead(p)
  <2>1. /\ pc[p] = "head" /\ pc' = [pc EXCEPT ![p] = "body"] /\ tx' = tx /\ disk' = disk
        /\ file' = [file EXCEPT !.head = tx[p].where]
    BY <1>1 DEF WriteHead, Go
  <2>2. FileShape(file') /\ file'.head = tx[p].where /\ file'.magic = file.magic
    BY <1>0, <2>1 DEF FileShape
  <2>3. file'.head \notin file'.magic
    BY <2>1, <2>2 DEF Inv, ReadersSafe, Placed
  <2>4. "head" \in Committing \ {"global"} /\ "body" \in Committing \ {"global", "setup", "head"}
    BY DEF Committing
  <2> QED
    BY <1>0, <2>1, <2>2, <2>3, <2>4, CommitKeepsTx DEF Armed
<1>2. CASE WriteMagic(p)
  <2>1. /\ pc[p] = "magic" /\ pc' = [pc EXCEPT ![p] = "sync2"] /\ tx' = tx /\ disk' = disk
        /\ file' = [file EXCEPT !.magic = @ \cup {tx[p].where}]
    BY <1>2 DEF WriteMagic, Go
  <2>2. FileShape(file') /\ file'.head = file.head
    BY <1>0, <2>1 DEF FileShape
  <2>3. file.head = tx[p].where
    BY <2>1 DEF Inv, ReadersSafe, Placed
  <2>4. /\ "magic" \in Committing \ {"global"} /\ "sync2" \in Committing \ {"global", "setup", "head"}
        /\ "sync2" \in Live
    BY DEF Committing, Live
  <2> QED
    BY <1>0, <2>1, <2>2, <2>3, <2>4, CommitKeepsTx
<1>3. CASE RemoveMagic(p)
  <2>1. /\ pc[p] = "unmagic" /\ pc' = [pc EXCEPT ![p] = "sync4"] /\ tx' = tx /\ disk' = disk
        /\ file' = [file EXCEPT !.magic = @ \ {tx[p].where}]
    BY <1>3 DEF RemoveMagic, Go
  <2>2. FileShape(file') /\ file'.head = file.head /\ tx[p].where \notin file'.magic
    BY <1>0, <2>1 DEF FileShape
  <2>3. file.head = tx[p].where
    BY <2>1 DEF Inv, ReadersSafe, Placed, Live
  <2>4. ~ Armed'
    BY <2>2, <2>3 DEF Armed
  <2>5. "unmagic" \in Committing \ {"global"} /\ "sync4" \in Committing \ {"global", "setup", "head"}
    BY DEF Committing
  <2> QED
    BY <1>0, <2>1, <2>2, <2>3, <2>4, <2>5, CommitKeepsTx
<1> QED
  BY <1>1, <1>2, <1>3

\* The record with the old contents.
LEMMA WriteRecordInv ==
    ASSUME Inv, NEW p \in Proc, WriteRecord(p)
    PROVE  Inv'
<1> DEFINE w == tx[p].where
           end == w + Cardinality(Taken(p))
           rec == [eof |-> tx[p].eof,
                   saved |-> [o \in Saved(tx[p].elems, tx[p].eof) |-> file.data[o]]]
           data == [o \in Off |-> IF o \in Taken(p) THEN Pad ELSE file.data[o]]
           size == IF end > file.size THEN end ELSE file.size
           max == [file.max EXCEPT ![w] = tx[p].room]
           log == [file.log EXCEPT ![w] = rec]
<1>0. FileShape(file) /\ FileShape(disk) /\ TxShape(tx[p])
  BY Shapes
<1>1. pc[p] = "body" /\ pc' = [pc EXCEPT ![p] = "sync1"] /\ tx' = tx /\ disk' = disk
  BY DEF WriteRecord, Go
<1>2. file' = [file EXCEPT !.size = size, !.data = data, !.magic = @ \ {w}, !.max = max, !.log = log]
  BY <1>0 DEF WriteRecord, FileShape
<1>3. w \in Off /\ rec.eof \in Nat /\ DOMAIN rec.saved \subseteq Off
  BY <1>0 DEF TxShape, Saved
<1>4. size \in Nat
  <2>1. tdb_recovery_size(tx[p].elems, tx[p].eof) \in Nat
    <3>1. Saved(tx[p].elems, tx[p].eof) \subseteq Off
      BY <1>0 DEF TxShape, Saved
    <3> QED
      BY <3>1, SizeOfWords DEF tdb_recovery_size
  <2>2. Cardinality(Taken(p)) \in Nat
    <3>1. w \in Nat /\ w + tdb_recovery_size(tx[p].elems, tx[p].eof) \in Nat
      BY <1>3, <2>1, TdbAssumption DEF Off
    <3>2. IsFiniteSet(w..w + tdb_recovery_size(tx[p].elems, tx[p].eof))
      BY <3>1, FS_Interval
    <3> QED
      BY <3>2, FS_CardinalityType DEF Taken
  <2>3. w \in Nat /\ file.size \in Nat
    BY <1>0, <1>3, TdbAssumption DEF FileShape, Off
  <2> QED
    BY <2>2, <2>3
<1>5. DOMAIN log = Off /\ \A o \in Off : log[o].eof \in Nat /\ DOMAIN log[o].saved \subseteq Off
  <2> HIDE DEF rec
  <2> QED
    BY <1>0, <1>3 DEF FileShape
<1> HIDE DEF size, data, max, log, rec
<1>6. FileShape(file') /\ file'.head = file.head /\ file'.magic = file.magic \ {w}
  BY <1>0, <1>2, <1>4, <1>5 DEF FileShape
<1>7. file.head = w
  BY <1>1 DEF Inv, ReadersSafe, Placed
<1>8. "body" \in Committing \ {"global"} /\ "sync1" \in Committing \ {"global", "setup", "head"}
  BY DEF Committing
<1>9. file'.head = w /\ file'.head \notin file'.magic
  BY <1>6, <1>7
<1>10. ~ Armed'
  BY <1>9 DEF Armed
<1> HIDE DEF w
<1> QED
  BY <1>0, <1>1, <1>6, <1>8, <1>9, <1>10, CommitKeepsTx DEF w

\* The file grows before the writes.
LEMMA ExpandFileInv ==
    ASSUME Inv, NEW p \in Proc, ExpandFile(p)
    PROVE  Inv'
<1>0. FileShape(file) /\ FileShape(disk)
  BY Shapes
<1>1. pc[p] = "expand" /\ pc' = [pc EXCEPT ![p] = "write"] /\ tx' = tx /\ disk' = disk
  BY DEF ExpandFile, Go
<1>2. PICK old \in Nat, new \in Nat : old = tx[p].old /\ new = tx[p].map
  BY Shapes DEF TxShape
<1>3. FileShape(file') /\ file'.head = file.head
  <2>1. CASE tx[p].map # tx[p].old
    <3>1. file' = tdb_expand_file(file, old, new)
      BY <1>2, <2>1 DEF ExpandFile
    <3> QED
      BY <1>0, <3>1, ExpandKeeps
  <2>2. CASE tx[p].map = tx[p].old
    BY <1>0, <2>2 DEF ExpandFile
  <2> QED
    BY <2>1, <2>2
<1>4. file.head = tx[p].where
  BY <1>1 DEF Inv, ReadersSafe, Placed, Live
<1>5. /\ "expand" \in Committing \ {"global"} /\ "write" \in Committing \ {"global", "setup", "head"}
      /\ "write" \in Live
  BY DEF Committing, Live
<1> QED
  BY <1>0, <1>1, <1>3, <1>4, <1>5, CommitKeepsTx

\* One word is written, in a commit or in a recovery.
LEMMA WriteElementKeeps ==
    ASSUME Inv, NEW p \in Proc, NEW o, WriteElement(p, o)
    PROVE  /\ Shape' /\ tx'[p].where = tx[p].where /\ tx'[p].nesting = tx[p].nesting
           /\ pc' = [pc EXCEPT ![p] = pc[p]]
           /\ file'.head = file.head /\ file'.magic = file.magic
<1> DEFINE e == [x \in DOMAIN tx[p].elems \ {o} |-> tx[p].elems[x]]
           t == [tx[p] EXCEPT !.elems = e]
<1>0. TxShape(tx[p]) /\ DOMAIN tx = Proc /\ FileShape(file) /\ FileShape(disk) /\ pc[p] \in Pc
  BY Shapes
<1>1. tx' = [tx EXCEPT ![p] = t] /\ disk' = disk /\ pc' = [pc EXCEPT ![p] = pc[p]]
      /\ file' = [file EXCEPT !.data[o] = tx[p].elems[o]]
  BY <1>0, Shapes DEF WriteElement, TxShape
<1>2. DOMAIN e \subseteq Off
  BY <1>0 DEF TxShape
<1> HIDE DEF e
<1>3. TxShape(t) /\ t.where = tx[p].where /\ t.nesting = tx[p].nesting
  BY <1>0, <1>2 DEF TxShape
<1> HIDE DEF t
<1>4. FileShape(file') /\ file'.head = file.head /\ file'.magic = file.magic
  <2>1. PICK d : file' = [file EXCEPT !.data = d]
    BY <1>0, <1>1 DEF FileShape
  <2> QED
    BY <1>0, <2>1 DEF FileShape
<1>5. Shape' /\ tx'[p] = t
  BY <1>0, <1>1, <1>3, <1>4, ShapeOfTx
<1> QED
  BY <1>1, <1>3, <1>4, <1>5

\* The writes of a commit.
LEMMA CommitWriteInv ==
    ASSUME Inv, NEW p \in Proc, NEW o \in Off, CommitWrite(p, o)
    PROVE  Inv'
<1>1. pc[p] = "write" /\ WriteElement(p, o)
  BY DEF CommitWrite
<1>2. /\ Shape' /\ tx'[p].where = tx[p].where /\ tx'[p].nesting = tx[p].nesting
      /\ pc' = [pc EXCEPT ![p] = "write"] /\ file'.head = file.head
  BY <1>1, WriteElementKeeps
<1>3. file.head = tx[p].where /\ tx[p].nesting = 0
  BY <1>1 DEF Inv, ReadersSafe, Placed, Live, Committing
<1>4. pc'[p] = "write"
  BY <1>2 DEF Inv, Shape
<1>5. Placed(p)'
  BY <1>2, <1>3, <1>4 DEF Placed
<1>6. "write" \in Committing \ {"global"} /\ "write" \in Live
  BY DEF Committing, Live
<1> QED
  BY <1>1, <1>2, <1>5, <1>6, CommitStep

\* The commit ends.
LEMMA CommitEndsInv ==
    ASSUME Inv, NEW p \in Proc, CommitEnds(p)
    PROVE  Inv'
<1>1. pc[p] = "sync4" /\ file' = Trim(file) /\ disk' = Trim(file)
  BY DEF CommitEnds, transaction_sync
<1>2. "sync4" \in Committing \ ({"global"} \cup Live) /\ "idle" \in Pc
  BY DEF Committing, Live, Pc
<1>3. pc' = [pc EXCEPT ![p] = "idle"] /\ tx' = [tx EXCEPT ![p] = NoTx]
  <2>1. tx[p].nesting = 0
    BY <1>1, <1>2 DEF Inv, ReadersSafe, Placed
  <2> QED
    BY <2>1 DEF CommitEnds, Cancel, Leave, Go
<1>4. /\ FileShape(file') /\ FileShape(disk')
      /\ file'.head = file.head /\ file'.magic \subseteq file.magic
  BY <1>1, Shapes, TrimKeeps
<1>5. Shape' /\ pc'[p] = "idle"
  BY <1>2, <1>3, <1>4, NoTxShape, ShapeOfTx
<1>6. ~ Armed'
  BY <1>1, <1>2, <1>4, NotArmed DEF Armed
<1>7. Placed(p)'
  BY <1>5 DEF Placed, Live, Committing
<1> QED
  BY <1>1, <1>2, <1>3, <1>5, <1>6, <1>7, CommitStep

-----------------------------------------------------------------------------
(* Opening, reading and closing *)

\* tdb_open_ex takes GLOBAL_LOCK.
LEMMA OpenInv ==
    ASSUME Inv, NEW p \in Proc, tdb_open_ex(p)
    PROVE  Inv'
<1>1. /\ pc[p] = "closed" /\ pc' = [pc EXCEPT ![p] = "recover"] /\ UNCHANGED <<file, disk, tx>>
      /\ \A q \in Others(p) : ~ HasGlobal(q)
  BY DEF tdb_open_ex, Go
<1>2. "recover" \in Pc /\ "recover" \in Recovering
  BY DEF Pc, Recovering
<1>3. Shape' /\ pc'[p] = "recover" /\ \A q \in Others(p) : tx'[q] = tx[q]
  BY <1>1, <1>2, Shapes, ShapeOfPc
<1>4. Placed(p)'
  BY <1>3 DEF Placed, Live, Committing
<1>5. \A q \in Others(p) : pc[q] \notin Recovering \ {"recover"}
  BY <1>1 DEF HasGlobal
<1>6. Armed => \/ \E q \in Others(p) : pc[q] \in Live
               \/ \A q \in Others(p) : pc[q] \in {"closed"} \cup Recovering
  BY <1>1 DEF Inv, ReadersSafe, ArmedInCommit, Others, Live
<1>7. "recover" \notin {"reading", "tx", "upgrade"} \cup Committing
  BY DEF Committing
<1> QED
  BY <1>1, <1>2, <1>3, <1>4, <1>5, <1>6, <1>7, FileKept

\* tdb_lockall_read and its end.
LEMMA ReadInv ==
    ASSUME Inv, NEW p \in Proc, tdb_lockall_read(p) \/ tdb_unlockall_read(p)
    PROVE  Inv'
<1>1. PICK x \in {"idle", "reading"} :
         /\ pc' = [pc EXCEPT ![p] = x] /\ pc[p] \in {"idle", "reading"}
         /\ x = "reading" => \A q \in Others(p) : ~ WritesHash(q)
  BY DEF tdb_lockall_read, tdb_unlockall_read, Go
<1>2. UNCHANGED <<file, disk, tx>>
  BY DEF tdb_lockall_read, tdb_unlockall_read
<1>3. x \in Pc /\ x \notin {"tx", "upgrade"} \cup Committing \cup Recovering
  BY DEF Pc, Committing, Recovering
<1>4. Shape' /\ pc'[p] = x /\ \A q \in Others(p) : tx'[q] = tx[q]
  BY <1>1, <1>2, <1>3, Shapes, ShapeOfPc
<1>5. Placed(p)'
  BY <1>4 DEF Placed, Live, Committing
<1>6. \A q \in Others(p) : pc[q] \notin Recovering \ {"recover"}
  BY <1>1 DEF Inv, ReadersSafe, RecoveryAlone, Others
<1>7. Armed => \E q \in Others(p) : pc[q] \in Live
  BY <1>1 DEF Inv, ReadersSafe, ArmedInCommit, Others, Live, Recovering
<1> QED
  BY <1>1, <1>2, <1>3, <1>4, <1>5, <1>6, <1>7, FileKept

-----------------------------------------------------------------------------
(* Steps of a recovery *)

\* The open fails, succeeds without a recovery, or dies before it.
LEMMA LeavesRecover ==
    ASSUME Inv, NEW p \in Proc, NEW x \in {"idle", "closed"}, pc[p] = "recover",
           Leave(p, x), UNCHANGED <<file, disk>>, x = "idle" => ~ Armed
    PROVE  Inv'
<1>1. x \in Pc /\ pc' = [pc EXCEPT ![p] = x] /\ tx' = [tx EXCEPT ![p] = NoTx]
  BY DEF Pc, Leave, Go
<1>2. Shape' /\ pc'[p] = x /\ \A q \in Others(p) : tx'[q] = tx[q]
  BY <1>1, Shapes, NoTxShape, ShapeOfTx
<1>3. Placed(p)'
  BY <1>2 DEF Placed, Live, Committing
<1>4. \A q \in Others(p) : pc[q] \notin Recovering \ {"recover"}
  BY DEF Inv, ReadersSafe, RecoveryAlone, Others
<1>5. Armed => \/ \E q \in Others(p) : pc[q] \in Live
               \/ /\ x = "closed"
                  /\ \A q \in Others(p) : pc[q] \in {"closed"} \cup Recovering
  BY DEF Inv, ReadersSafe, ArmedInCommit, Others, Live
<1>6. x \notin {"reading", "tx", "upgrade"} \cup Committing \cup Recovering
  BY DEF Committing, Recovering
<1> QED
  BY <1>1, <1>2, <1>3, <1>4, <1>5, <1>6, FileKept

\* The record is read: nobody else has the database open.
LEMMA ReadRecordInv ==
    ASSUME Inv, NEW p \in Proc, ReadRecord(p)
    PROVE  Inv'
<1> DEFINE t == [tx[p] EXCEPT !.elems = file.log[file.head].saved, !.where = file.head,
                              !.eof = file.log[file.head].eof]
<1>0. TxShape(tx[p]) /\ DOMAIN tx = Proc /\ FileShape(file) /\ FileShape(disk)
  BY Shapes
<1>1. /\ tx' = [tx EXCEPT ![p] = t] /\ pc' = [pc EXCEPT ![p] = "restore"] /\ pc[p] = "recover"
      /\ UNCHANGED <<file, disk>> /\ Armed
  BY <1>0 DEF ReadRecord, TxShape, Go, Armed
<1>2. TxShape(t) /\ t.where = file.head
  <2>1. /\ file.head \in Off /\ file.log[file.head].eof \in Nat
        /\ DOMAIN file.log[file.head].saved \subseteq Off
    BY <1>0 DEF FileShape
  <2> QED
    BY <1>0, <2>1 DEF TxShape
<1> HIDE DEF t
<1>3. "restore" \in Pc /\ "restore" \in Recovering
  BY DEF Pc, Recovering
<1>4. Shape' /\ tx'[p] = t /\ pc'[p] = "restore" /\ \A q \in Others(p) : tx'[q] = tx[q]
  BY <1>0, <1>1, <1>2, <1>3, ShapeOfTx
<1>5. Placed(p)'
  BY <1>1, <1>2, <1>4 DEF Placed, Live, Committing
<1>6. \A q \in Others(p) : ~ HasGlobal(q)
  BY <1>1 DEF Inv, ReadersSafe, LocksExclude, HasGlobal, Recovering
<1>7. \A q \in Others(p) : pc[q] = "closed"
  <2>1. \A q \in Others(p) : pc[q] \notin Live
    BY <1>6 DEF HasGlobal, Live, Committing
  <2>2. \A q \in Proc : pc[q] \in {"closed"} \cup Recovering
    BY <1>1, <2>1 DEF Inv, ReadersSafe, ArmedInCommit, Others, Live
  <2> QED
    BY <1>6, <2>2 DEF HasGlobal, Others
<1>8. "restore" \notin {"reading", "tx", "upgrade"} \cup Committing
  BY DEF Committing
<1>9. \A q \in Others(p) : pc[q] \notin Recovering
  BY <1>7 DEF Recovering
<1> QED
  BY <1>1, <1>3, <1>4, <1>5, <1>6, <1>7, <1>8, <1>9, FileKept

\* A step of a recovery that leaves its locals alone.
LEMMA RestoreKeepsTx ==
    ASSUME Inv, NEW p \in Proc, pc[p] \in Recovering \ {"recover"},
           NEW x \in {"rhead", "rmagic", "rtrunc", "rsync2"},
           pc' = [pc EXCEPT ![p] = x], tx' = tx,
           FileShape(file'), FileShape(disk'),
           x = "rhead" => file'.head = tx[p].where,
           x = "rmagic" => file'.head \in {0, tx[p].where},
           x \in {"rtrunc", "rsync2"} => ~ Armed'
    PROVE  Inv'
<1>1. x \in Pc /\ x \in Recovering \ {"recover"}
  BY DEF Pc, Recovering
<1>2. Shape' /\ pc'[p] = x
  BY <1>1, ShapeOfPc
<1>3. Placed(p)'
  BY <1>2 DEF Placed, Live, Committing
<1> QED
  BY <1>1, <1>2, <1>3, RestoreStep

\* The words are restored and synced, and head, magic and size put right.
LEMMA RestoreInv ==
    ASSUME Inv, NEW p \in Proc,
           \/ SyncRestored(p) \/ RemoveHead(p) \/ RemoveRecoveryMagic(p) \/ TruncateFile(p)
    PROVE  Inv'
<1>0. FileShape(file) /\ FileShape(disk) /\ tx[p].where \in Off /\ tx[p].eof \in Nat
  BY Shapes DEF TxShape
<1>1. CASE SyncRestored(p)
  <2>1. /\ pc[p] = "restore" /\ pc' = [pc EXCEPT ![p] = "rhead"] /\ tx' = tx
        /\ file' = Trim(file) /\ disk' = Trim(file)
    BY <1>1 DEF SyncRestored, Go, transaction_sync
  <2>2. FileShape(file') /\ FileShape(disk') /\ file'.head = file.head
    BY <1>0, <2>1, TrimKeeps
  <2>3. file.head = tx[p].where /\ "restore" \in Recovering \ {"recover"}
    BY <2>1 DEF Inv, ReadersSafe, Placed, Recovering
  <2> QED
    BY <2>1, <2>2, <2>3, RestoreKeepsTx
<1>2. CASE RemoveHead(p)
  <2>1. /\ pc[p] = "rhead" /\ pc' = [pc EXCEPT ![p] = "rmagic"] /\ tx' = tx /\ disk' = disk
        /\ file' = [file EXCEPT !.head = 0] \/ file' = file
    BY <1>2 DEF RemoveHead, Go
  <2>2. 0 \in Off
    BY TdbAssumption DEF Off
  <2>3. file.head = tx[p].where /\ "rhead" \in Recovering \ {"recover"}
    BY <2>1 DEF Inv, ReadersSafe, Placed, Recovering
  <2>4. FileShape(file') /\ file'.head \in {0, tx[p].where}
    <3>1. CASE file' = [file EXCEPT !.head = 0]
      BY <1>0, <2>2, <3>1 DEF FileShape
    <3>2. CASE file' = file
      BY <1>0, <2>3, <3>2
    <3> QED
      BY <2>1, <3>1, <3>2
  <2> QED
    BY <1>0, <2>1, <2>3, <2>4, RestoreKeepsTx
<1>3. CASE RemoveRecoveryMagic(p)
  <2>1. /\ pc[p] = "rmagic" /\ pc' = [pc EXCEPT ![p] = "rtrunc"] /\ tx' = tx /\ disk' = disk
        /\ file' = [file EXCEPT !.magic = @ \ {tx[p].where}]
    BY <1>3 DEF RemoveRecoveryMagic, Go
  <2>2. FileShape(file') /\ file'.head = file.head /\ tx[p].where \notin file'.magic
    BY <1>0, <2>1 DEF FileShape
  <2>3. file.head \in {0, tx[p].where} /\ "rmagic" \in Recovering \ {"recover"}
    BY <2>1 DEF Inv, ReadersSafe, Placed, Recovering
  <2>4. ~ Armed'
    BY <2>2, <2>3 DEF Armed
  <2> QED
    BY <1>0, <2>1, <2>2, <2>3, <2>4, RestoreKeepsTx
<1>4. CASE TruncateFile(p)
  <2>1. /\ pc[p] = "rtrunc" /\ pc' = [pc EXCEPT ![p] = "rsync2"] /\ tx' = tx /\ disk' = disk
        /\ file' = [file EXCEPT !.size = tx[p].eof]
    BY <1>4 DEF TruncateFile, Go
  <2>2. FileShape(file') /\ file'.head = file.head /\ file'.magic = file.magic
    BY <1>0, <2>1 DEF FileShape
  <2>3. ~ Armed /\ "rtrunc" \in Recovering \ {"recover"}
    BY <2>1 DEF Inv, ReadersSafe, Placed, Recovering
  <2>4. ~ Armed'
    BY <2>2, <2>3 DEF Armed
  <2> QED
    BY <1>0, <2>1, <2>2, <2>3, <2>4, RestoreKeepsTx
<1> QED
  BY <1>1, <1>2, <1>3, <1>4

\* One word is restored.
LEMMA RestoreElementInv ==
    ASSUME Inv, NEW p \in Proc, NEW o \in Off, RestoreElement(p, o)
    PROVE  Inv'
<1>1. pc[p] = "restore" /\ WriteElement(p, o)
  BY DEF RestoreElement
<1>2. /\ Shape' /\ tx'[p].where = tx[p].where
      /\ pc' = [pc EXCEPT ![p] = "restore"] /\ file'.head = file.head
  BY <1>1, WriteElementKeeps
<1>3. file.head = tx[p].where
  BY <1>1 DEF Inv, ReadersSafe, Placed
<1>4. pc'[p] = "restore"
  BY <1>2 DEF Inv, Shape
<1>5. Placed(p)'
  BY <1>2, <1>3, <1>4 DEF Placed, Committing
<1>6. "restore" \in Recovering \ {"recover"}
  BY DEF Recovering
<1> QED
  BY <1>1, <1>2, <1>5, <1>6, RestoreStep

\* The recovery ends.
LEMMA RecoverEndsInv ==
    ASSUME Inv, NEW p \in Proc, RecoverEnds(p)
    PROVE  Inv'
<1>1. /\ pc[p] = "rsync2" /\ pc' = [pc EXCEPT ![p] = "idle"] /\ tx' = [tx EXCEPT ![p] = NoTx]
      /\ file' = Trim(file) /\ disk' = Trim(file)
  BY DEF RecoverEnds, transaction_sync, Leave, Go
<1>2. /\ FileShape(file') /\ FileShape(disk')
      /\ file'.head = file.head /\ file'.magic \subseteq file.magic
  BY <1>1, Shapes, TrimKeeps
<1>3. "idle" \in Pc /\ "rsync2" \in Recovering \ {"recover"}
  BY DEF Pc, Recovering
<1>4. Shape' /\ pc'[p] = "idle"
  BY <1>1, <1>2, <1>3, NoTxShape, ShapeOfTx
<1>5. ~ Armed'
  BY <1>1, <1>2 DEF Inv, ReadersSafe, Placed, Armed
<1>6. Placed(p)'
  BY <1>4 DEF Placed, Live, Committing
<1> QED
  BY <1>1, <1>3, <1>4, <1>5, <1>6, RestoreStep

-----------------------------------------------------------------------------
(* Failures *)

\* A process is killed, and if its commit had the file armed nobody else is there.
LEMMA KillInv ==
    ASSUME LiveKillsAlone, Inv, NEW p \in Proc, Kill(p)
    PROVE  Inv'
<1>1. Leave(p, "closed") /\ UNCHANGED <<file, disk>> /\ Place(p) \in KillAt
  BY DEF Kill
<1>2. pc[p] # "closed" /\ (pc[p] \in Live => pc[p] \in KillAt)
  BY <1>1, TdbAssumption DEF Place, Live
<1>3. CASE pc[p] = "recover"
  BY <1>1, <1>3, LeavesRecover
<1>4. CASE pc[p] \in Recovering \ {"recover"}
  <2>1. "closed" \in Pc /\ pc' = [pc EXCEPT ![p] = "closed"] /\ tx' = [tx EXCEPT ![p] = NoTx]
    BY <1>1 DEF Pc, Leave, Go
  <2>2. Shape' /\ pc'[p] = "closed"
    BY <1>1, <2>1, Shapes, NoTxShape, ShapeOfTx
  <2>3. Placed(p)'
    BY <2>2 DEF Placed, Live, Committing
  <2> QED
    BY <1>4, <2>1, <2>2, <2>3, RestoreStep
<1>5. CASE pc[p] \notin Recovering \cup Live
  BY <1>1, <1>2, <1>5, Leaves
<1>6. CASE pc[p] \in Live
  <2>1. "closed" \in Pc /\ pc' = [pc EXCEPT ![p] = "closed"] /\ tx' = [tx EXCEPT ![p] = NoTx]
    BY <1>1 DEF Pc, Leave, Go
  <2>2. Shape' /\ pc'[p] = "closed"
    BY <1>1, <2>1, Shapes, NoTxShape, ShapeOfTx
  <2>3. \A q \in Proc : q = p /\ pc'[q] = "closed"
    BY <1>2, <1>6, <2>2 DEF LiveKillsAlone
  <2>4. LocksExclude' /\ RecoveryAlone'
    BY <2>3 DEF LocksExclude, RecoveryAlone, Others
  <2>5. ArmedInCommit' /\ \A q \in Proc : Placed(q)'
    BY <2>3 DEF ArmedInCommit, Placed, Live, Committing
  <2> QED
    BY <2>2, <2>4, <2>5 DEF Inv, ReadersSafe
<1> QED
  BY <1>3, <1>4, <1>5, <1>6

\* The power fails.
LEMMA PowerCutInv ==
    ASSUME Inv, PowerCut
    PROVE  Inv'
<1>1. FileShape(file) /\ FileShape(disk)
  BY DEF Inv, Shape
<1>2. PICK size \in {file.size, disk.size}, head \in {file.head, disk.head},
           words \in SUBSET DirtyWords, records \in SUBSET DirtyRecords,
           magic \in SUBSET DirtyMagic :
             /\ file' = Image(size, head, words, records, magic)
             /\ disk' = Image(size, head, words, records, magic)
  BY DEF PowerCut
<1> DEFINE data == [o \in Off |-> IF o \in words THEN disk.data[o] ELSE file.data[o]]
           max == [o \in Off |-> IF o \in records THEN disk.max[o] ELSE file.max[o]]
           log == [o \in Off |-> IF o \in records THEN disk.log[o] ELSE file.log[o]]
           ms == (file.magic \ magic) \cup (disk.magic \cap magic)
           f == [file EXCEPT !.size = size, !.head = head, !.data = data, !.max = max,
                             !.log = log, !.magic = ms]
<1>3. file' = Trim(f) /\ disk' = Trim(f)
  BY <1>2 DEF Image
<1>4. FileShape(f)
  <2>1. size \in Nat /\ head \in Off /\ ms \subseteq Off
    BY <1>1 DEF FileShape
  <2>2. DOMAIN log = Off /\ \A o \in Off : log[o].eof \in Nat /\ DOMAIN log[o].saved \subseteq Off
    BY <1>1 DEF FileShape
  <2> HIDE DEF data, max, log, ms
  <2> QED
    BY <1>1, <2>1, <2>2 DEF FileShape
<1> HIDE DEF f
<1>5. FileShape(file') /\ FileShape(disk')
  BY <1>3, <1>4, TrimKeeps
<1>6. \A p \in Proc : pc'[p] = "closed" /\ TxShape(tx'[p])
  BY NoTxShape DEF PowerCut
<1>7. Shape'
  <2>1. "closed" \in Pc
    BY DEF Pc
  <2>2. DOMAIN tx' = Proc /\ pc' \in [Proc -> Pc]
    BY <2>1 DEF PowerCut
  <2> QED
    BY <1>5, <1>6, <2>2 DEF Shape
<1>8. LocksExclude' /\ RecoveryAlone' /\ ArmedInCommit'
  <2>1. LocksExclude'
    BY <1>6 DEF LocksExclude, Others, InTransaction, ReadsHash, WritesHash, HasGlobal,
                Committing, Recovering
  <2>2. RecoveryAlone' /\ ArmedInCommit'
    BY <1>6 DEF RecoveryAlone, ArmedInCommit, Others, Recovering
  <2> QED
    BY <2>1, <2>2
<1>9. \A p \in Proc : Placed(p)'
  BY <1>6 DEF Placed, Live, Committing
<1> QED
  BY <1>7, <1>8, <1>9 DEF Inv, ReadersSafe

\* A write reaches the disk.
LEMMA WriteBackInv ==
    ASSUME Inv, WriteBack
    PROVE  Inv'
<1>1. FileShape(file) /\ FileShape(disk)
  BY DEF Inv, Shape
<1>2. FileShape(disk')
  <2>1. CASE \E o \in DirtyWords : disk' = [disk EXCEPT !.data[o] = file.data[o]]
    <3>1. PICK data : disk' = [disk EXCEPT !.data = data]
      BY <2>1, Zenon
    <3> QED
      BY <1>1, <3>1 DEF FileShape
  <2>2. CASE \E o \in DirtyRecords :
               disk' = [disk EXCEPT !.max[o] = file.max[o], !.log[o] = file.log[o]]
    <3>1. PICK o \in DirtyRecords :
             disk' = [disk EXCEPT !.max[o] = file.max[o], !.log[o] = file.log[o]]
      BY <2>2
    <3> DEFINE max == [disk.max EXCEPT ![o] = file.max[o]]
               log == [disk.log EXCEPT ![o] = file.log[o]]
    <3>2. disk' = [disk EXCEPT !.max = max, !.log = log]
      BY <3>1
    <3>3. o \in Off
      BY <1>1 DEF DirtyRecords, FileShape
    <3>4. DOMAIN log = Off /\ \A x \in Off : log[x].eof \in Nat /\ DOMAIN log[x].saved \subseteq Off
      BY <1>1, <3>3 DEF FileShape
    <3> HIDE DEF max, log
    <3> QED
      BY <1>1, <3>2, <3>4 DEF FileShape
  <2>3. CASE \E o \in DirtyMagic :
               disk' = [disk EXCEPT !.magic = (@ \ {o}) \cup (file.magic \cap {o})]
    <3>1. PICK magic \in SUBSET Off : disk' = [disk EXCEPT !.magic = magic]
      BY <1>1, <2>3 DEF FileShape
    <3> QED
      BY <1>1, <3>1 DEF FileShape
  <2>4. CASE disk' = [disk EXCEPT !.head = file.head]
    BY <1>1, <2>4 DEF FileShape
  <2>5. CASE disk' = [disk EXCEPT !.size = file.size]
    BY <1>1, <2>5 DEF FileShape
  <2> QED
    BY <2>1, <2>2, <2>3, <2>4, <2>5 DEF WriteBack
<1>3. UNCHANGED <<file, pc, tx>>
  BY DEF WriteBack
<1>4. Shape'
  BY <1>1, <1>2, <1>3 DEF Inv, Shape
<1> QED
  BY <1>3, <1>4 DEF Inv, ReadersSafe, LocksExclude, ArmedInCommit, RecoveryAlone, Placed,
              Armed, InTransaction, ReadsHash, WritesHash, HasGlobal

-----------------------------------------------------------------------------
(* Theorems *)

\* A new database, not yet open.
LEMMA InitInv == Init => Inv
<1> SUFFICES ASSUME Init PROVE Inv
  OBVIOUS
<1>1. FileShape(NewDatabase)
  <2>1. NoLog.eof \in Nat /\ DOMAIN NoLog.saved \subseteq Off
    BY DEF NoLog, NoWords
  <2>2. 0 \in Off /\ FirstSize \in Nat
    BY TdbAssumption DEF Off
  <2> HIDE DEF NoLog
  <2> QED
    BY <2>1, <2>2 DEF FileShape, NewDatabase
<1>2. \A p \in Proc : pc[p] = "closed" /\ TxShape(tx[p])
  BY NoTxShape DEF Init
<1>3. Shape
  <2>1. "closed" \in Pc
    BY DEF Pc
  <2>2. DOMAIN tx = Proc /\ pc \in [Proc -> Pc]
    BY <2>1 DEF Init
  <2> QED
    BY <1>1, <1>2, <2>2 DEF Shape, Init
<1>4. LocksExclude
  BY <1>2 DEF LocksExclude, Others, InTransaction, ReadsHash, WritesHash, HasGlobal,
              Committing, Recovering
<1>5. RecoveryAlone /\ ArmedInCommit
  BY <1>2 DEF RecoveryAlone, ArmedInCommit, Others, Recovering
<1>6. \A p \in Proc : Placed(p)
  BY <1>2 DEF Placed, Live, Committing
<1> QED
  BY <1>3, <1>4, <1>5, <1>6 DEF Inv, ReadersSafe

\* Every step keeps the invariant.
LEMMA NextInv ==
    ASSUME LiveKillsAlone, Inv, [Next]_vars
    PROVE  Inv'
<1>1. CASE WriteBack \/ PowerCut
  BY <1>1, WriteBackInv, PowerCutInv
<1>2. CASE UNCHANGED vars
  BY <1>2 DEF vars, Inv, ReadersSafe, Shape, LocksExclude, ArmedInCommit, RecoveryAlone, Placed,
              Armed, InTransaction, ReadsHash, WritesHash, HasGlobal
<1>3. ASSUME NEW p \in Proc, Transaction(p)
      PROVE  Inv'
  <2>1. CASE \/ tdb_transaction_start(p) \/ tdb_transaction_cancel(p) \/ CommitRefused(p)
             \/ UpgradeFails(p) \/ AllocateFails(p) \/ RecordRefused(p)
    BY <2>1, StartInv, GivesUpInv, AllocateFailsInv
  <2>2. CASE \/ NestedStart(p) \/ CommitNested(p)
             \/ \E o \in Off, v \in Val \ {Pad} : transaction_write(p, o, v)
             \/ transaction_expand_file(p)
             \/ \E held \in BOOLEAN : TxLock(p, held)
    BY <2>2, MemoryInv
  <2>3. CASE tdb_transaction_commit(p) \/ tdb_brlock_upgrade(p) \/ TakeGlobal(p)
    BY <2>3, LockInv
  <2>4. CASE UseArea(p) \/ NewArea(p) \/ WriteRecord(p) \/ ExpandFile(p) \/ CommitEnds(p)
    BY <2>4, UseAreaInv, NewAreaInv, WriteRecordInv, ExpandFileInv, CommitEndsInv
  <2>5. CASE WriteHead(p) \/ WriteMagic(p) \/ RemoveMagic(p)
    BY <2>5, HeadAndMagicInv
  <2>6. CASE SyncRecord(p) \/ SyncMagic(p) \/ SyncWrites(p)
    BY <2>6, SyncInv
  <2>7. CASE \E o \in Off : CommitWrite(p, o)
    BY <2>7, CommitWriteInv
  <2> QED
    BY <1>3, <2>1, <2>2, <2>3, <2>4, <2>5, <2>6, <2>7, Zenon DEF Transaction
<1>4. ASSUME NEW p \in Proc,
             tdb_open_ex(p) \/ tdb_close(p) \/ tdb_lockall_read(p) \/ tdb_unlockall_read(p)
      PROVE  Inv'
  <2>1. CASE tdb_close(p)
    <3>1. /\ Leave(p, "closed") /\ UNCHANGED <<file, disk>>
          /\ pc[p] \notin {"closed"} \cup Recovering \cup Live
      BY <2>1 DEF tdb_close, Recovering, Live
    <3> QED
      BY <3>1, Leaves
  <2> QED
    BY <1>4, <2>1, OpenInv, ReadInv
<1>5. ASSUME NEW p \in Proc, Recovery(p)
      PROVE  Inv'
  <2>1. CASE NothingToRecover(p)
    BY <2>1, LeavesRecover DEF NothingToRecover, Armed
  <2>2. CASE RecoverFails(p)
    BY <2>2, LeavesRecover DEF RecoverFails
  <2>3. CASE ReadRecord(p) \/ RecoverEnds(p)
    BY <2>3, ReadRecordInv, RecoverEndsInv
  <2>4. CASE \E o \in Off : RestoreElement(p, o)
    BY <2>4, RestoreElementInv
  <2>5. CASE \/ SyncRestored(p) \/ RemoveHead(p) \/ RemoveRecoveryMagic(p) \/ TruncateFile(p)
    BY <2>5, RestoreInv
  <2> QED
    BY <1>5, <2>1, <2>2, <2>3, <2>4, <2>5 DEF Recovery
<1>6. ASSUME NEW p \in Proc, Kill(p)
      PROVE  Inv'
  BY <1>6, KillInv
<1> QED
  BY <1>1, <1>2, <1>3, <1>4, <1>5, <1>6 DEF Next

\* A step changes the file only in a commit that holds its locks, in a
\* recovery that has read the record, or when the machine stops.
LEMMA WhoWrites ==
    ASSUME [Next]_vars
    PROVE  \/ file' = file
           \/ \E p \in Proc : pc[p] \in (Committing \ {"global"}) \cup (Recovering \ {"recover"})
           \/ \A p \in Proc : pc'[p] = "closed"
<1>1. CASE WriteBack \/ PowerCut
  BY <1>1 DEF WriteBack, PowerCut
<1>2. CASE UNCHANGED vars
  BY <1>2 DEF vars
<1>3. ASSUME NEW p \in Proc, Transaction(p)
      PROVE  file' = file \/ pc[p] \in Committing \ {"global"}
  BY <1>3 DEF Transaction, tdb_transaction_start, NestedStart, tdb_transaction_cancel,
       transaction_write, transaction_expand_file, TxLock, CommitRefused, CommitNested,
       tdb_transaction_commit, tdb_brlock_upgrade, UpgradeFails, TakeGlobal, UseArea, NewArea, AllocateFails,
       WriteHead, WriteRecord, RecordRefused, SyncRecord, WriteMagic, SyncMagic, ExpandFile,
       CommitWrite, SyncWrites, RemoveMagic, CommitEnds, Committing
<1>4. ASSUME NEW p \in Proc,
             tdb_open_ex(p) \/ tdb_close(p) \/ tdb_lockall_read(p) \/ tdb_unlockall_read(p) \/ Kill(p)
      PROVE  file' = file
  BY <1>4 DEF tdb_open_ex, tdb_close, tdb_lockall_read, tdb_unlockall_read, Kill
<1>5. ASSUME NEW p \in Proc, Recovery(p)
      PROVE  file' = file \/ pc[p] \in Recovering \ {"recover"}
  BY <1>5 DEF Recovery, NothingToRecover, RecoverFails, ReadRecord, RestoreElement, SyncRestored,
       RemoveHead, RemoveRecoveryMagic, TruncateFile, RecoverEnds, Recovering
<1> QED
  BY <1>1, <1>2, <1>3, <1>4, <1>5 DEF Next

\* Locks and places keep readers, commits and recoveries apart, when no process
\* is killed in the part of tdb_transaction_commit that has the magic set, or
\* there is only one process.
THEOREM ReadersAreSafe ==
    ASSUME LiveKillsAlone
    PROVE  Spec => []ReadersSafe
<1>1. Init => Inv
  BY InitInv
<1>2. Inv /\ [Next]_vars => Inv'
  BY NextInv
<1>3. Inv => ReadersSafe
  BY DEF Inv
<1> QED
  BY <1>1, <1>2, <1>3, PTL DEF Spec

\* Under the same condition nobody changes the database while a process holds
\* the chains for reading.
THEOREM ReadersSeeNoChange ==
    ASSUME LiveKillsAlone
    PROVE  Spec => Isolation
<1>1. Init => Inv
  BY InitInv
<1>2. Inv /\ [Next]_vars => Inv'
  BY NextInv
<1>3. Inv /\ [Next]_vars =>
        [\A p \in Proc : ReadsHash(p) /\ ReadsHash(p)' =>
            Contents(file'.data) = Contents(file.data)]_vars
  <2> SUFFICES ASSUME Inv, [Next]_vars, NEW p \in Proc, ReadsHash(p), ReadsHash(p)'
               PROVE  file' = file
    OBVIOUS
  <2>1. pc'[p] # "closed"
    BY DEF ReadsHash
  <2>2. ASSUME NEW q \in Proc, pc[q] \in Committing \ {"global"}
        PROVE  FALSE
    <3>1. pc[p] \in {"closed", "idle"} \/ pc[p] \in Committing
      BY <2>2, CommitsAlone DEF Others
    <3> QED
      BY <3>1 DEF ReadsHash, Committing
  <2>3. ASSUME NEW q \in Proc, pc[q] \in Recovering \ {"recover"}
        PROVE  FALSE
    <3>1. pc[p] = "closed" \/ pc[p] \in Recovering
      BY <2>3 DEF Inv, ReadersSafe, RecoveryAlone, Others
    <3> QED
      BY <3>1 DEF ReadsHash, Recovering
  <2> QED
    BY <2>1, <2>2, <2>3, WhoWrites
<1> QED
  BY <1>1, <1>2, <1>3, PTL DEF Spec, Isolation

-----------------------------------------------------------------------------
(* Types *)

\* A file in the form in which the provers can follow its fields.
FileType(f) == IsFile(f) /\ FileShape(f)
TxType(t) == IsTx(t) /\ TxShape(t)
DbType(d) ==
    /\ d \in [old: {d.old}, new: {d.new}]
    /\ DOMAIN d.old = Off /\ IsWords(d.old)
    /\ DOMAIN d.new = Off /\ IsWords(d.new)

TypeInv == TypeOK /\ Shape /\ DbType(db)

\* A file with these fields.
Fields(f, s, h, data, magic, max, log) ==
    f \in [size: {s}, head: {h}, data: {data}, magic: {magic}, max: {max}, log: {log}]

IsLog(l) == DOMAIN l = Off /\ \A o \in Off : l[o].eof \in 0..MaxSize /\ IsWords(l[o].saved)

\* A file whose fields have their types.
LEMMA FieldsTyped ==
    ASSUME NEW f, NEW s \in 0..MaxSize, NEW h \in Off, NEW data, DOMAIN data = Off, IsWords(data),
           NEW magic \in SUBSET Off, NEW max \in [Off -> 0..Huge], NEW log, IsLog(log),
           Fields(f, s, h, data, magic, max, log)
    PROVE  /\ FileType(f)
           /\ f.size = s /\ f.head = h /\ f.data = data /\ f.magic = magic /\ f.max = max /\ f.log = log
<1>1. f.size = s /\ f.head = h /\ f.data = data /\ f.magic = magic /\ f.max = max /\ f.log = log
  BY DEF Fields
<1>2. MaxSize \in Nat
  BY TdbAssumption
<1>3. IsFile(f)
  BY <1>1 DEF IsFile, IsLog
<1>4. f \in [size: Nat, head: Off, data: {f.data}, magic: SUBSET Off, max: {f.max}, log: {f.log}]
  BY <1>1, <1>2 DEF Fields
<1>5. \A o \in Off : f.log[o].eof \in Nat /\ DOMAIN f.log[o].saved \subseteq Off
  BY <1>1, <1>2 DEF IsLog, IsWords
<1> QED
  BY <1>1, <1>3, <1>4, <1>5 DEF FileType, FileShape, IsLog

\* The types of the fields of a file.
LEMMA TypeOfFile ==
    ASSUME NEW f, FileType(f)
    PROVE  /\ f.size \in 0..MaxSize /\ f.head \in Off /\ DOMAIN f.data = Off /\ IsWords(f.data)
           /\ f.magic \in SUBSET Off /\ f.max \in [Off -> 0..Huge] /\ IsLog(f.log)
           /\ Fields(f, f.size, f.head, f.data, f.magic, f.max, f.log)
<1>1. Fields(f, f.size, f.head, f.data, f.magic, f.max, f.log)
  BY DEF FileType, FileShape, Fields
<1> QED
  BY <1>1 DEF FileType, IsFile, IsLog

\* An empty record, padding and the first words.
LEMMA NoLogTyped == NoLog.eof \in 0..MaxSize /\ IsWords(NoLog.saved)
  BY TdbAssumption DEF NoLog, NoWords, IsWords

\* Padding, the first two words and lengths of records.
LEMMA PadTyped == Pad \in Val /\ Heads \in Off /\ 0 \in Off /\ 0 \in 0..Huge /\ Huge \in 0..Huge
  BY TdbAssumption DEF Heads, Off, Huge

\* A word that is not the heads may be padded.
LEMMA PaddedWords ==
    ASSUME NEW w, DOMAIN w = Off, IsWords(w), NEW S, Heads \notin S
    PROVE  LET v == [o \in Off |-> IF o \in S THEN Pad ELSE w[o]]
           IN  DOMAIN v = Off /\ IsWords(v)
  BY PadTyped DEF IsWords, Word

\* What lies beyond the end of the file is cut off (transaction_sync).
LEMMA TrimTyped ==
    ASSUME NEW f, FileType(f)
    PROVE  /\ FileType(Trim(f))
           /\ Fields(Trim(f), f.size, f.head,
                     [o \in Off |-> IF o = Heads \/ o < f.size THEN f.data[o] ELSE Pad],
                     {o \in f.magic : o < f.size},
                     [o \in Off |-> IF o < f.size THEN f.max[o] ELSE 0],
                     [o \in Off |-> IF o < f.size THEN f.log[o] ELSE NoLog])
<1> DEFINE data == [o \in Off |-> IF o = Heads \/ o < f.size THEN f.data[o] ELSE Pad]
           magic == {o \in f.magic : o < f.size}
           max == [o \in Off |-> IF o < f.size THEN f.max[o] ELSE 0]
           log == [o \in Off |-> IF o < f.size THEN f.log[o] ELSE NoLog]
<1>1. Fields(Trim(f), f.size, f.head, data, magic, max, log)
  BY DEF Trim, Fields, FileType, FileShape
<1>2. DOMAIN data = Off /\ IsWords(data)
  BY TypeOfFile, PadTyped DEF IsWords, Word
<1>3. magic \in SUBSET Off /\ max \in [Off -> 0..Huge]
  BY TypeOfFile, PadTyped
<1>4. IsLog(log)
  BY TypeOfFile, NoLogTyped DEF IsLog
<1> HIDE DEF data, magic, max, log
<1>5. FileType(Trim(f))
  BY <1>1, <1>2, <1>3, <1>4, TypeOfFile, FieldsTyped
<1> QED
  BY <1>1, <1>5 DEF data, magic, max, log

\* The file is longer, and padded (tdb_expand_file).
LEMMA ExpandTyped ==
    ASSUME NEW f, FileType(f), NEW old \in 2..MaxSize, NEW new \in 0..MaxSize
    PROVE  /\ FileType(tdb_expand_file(f, old, new))
           /\ Fields(tdb_expand_file(f, old, new), new, f.head,
                     [o \in Off |-> IF o \in old..new - 1 THEN Pad ELSE f.data[o]],
                     f.magic \ (old..new - 1),
                     [o \in Off |-> IF o \in old..new - 1 THEN Huge ELSE f.max[o]],
                     [o \in Off |-> IF o \in old..new - 1 THEN NoLog ELSE f.log[o]])
<1> DEFINE data == [o \in Off |-> IF o \in old..new - 1 THEN Pad ELSE f.data[o]]
           magic == f.magic \ (old..new - 1)
           max == [o \in Off |-> IF o \in old..new - 1 THEN Huge ELSE f.max[o]]
           log == [o \in Off |-> IF o \in old..new - 1 THEN NoLog ELSE f.log[o]]
<1>1. Fields(tdb_expand_file(f, old, new), new, f.head, data, magic, max, log)
  BY DEF tdb_expand_file, Fields, FileType, FileShape
<1>2. DOMAIN data = Off /\ IsWords(data)
  <2>1. Heads \notin old..new - 1
    BY TdbAssumption DEF Heads
  <2> QED
    BY <2>1, TypeOfFile, PaddedWords
<1>3. magic \in SUBSET Off /\ max \in [Off -> 0..Huge]
  BY TypeOfFile, PadTyped
<1>4. IsLog(log)
  BY TypeOfFile, NoLogTyped DEF IsLog
<1> HIDE DEF data, magic, max, log
<1>5. FileType(tdb_expand_file(f, old, new))
  BY <1>1, <1>2, <1>3, <1>4, TypeOfFile, FieldsTyped
<1> QED
  BY <1>1, <1>5 DEF data, magic, max, log

\* Words laid over words.
LEMMA OverTyped ==
    ASSUME NEW w, NEW u, IsWords(w), IsWords(u)
    PROVE  /\ IsWords(Over(w, u)) /\ DOMAIN Over(w, u) = DOMAIN w \cup DOMAIN u
           /\ \A o \in DOMAIN u : Over(w, u)[o] = u[o]
           /\ \A o \in DOMAIN w \ DOMAIN u : Over(w, u)[o] = w[o]
  BY DEF Over, IsWords

\* The words that a reader of the database sees.
LEMMA ContentsTyped ==
    ASSUME NEW d, DOMAIN d = Off, IsWords(d)
    PROVE  DOMAIN Contents(d) = Off /\ IsWords(Contents(d))
  BY PadTyped DEF Contents, IsWords, Word

\* No transaction.
LEMMA NoTxTyped == TxType(NoTx)
<1>1. IsTx(NoTx)
  BY TdbAssumption, PadTyped DEF IsTx, NoTx, NoWords, IsWords
<1> QED
  BY <1>1, NoTxShape DEF TxType

\* What the types of all variables say of each.
LEMMA Typed ==
    ASSUME TypeInv
    PROVE  /\ FileType(file) /\ FileType(disk) /\ DbType(db)
           /\ DOMAIN tx = Proc /\ pc \in [Proc -> Pc] /\ \A p \in Proc : TxType(tx[p])
           /\ begun \in 0..MaxBegun /\ kills \in 0..MaxKills /\ cuts \in 0..MaxCuts /\ backs \in 0..MaxBacks
  BY DEF TypeInv, TypeOK, Shape, FileType, TxType

\* A step of one process.
LEMMA StepTyped ==
    ASSUME TypeInv, NEW p \in Proc, NEW x \in Pc, NEW t, TxType(t),
           FileType(file'), FileType(disk'), DbType(db'),
           pc' = [pc EXCEPT ![p] = x], tx' = tx \/ tx' = [tx EXCEPT ![p] = t],
           begun' \in 0..MaxBegun, kills' \in 0..MaxKills, cuts' \in 0..MaxCuts, backs' \in 0..MaxBacks
    PROVE  TypeInv'
<1>1. DOMAIN tx' = Proc /\ \A q \in Proc : TxType(tx'[q])
  BY Typed
<1>2. pc' \in [Proc -> Pc]
  BY Typed
<1> QED
  BY <1>1, <1>2 DEF TypeInv, TypeOK, Shape, FileType, TxType, DbType

\* A step of one process that changes neither file nor history.
LEMMA QuietStepTyped ==
    ASSUME TypeInv, NEW p \in Proc, NEW x \in Pc, NEW t, TxType(t),
           pc' = [pc EXCEPT ![p] = x], tx' = tx \/ tx' = [tx EXCEPT ![p] = t],
           UNCHANGED <<file, disk, begun, kills, cuts, backs, db>>
    PROVE  TypeInv'
  BY Typed, StepTyped

\* The place of a process does not change.
LEMMA SamePlace ==
    ASSUME TypeInv, NEW p \in Proc, pc' = pc
    PROVE  pc[p] \in Pc /\ pc' = [pc EXCEPT ![p] = pc[p]]
  BY Typed

\* tdb_transaction_cancel.
LEMMA CancelTyped ==
    ASSUME TypeInv, NEW p \in Proc, Cancel(p),
           FileType(file'), FileType(disk'), DbType(db'), UNCHANGED <<begun, kills, cuts, backs>>
    PROVE  TypeInv'
<1>1. CASE tx[p].nesting # 0
  <2> DEFINE u == [tx[p] EXCEPT !.nesting = @ - 1]
             t == [u EXCEPT !.error = TRUE]
  <2>1. tx' = [tx EXCEPT ![p] = t] /\ pc' = pc
    BY <1>1 DEF Cancel
  <2>2. TxType(t)
    <3>1. TxType(u)
      BY <1>1, Typed, TdbAssumption DEF TxType, IsTx, TxShape
    <3> HIDE DEF u
    <3> QED
      BY <3>1 DEF TxType, IsTx, TxShape
  <2> QED
    BY <2>1, <2>2, SamePlace, StepTyped, Typed
<1>2. CASE tx[p].nesting = 0
  BY <1>2, NoTxTyped, StepTyped, Typed DEF Cancel, Leave, Go, Pc
<1> QED
  BY <1>1, <1>2

\* Steps before the commit has its locks.
LEMMA BeforeCommitTyped ==
    ASSUME TypeInv, NEW p \in Proc,
           \/ tdb_transaction_start(p) \/ NestedStart(p) \/ CommitNested(p)
           \/ tdb_transaction_commit(p) \/ tdb_brlock_upgrade(p) \/ TakeGlobal(p)
           \/ \E held \in BOOLEAN : TxLock(p, held)
    PROVE  TypeInv'
<1>1. CASE tdb_transaction_start(p)
  <2> DEFINE e == [o \in {Heads} |-> file.data[Heads]]
             t == [NoTx EXCEPT !.elems = e, !.map = file.size, !.old = file.size]
  <2>1. tx' = [tx EXCEPT ![p] = t] /\ pc' = [pc EXCEPT ![p] = "tx"] /\ "tx" \in Pc
    BY <1>1 DEF tdb_transaction_start, Go, Pc
  <2>2. IsWords(e)
    BY Typed, TypeOfFile, PadTyped DEF IsWords
  <2>3. TxType(t)
    <3>1. file.size \in 0..MaxSize /\ file.size \in Nat
      BY Typed, TypeOfFile, TdbAssumption
    <3>2. DOMAIN e \subseteq Off
      BY PadTyped
    <3> HIDE DEF e
    <3> QED
      BY <2>2, <3>1, <3>2, NoTxTyped DEF NoTx, TxType, IsTx, TxShape
  <2>4. begun' \in 0..MaxBegun
    BY <1>1, Typed, TdbAssumption DEF tdb_transaction_start
  <2> QED
    BY <1>1, <2>1, <2>3, <2>4, StepTyped, Typed DEF tdb_transaction_start, faults
<1>2. CASE NestedStart(p)
  <2> DEFINE t == [tx[p] EXCEPT !.nesting = @ + 1]
  <2>1. tx' = [tx EXCEPT ![p] = t]
    BY <1>2 DEF NestedStart
  <2>2. TxType(t)
    BY <1>2, Typed, TdbAssumption DEF NestedStart, TxType, IsTx, TxShape
  <2> QED
    BY <1>2, <2>1, <2>2, SamePlace, QuietStepTyped DEF NestedStart, faults
<1>3. CASE CommitNested(p)
  <2> DEFINE t == [tx[p] EXCEPT !.nesting = @ - 1]
  <2>1. tx' = [tx EXCEPT ![p] = t]
    BY <1>3 DEF CommitNested
  <2>2. TxType(t)
    BY <1>3, Typed, TdbAssumption DEF CommitNested, TxType, IsTx, TxShape
  <2> QED
    BY <1>3, <2>1, <2>2, SamePlace, QuietStepTyped DEF CommitNested, faults
<1>4. CASE tdb_transaction_commit(p) \/ tdb_brlock_upgrade(p) \/ TakeGlobal(p)
  <2>1. \E x \in Pc : pc' = [pc EXCEPT ![p] = x]
    BY <1>4 DEF tdb_transaction_commit, tdb_brlock_upgrade, TakeGlobal, Go, Pc, Committing
  <2> QED
    BY <1>4, <2>1, Typed, QuietStepTyped
    DEF tdb_transaction_commit, tdb_brlock_upgrade, TakeGlobal, faults
<1>5. ASSUME NEW held \in BOOLEAN, TxLock(p, held)
      PROVE  TypeInv'
  <2> DEFINE t == [tx[p] EXCEPT !.locks = held]
  <2>1. tx' = [tx EXCEPT ![p] = t]
    BY <1>5 DEF TxLock
  <2>2. TxType(t)
    BY <1>5, Typed DEF TxType, IsTx, TxShape
  <2> QED
    BY <1>5, <2>1, <2>2, SamePlace, QuietStepTyped DEF TxLock, faults
<1> QED
  BY <1>1, <1>2, <1>3, <1>4, <1>5

\* The words a transaction sees.
LEMMA ReadTyped ==
    ASSUME TypeInv, NEW p \in Proc
    PROVE  /\ IsWords(transaction_read(p)) /\ DOMAIN transaction_read(p) = Off
           /\ transaction_read(p)[Heads] \subseteq Off
           /\ Heads \in DOMAIN tx[p].elems => transaction_read(p)[Heads] = tx[p].elems[Heads]
<1>1. IsWords(file.data) /\ DOMAIN file.data = Off /\ IsWords(tx[p].elems) /\ DOMAIN tx[p].elems \subseteq Off
  BY Typed, TypeOfFile DEF TxType, IsTx, TxShape
<1>2. IsWords(transaction_read(p)) /\ DOMAIN transaction_read(p) = Off
  BY <1>1, OverTyped DEF transaction_read
<1>3. transaction_read(p)[Heads] \subseteq Off
  BY <1>2, PadTyped DEF IsWords, Word
<1>4. Heads \in DOMAIN tx[p].elems => transaction_read(p)[Heads] = tx[p].elems[Heads]
  BY <1>1, PadTyped DEF transaction_read, Over
<1> QED
  BY <1>2, <1>3, <1>4

\* Writing and growing inside a transaction.
LEMMA WriteTyped ==
    ASSUME TypeInv, NEW p \in Proc, NEW o \in Off, NEW v \in Val, transaction_write(p, o, v), o # Heads
    PROVE  TypeInv'
<1> DEFINE e == Over(tx[p].elems, [x \in {o} |-> v])
           t == [tx[p] EXCEPT !.elems = e]
<1>1. tx' = [tx EXCEPT ![p] = t]
  BY DEF transaction_write
<1>2. IsWords([x \in {o} |-> v])
  BY DEF IsWords, Word
<1>3. IsWords(tx[p].elems)
  BY Typed DEF TxType, IsTx
<1>4. IsWords(e) /\ DOMAIN e \subseteq Off
  BY <1>2, <1>3, OverTyped DEF IsWords
<1> HIDE DEF e
<1>5. TxType(t)
  BY <1>4, Typed DEF TxType, IsTx, TxShape
<1> QED
  BY <1>1, <1>5, SamePlace, QuietStepTyped DEF transaction_write, faults

\* transaction_expand_file keeps the types.
LEMMA GrowTyped ==
    ASSUME TypeInv, NEW p \in Proc, transaction_expand_file(p)
    PROVE  TypeInv'
<1> DEFINE map == Aligned(tx[p].map + 1)
           new == tx[p].map..map - 1
           u == [o \in new \cup {Heads} |->
                   IF o = Heads THEN transaction_read(p)[Heads] \cup new ELSE Pad]
           e == Over(tx[p].elems, u)
           t1 == [tx[p] EXCEPT !.map = map]
           t == [t1 EXCEPT !.elems = e]
<1>1. tx[p].map \in Nat /\ IsWords(tx[p].elems)
  BY Typed DEF TxType, IsTx, TxShape
<1>2. map \in Nat /\ map <= MaxSize
  BY <1>1, AlignedGrows DEF transaction_expand_file
<1>3. tx' = [tx EXCEPT ![p] = t]
  BY DEF transaction_expand_file
<1>4. new \subseteq Off /\ map \in 0..MaxSize
  BY <1>1, <1>2, TdbAssumption DEF Off
<1> HIDE DEF new, map
<1>5. IsWords(u)
  BY <1>4, ReadTyped, PadTyped DEF IsWords, Word
<1> HIDE DEF u
<1>6. IsWords(e) /\ DOMAIN e \subseteq Off
  BY <1>1, <1>5, OverTyped DEF IsWords
<1>7. TxType(t1)
  BY <1>2, <1>4, Typed DEF TxType, IsTx, TxShape
<1> HIDE DEF e, t1
<1>8. TxType(t)
  BY <1>6, <1>7 DEF TxType, IsTx, TxShape
<1> QED
  BY <1>3, <1>8, SamePlace, QuietStepTyped DEF transaction_expand_file, faults

-----------------------------------------------------------------------------
(* Types in the commit *)

\* What Promise records.
LEMMA PromiseTyped ==
    ASSUME TypeInv, NEW e, IsWords(e), Promise(e)
    PROVE  DbType(db')
<1>1. IsWords(file.data) /\ DOMAIN file.data = Off /\ DOMAIN e \subseteq Off
  BY Typed, TypeOfFile DEF IsWords
<1>2. IsWords(Over(file.data, e)) /\ DOMAIN Over(file.data, e) = Off
  <2>1. IsWords(Over(file.data, e)) /\ DOMAIN Over(file.data, e) = DOMAIN file.data \cup DOMAIN e
    BY <1>1, OverTyped
  <2> QED
    BY <1>1, <2>1
<1>3. db' = [old |-> Contents(file.data), new |-> Contents(Over(file.data, e))]
  BY DEF Promise
<1> QED
  BY <1>1, <1>2, <1>3, ContentsTyped DEF DbType

\* UseArea keeps the types.
LEMMA UseAreaTyped ==
    ASSUME TypeInv, NEW p \in Proc, UseArea(p)
    PROVE  TypeInv'
<1> DEFINE t1 == [tx[p] EXCEPT !.where = file.head]
           t2 == [t1 EXCEPT !.room = file.max[file.head]]
           t == [t2 EXCEPT !.eof = tx[p].old]
<1>1. tx' = [tx EXCEPT ![p] = t] /\ pc' = [pc EXCEPT ![p] = "body"] /\ "body" \in Pc
  BY DEF UseArea, Go, Pc, Committing
<1>2. TxType(tx[p]) /\ file.head \in Off /\ file.max[file.head] \in 0..Huge
  BY Typed, TypeOfFile
<1>3. TxType(t1)
  BY <1>2 DEF TxType, IsTx, TxShape
<1> HIDE DEF t1
<1>4. TxType(t2)
  BY <1>2, <1>3 DEF TxType, IsTx, TxShape
<1> HIDE DEF t2
<1>5. TxType(t)
  BY <1>2, <1>4 DEF TxType, IsTx, TxShape
<1> HIDE DEF t
<1>6. DbType(db')
  BY <1>2, PromiseTyped DEF UseArea, TxType, IsTx
<1> QED
  BY <1>1, <1>5, <1>6, StepTyped, Typed DEF UseArea, faults

\* The elements once the old area is free.
LEMMA FreedTyped ==
    ASSUME TypeInv, NEW p \in Proc
    PROVE  IsWords(Freed(p)) /\ DOMAIN Freed(p) \subseteq Off
<1> DEFINE u == [o \in {Heads, file.head} |->
                   IF o = Heads THEN transaction_read(p)[Heads] \cup {file.head} ELSE Pad]
<1>1. IsWords(tx[p].elems) /\ file.head \in Off
  BY Typed, TypeOfFile DEF TxType, IsTx
<1>2. IsWords(u)
  BY <1>1, ReadTyped, PadTyped DEF IsWords, Word
<1>3. IsWords(Freed(p))
  BY <1>1, <1>2, OverTyped DEF Freed
<1> QED
  BY <1>3 DEF IsWords

\* A new area lies behind all else and has room for the record.
LEMMA NewEndGrows ==
    ASSUME TypeInv, NEW p \in Proc
    PROVE  /\ tdb_recovery_size(Freed(p), tx[p].old) \in Nat
           /\ NewEnd(p) \in Nat
           /\ tx[p].map + 1 + tdb_recovery_size(Freed(p), tx[p].old) <= NewEnd(p)
<1>1. tx[p].map \in Nat
  BY Typed DEF TxType, TxShape
<1>2. tdb_recovery_size(Freed(p), tx[p].old) \in Nat
  <2>1. Saved(Freed(p), tx[p].old) \subseteq Off
    BY FreedTyped DEF Saved
  <2> QED
    BY <2>1, SizeOfWords DEF tdb_recovery_size
<1> QED
  BY <1>1, <1>2, AlignedGrows DEF NewEnd

\* NewArea keeps the types.
LEMMA NewAreaTyped ==
    ASSUME TypeInv, NEW p \in Proc, NewArea(p), 1 < tx[p].old
    PROVE  TypeInv'
<1> DEFINE end == NewEnd(p)
           t1 == [tx[p] EXCEPT !.elems = Freed(p)]
           t2 == [t1 EXCEPT !.where = tx[p].map]
           t3 == [t2 EXCEPT !.room = end - tx[p].map - 1]
           t4 == [t3 EXCEPT !.eof = tx[p].old]
           t5 == [t4 EXCEPT !.map = end]
           t == [t5 EXCEPT !.old = end]
<1>1. /\ tx' = [tx EXCEPT ![p] = t] /\ pc' = [pc EXCEPT ![p] = "head"] /\ "head" \in Pc
      /\ file' = tdb_expand_file(file, tx[p].old, end) /\ Promise(Freed(p))
      /\ UNCHANGED <<disk, begun, kills, cuts, backs>>
  BY DEF NewArea, Go, Pc, Committing, faults
<1>2. TxType(tx[p]) /\ tx[p].map \in 0..MaxSize /\ tx[p].old \in 0..MaxSize
  BY Typed DEF TxType, IsTx
<1>3. end \in 0..MaxSize /\ tx[p].map + 1 <= end
  <2>1. end <= MaxSize
    BY DEF NewArea
  <2> QED
    BY <1>2, <2>1, NewEndGrows, TdbAssumption
<1>4. tx[p].map \in Off /\ end - tx[p].map - 1 \in 0..Huge /\ end \in Nat /\ tx[p].old \in Nat
  BY <1>2, <1>3, TdbAssumption DEF Off, Huge
<1> HIDE DEF end
<1>5. TxType(t1)
  BY <1>2, FreedTyped DEF TxType, IsTx, TxShape
<1> HIDE DEF t1
<1>6. TxType(t2)
  BY <1>4, <1>5 DEF TxType, IsTx, TxShape
<1> HIDE DEF t2
<1>7. TxType(t3)
  BY <1>4, <1>6 DEF TxType, IsTx, TxShape
<1> HIDE DEF t3
<1>8. TxType(t4)
  BY <1>2, <1>4, <1>7 DEF TxType, IsTx, TxShape
<1> HIDE DEF t4
<1>9. TxType(t5)
  BY <1>3, <1>4, <1>8 DEF TxType, IsTx, TxShape
<1> HIDE DEF t5
<1>10. TxType(t)
  BY <1>3, <1>4, <1>9 DEF TxType, IsTx, TxShape
<1> HIDE DEF t
<1>11. FileType(file')
  <2>1. tx[p].old \in 2..MaxSize
    BY <1>2
  <2> QED
    BY <1>1, <1>3, <2>1, Typed, ExpandTyped
<1>12. DbType(db')
  BY <1>1, FreedTyped, PromiseTyped
<1> QED
  BY <1>1, <1>10, <1>11, <1>12, StepTyped, Typed

\* The head and the magic of the record.
LEMMA HeadTyped ==
    ASSUME NEW f, FileType(f), NEW h \in Off
    PROVE  LET g == [f EXCEPT !.head = h]
           IN  FileType(g) /\ Fields(g, f.size, h, f.data, f.magic, f.max, f.log)
<1> DEFINE g == [f EXCEPT !.head = h]
<1>1. Fields(g, f.size, h, f.data, f.magic, f.max, f.log)
  BY DEF Fields, FileType, FileShape
<1> HIDE DEF g
<1>2. FileType(g)
  BY <1>1, TypeOfFile, FieldsTyped
<1> QED
  BY <1>1, <1>2 DEF g

\* A file with other magic.
LEMMA MagicTyped ==
    ASSUME NEW f, FileType(f), NEW m \in SUBSET Off
    PROVE  LET g == [f EXCEPT !.magic = m]
           IN  FileType(g) /\ Fields(g, f.size, f.head, f.data, m, f.max, f.log)
<1> DEFINE g == [f EXCEPT !.magic = m]
<1>1. Fields(g, f.size, f.head, f.data, m, f.max, f.log)
  BY DEF Fields, FileType, FileShape
<1> HIDE DEF g
<1>2. FileType(g)
  BY <1>1, TypeOfFile, FieldsTyped
<1> QED
  BY <1>1, <1>2 DEF g

\* A file of another size.
LEMMA TruncateTyped ==
    ASSUME NEW f, FileType(f), NEW s \in 0..MaxSize
    PROVE  LET g == [f EXCEPT !.size = s]
           IN  FileType(g) /\ Fields(g, s, f.head, f.data, f.magic, f.max, f.log)
<1> DEFINE g == [f EXCEPT !.size = s]
<1>1. Fields(g, s, f.head, f.data, f.magic, f.max, f.log)
  BY DEF Fields, FileType, FileShape
<1> HIDE DEF g
<1>2. FileType(g)
  BY <1>1, TypeOfFile, FieldsTyped
<1> QED
  BY <1>1, <1>2 DEF g

\* One word is written.
LEMMA WordTyped ==
    ASSUME NEW f, FileType(f), NEW o \in Off, NEW v \in Word(o)
    PROVE  LET g == [f EXCEPT !.data[o] = v]
           IN  FileType(g) /\ Fields(g, f.size, f.head, [f.data EXCEPT ![o] = v], f.magic, f.max, f.log)
<1> DEFINE g == [f EXCEPT !.data[o] = v]
           data == [f.data EXCEPT ![o] = v]
<1>1. Fields(g, f.size, f.head, data, f.magic, f.max, f.log)
  BY DEF Fields, FileType, FileShape
<1>2. DOMAIN data = Off /\ IsWords(data)
  BY TypeOfFile DEF IsWords
<1> HIDE DEF g, data
<1>3. FileType(g)
  BY <1>1, <1>2, TypeOfFile, FieldsTyped
<1> QED
  BY <1>1, <1>3 DEF g, data

\* A step that changes only the file and the place.
LEMMA FileStepTyped ==
    ASSUME TypeInv, NEW p \in Proc, NEW x \in Pc, FileType(file'), FileType(disk'),
           pc' = [pc EXCEPT ![p] = x], UNCHANGED <<tx, begun, kills, cuts, backs, db>>
    PROVE  TypeInv'
  BY Typed, StepTyped

\* The steps of a commit and of a recovery that change a field of the file.
LEMMA FieldStepsTyped ==
    ASSUME TypeInv, NEW p \in Proc,
           \/ WriteHead(p) \/ WriteMagic(p) \/ RemoveMagic(p)
           \/ RemoveHead(p) \/ RemoveRecoveryMagic(p) \/ TruncateFile(p)
    PROVE  TypeInv'
<1> USE DEF Go, faults
<1>0. /\ FileType(file) /\ FileType(disk) /\ file.magic \in SUBSET Off /\ 0 \in Off
      /\ tx[p].where \in Off /\ tx[p].eof \in 0..MaxSize
  BY Typed, TypeOfFile, PadTyped DEF TxType, IsTx
<1>p. {"body", "sync2", "sync4", "rmagic", "rtrunc", "rsync2"} \subseteq Pc
  BY DEF Pc, Committing, Recovering
<1>1. CASE WriteHead(p)
  BY <1>0, <1>1, <1>p, HeadTyped, FileStepTyped DEF WriteHead
<1>2. CASE WriteMagic(p)
  <2>1. file.magic \cup {tx[p].where} \in SUBSET Off
    BY <1>0
  <2> QED
    BY <1>0, <1>2, <2>1, <1>p, MagicTyped, FileStepTyped DEF WriteMagic
<1>3. CASE RemoveMagic(p) \/ RemoveRecoveryMagic(p)
  <2>1. file.magic \ {tx[p].where} \in SUBSET Off
    BY <1>0
  <2> QED
    BY <1>0, <1>3, <2>1, <1>p, MagicTyped, FileStepTyped DEF RemoveMagic, RemoveRecoveryMagic
<1>4. CASE RemoveHead(p)
  BY <1>0, <1>4, <1>p, HeadTyped, FileStepTyped DEF RemoveHead
<1>5. CASE TruncateFile(p)
  BY <1>0, <1>5, <1>p, TruncateTyped, FileStepTyped DEF TruncateFile
<1> QED
  BY <1>1, <1>2, <1>3, <1>4, <1>5

\* The syncs.
LEMMA SyncsTyped ==
    ASSUME TypeInv, NEW p \in Proc,
           \/ SyncRecord(p) \/ SyncMagic(p) \/ SyncWrites(p) \/ SyncRestored(p)
           \/ CommitEnds(p) \/ RecoverEnds(p)
    PROVE  TypeInv'
<1>0. transaction_sync
  BY DEF SyncRecord, SyncMagic, SyncWrites, SyncRestored, CommitEnds, RecoverEnds
<1>1. FileType(file') /\ FileType(disk')
  BY <1>0, Typed, TrimTyped DEF transaction_sync
<1>2. CASE SyncRecord(p) \/ SyncMagic(p) \/ SyncWrites(p) \/ SyncRestored(p)
  <2>1. \E x \in Pc : pc' = [pc EXCEPT ![p] = x]
    BY <1>2 DEF SyncRecord, SyncMagic, SyncWrites, SyncRestored, Go, Pc, Committing, Recovering
  <2> QED
    BY <1>1, <1>2, <2>1, FileStepTyped DEF SyncRecord, SyncMagic, SyncWrites, SyncRestored, faults
<1>3. CASE CommitEnds(p)
  <2>1. DbType(db')
    BY <1>3, Typed DEF CommitEnds, DbType
  <2> QED
    BY <1>1, <1>3, <2>1, CancelTyped DEF CommitEnds, faults
<1>4. CASE RecoverEnds(p)
  <2>1. DbType(db')
    BY <1>4, Typed DEF RecoverEnds, DbType
  <2>2. pc' = [pc EXCEPT ![p] = "idle"] /\ tx' = [tx EXCEPT ![p] = NoTx] /\ "idle" \in Pc
    BY <1>4 DEF RecoverEnds, Leave, Go, Pc
  <2> QED
    BY <1>1, <1>4, <2>1, <2>2, NoTxTyped, StepTyped, Typed DEF RecoverEnds, faults
<1> QED
  BY <1>2, <1>3, <1>4

\* A transaction that is given up.
LEMMA GivesUpTyped ==
    ASSUME TypeInv, NEW p \in Proc,
           \/ tdb_transaction_cancel(p) \/ CommitRefused(p) \/ UpgradeFails(p)
           \/ RecordRefused(p)
    PROVE  TypeInv'
<1>1. DbType(db')
  BY Typed DEF DbType, tdb_transaction_cancel, CommitRefused, UpgradeFails, RecordRefused
<1> QED
  BY <1>1, Typed, CancelTyped
  DEF tdb_transaction_cancel, CommitRefused, UpgradeFails, RecordRefused, faults

\* AllocateFails keeps the types.
LEMMA AllocateFailsTyped ==
    ASSUME TypeInv, NEW p \in Proc, AllocateFails(p), 1 < tx[p].old
    PROVE  TypeInv'
<1>1. FileType(file) /\ tx[p].old \in 2..MaxSize
  BY Typed, TdbAssumption DEF TxType, IsTx
<1>2. FileType(file')
  <2>1. CASE \E new \in tx[p].old..MaxSize : file' = tdb_expand_file(file, tx[p].old, new)
    <3>1. PICK new \in tx[p].old..MaxSize : file' = tdb_expand_file(file, tx[p].old, new)
      BY <2>1
    <3>2. new \in 0..MaxSize
      BY <1>1, TdbAssumption
    <3> QED
      BY <1>1, <3>1, <3>2, ExpandTyped
  <2> QED
    BY <1>1, <2>1 DEF AllocateFails
<1> QED
  BY <1>2, Typed, CancelTyped DEF AllocateFails, faults

\* ExpandFile keeps the types.
LEMMA ExpandFileTyped ==
    ASSUME TypeInv, NEW p \in Proc, ExpandFile(p), 1 < tx[p].old
    PROVE  TypeInv'
<1>1. pc' = [pc EXCEPT ![p] = "write"] /\ "write" \in Pc
  BY DEF ExpandFile, Go, Pc, Committing
<1>2. tx[p].old \in 2..MaxSize /\ tx[p].map \in 0..MaxSize
  BY Typed DEF TxType, IsTx
<1>3. FileType(file')
  BY <1>2, Typed, ExpandTyped DEF ExpandFile
<1> QED
  BY <1>1, <1>3, Typed, FileStepTyped DEF ExpandFile, faults

\* A word of the transaction or of the recovery record is written.
LEMMA WriteElementTyped ==
    ASSUME TypeInv, NEW p \in Proc, NEW o \in Off, WriteElement(p, o)
    PROVE  TypeInv'
<1> DEFINE e == tx[p].elems
           u == [x \in DOMAIN e \ {o} |-> e[x]]
           t == [tx[p] EXCEPT !.elems = u]
<1>1. TxType(tx[p]) /\ IsWords(e) /\ o \in DOMAIN e
  BY Typed DEF WriteElement, TxType, IsTx
<1>2. FileType(file')
  BY <1>1, Typed, WordTyped DEF WriteElement, IsWords
<1>3. IsWords(u) /\ DOMAIN u \subseteq Off
  BY <1>1 DEF IsWords
<1>4. tx' = [tx EXCEPT ![p] = t]
  BY DEF WriteElement
<1> HIDE DEF u
<1>5. TxType(t)
  BY <1>1, <1>3 DEF TxType, IsTx, TxShape
<1> HIDE DEF t
<1> QED
  BY <1>2, <1>4, <1>5, SamePlace, StepTyped, Typed DEF WriteElement, faults

\* The words a record takes up.
LEMMA TakenCount ==
    ASSUME TypeInv, NEW p \in Proc
    PROVE  LET n == tdb_recovery_size(tx[p].elems, tx[p].eof)
           IN  /\ n \in Nat /\ tx[p].where \in Nat
               /\ Taken(p) = tx[p].where..tx[p].where + n
               /\ Cardinality(Taken(p)) = n + 1
<1> DEFINE n == tdb_recovery_size(tx[p].elems, tx[p].eof)
<1>1. n \in Nat
  <2>1. Saved(tx[p].elems, tx[p].eof) \subseteq Off
    BY Typed DEF Saved, TxType, TxShape
  <2> QED
    BY <2>1, SizeOfWords DEF tdb_recovery_size
<1>2. tx[p].where \in Nat
  BY Typed, TdbAssumption DEF TxType, TxShape, Off
<1> HIDE DEF n
<1>3. Cardinality(tx[p].where..tx[p].where + n) = n + 1
  BY <1>1, <1>2, FS_Interval
<1> QED
  BY <1>1, <1>2, <1>3 DEF Taken, n

\* The fields of the file once the record is written.
LEMMA RecordFields ==
    ASSUME TypeInv, NEW p \in Proc, WriteRecord(p), 1 < tx[p].where
    PROVE  LET w == tx[p].where
               end == w + Cardinality(Taken(p))
               size == IF end > file.size THEN end ELSE file.size
               data == [o \in Off |-> IF o \in Taken(p) THEN Pad ELSE file.data[o]]
               saved == [o \in Saved(tx[p].elems, tx[p].eof) |-> file.data[o]]
           IN  /\ FileType(file')
               /\ Fields(file', size, file.head, data, file.magic \ {w},
                         [file.max EXCEPT ![w] = tx[p].room],
                         [file.log EXCEPT ![w] = [eof |-> tx[p].eof, saved |-> saved]])
<1> DEFINE w == tx[p].where
           end == w + Cardinality(Taken(p))
           size == IF end > file.size THEN end ELSE file.size
           data == [o \in Off |-> IF o \in Taken(p) THEN Pad ELSE file.data[o]]
           saved == [o \in Saved(tx[p].elems, tx[p].eof) |-> file.data[o]]
           max == [file.max EXCEPT ![w] = tx[p].room]
           log == [file.log EXCEPT ![w] = [eof |-> tx[p].eof, saved |-> saved]]
<1>0. FileType(file) /\ TxType(tx[p])
  BY Typed
<1>1. Fields(file', size, file.head, data, file.magic \ {w}, max, log)
  <2>1. file' = [file EXCEPT !.size = size, !.data = data, !.magic = @ \ {w},
                             !.max = max, !.log = log]
    BY DEF WriteRecord
  <2> HIDE DEF size, data, max, log
  <2> QED
    BY <1>0, <2>1 DEF Fields, FileType, FileShape
<1>2. size \in 0..MaxSize
  <2>1. w + (Cardinality(Taken(p)) - 1) \in Taken(p) /\ Cardinality(Taken(p)) \in Nat /\ w \in Nat
    BY TakenCount
  <2>2. w + (Cardinality(Taken(p)) - 1) < tx[p].map
    BY <2>1 DEF WriteRecord
  <2>3. tx[p].map \in 0..MaxSize /\ file.size \in 0..MaxSize /\ MaxSize \in Nat
    BY <1>0, TypeOfFile, TdbAssumption DEF TxType, IsTx
  <2> QED
    BY <2>1, <2>2, <2>3
<1>3. DOMAIN data = Off /\ IsWords(data)
  <2>1. Heads \notin Taken(p)
    BY TakenCount DEF Heads
  <2> QED
    BY <1>0, <2>1, TypeOfFile, PaddedWords
<1>4. max \in [Off -> 0..Huge] /\ file.magic \ {w} \in SUBSET Off
  BY <1>0, TypeOfFile DEF TxType, IsTx
<1>5. IsLog(log)
  <2>1. IsWords(saved)
    BY <1>0, TypeOfFile DEF IsWords, Saved, TxType, IsTx
  <2>2. tx[p].eof \in 0..MaxSize
    BY <1>0 DEF TxType, IsTx
  <2> HIDE DEF saved
  <2> QED
    BY <1>0, <2>1, <2>2, TypeOfFile DEF IsLog
<1> HIDE DEF size, data, max, log
<1>6. FileType(file')
  BY <1>0, <1>1, <1>2, <1>3, <1>4, <1>5, TypeOfFile, FieldsTyped
<1> QED
  BY <1>1, <1>6 DEF size, data, max, log

\* WriteRecord keeps the types.
LEMMA WriteRecordTyped ==
    ASSUME TypeInv, NEW p \in Proc, WriteRecord(p), 1 < tx[p].where
    PROVE  TypeInv'
<1>1. pc' = [pc EXCEPT ![p] = "sync1"] /\ "sync1" \in Pc
  BY DEF WriteRecord, Go, Pc, Committing
<1> QED
  BY <1>1, RecordFields, Typed, FileStepTyped DEF WriteRecord, faults

-----------------------------------------------------------------------------
(* Types outside the commit *)

\* ReadRecord keeps the types.
LEMMA ReadRecordTyped ==
    ASSUME TypeInv, NEW p \in Proc, ReadRecord(p)
    PROVE  TypeInv'
<1> DEFINE log == file.log[file.head]
           t1 == [tx[p] EXCEPT !.elems = log.saved]
           t2 == [t1 EXCEPT !.where = file.head]
           t == [t2 EXCEPT !.eof = log.eof]
<1>1. tx' = [tx EXCEPT ![p] = t] /\ pc' = [pc EXCEPT ![p] = "restore"] /\ "restore" \in Pc
  BY DEF ReadRecord, Go, Pc, Recovering
<1>2. /\ TxType(tx[p]) /\ file.head \in Off
      /\ IsWords(log.saved) /\ log.eof \in 0..MaxSize /\ log.eof \in Nat
  BY Typed, TypeOfFile, TdbAssumption DEF IsLog
<1> HIDE DEF log
<1>3. TxType(t1)
  BY <1>2 DEF TxType, IsTx, TxShape, IsWords
<1> HIDE DEF t1
<1>4. TxType(t2)
  BY <1>2, <1>3 DEF TxType, IsTx, TxShape
<1> HIDE DEF t2
<1>5. TxType(t)
  BY <1>2, <1>4 DEF TxType, IsTx, TxShape
<1> HIDE DEF t
<1> QED
  BY <1>1, <1>5, QuietStepTyped DEF ReadRecord, faults

\* Steps outside commit and recovery keep the types.
LEMMA OutsideTyped ==
    ASSUME TypeInv, NEW p \in Proc,
           \/ tdb_open_ex(p) \/ tdb_close(p) \/ tdb_lockall_read(p) \/ tdb_unlockall_read(p)
           \/ NothingToRecover(p) \/ RecoverFails(p)
    PROVE  TypeInv'
<1>1. \E x \in Pc : pc' = [pc EXCEPT ![p] = x]
  BY DEF tdb_open_ex, tdb_close, tdb_lockall_read, tdb_unlockall_read, NothingToRecover,
         RecoverFails, Leave, Go, Pc, Recovering
<1>2. tx' = tx \/ tx' = [tx EXCEPT ![p] = NoTx]
  BY DEF tdb_open_ex, tdb_close, tdb_lockall_read, tdb_unlockall_read, NothingToRecover,
         RecoverFails, Leave
<1>3. UNCHANGED <<file, disk, begun, kills, cuts, backs, db>>
  BY DEF tdb_open_ex, tdb_close, tdb_lockall_read, tdb_unlockall_read, NothingToRecover,
         RecoverFails, faults
<1> QED
  BY <1>1, <1>2, <1>3, NoTxTyped, QuietStepTyped

\* A kill keeps the types.
LEMMA KillTyped ==
    ASSUME TypeInv, NEW p \in Proc, Kill(p)
    PROVE  TypeInv'
<1>1. kills' \in 0..MaxKills
  BY Typed, TdbAssumption DEF Kill
<1>2. pc' = [pc EXCEPT ![p] = "closed"] /\ tx' = [tx EXCEPT ![p] = NoTx] /\ "closed" \in Pc
  BY DEF Kill, Leave, Go, Pc
<1> QED
  BY <1>1, <1>2, NoTxTyped, StepTyped, Typed DEF Kill

\* What the write of one place makes of the disk d of a file f.
BackOf(g, f, d) ==
    /\ FileType(g)
    /\ g.size \in {f.size, d.size} /\ g.head \in {f.head, d.head}
    /\ \A o \in Off :
         /\ g.data[o] \in {f.data[o], d.data[o]}
         /\ g.max[o] \in {f.max[o], d.max[o]} /\ g.log[o] \in {f.log[o], d.log[o]}
         /\ o \in g.magic => o \in d.magic \/ (o \in f.magic /\ o \in {f.head, d.head})
         /\ o \in f.magic \cap d.magic => o \in g.magic

\* A record is written.
LEMMA RecordTyped ==
    ASSUME NEW f, FileType(f), NEW o \in Off, NEW m \in 0..Huge, NEW l,
           l.eof \in 0..MaxSize, IsWords(l.saved)
    PROVE  LET g == [f EXCEPT !.max[o] = m, !.log[o] = l]
           IN  /\ FileType(g)
               /\ Fields(g, f.size, f.head, f.data, f.magic,
                         [f.max EXCEPT ![o] = m], [f.log EXCEPT ![o] = l])
<1> DEFINE g == [f EXCEPT !.max[o] = m, !.log[o] = l]
           max == [f.max EXCEPT ![o] = m]
           log == [f.log EXCEPT ![o] = l]
<1>1. Fields(g, f.size, f.head, f.data, f.magic, max, log)
  BY DEF Fields, FileType, FileShape
<1>2. max \in [Off -> 0..Huge] /\ IsLog(log)
  BY TypeOfFile DEF IsLog
<1> HIDE DEF g, max, log
<1>3. FileType(g)
  BY <1>1, <1>2, TypeOfFile, FieldsTyped
<1> QED
  BY <1>1, <1>3 DEF g, max, log

\* One place of the disk gets what the file has there.
LEMMA BackLeaves ==
    ASSUME FileType(file), FileType(disk), WriteBack
    PROVE  BackOf(disk', file, disk) /\ disk # file
<1>1. CASE \E o \in DirtyWords : disk' = [disk EXCEPT !.data[o] = file.data[o]]
  <2>1. PICK o \in DirtyWords : disk' = [disk EXCEPT !.data[o] = file.data[o]]
    BY <1>1
  <2>2. o \in Off /\ file.data[o] \in Word(o) /\ file.data[o] # disk.data[o] /\ DOMAIN disk.data = Off
    BY TypeOfFile DEF DirtyWords, IsWords
  <2>3. FileType(disk') /\ Fields(disk', disk.size, disk.head, [disk.data EXCEPT ![o] = file.data[o]],
                                 disk.magic, disk.max, disk.log)
    BY <2>1, <2>2, WordTyped
  <2> QED
    BY <2>2, <2>3 DEF BackOf, Fields
<1>2. CASE \E o \in DirtyRecords :
             disk' = [disk EXCEPT !.max[o] = file.max[o], !.log[o] = file.log[o]]
  <2>1. PICK o \in DirtyRecords :
           disk' = [disk EXCEPT !.max[o] = file.max[o], !.log[o] = file.log[o]]
    BY <1>2
  <2>2. /\ o \in Off /\ file.max[o] \in 0..Huge /\ file.log[o].eof \in 0..MaxSize
        /\ IsWords(file.log[o].saved) /\ disk # file
        /\ DOMAIN disk.max = Off /\ DOMAIN disk.log = Off
    BY TypeOfFile DEF DirtyRecords, IsLog
  <2>3. FileType(disk') /\ Fields(disk', disk.size, disk.head, disk.data, disk.magic,
                [disk.max EXCEPT ![o] = file.max[o]], [disk.log EXCEPT ![o] = file.log[o]])
    BY <2>1, <2>2, RecordTyped
  <2> QED
    BY <2>2, <2>3 DEF BackOf, Fields
<1>3. CASE \E o \in DirtyMagic :
             disk' = [disk EXCEPT !.magic = (@ \ {o}) \cup (file.magic \cap {o})]
  <2>1. PICK o \in DirtyMagic :
           disk' = [disk EXCEPT !.magic = (@ \ {o}) \cup (file.magic \cap {o})]
    BY <1>3
  <2> DEFINE m == (disk.magic \ {o}) \cup (file.magic \cap {o})
  <2>2. m \in SUBSET Off /\ disk # file /\ o \in {file.head, disk.head}
    BY TypeOfFile DEF DirtyMagic
  <2>3. disk' = [disk EXCEPT !.magic = m]
    BY <2>1
  <2>4. FileType(disk') /\ Fields(disk', disk.size, disk.head, disk.data, m, disk.max, disk.log)
    <3> HIDE DEF m
    <3> QED
      BY <2>2, <2>3, MagicTyped
  <2> QED
    BY <2>2, <2>4 DEF BackOf, Fields
<1>4. CASE disk.head # file.head /\ disk' = [disk EXCEPT !.head = file.head]
  <2>1. FileType(disk') /\ Fields(disk', disk.size, file.head, disk.data, disk.magic, disk.max, disk.log)
    BY <1>4, TypeOfFile, HeadTyped
  <2> QED
    BY <1>4, <2>1 DEF BackOf, Fields
<1>5. CASE disk.size # file.size /\ disk' = [disk EXCEPT !.size = file.size]
  <2>1. FileType(disk') /\ Fields(disk', file.size, disk.head, disk.data, disk.magic, disk.max, disk.log)
    BY <1>5, TypeOfFile, TruncateTyped
  <2> QED
    BY <1>5, <2>1 DEF BackOf, Fields
<1> QED
  BY <1>1, <1>2, <1>3, <1>4, <1>5 DEF WriteBack

\* A write that reaches the disk keeps the types.
LEMMA WriteBackTyped ==
    ASSUME TypeInv, WriteBack
    PROVE  TypeInv'
<1>1. FileType(disk')
  BY Typed, BackLeaves DEF BackOf
<1>2. backs' \in 0..MaxBacks
  <2>1. backs < MaxBacks /\ backs' = backs + 1
    BY DEF WriteBack
  <2> QED
    BY <2>1, Typed, TdbAssumption
<1>3. UNCHANGED <<file, pc, tx, begun, kills, cuts, db>>
  BY DEF WriteBack
<1> QED
  BY <1>1, <1>2, <1>3, Typed DEF TypeInv, TypeOK, Shape, FileType, TxType, DbType

\* What a power cut leaves of a file f with the disk d.
CutOf(g, f, d) ==
    /\ FileType(g)
    /\ g.size \in {f.size, d.size} /\ g.head \in {f.head, d.head}
    /\ \A o \in Off :
         /\ o = Heads \/ o < g.size => g.data[o] \in {f.data[o], d.data[o]}
         /\ o < g.size => g.max[o] \in {f.max[o], d.max[o]} /\ g.log[o] \in {f.log[o], d.log[o]}
         /\ g.size <= o => g.max[o] = 0 /\ o \notin g.magic
         /\ o \in g.magic => o \in f.magic \cup d.magic
         /\ o < g.size /\ o \in f.magic \cap d.magic => o \in g.magic

\* What a power cut leaves is a mixture of file and disk.
LEMMA ImageFields ==
    ASSUME FileType(file), FileType(disk),
           NEW size \in {file.size, disk.size}, NEW head \in {file.head, disk.head},
           NEW words \in SUBSET DirtyWords, NEW records \in SUBSET DirtyRecords,
           NEW magic \in SUBSET DirtyMagic
    PROVE  CutOf(Image(size, head, words, records, magic), file, disk)
<1> DEFINE g == Image(size, head, words, records, magic)
           data == [o \in Off |-> IF o \in words THEN disk.data[o] ELSE file.data[o]]
           max == [o \in Off |-> IF o \in records THEN disk.max[o] ELSE file.max[o]]
           log == [o \in Off |-> IF o \in records THEN disk.log[o] ELSE file.log[o]]
           ms == (file.magic \ magic) \cup (disk.magic \cap magic)
           f == [file EXCEPT !.size = size, !.head = head, !.data = data, !.max = max,
                             !.log = log, !.magic = ms]
<1>1. Fields(f, size, head, data, ms, max, log)
  <2> HIDE DEF data, max, log, ms
  <2> QED
    BY DEF Fields, FileType, FileShape
<1>2. g = Trim(f)
  BY DEF Image
<1>3. DOMAIN data = Off /\ IsWords(data)
  BY TypeOfFile DEF IsWords
<1>4. ms \in SUBSET Off /\ max \in [Off -> 0..Huge] /\ size \in 0..MaxSize /\ head \in Off
  BY TypeOfFile
<1>5. IsLog(log)
  BY TypeOfFile DEF IsLog
<1> HIDE DEF f, g
<1>6. /\ FileType(f)
      /\ f.size = size /\ f.head = head /\ f.data = data /\ f.magic = ms /\ f.max = max /\ f.log = log
  <2> HIDE DEF data, max, log, ms
  <2> QED
    BY <1>1, <1>3, <1>4, <1>5, FieldsTyped
<1>7. /\ FileType(g)
      /\ Fields(g, size, head,
                [o \in Off |-> IF o = Heads \/ o < size THEN data[o] ELSE Pad],
                {o \in ms : o < size},
                [o \in Off |-> IF o < size THEN max[o] ELSE 0],
                [o \in Off |-> IF o < size THEN log[o] ELSE NoLog])
  <2> HIDE DEF data, max, log, ms
  <2> QED
    BY <1>2, <1>6, TrimTyped
<1>8. /\ g.size = size /\ g.head = head
      /\ g.data = [o \in Off |-> IF o = Heads \/ o < size THEN data[o] ELSE Pad]
      /\ g.magic = {o \in ms : o < size}
      /\ g.max = [o \in Off |-> IF o < size THEN max[o] ELSE 0]
      /\ g.log = [o \in Off |-> IF o < size THEN log[o] ELSE NoLog]
  <2> HIDE DEF data, max, log, ms
  <2> QED
    BY <1>7 DEF Fields
<1>9. ASSUME NEW o \in Off
      PROVE  /\ o = Heads \/ o < size => g.data[o] \in {file.data[o], disk.data[o]}
             /\ o < size => /\ g.max[o] \in {file.max[o], disk.max[o]}
                            /\ g.log[o] \in {file.log[o], disk.log[o]}
             /\ size <= o => g.max[o] = 0 /\ o \notin g.magic
             /\ o \in g.magic => o \in file.magic \cup disk.magic
             /\ o < size /\ o \in file.magic \cap disk.magic => o \in g.magic
  <2>1. o \in Nat /\ size \in Nat
    BY <1>4, TdbAssumption DEF Off
  <2> QED
    BY <1>8, <2>1
<1>10. CutOf(g, file, disk)
  BY <1>7, <1>8, <1>9 DEF CutOf
<1> QED
  BY <1>10 DEF g

\* After a power cut file and disk are such a mixture.
LEMMA CutLeaves ==
    ASSUME FileType(file), FileType(disk), PowerCut
    PROVE  disk' = file' /\ CutOf(file', file, disk)
<1>1. PICK size \in {file.size, disk.size}, head \in {file.head, disk.head},
           words \in SUBSET DirtyWords, records \in SUBSET DirtyRecords,
           magic \in SUBSET DirtyMagic :
             /\ file' = Image(size, head, words, records, magic)
             /\ disk' = Image(size, head, words, records, magic)
  BY DEF PowerCut
<1> QED
  BY <1>1, ImageFields

\* A sync is a power cut that loses nothing.
LEMMA TrimCuts ==
    ASSUME NEW f, FileType(f)
    PROVE  CutOf(Trim(f), f, f)
<1> DEFINE g == Trim(f)
<1>1. /\ FileType(g)
      /\ Fields(g, f.size, f.head,
                [o \in Off |-> IF o = Heads \/ o < f.size THEN f.data[o] ELSE Pad],
                {o \in f.magic : o < f.size},
                [o \in Off |-> IF o < f.size THEN f.max[o] ELSE 0],
                [o \in Off |-> IF o < f.size THEN f.log[o] ELSE NoLog])
  BY TrimTyped
<1> HIDE DEF g
<1>2. /\ g.size = f.size /\ g.head = f.head
      /\ g.data = [o \in Off |-> IF o = Heads \/ o < f.size THEN f.data[o] ELSE Pad]
      /\ g.magic = {o \in f.magic : o < f.size}
      /\ g.max = [o \in Off |-> IF o < f.size THEN f.max[o] ELSE 0]
      /\ g.log = [o \in Off |-> IF o < f.size THEN f.log[o] ELSE NoLog]
  BY <1>1 DEF Fields
<1>3. f.size \in Nat /\ \A o \in Off : o \in Nat
  BY TypeOfFile, TdbAssumption DEF Off
<1>4. CutOf(g, f, f)
  BY <1>1, <1>2, <1>3 DEF CutOf
<1> QED
  BY <1>4 DEF g

\* A power cut keeps the types.
LEMMA PowerCutTyped ==
    ASSUME TypeInv, PowerCut
    PROVE  TypeInv'
<1>1. FileType(file') /\ FileType(disk')
  BY Typed, CutLeaves DEF CutOf
<1>2. \A p \in Proc : pc'[p] = "closed" /\ TxType(tx'[p])
  BY NoTxTyped DEF PowerCut
<1>3. DOMAIN tx' = Proc /\ pc' \in [Proc -> Pc] /\ DOMAIN pc' = Proc
  BY DEF PowerCut, Pc
<1>4. cuts' \in 0..MaxCuts
  BY Typed, TdbAssumption DEF PowerCut
<1>5. UNCHANGED <<begun, kills, backs, db>>
  BY DEF PowerCut
<1> QED
  BY <1>1, <1>2, <1>3, <1>4, <1>5, Typed
  DEF TypeInv, TypeOK, Shape, FileType, TxType, DbType

\* Types in the initial states.
LEMMA InitTyped == Init => TypeInv
<1> SUFFICES ASSUME Init PROVE TypeInv
  OBVIOUS
<1> DEFINE data == [o \in Off |-> IF o = Heads THEN 2..FirstSize - 1 ELSE Pad]
           max == [o \in Off |-> 0]
           log == [o \in Off |-> NoLog]
<1>1. FileType(NewDatabase) /\ NewDatabase.data = data
  <2>1. Fields(NewDatabase, FirstSize, 0, data, {}, max, log)
    BY DEF NewDatabase, Fields
  <2>2. FirstSize \in 0..MaxSize /\ 0 \in Off
    BY TdbAssumption, PadTyped
  <2>3. DOMAIN data = Off /\ IsWords(data)
    BY TdbAssumption DEF IsWords, Word, Off
  <2>4. max \in [Off -> 0..Huge] /\ IsLog(log)
    BY PadTyped, NoLogTyped DEF IsLog
  <2>5. {} \in SUBSET Off
    OBVIOUS
  <2> HIDE DEF data, max, log
  <2> QED
    BY <2>1, <2>2, <2>3, <2>4, <2>5, FieldsTyped
<1>2. DbType(db)
  BY <1>1, TypeOfFile, ContentsTyped DEF Init, DbType
<1>3. \A p \in Proc : pc[p] = "closed" /\ TxType(tx[p])
  BY NoTxTyped DEF Init
<1>4. DOMAIN tx = Proc /\ pc \in [Proc -> Pc] /\ DOMAIN pc = Proc
  BY DEF Init, Pc
<1>5. begun \in 0..MaxBegun /\ kills \in 0..MaxKills /\ cuts \in 0..MaxCuts /\ backs \in 0..MaxBacks
  BY TdbAssumption DEF Init
<1> QED
  BY <1>1, <1>2, <1>3, <1>4, <1>5 DEF Init, TypeInv, TypeOK, Shape, FileType, TxType, DbType

-----------------------------------------------------------------------------
(* What power cuts and syncs keep *)

IsContents(c) == DOMAIN c = Off /\ IsWords(c)

\* The reachable words are words of the file.
LEMMA ReachTyped ==
    ASSUME NEW c, IsContents(c)
    PROVE  c[Heads] \subseteq Off
  BY PadTyped DEF IsContents, IsWords, Word

\* Sizes, heads and words are numbers.
LEMMA Numbers ==
    ASSUME NEW f, FileType(f)
    PROVE  /\ f.size \in Nat /\ f.head \in Nat /\ f.head \in Off
           /\ \A o \in Off : o \in Nat /\ f.max[o] \in Nat
           /\ \A o \in Off : f.log[o].eof \in Nat /\ DOMAIN f.log[o].saved \subseteq Off
  BY TypeOfFile, TdbAssumption DEF Off, Huge, IsLog, IsWords

\* An area that is free of R and ends before s is free of a part of R.
LEMMA WithinOther ==
    ASSUME NEW h, NEW m, NEW s, NEW u, NEW R, NEW Q, Within(h, m, s, R), Within(h, m, u, {}), Q \subseteq R
    PROVE  Within(h, m, u, Q)
  BY DEF Within

\* No magic lies behind the end of what a power cut leaves.
LEMMA CutMagic ==
    ASSUME NEW f, NEW d, NEW g, CutOf(g, f, d)
    PROVE  \A o \in g.magic : o < g.size
<1>1. \A o \in g.magic : o \in Off /\ o \in Nat /\ g.size \in Nat
  BY Numbers, TypeOfFile DEF CutOf
<1> QED
  BY <1>1 DEF CutOf

\* Contents that file and disk show, a power cut leaves.
LEMMA CutShows ==
    ASSUME NEW f, NEW d, NEW g, NEW c, FileType(f), FileType(d), CutOf(g, f, d), IsContents(c),
           Shows(f, c), Shows(d, c)
    PROVE  Shows(g, c)
<1>1. Heads \in Off /\ c[Heads] \subseteq Off
  BY PadTyped, ReachTyped
<1>2. g.data[Heads] = c[Heads]
  BY <1>1 DEF CutOf, Shows
<1>3. \A o \in c[Heads] : o < g.size
  BY DEF CutOf, Shows
<1>4. \A o \in c[Heads] : g.data[o] = c[o]
  BY <1>1, <1>3 DEF CutOf, Shows
<1> QED
  BY <1>2, <1>3, <1>4 DEF Shows

\* A file without a record stays one, or its head lies behind its end.
LEMMA CutClean ==
    ASSUME NEW f, NEW d, NEW g, NEW c, FileType(f), FileType(d), CutOf(g, f, d), IsContents(c),
           Clean(f, d, c, 0)
    PROVE  1 < g.size /\ (g.size <= g.head \/ Clean(g, g, c, 0))
<1>0. 1 < g.size
  BY Numbers DEF Clean, CutOf
<1> SUFFICES ASSUME ~ (g.size <= g.head) PROVE Clean(g, g, c, 0)
  BY <1>0
<1>1. FileType(g) /\ g.head < g.size /\ g.size \in {f.size, d.size} /\ g.head \in {f.head, d.head} /\ g.head \in Off
  BY Numbers DEF CutOf
<1>2. /\ Shows(g, c) /\ (\A o \in c[Heads] : 1 < o) /\ 1 < g.size /\ g.size <= g.size
      /\ \A o \in g.magic : o < g.size
  BY <1>1, CutShows, CutMagic, Numbers DEF Clean
<1>3. ASSUME g.head # 0
      PROVE  /\ 1 < g.head /\ g.head \notin g.magic
             /\ Within(g.head, g.max[g.head], g.size, c[Heads])
  <2>1. 1 < g.head /\ g.head \notin f.magic \cup d.magic
    BY <1>1, <1>3 DEF Clean
  <2>2. g.head \notin g.magic /\ g.max[g.head] \in {f.max[g.head], d.max[g.head]}
    BY <1>1, <2>1 DEF CutOf
  <2>3. /\ Within(g.head, f.max[g.head], g.size, c[Heads])
        /\ Within(g.head, d.max[g.head], g.size, c[Heads])
    BY <1>1, <1>3 DEF Clean
  <2> QED
    BY <2>1, <2>2, <2>3
<1> QED
  BY <1>1, <1>2, <1>3 DEF Clean

\* A file with a record keeps it whole, or shows the contents without it, or
\* its head lies behind its end.
LEMMA CutEither ==
    ASSUME NEW f, NEW d, NEW g, NEW w \in Off, NEW old, NEW new, NEW c,
           FileType(f), FileType(d), CutOf(g, f, d),
           IsContents(old), IsContents(new), IsContents(c), c \in {old, new},
           Either(f, d, w, old, new, c)
    PROVE  /\ 1 < g.size
           /\ \/ g.size <= g.head
              \/ Clean(g, g, c, 0)
              \/ Redo(g, g, w, old, new) /\ g.head = w
<1>0. Logged(f, d, w, old, new) /\ 1 < g.size
  <2>1. Logged(f, d, w, old, new)
    BY DEF Either
  <2> QED
    BY <2>1, Numbers DEF Logged, CutOf
<1> SUFFICES ASSUME ~ (g.size <= g.head)
             PROVE  Clean(g, g, c, 0) \/ (Redo(g, g, w, old, new) /\ g.head = w)
  BY <1>0
<1>1. /\ FileType(g) /\ g.head < g.size /\ g.size \in {f.size, d.size} /\ g.head \in {0, w}
      /\ g.size \in Nat /\ w \in Nat
  BY Numbers DEF CutOf, Either
<1>2. /\ (\A o \in c[Heads] : 1 < o) /\ 1 < g.size /\ g.size <= g.size
      /\ \A o \in g.magic : o < g.size
  <2>1. 1 < f.log[w].eof /\ f.log[w].eof \in Nat
    BY <1>0, Numbers DEF Logged
  <2> QED
    BY <1>0, <1>1, <2>1, CutMagic, Numbers DEF Logged
<1>3. CASE g.head = 0
  <2>1. f.head = 0
    BY <1>0, <1>1, <1>3 DEF Either, CutOf, Logged
  <2>2. Shows(g, c)
    BY <2>1, CutShows DEF Either
  <2> QED
    BY <1>1, <1>2, <1>3, <2>2 DEF Clean
<1>4. CASE g.head = w
  <2>1. /\ g.max[w] = f.max[w] /\ g.log[w] = f.log[w] /\ w < g.size /\ 1 < w
    BY <1>0, <1>1, <1>4 DEF CutOf, Logged
  <2>2. Within(w, g.max[w], g.size, old[Heads] \cup new[Heads])
    <3>1. Within(w, f.max[w], g.size, {})
      BY <1>0, <1>1, <2>1 DEF Logged
    <3>2. \A o \in w..w + f.max[w] : o \notin old[Heads] \cup new[Heads]
      BY <1>0 DEF Logged
    <3> QED
      BY <2>1, <3>1, <3>2 DEF Within
  <2>3. CASE w \notin g.magic
    <3>1. w \notin f.magic \cap d.magic
      BY <2>1, <2>3 DEF CutOf
    <3>2. Shows(g, c)
      BY <3>1, CutShows DEF Either
    <3>3. Within(w, g.max[w], g.size, c[Heads])
      BY <2>2 DEF Within
    <3> QED
      BY <1>1, <1>2, <1>4, <2>1, <2>3, <3>2, <3>3 DEF Clean
  <2>4. CASE w \in g.magic
    <3> DEFINE log == f.log[w]
    <3>1. /\ 1 < log.eof /\ log.eof <= g.size /\ (\A o \in old[Heads] \cup new[Heads] : 1 < o)
          /\ Heads \in DOMAIN log.saved /\ log.saved[Heads] = old[Heads]
          /\ Cardinality(DOMAIN log.saved) <= g.max[w]
      BY <1>0, <1>1, <2>1 DEF Logged
    <3>2. \A o \in old[Heads] :
            /\ o < log.eof
            /\ IF o \in DOMAIN log.saved THEN log.saved[o] = old[o] ELSE g.data[o] = old[o]
      <4> SUFFICES ASSUME NEW o \in old[Heads]
                   PROVE  /\ o < log.eof
                          /\ IF o \in DOMAIN log.saved THEN log.saved[o] = old[o] ELSE g.data[o] = old[o]
        OBVIOUS
      <4>1. o \in Off /\ o \in Nat /\ log.eof \in Nat
        BY ReachTyped, Numbers
      <4>2. /\ o < log.eof
            /\ IF o \in DOMAIN log.saved THEN log.saved[o] = old[o] ELSE f.data[o] = old[o] /\ d.data[o] = old[o]
        BY <1>0 DEF Logged
      <4>3. g.data[o] \in {f.data[o], d.data[o]}
        BY <1>1, <3>1, <4>1, <4>2 DEF CutOf
      <4> QED
        BY <4>2, <4>3
    <3>3. g.data[Heads] \in {old[Heads], new[Heads]}
      <4>1. g.data[Heads] \in {f.data[Heads], d.data[Heads]}
        BY PadTyped DEF CutOf
      <4> QED
        BY <1>0, <4>1 DEF Logged
    <3>4. \A s \in {g.size, log.eof} : w < s => Within(w, g.max[w], s, {})
      <4>1. Within(w, g.max[w], g.size, {})
        BY <2>2 DEF Within
      <4>2. w < log.eof => Within(w, f.max[w], log.eof, {})
        BY <1>0 DEF Logged
      <4> QED
        BY <2>1, <4>1, <4>2
    <3>5. Logged(g, g, w, old, new)
      <4>1. \A o \in w..w + g.max[w] : o \notin old[Heads] \cup new[Heads]
        BY <2>2 DEF Within
      <4> QED
        BY <2>1, <4>1, <3>1, <3>2, <3>3, <3>4 DEF Logged
    <3> QED
      BY <1>4, <2>1, <2>4, <3>5 DEF Redo, Either
  <2> QED
    BY <2>3, <2>4
<1> QED
  BY <1>1, <1>3, <1>4

-----------------------------------------------------------------------------
(* What a write that reaches the disk keeps *)

\* Contents that file and disk show.
LEMMA BackShows ==
    ASSUME NEW f, NEW d, NEW g, NEW c, FileType(f), FileType(d), BackOf(g, f, d), IsContents(c),
           Shows(f, c), Shows(d, c)
    PROVE  Shows(g, c)
<1>1. Heads \in Off /\ c[Heads] \subseteq Off
  BY PadTyped, ReachTyped
<1> QED
  BY <1>1 DEF BackOf, Shows

\* A file without a record.
LEMMA BackClean ==
    ASSUME NEW f, NEW d, NEW g, NEW c, NEW w, FileType(f), FileType(d), BackOf(g, f, d),
           IsContents(c), Clean(f, d, c, w)
    PROVE  Clean(f, g, c, w)
<1>1. /\ FileType(g) /\ g.size \in {f.size, d.size} /\ g.head \in {f.head, d.head}
      /\ f.head \in Off /\ d.head \in Off /\ f.size \in Nat /\ d.size \in Nat
  BY Numbers DEF BackOf
<1>2. Shows(f, c) /\ Shows(g, c) /\ \A o \in c[Heads] : 1 < o
  BY BackShows DEF Clean
<1>3. 1 < g.size /\ g.size <= f.size /\ d.size <= g.size
  BY <1>1 DEF Clean
<1>4. ASSUME NEW o \in g.magic PROVE o < g.size
  <2>1. o \in Off /\ o \in Nat
    BY <1>1, TypeOfFile, Numbers
  <2>2. o \in d.magic \/ o = 0
    BY <2>1, <1>4 DEF BackOf, Clean
  <2>3. o \in d.magic => o < d.size
    BY DEF Clean
  <2> QED
    BY <1>1, <1>3, <2>1, <2>2, <2>3
<1>5. ASSUME NEW h \in {f.head, g.head} \ {0}
      PROVE  /\ 1 < h /\ h < f.size /\ h \notin f.magic \cup g.magic
             /\ h # w => \A s \in {f.size, g.size} : h < s =>
                   /\ Within(h, f.max[h], s, c[Heads])
                   /\ Within(h, g.max[h], s, c[Heads])
  <2>1. h \in {f.head, d.head} \ {0} /\ h \in Off
    BY <1>1
  <2>2. /\ 1 < h /\ h < f.size /\ h \notin f.magic \cup d.magic
        /\ h # w => \A s \in {f.size, d.size} : h < s =>
              /\ Within(h, f.max[h], s, c[Heads])
              /\ Within(h, d.max[h], s, c[Heads])
    BY <2>1 DEF Clean
  <2>3. h \notin g.magic /\ g.max[h] \in {f.max[h], d.max[h]}
    BY <2>1, <2>2 DEF BackOf
  <2> QED
    BY <1>1, <2>2, <2>3
<1> QED
  BY <1>2, <1>3, <1>4, <1>5 DEF Clean

\* A file with a record.
LEMMA BackLogged ==
    ASSUME NEW f, NEW d, NEW g, NEW w \in Off, NEW old, NEW new, FileType(f), FileType(d),
           BackOf(g, f, d), IsContents(old), Logged(f, d, w, old, new)
    PROVE  Logged(f, g, w, old, new)
<1>1. /\ g.size \in {f.size, d.size} /\ g.max[w] \in {f.max[w], d.max[w]}
      /\ g.log[w] \in {f.log[w], d.log[w]} /\ \A o \in Off : g.data[o] \in {f.data[o], d.data[o]}
  BY DEF BackOf
<1>2. Heads \in Off /\ old[Heads] \subseteq Off
  BY PadTyped, ReachTyped
<1> QED
  BY <1>1, <1>2 DEF Logged

\* The same, with what a power cut would leave.
LEMMA BackEither ==
    ASSUME NEW f, NEW d, NEW g, NEW w \in Off, NEW old, NEW new, NEW c, FileType(f), FileType(d),
           BackOf(g, f, d), IsContents(old), IsContents(c), Either(f, d, w, old, new, c)
    PROVE  Either(f, g, w, old, new, c)
<1>1. Logged(f, g, w, old, new)
  BY BackLogged DEF Either
<1>2. f.head \in {0, w} /\ g.head \in {f.head, w}
  BY DEF Either, BackOf
<1>3. w \in f.magic \cap d.magic => w \in f.magic \cap g.magic
  BY DEF BackOf
<1>4. ASSUME f.head = 0 \/ w \notin f.magic \cap g.magic PROVE Shows(f, c) /\ Shows(g, c)
  BY <1>3, <1>4, BackShows DEF Either
<1> QED
  BY <1>1, <1>2, <1>4 DEF Either

\* The same, when the record is the one to go back to.
LEMMA BackRedo ==
    ASSUME NEW f, NEW d, NEW g, NEW w \in Off, NEW old, NEW new, FileType(f), FileType(d),
           BackOf(g, f, d), IsContents(old), Redo(f, d, w, old, new)
    PROVE  Redo(f, g, w, old, new) /\ (w \in d.magic => w \in g.magic)
<1>1. Either(f, g, w, old, new, old)
  BY BackEither DEF Redo
<1>2. w < g.size /\ (w \in d.magic => w \in g.magic)
  BY DEF Redo, BackOf
<1> QED
  BY <1>1, <1>2 DEF Redo

\* What a process knows of file and disk, unless these are the same.
LEMMA BackStage ==
    ASSUME NEW x \in Pc, x # "magic", NEW f, NEW d, NEW g, NEW t, NEW b,
           FileType(f), FileType(d), TxType(t), IsContents(b.old), IsContents(b.new),
           BackOf(g, f, d), Stage(x, f, d, t, b)
    PROVE  Stage(x, f, g, t, b)
<1> DEFINE w == t.where
<1>0. w \in Off /\ g.size \in {f.size, d.size}
  BY DEF TxType, IsTx, BackOf
<1>1. Promised(f, d, t, b) => Promised(f, g, t, b)
  <2>1. Within(w, t.room, f.size, b.old[Heads] \cup b.new[Heads]) => Within(w, t.room, f.size, {})
    BY DEF Within
  <2> QED
    BY <1>0, <2>1 DEF Promised
<1>2. \A v : Clean(f, d, b.old, v) => Clean(f, g, b.old, v)
  BY BackClean
<1>3. w \notin f.magic \cup d.magic => w \notin f.magic \cup g.magic
  BY <1>0 DEF BackOf
<1>4. Redo(f, d, w, b.old, b.new) =>
        Redo(f, g, w, b.old, b.new) /\ (w \in d.magic => w \in g.magic)
  BY <1>0, BackRedo
<1>5. /\ Either(f, d, w, b.old, b.new, b.old) => Either(f, g, w, b.old, b.new, b.old)
      /\ Either(f, d, w, b.old, b.new, b.new) => Either(f, g, w, b.old, b.new, b.new)
  BY <1>0, BackEither
<1>6. /\ Shows(f, b.old) /\ Shows(d, b.old) => Shows(g, b.old)
      /\ Shows(f, b.new) /\ Shows(d, b.new) => Shows(g, b.new)
  BY BackShows
<1> HIDE DEF w
<1>7. x \in Setup => Clean(f, g, b.old, IF Fresh(x, t) THEN w ELSE 0)
  BY <1>2 DEF Stage, w
<1>8. /\ x \in Setup \cup {"sync2", "expand"} => Promised(f, g, t, b)
      /\ x = "head" => w \notin f.magic \cup g.magic /\ t.eof # t.old
  BY <1>1, <1>3 DEF Stage, w
<1>9. /\ x \in Live \cup {"restore", "rhead"} => Redo(f, g, w, b.old, b.new)
      /\ x \in {"sync2", "expand"} => Shows(f, b.old) /\ f.size = g.size
      /\ x \in {"expand", "write", "unmagic"} => w \in g.magic
  BY <1>0, <1>4 DEF Stage, w, Live
<1>10. /\ x \in {"unmagic", "sync4"} => Shows(f, b.new) /\ Shows(g, b.new)
       /\ x = "sync4" =>
             /\ Either(f, g, w, b.old, b.new, b.new)
             /\ f.head = w /\ w < f.size /\ w \notin f.magic
       /\ x \in Ending =>
             /\ Either(f, g, w, b.old, b.new, b.old)
             /\ Shows(f, b.old) /\ Shows(g, b.old)
  BY <1>5, <1>6 DEF Stage, w
<1> QED
  BY <1>7, <1>8, <1>9, <1>10 DEF Stage, w

-----------------------------------------------------------------------------
(* Steps of a process p to a place x *)

Good == Inv /\ TypeInv /\ CrashInv

\* What a commit and its recovery go between.
LEMMA DbContents ==
    ASSUME TypeInv
    PROVE  IsContents(db.old) /\ IsContents(db.new)
  BY Typed DEF DbType, IsContents

\* Outside commit and recovery a process knows nothing of the file.
LEMMA StageElsewhere ==
    ASSUME NEW x \in {"closed", "idle", "reading", "recover"}, NEW f, NEW d, NEW t, NEW b
    PROVE  Stage(x, f, d, t, b)
  BY DEF Stage, Early, Setup, Live, Late, Ending

\* Nobody else commits or recovers.
LEMMA NobodyElse ==
    ASSUME Inv, NEW p \in Proc,
           pc[p] \in (Committing \ {"global"}) \cup (Recovering \ {"recover"})
    PROVE  \A q \in Others(p) : pc[q] \in {"closed", "idle"}
<1>1. CASE pc[p] \in Committing \ {"global"}
  BY <1>1, CommitsAlone
<1>2. CASE pc[p] \in Recovering \ {"recover"}
  BY <1>2 DEF Inv, ReadersSafe, RecoveryAlone
<1> QED
  BY <1>1, <1>2

\* A step of the only process that uses the file.
LEMMA LonelyStep ==
    ASSUME TypeInv, NEW p \in Proc, NEW x \in Pc, \A q \in Others(p) : pc[q] \in {"closed", "idle"},
           pc' = [pc EXCEPT ![p] = x], Stage(x, file', disk', tx'[p], db'),
           x \in Setup \cup Late \/ Resting'
    PROVE  CrashInv'
<1>1. pc'[p] = x /\ \A q \in Proc : q # p => pc'[q] \in {"closed", "idle"}
  BY Typed DEF Others
<1>2. \A q \in Proc : Stage(pc'[q], file', disk', tx'[q], db')
  BY <1>1, StageElsewhere
<1> QED
  BY <1>1, <1>2 DEF CrashInv

\* A step that leaves file, disk and history alone.
LEMMA KeepStep ==
    ASSUME TypeInv, CrashInv, NEW p \in Proc, NEW x \in Pc,
           pc[p] \notin Setup \cup Late, x \notin Setup \cup Late,
           pc' = [pc EXCEPT ![p] = x], \A q \in Others(p) : tx'[q] = tx[q],
           UNCHANGED <<file, disk, cuts, db>>,
           Stage(x, file, disk, tx'[p], db),
           x \in {"closed", "recover"} \/ pc[p] \notin {"closed", "recover"} \/ ~ (file.size <= file.head)
    PROVE  CrashInv'
<1>1. pc'[p] = x /\ \A q \in Others(p) : q \in Proc /\ pc'[q] = pc[q] /\ tx'[q] = tx[q]
  BY Typed DEF Others
<1>2. \A q \in Proc : q = p \/ q \in Others(p)
  BY DEF Others
<1>3. \A q \in Proc : Stage(pc'[q], file', disk', tx'[q], db')
  BY <1>1, <1>2 DEF CrashInv
<1>4. ASSUME \A q \in Proc : pc'[q] \notin Setup \cup Late
      PROVE  Resting'
  <2>1. Resting
    BY <1>1, <1>2, <1>4 DEF CrashInv
  <2>2. CASE /\ 1 < file.size /\ file.size <= file.head /\ file = disk /\ cuts > 0
             /\ \A q \in Proc : pc[q] \in {"closed", "recover"}
    <3>1. \A q \in Proc : pc'[q] \in {"closed", "recover"}
      BY <1>1, <1>2, <2>2
    <3> QED
      BY <2>2, <3>1 DEF Resting
  <2> QED
    BY <2>1, <2>2 DEF Resting
<1> QED
  BY <1>3, <1>4 DEF CrashInv

\* While a process has a transaction without its locks, nobody is in a later
\* step of a commit or of a recovery.
LEMMA NobodyBusy ==
    ASSUME Inv, NEW p \in Proc, pc[p] \in Early, NEW q \in Proc
    PROVE  pc[q] \notin Setup \cup Late
<1>1. CASE q = p
  BY <1>1 DEF Early, Setup, Late, Live, Ending
<1>2. CASE q # p
  <2>1. ~ InTransaction(q)
    BY <1>2 DEF Inv, ReadersSafe, LocksExclude, InTransaction, Early, Others, Committing
  <2>2. pc[q] \notin Recovering \ {"recover"}
    BY <1>2 DEF Inv, ReadersSafe, RecoveryAlone, Early, Others
  <2> QED
    BY <2>1, <2>2 DEF InTransaction, Committing, Recovering, Setup, Late, Live, Ending
<1> QED
  BY <1>1, <1>2

\* A database that is open and in which nobody commits has no record.
LEMMA UsedClean ==
    ASSUME Good, NEW p \in Proc, pc[p] \in {"idle", "reading"} \cup Early,
           \A q \in Proc : pc[q] \notin Setup \cup Late
    PROVE  \E c \in {db.old, db.new} : Clean(file, disk, c, 0)
<1>1. Resting
  BY DEF Good, CrashInv
<1>2. pc[p] \notin {"closed"} \cup Recovering
  BY DEF Early, Recovering
<1>3. ~ Armed
  BY <1>2 DEF Good, Inv, ReadersSafe, ArmedInCommit, Late
<1>4. ~ Redo(file, disk, file.head, db.old, db.new)
  BY <1>3 DEF Armed, Redo, Either, Logged
<1>5. pc[p] \notin {"closed", "recover"}
  BY <1>2 DEF Recovering
<1> QED
  BY <1>1, <1>4, <1>5 DEF Resting

-----------------------------------------------------------------------------
(* Steps before the commit has a place for its record *)

\* Prepared looks at the elements and at two sizes.
LEMMA StageEarly ==
    ASSUME NEW x \in Early, NEW f, NEW d, NEW t, NEW b, Prepared(f, t)
    PROVE  Stage(x, f, d, t, b)
  BY DEF Stage, Early, Setup, Live, Late, Ending

\* A transaction is prepared until it has a place for its record.
LEMMA EarlyPrepared ==
    ASSUME CrashInv, NEW p \in Proc, pc[p] \in Early
    PROVE  Prepared(file, tx[p])
  BY DEF CrashInv, Stage

\* A step of a transaction in memory.
LEMMA EarlyStep ==
    ASSUME Good, NEW p \in Proc, pc[p] \in Early, NEW x \in Early, NEW t, Prepared(file, t),
           pc' = [pc EXCEPT ![p] = x], tx' = [tx EXCEPT ![p] = t] \/ (tx' = tx /\ t = tx[p]),
           UNCHANGED <<file, disk, cuts, db>>
    PROVE  CrashInv'
<1>1. TypeInv /\ CrashInv /\ Inv
  BY DEF Good
<1>2. x \in Pc /\ x \notin Setup \cup Late /\ pc[p] \notin Setup \cup Late
  BY DEF Pc, Early, Setup, Late, Live, Ending, Committing
<1>3. tx'[p] = t /\ \A q \in Others(p) : tx'[q] = tx[q]
  BY <1>1, Typed DEF Others
<1>4. pc[p] \notin {"closed", "recover"}
  BY DEF Early
<1>5. Stage(x, file, disk, tx'[p], db)
  BY <1>3, StageEarly
<1> QED
  BY <1>1, <1>2, <1>3, <1>4, <1>5, KeepStep

\* A step out of the transaction.
LEMMA LeaveStep ==
    ASSUME Good, NEW p \in Proc, pc[p] \notin Setup \cup Late,
           NEW x \in {"closed", "idle", "reading", "recover"},
           pc' = [pc EXCEPT ![p] = x], \A q \in Others(p) : tx'[q] = tx[q],
           UNCHANGED <<file, disk, cuts, db>>,
           x \in {"closed", "recover"} \/ pc[p] \notin {"closed", "recover"} \/ ~ (file.size <= file.head)
    PROVE  CrashInv'
<1>1. TypeInv /\ CrashInv
  BY DEF Good
<1>2. x \in Pc /\ x \notin Setup \cup Late
  BY DEF Pc, Setup, Late, Live, Ending, Recovering
<1>3. Stage(x, file, disk, tx'[p], db)
  BY StageElsewhere
<1> QED
  BY <1>1, <1>2, <1>3, KeepStep

\* tdb_transaction_start begins with the reachable words of the file.
LEMMA StartCrash ==
    ASSUME Good, NEW p \in Proc, tdb_transaction_start(p)
    PROVE  CrashInv'
<1> DEFINE e == [o \in {Heads} |-> file.data[Heads]]
           t == [NoTx EXCEPT !.elems = e, !.map = file.size, !.old = file.size]
<1>0. TypeInv /\ CrashInv /\ Inv /\ FileType(file) /\ FileType(disk)
  BY Typed DEF Good
<1>1. /\ pc[p] = "idle" /\ pc' = [pc EXCEPT ![p] = "tx"] /\ tx' = [tx EXCEPT ![p] = t]
      /\ UNCHANGED <<file, disk, cuts, db>>
  BY DEF tdb_transaction_start, Go, faults
<1>2. \A q \in Proc : pc[q] \notin Setup \cup Late
  <2> SUFFICES ASSUME NEW q \in Proc, q # p PROVE pc[q] \notin Setup \cup Late
    BY <1>1 DEF Setup, Late, Live, Ending
  <2>1. ~ InTransaction(q)
    BY DEF tdb_transaction_start, Others
  <2>2. pc[q] \notin Recovering \ {"recover"}
    BY <1>0, <1>1 DEF Inv, ReadersSafe, RecoveryAlone, Others
  <2> QED
    BY <2>1, <2>2 DEF InTransaction, Committing, Recovering, Setup, Late, Live, Ending
<1>3. PICK c \in {db.old, db.new} : Clean(file, disk, c, 0)
  BY <1>1, <1>2, UsedClean
<1>4. 1 < file.size /\ \A o \in file.data[Heads] : 1 < o /\ o < file.size
  BY <1>0, <1>3, Numbers DEF Clean, Shows
<1>5. t.elems = e /\ t.map = file.size /\ t.old = file.size
  BY DEF NoTx
<1>6. Prepared(file, t)
  <2>1. Heads \in DOMAIN e /\ e[Heads] = file.data[Heads] /\ DOMAIN e = {Heads}
    OBVIOUS
  <2> HIDE DEF e, t
  <2> QED
    BY <1>4, <1>5, <2>1 DEF Prepared
<1>7. tx'[p] = t /\ \A q \in Others(p) : tx'[q] = tx[q]
  BY <1>0, <1>1, Typed DEF Others
<1>8. Stage("tx", file, disk, tx'[p], db)
  <2> HIDE DEF t
  <2> QED
    BY <1>6, <1>7, StageEarly DEF Early
<1>9. "tx" \in Pc /\ "tx" \notin Setup \cup Late
  BY DEF Pc, Setup, Late, Live, Ending
<1> QED
  BY <1>0, <1>1, <1>2, <1>7, <1>8, <1>9, KeepStep

\* Steps of a transaction that leave its elements alone.
LEMMA MemoryCrash ==
    ASSUME Good, NEW p \in Proc,
           \/ NestedStart(p) \/ CommitNested(p) \/ \E held \in BOOLEAN : TxLock(p, held)
           \/ tdb_transaction_commit(p) \/ tdb_brlock_upgrade(p) \/ TakeGlobal(p)
    PROVE  CrashInv'
<1>0. TypeInv /\ CrashInv /\ Inv /\ TxType(tx[p])
  BY Typed DEF Good
<1>1. CASE tdb_transaction_commit(p) \/ tdb_brlock_upgrade(p) \/ TakeGlobal(p)
  <2>1. pc[p] \in Early /\ \E x \in Early : pc' = [pc EXCEPT ![p] = x]
    BY <1>1 DEF tdb_transaction_commit, tdb_brlock_upgrade, TakeGlobal, Go, Early
  <2>2. UNCHANGED <<file, disk, tx, cuts, db>>
    BY <1>1 DEF tdb_transaction_commit, tdb_brlock_upgrade, TakeGlobal, faults
  <2> QED
    BY <1>0, <2>1, <2>2, EarlyPrepared, EarlyStep
<1>2. CASE NestedStart(p) \/ CommitNested(p) \/ \E held \in BOOLEAN : TxLock(p, held)
  <2>1. pc[p] = "tx" /\ "tx" \in Early /\ pc' = [pc EXCEPT ![p] = "tx"]
    BY <1>0, <1>2, Typed DEF NestedStart, CommitNested, TxLock, Early
  <2>2. UNCHANGED <<file, disk, cuts, db>>
    BY <1>2 DEF NestedStart, CommitNested, TxLock, faults
  <2>3. \E t : /\ tx' = [tx EXCEPT ![p] = t]
               /\ t.elems = tx[p].elems /\ t.map = tx[p].map /\ t.old = tx[p].old
    <3>1. ASSUME NEW n, tx' = [tx EXCEPT ![p].nesting = n]
          PROVE  \E t : /\ tx' = [tx EXCEPT ![p] = t]
                        /\ t.elems = tx[p].elems /\ t.map = tx[p].map /\ t.old = tx[p].old
      <4>1. LET t == [tx[p] EXCEPT !.nesting = n]
            IN  /\ tx' = [tx EXCEPT ![p] = t]
                /\ t.elems = tx[p].elems /\ t.map = tx[p].map /\ t.old = tx[p].old
        BY <1>0, <3>1 DEF TxType, TxShape
      <4> QED
        BY <4>1
    <3>2. ASSUME NEW l, tx' = [tx EXCEPT ![p].locks = l]
          PROVE  \E t : /\ tx' = [tx EXCEPT ![p] = t]
                        /\ t.elems = tx[p].elems /\ t.map = tx[p].map /\ t.old = tx[p].old
      <4>1. LET t == [tx[p] EXCEPT !.locks = l]
            IN  /\ tx' = [tx EXCEPT ![p] = t]
                /\ t.elems = tx[p].elems /\ t.map = tx[p].map /\ t.old = tx[p].old
        BY <1>0, <3>2 DEF TxType, TxShape
      <4> QED
        BY <4>1
    <3> QED
      BY <1>2, <3>1, <3>2 DEF NestedStart, CommitNested, TxLock
  <2>4. PICK t : /\ tx' = [tx EXCEPT ![p] = t]
                 /\ t.elems = tx[p].elems /\ t.map = tx[p].map /\ t.old = tx[p].old
    BY <2>3
  <2>5. Prepared(file, t)
    BY <1>0, <2>1, <2>4, EarlyPrepared DEF Prepared
  <2> QED
    BY <2>1, <2>2, <2>4, <2>5, EarlyStep
<1> QED
  BY <1>1, <1>2

\* transaction_write changes a reachable word, never the heads.
LEMMA WriteCrash ==
    ASSUME Good, NEW p \in Proc, NEW o \in Off, NEW v \in Val, transaction_write(p, o, v)
    PROVE  CrashInv' /\ o # Heads
<1> DEFINE e == Over(tx[p].elems, [x \in {o} |-> v])
           t == [tx[p] EXCEPT !.elems = e]
<1>0. TypeInv /\ CrashInv /\ Inv /\ TxType(tx[p])
  BY Typed DEF Good
<1>1. /\ pc[p] = "tx" /\ "tx" \in Early /\ pc' = [pc EXCEPT ![p] = "tx"]
      /\ UNCHANGED <<file, disk, cuts, db>> /\ tx' = [tx EXCEPT ![p] = t]
  BY <1>0, Typed DEF transaction_write, Early, faults
<1>2. Prepared(file, tx[p])
  BY <1>0, <1>1, EarlyPrepared
<1>3. o \in tx[p].elems[Heads]
  BY <1>0, <1>2, ReadTyped DEF transaction_write, Prepared
<1>4. o # Heads
  BY <1>2, <1>3 DEF Prepared, Heads
<1>5. /\ DOMAIN e = DOMAIN tx[p].elems \cup {o} /\ e[Heads] = tx[p].elems[Heads]
  BY <1>2, <1>4 DEF Over, Prepared
<1>6. t.elems = e /\ t.map = tx[p].map /\ t.old = tx[p].old
  BY <1>0 DEF TxType, TxShape
<1> HIDE DEF e, t
<1>7. Prepared(file, t)
  BY <1>2, <1>3, <1>5, <1>6 DEF Prepared
<1> QED
  BY <1>1, <1>4, <1>7, EarlyStep

\* transaction_expand_file makes words behind the end reachable.
LEMMA GrowCrash ==
    ASSUME Good, NEW p \in Proc, transaction_expand_file(p)
    PROVE  CrashInv'
<1> DEFINE map == Aligned(tx[p].map + 1)
           new == tx[p].map..map - 1
           u == [o \in new \cup {Heads} |->
                   IF o = Heads THEN transaction_read(p)[Heads] \cup new ELSE Pad]
           e == Over(tx[p].elems, u)
           t == [tx[p] EXCEPT !.map = map, !.elems = e]
<1>0. TypeInv /\ CrashInv /\ Inv /\ TxType(tx[p])
  BY Typed DEF Good
<1>1. /\ pc[p] = "tx" /\ "tx" \in Early /\ pc' = [pc EXCEPT ![p] = "tx"]
      /\ UNCHANGED <<file, disk, cuts, db>> /\ tx' = [tx EXCEPT ![p] = t]
  BY <1>0, Typed DEF transaction_expand_file, Early, faults
<1>2. Prepared(file, tx[p])
  BY <1>0, <1>1, EarlyPrepared
<1>3. tx[p].map \in Nat /\ map \in Nat /\ tx[p].map < map /\ tx[p].old \in Nat /\ tx[p].old <= tx[p].map
  <2>1. tx[p].map \in Nat /\ tx[p].old \in Nat
    BY <1>0 DEF TxType, TxShape
  <2>2. tx[p].old <= tx[p].map
    BY <1>0, <1>1 DEF Inv, ReadersSafe, Placed
  <2> QED
    BY <2>1, <2>2, AlignedGrows
<1>4. t.elems = e /\ t.map = map /\ t.old = tx[p].old
  <2> HIDE DEF e, map
  <2> QED
    BY <1>0 DEF TxType, TxShape
<1>5. transaction_read(p)[Heads] = tx[p].elems[Heads]
  BY <1>0, <1>2, ReadTyped DEF Prepared
<1>6. /\ DOMAIN e = DOMAIN tx[p].elems \cup new \cup {Heads}
      /\ e[Heads] = tx[p].elems[Heads] \cup new
  BY <1>5 DEF Over
<1>7. \A o \in new : tx[p].map <= o /\ o < map /\ o \in Nat
  BY <1>3
<1> HIDE DEF e, t, map, new
<1>8. Prepared(file, t)
  <2>1. \A o \in e[Heads] :
          /\ 1 < o /\ o < map
          /\ o \in file.data[Heads] \/ (o \in DOMAIN e /\ tx[p].old <= o)
    <3> SUFFICES ASSUME NEW o \in e[Heads]
                 PROVE  /\ 1 < o /\ o < map
                        /\ o \in file.data[Heads] \/ (o \in DOMAIN e /\ tx[p].old <= o)
      OBVIOUS
    <3>1. CASE o \in new
      BY <1>2, <1>3, <1>6, <1>7, <3>1 DEF Prepared
    <3>2. CASE o \in tx[p].elems[Heads]
      <4>1. o \in Nat
        BY <1>0, <1>2, <3>2, PadTyped, TdbAssumption DEF TxType, IsTx, IsWords, Word, Prepared, Off
      <4> QED
        BY <1>2, <1>3, <1>6, <3>2, <4>1 DEF Prepared
    <3> QED
      BY <1>6, <3>1, <3>2
  <2> QED
    BY <1>2, <1>4, <1>6, <2>1 DEF Prepared
<1> QED
  BY <1>1, <1>8, EarlyStep

\* A transaction that is given up before it has a place for its record.
LEMMA GivesUpCrash ==
    ASSUME Good, NEW p \in Proc,
           \/ tdb_transaction_cancel(p) \/ CommitRefused(p) \/ UpgradeFails(p)
    PROVE  CrashInv'
<1>0. TypeInv /\ CrashInv /\ Inv /\ TxType(tx[p])
  BY Typed DEF Good
<1>1. pc[p] \in Early /\ Cancel(p) /\ UNCHANGED <<file, disk, cuts, db>>
  BY DEF tdb_transaction_cancel, CommitRefused, UpgradeFails, Early, faults
<1>2. CASE tx[p].nesting = 0
  <2>1. pc' = [pc EXCEPT ![p] = "idle"] /\ tx' = [tx EXCEPT ![p] = NoTx]
    BY <1>1, <1>2 DEF Cancel, Leave, Go
  <2>2. \A q \in Others(p) : tx'[q] = tx[q]
    BY <1>0, <2>1, Typed DEF Others
  <2>3. pc[p] \notin Setup \cup Late /\ pc[p] \notin {"closed", "recover"}
    BY <1>1 DEF Early, Setup, Late, Live, Ending
  <2> QED
    BY <1>1, <2>1, <2>2, <2>3, LeaveStep
<1>3. CASE tx[p].nesting # 0
  <2> DEFINE t == [tx[p] EXCEPT !.nesting = @ - 1, !.error = TRUE]
  <2>1. tx' = [tx EXCEPT ![p] = t] /\ pc' = [pc EXCEPT ![p] = pc[p]]
    BY <1>0, <1>1, <1>3, Typed DEF Cancel
  <2>2. t.elems = tx[p].elems /\ t.map = tx[p].map /\ t.old = tx[p].old
    BY <1>0 DEF TxType, TxShape
  <2> HIDE DEF t
  <2>3. Prepared(file, t)
    BY <1>0, <1>1, <2>2, EarlyPrepared DEF Prepared
  <2> QED
    BY <1>1, <2>1, <2>3, EarlyStep
<1> QED
  BY <1>2, <1>3

-----------------------------------------------------------------------------
(* The place for the record *)

\* Only the heads and the reachable words count.
LEMMA SameClean ==
    ASSUME NEW f, NEW d, NEW c, NEW w, NEW b, Clean(f, d, c, w),
           b[Heads] = c[Heads], \A o \in c[Heads] : b[o] = c[o]
    PROVE  Clean(f, d, b, w)
<1>1. Shows(f, b) /\ Shows(d, b) /\ \A o \in b[Heads] : 1 < o
  BY DEF Clean, Shows
<1> QED
  BY <1>1 DEF Clean

\* An area inside the file stays inside when the file grows.
LEMMA WithinGrows ==
    ASSUME NEW h \in Nat, NEW m \in Nat, NEW s \in Nat, NEW u \in Nat, s <= u, NEW R, Within(h, m, s, R)
    PROVE  Within(h, m, u, R)
  BY DEF Within

\* What Promise says of the elements e.
LEMMA PromiseMeans ==
    ASSUME TypeInv, NEW e, IsWords(e), Heads \in DOMAIN e, Promise(e),
           NEW c, Clean(file, disk, c, 0)
    PROVE  /\ Clean(file, disk, db'.old, 0)
           /\ db'.old[Heads] = file.data[Heads]
           /\ db'.new[Heads] = e[Heads]
           /\ \A o \in file.data[Heads] : db'.old[o] = file.data[o]
           /\ \A o \in e[Heads] :
                /\ o \in DOMAIN e => db'.new[o] = e[o]
                /\ o \notin DOMAIN e => db'.new[o] = file.data[o]
<1>0. FileType(file) /\ Heads \in Off /\ DOMAIN file.data = Off /\ file.data[Heads] \subseteq Off
      /\ e[Heads] \subseteq Off /\ DOMAIN e \subseteq Off
  BY Typed, TypeOfFile, PadTyped DEF IsWords, Word
<1>1. db'.old = Contents(file.data) /\ db'.new = Contents(Over(file.data, e))
  BY DEF Promise
<1>2. /\ db'.old[Heads] = file.data[Heads]
      /\ \A o \in file.data[Heads] : db'.old[o] = file.data[o]
  BY <1>0, <1>1 DEF Contents
<1> DEFINE n == Over(file.data, e)
<1>3. /\ n[Heads] = e[Heads]
      /\ \A o \in Off : /\ o \in DOMAIN e => n[o] = e[o]
                        /\ o \notin DOMAIN e => n[o] = file.data[o]
  BY <1>0 DEF Over
<1> HIDE DEF n
<1>4. /\ db'.new[Heads] = e[Heads]
      /\ \A o \in e[Heads] : db'.new[o] = n[o]
  BY <1>0, <1>1, <1>3 DEF Contents, n
<1>5. Clean(file, disk, db'.old, 0)
  <2>1. c[Heads] = file.data[Heads] /\ \A o \in c[Heads] : c[o] = file.data[o]
    BY DEF Clean, Shows
  <2> QED
    BY <1>2, <2>1, SameClean
<1> QED
  BY <1>0, <1>2, <1>3, <1>4, <1>5

\* The elements as they are promised, at any place with enough room.
LEMMA PromisedFrom ==
    ASSUME NEW f, NEW d, NEW t, NEW b,
           Heads \in DOMAIN t.elems,
           DOMAIN t.elems \subseteq t.elems[Heads] \cup {Heads},
           b.new[Heads] = t.elems[Heads],
           \A o \in b.new[Heads] :
              /\ 1 < o /\ o < t.map
              /\ o \in DOMAIN t.elems => b.new[o] = t.elems[o]
              /\ o \notin DOMAIN t.elems => o \in b.old[Heads] /\ b.new[o] = b.old[o],
           \A o \in b.old[Heads] : 1 < o /\ o < t.eof,
           1 < t.eof, t.eof <= f.size, t.old = f.size, f.size <= t.map, 1 < t.where,
           tdb_recovery_size(t.elems, t.eof) <= t.room,
           Within(t.where, t.room, f.size, b.old[Heads] \cup b.new[Heads]),
           t.where < t.eof => Within(t.where, t.room, t.eof, {}),
           t.where < d.size => Within(t.where, t.room, d.size, {})
    PROVE  Promised(f, d, t, b)
  BY DEF Promised

\* UseArea: the old area is inside the file and free of both contents.
LEMMA UseAreaCrash ==
    ASSUME Good, NEW p \in Proc, UseArea(p)
    PROVE  CrashInv'
<1> DEFINE h == file.head
           t == [tx[p] EXCEPT !.where = h, !.room = file.max[h], !.eof = tx[p].old]
           e == tx[p].elems
<1>0. TypeInv /\ CrashInv /\ Inv /\ TxType(tx[p]) /\ FileType(file) /\ FileType(disk)
  BY Typed DEF Good
<1>1. /\ pc[p] = "setup" /\ pc' = [pc EXCEPT ![p] = "body"] /\ tx' = [tx EXCEPT ![p] = t]
      /\ h < file.size /\ Fits(p) /\ Promise(e) /\ UNCHANGED <<file, disk, cuts>>
  BY DEF UseArea, Go, faults
<1>2. Prepared(file, tx[p]) /\ tx[p].old = file.size /\ file.size <= tx[p].map
  BY <1>0, <1>1, EarlyPrepared DEF Early, Inv, ReadersSafe, Placed
<1>3. PICK c \in {db.old, db.new} : Clean(file, disk, c, 0)
  BY <1>0, <1>1, UsedClean, NobodyBusy DEF Early
<1>4. IsWords(e) /\ Heads \in DOMAIN e
  BY <1>0, <1>2 DEF TxType, IsTx, Prepared
<1>5. /\ Clean(file, disk, db'.old, 0)
      /\ db'.old[Heads] = file.data[Heads]
      /\ db'.new[Heads] = e[Heads]
      /\ \A o \in file.data[Heads] : db'.old[o] = file.data[o]
      /\ \A o \in e[Heads] :
           /\ o \in DOMAIN e => db'.new[o] = e[o]
           /\ o \notin DOMAIN e => db'.new[o] = file.data[o]
  BY <1>0, <1>1, <1>3, <1>4, PromiseMeans
<1>6. /\ t.where = h /\ t.room = file.max[h] /\ t.eof = tx[p].old
      /\ t.elems = e /\ t.map = tx[p].map /\ t.old = tx[p].old
  BY <1>0 DEF TxType, TxShape
<1>7. tx'[p] = t
  BY <1>0, <1>1, Typed
<1> HIDE DEF t
<1>9. /\ h # 0 /\ 1 < h /\ tdb_recovery_size(e, tx[p].old) <= file.max[h]
      /\ Within(h, file.max[h], file.size, db'.old[Heads])
      /\ h < disk.size => Within(h, file.max[h], disk.size, db'.old[Heads])
  BY <1>1, <1>5 DEF Fits, Clean
<1>10. Within(h, file.max[h], file.size, db'.old[Heads] \cup db'.new[Heads])
  <2> SUFFICES ASSUME NEW o \in h..h + file.max[h]
               PROVE  o < file.size /\ o \notin db'.old[Heads] \cup db'.new[Heads]
    BY DEF Within
  <2>1. o < file.size /\ o \notin file.data[Heads]
    BY <1>5, <1>9 DEF Within
  <2>2. o \in Nat /\ file.size \in Nat
    BY <1>0, Numbers
  <2>3. o \notin e[Heads]
    BY <1>2, <2>1, <2>2 DEF Prepared
  <2> QED
    BY <1>5, <2>1, <2>3
<1>11. Within(h, file.max[h], file.size, {}) /\ (h < disk.size => Within(h, file.max[h], disk.size, {}))
  BY <1>9 DEF Within
<1>12. \A o \in db'.old[Heads] : 1 < o /\ o < file.size
  BY <1>5 DEF Clean, Shows
<1>13. 1 < file.size
  BY <1>0, <1>5, Numbers DEF Clean
<1>14. \A o \in db'.new[Heads] :
         /\ 1 < o /\ o < t.map
         /\ o \in DOMAIN e => db'.new[o] = e[o]
         /\ o \notin DOMAIN e => o \in db'.old[Heads] /\ db'.new[o] = db'.old[o]
  BY <1>2, <1>5, <1>6 DEF Prepared
<1>15. file.size <= file.size
  BY <1>0, Numbers
<1>16. DOMAIN e \subseteq e[Heads] \cup {Heads}
  BY <1>2 DEF Prepared
<1> HIDE DEF e, h
<1>17. Promised(file, disk, t, db')
  BY <1>2, <1>4, <1>5, <1>6, <1>9, <1>10, <1>11, <1>12, <1>13, <1>14, <1>15, <1>16, PromisedFrom
<1>18. file.head = t.where /\ ~ Fresh("body", t)
  BY <1>6 DEF h, Fresh
<1>19. Stage("body", file', disk', tx'[p], db')
  BY <1>1, <1>5, <1>7, <1>17, <1>18 DEF Stage, Early, Setup, Live, Late, Ending
<1>20. \A q \in Others(p) : pc[q] \in {"closed", "idle"}
  BY <1>0, <1>1, NobodyElse DEF Committing
<1>21. "body" \in Pc /\ "body" \in Setup \cup Late
  BY <1>0, <1>1 DEF Pc, Committing, Setup, CrashInv
<1> QED
  BY <1>0, <1>1, <1>19, <1>20, <1>21, LonelyStep

\* A larger file is as clean as before.
LEMMA ExpandClean ==
    ASSUME NEW f, NEW d, NEW c, FileType(f), FileType(d), IsContents(c), NEW new \in 0..MaxSize,
           f.size <= new, Clean(f, d, c, 0)
    PROVE  Clean(tdb_expand_file(f, f.size, new), d, c, 0)
<1> DEFINE g == tdb_expand_file(f, f.size, new)
<1>1. f.size \in 2..MaxSize /\ new \in Nat /\ f.size \in Nat /\ d.size \in Nat /\ MaxSize \in Nat
  BY Numbers, TypeOfFile, TdbAssumption DEF Clean
<1>2. /\ g.size = new /\ g.head = f.head
      /\ g.data = [o \in Off |-> IF o \in f.size..new - 1 THEN Pad ELSE f.data[o]]
      /\ g.magic = f.magic \ (f.size..new - 1)
      /\ g.max = [o \in Off |-> IF o \in f.size..new - 1 THEN Huge ELSE f.max[o]]
  <2>1. Fields(g, new, f.head,
               [o \in Off |-> IF o \in f.size..new - 1 THEN Pad ELSE f.data[o]],
               f.magic \ (f.size..new - 1),
               [o \in Off |-> IF o \in f.size..new - 1 THEN Huge ELSE f.max[o]],
               [o \in Off |-> IF o \in f.size..new - 1 THEN NoLog ELSE f.log[o]])
    BY <1>1, ExpandTyped
  <2> HIDE DEF g
  <2> QED
    BY <2>1 DEF Fields
<1> HIDE DEF g
<1>3. \A o \in Off : o < f.size => g.data[o] = f.data[o] /\ g.max[o] = f.max[o]
  BY <1>1, <1>2, Numbers
<1>4. Heads \in Off /\ Heads < f.size /\ c[Heads] \subseteq Off
  BY <1>1, PadTyped, ReachTyped DEF Heads
<1>5. Shows(g, c)
  <2>1. g.data[Heads] = c[Heads]
    BY <1>3, <1>4 DEF Clean, Shows
  <2>2. \A o \in c[Heads] : o < f.size /\ o \in Nat
    BY <1>4, Numbers DEF Clean, Shows
  <2> QED
    BY <1>1, <1>2, <1>3, <1>4, <2>1, <2>2 DEF Clean, Shows
<1>6. ASSUME NEW h \in {f.head, d.head}, h # 0
      PROVE  /\ 1 < h /\ h < g.size /\ h \notin g.magic \cup d.magic
             /\ \A s \in {g.size, d.size} : h < s =>
                   Within(h, g.max[h], s, c[Heads]) /\ Within(h, d.max[h], s, c[Heads])
  <2>1. h \in Off /\ h \in Nat /\ f.max[h] \in Nat /\ d.max[h] \in Nat
    BY <1>6, Numbers
  <2>2. /\ 1 < h /\ h < f.size /\ h \notin f.magic \cup d.magic
        /\ \A s \in {f.size, d.size} : h < s =>
                   Within(h, f.max[h], s, c[Heads]) /\ Within(h, d.max[h], s, c[Heads])
    BY <1>6 DEF Clean
  <2>3. g.max[h] = f.max[h]
    BY <1>3, <2>1, <2>2
  <2>4. Within(h, f.max[h], new, c[Heads]) /\ Within(h, d.max[h], new, c[Heads])
    BY <1>1, <2>1, <2>2, WithinGrows
  <2> QED
    BY <1>1, <1>2, <2>1, <2>2, <2>3, <2>4
<1>7. Clean(g, d, c, 0)
  BY <1>1, <1>2, <1>5, <1>6 DEF Clean
<1> QED
  BY <1>7 DEF g

\* The commit that finds no place leaves the file longer, and as clean as before.
LEMMA AllocateFailsCrash ==
    ASSUME Good, NEW p \in Proc, AllocateFails(p)
    PROVE  CrashInv' /\ 1 < tx[p].old
<1>0. /\ TypeInv /\ CrashInv /\ Inv /\ FileType(file) /\ FileType(disk) /\ TxType(tx[p])
      /\ IsContents(db.old) /\ IsContents(db.new)
  BY Typed, DbContents DEF Good
<1>1. /\ pc[p] = "setup" /\ Prepared(file, tx[p]) /\ tx[p].old = file.size /\ tx[p].nesting = 0
      /\ 1 < tx[p].old
  BY <1>0, EarlyPrepared DEF AllocateFails, Early, Inv, ReadersSafe, Placed, Committing, Prepared
<1>2. pc' = [pc EXCEPT ![p] = "idle"] /\ tx' = [tx EXCEPT ![p] = NoTx] /\ UNCHANGED <<disk, cuts, db>>
  BY <1>1 DEF AllocateFails, Cancel, Leave, Go, faults
<1>3. PICK c \in {db.old, db.new} : Clean(file, disk, c, 0)
  BY <1>0, <1>1, UsedClean, NobodyBusy DEF Early
<1>4. Clean(file', disk', c, 0)
  <2>1. CASE \E new \in tx[p].old..MaxSize : file' = tdb_expand_file(file, tx[p].old, new)
    <3>1. PICK new \in tx[p].old..MaxSize : file' = tdb_expand_file(file, tx[p].old, new)
      BY <2>1
    <3>2. new \in 0..MaxSize /\ file.size <= new
      BY <1>0, <1>1, Numbers, TdbAssumption
    <3> QED
      BY <1>0, <1>1, <1>2, <1>3, <3>1, <3>2, ExpandClean
  <2> QED
    BY <1>2, <1>3, <2>1 DEF AllocateFails
<1>5. \A q \in Others(p) : pc[q] \in {"closed", "idle"}
  BY <1>0, <1>1, NobodyElse DEF Committing
<1>6. "idle" \in Pc /\ Stage("idle", file', disk', tx'[p], db')
  BY StageElsewhere DEF Pc
<1>7. Resting'
  BY <1>2, <1>4 DEF Resting
<1> QED
  BY <1>0, <1>1, <1>2, <1>5, <1>6, <1>7, LonelyStep

\* The old area becomes a word of the database.
LEMMA FreedPrepared ==
    ASSUME TypeInv, NEW p \in Proc, Prepared(file, tx[p]), file.size <= tx[p].map,
           file.head # 0 => 1 < file.head /\ file.head < file.size
    PROVE  LET e == Freed(p)
           IN  /\ Heads \in DOMAIN e
               /\ DOMAIN e \subseteq e[Heads] \cup {Heads}
               /\ \A o \in e[Heads] :
                     /\ 1 < o /\ o < tx[p].map
                     /\ o \in file.data[Heads] \/ o \in DOMAIN e
<1>0. file.size \in Nat /\ file.head \in Nat /\ tx[p].map \in Nat
  BY Typed, Numbers DEF TxType, TxShape
<1>1. CASE file.head = 0
  BY <1>1 DEF Freed, Prepared
<1>2. CASE file.head # 0
  <2> DEFINE e == tx[p].elems
             u == [o \in {Heads, file.head} |->
                     IF o = Heads THEN transaction_read(p)[Heads] \cup {file.head} ELSE Pad]
             g == Over(e, u)
  <2>1. transaction_read(p)[Heads] = e[Heads]
    BY ReadTyped DEF Prepared
  <2>2. DOMAIN g = DOMAIN e \cup {Heads, file.head} /\ g[Heads] = e[Heads] \cup {file.head}
    BY <2>1 DEF Over
  <2>3. Freed(p) = g
    BY <1>2 DEF Freed
  <2> HIDE DEF g
  <2>4. /\ Heads \in DOMAIN g
        /\ DOMAIN g \subseteq g[Heads] \cup {Heads}
        /\ \A o \in g[Heads] :
              /\ 1 < o /\ o < tx[p].map
              /\ o \in file.data[Heads] \/ o \in DOMAIN g
    BY <1>0, <1>2, <2>2 DEF Prepared
  <2> QED
    BY <2>3, <2>4
<1> QED
  BY <1>1, <1>2

\* NewArea: the new area is behind all words, and not yet on the disk.
LEMMA NewAreaCrash ==
    ASSUME Good, NEW p \in Proc, NewArea(p)
    PROVE  CrashInv' /\ 1 < tx[p].old
<1> DEFINE e == Freed(p)
           end == NewEnd(p)
           size == tdb_recovery_size(e, tx[p].old)
           t == [tx[p] EXCEPT !.elems = e, !.where = tx[p].map, !.room = end - tx[p].map - 1,
                              !.eof = tx[p].old, !.map = end, !.old = end]
<1>0. /\ TypeInv /\ CrashInv /\ Inv /\ TxType(tx[p]) /\ FileType(file) /\ FileType(disk)
      /\ tx[p].map \in Nat /\ tx[p].old \in Nat
  BY Typed DEF Good, TxType, TxShape
<1>1. /\ pc[p] = "setup" /\ pc' = [pc EXCEPT ![p] = "head"] /\ tx' = [tx EXCEPT ![p] = t]
      /\ file.head < file.size /\ end <= MaxSize /\ Promise(e) /\ UNCHANGED <<disk, cuts>>
      /\ file' = tdb_expand_file(file, tx[p].old, end)
  BY DEF NewArea, Go, faults
<1>2. Prepared(file, tx[p]) /\ tx[p].old = file.size /\ file.size <= tx[p].map
  BY <1>0, <1>1, EarlyPrepared DEF Early, Inv, ReadersSafe, Placed
<1>3. PICK c \in {db.old, db.new} : Clean(file, disk, c, 0)
  BY <1>0, <1>1, UsedClean, NobodyBusy DEF Early
<1>4. file.head # 0 => 1 < file.head /\ file.head < file.size
  BY <1>3 DEF Clean
<1>5. /\ Heads \in DOMAIN e /\ DOMAIN e \subseteq e[Heads] \cup {Heads}
      /\ \A o \in e[Heads] :
            /\ 1 < o /\ o < tx[p].map
            /\ o \in file.data[Heads] \/ o \in DOMAIN e
  BY <1>0, <1>2, <1>4, FreedPrepared
<1>6. IsWords(e)
  BY <1>0, FreedTyped
<1>7. size \in Nat /\ end \in Nat /\ tx[p].map + 1 + size <= end
  BY <1>0, NewEndGrows
<1> HIDE DEF e, end, size
<1>8. /\ Clean(file, disk, db'.old, 0)
      /\ db'.old[Heads] = file.data[Heads]
      /\ db'.new[Heads] = e[Heads]
      /\ \A o \in file.data[Heads] : db'.old[o] = file.data[o]
      /\ \A o \in e[Heads] :
           /\ o \in DOMAIN e => db'.new[o] = e[o]
           /\ o \notin DOMAIN e => db'.new[o] = file.data[o]
  BY <1>0, <1>1, <1>3, <1>5, <1>6, PromiseMeans
<1>9. /\ t.where = tx[p].map /\ t.room = end - tx[p].map - 1 /\ t.eof = file.size
      /\ t.elems = e /\ t.map = end /\ t.old = end
  BY <1>0, <1>2 DEF TxType, TxShape
<1>10. tx'[p] = t
  BY <1>0, <1>1, Typed
<1> HIDE DEF t
<1>11. file.size \in Nat /\ disk.size \in Nat /\ 1 < file.size /\ disk.size <= file.size
  BY <1>0, <1>8, Numbers DEF Clean
<1>12. IsContents(db'.old)
  <2>1. DbType(db')
    BY <1>0, <1>1, <1>6, PromiseTyped
  <2> QED
    BY <2>1 DEF DbType, IsContents
<1>13. FileType(file') /\ Clean(file', disk, db'.old, 0) /\ file'.size = end /\ tx[p].map \notin file'.magic
  <2>1. file' = tdb_expand_file(file, file.size, end) /\ end \in 0..MaxSize /\ file.size <= end
        /\ file.size \in 2..MaxSize
    BY <1>0, <1>1, <1>2, <1>7, <1>11, TdbAssumption
  <2>2. Clean(file', disk, db'.old, 0)
    BY <1>0, <1>8, <1>12, <2>1, ExpandClean
  <2>3. /\ FileType(file')
        /\ Fields(file', end, file.head,
                  [o \in Off |-> IF o \in file.size..end - 1 THEN Pad ELSE file.data[o]],
                  file.magic \ (file.size..end - 1),
                  [o \in Off |-> IF o \in file.size..end - 1 THEN Huge ELSE file.max[o]],
                  [o \in Off |-> IF o \in file.size..end - 1 THEN NoLog ELSE file.log[o]])
    BY <1>0, <2>1, ExpandTyped
  <2>4. file'.size = end /\ file'.magic = file.magic \ (file.size..end - 1)
    BY <2>3 DEF Fields
  <2>5. tx[p].map \in file.size..end - 1
    BY <1>0, <1>2, <1>7, <1>11
  <2> QED
    BY <2>2, <2>3, <2>4, <2>5
<1>14. \A o \in db'.old[Heads] : 1 < o /\ o < file.size
  BY <1>8 DEF Clean, Shows
<1>15. Within(tx[p].map, t.room, end, db'.old[Heads] \cup db'.new[Heads])
  <2> SUFFICES ASSUME NEW o \in tx[p].map..tx[p].map + (end - tx[p].map - 1)
               PROVE  o < end /\ o \notin db'.old[Heads] \cup db'.new[Heads]
    BY <1>9 DEF Within
  <2>1. o \in Nat /\ tx[p].map <= o /\ o < end
    BY <1>0, <1>7
  <2>2. o \notin db'.old[Heads]
    BY <1>0, <1>2, <1>11, <1>14, <2>1
  <2>3. o \notin db'.new[Heads]
    BY <1>0, <1>5, <1>8, <2>1
  <2> QED
    BY <2>1, <2>2, <2>3
<1>16. \A o \in db'.new[Heads] :
         /\ 1 < o /\ o < end
         /\ o \in DOMAIN e => db'.new[o] = e[o]
         /\ o \notin DOMAIN e => o \in db'.old[Heads] /\ db'.new[o] = db'.old[o]
  <2> SUFFICES ASSUME NEW o \in db'.new[Heads]
               PROVE  /\ 1 < o /\ o < end
                      /\ o \in DOMAIN e => db'.new[o] = e[o]
                      /\ o \notin DOMAIN e => o \in db'.old[Heads] /\ db'.new[o] = db'.old[o]
    OBVIOUS
  <2>1. o \in Nat
    BY <1>5, <1>6, <1>8, TdbAssumption DEF IsWords, Word, Off
  <2>2. 1 < o /\ o < tx[p].map /\ (o \in file.data[Heads] \/ o \in DOMAIN e)
    BY <1>5, <1>8
  <2> QED
    BY <1>0, <1>7, <1>8, <2>1, <2>2
<1>17. /\ 1 < t.where /\ ~ (t.where < t.eof) /\ ~ (t.where < disk.size) /\ disk.size <= t.where
       /\ t.eof <= end /\ end <= end /\ size <= t.room
  BY <1>0, <1>2, <1>7, <1>9, <1>11
<1>18. Promised(file', disk, t, db')
  <2>1. tdb_recovery_size(t.elems, t.eof) <= t.room
    BY <1>2, <1>9, <1>17 DEF size
  <2>2. t.old = file'.size /\ file'.size <= t.map /\ t.eof <= file'.size /\ 1 < t.eof
    BY <1>9, <1>11, <1>13, <1>17
  <2>3. Within(t.where, t.room, file'.size, db'.old[Heads] \cup db'.new[Heads])
    BY <1>9, <1>13, <1>15
  <2> QED
    BY <1>5, <1>8, <1>9, <1>14, <1>16, <1>17, <2>1, <2>2, <2>3, PromisedFrom
<1>22. t.where \notin disk.magic /\ t.eof # t.old
  <2>1. t.eof # t.old
    BY <1>0, <1>2, <1>7, <1>9, <1>11
  <2> QED
    BY <1>8, <1>17, <2>1 DEF Clean
<1>19. Stage("head", file', disk', tx'[p], db')
  BY <1>1, <1>9, <1>10, <1>13, <1>18, <1>22 DEF Stage, Fresh, Early, Setup, Live, Late, Ending
<1>20. \A q \in Others(p) : pc[q] \in {"closed", "idle"}
  BY <1>0, <1>1, NobodyElse DEF Committing
<1>21. "head" \in Pc /\ "head" \in Setup \cup Late
  BY <1>0, <1>1 DEF Pc, Committing, Setup, CrashInv
<1> QED
  BY <1>0, <1>1, <1>2, <1>11, <1>19, <1>20, <1>21, LonelyStep

-----------------------------------------------------------------------------
(* The record *)

\* What a process in its commit or its recovery can rely on.
LEMMA Busy ==
    ASSUME Good, NEW p \in Proc, pc[p] \in Setup \cup Late
    PROVE  /\ TypeInv /\ Inv
           /\ FileType(file) /\ FileType(disk) /\ TxType(tx[p]) /\ DOMAIN tx = Proc
           /\ IsContents(db.old) /\ IsContents(db.new)
           /\ tx[p].where \in Off /\ tx[p].where \in Nat
           /\ tx[p].map \in Nat /\ tx[p].old \in Nat /\ tx[p].eof \in Nat /\ tx[p].room \in Nat
           /\ Stage(pc[p], file, disk, tx[p], db)
           /\ \A q \in Others(p) : pc[q] \in {"closed", "idle"}
<1>1. TypeInv /\ Inv /\ CrashInv
  BY DEF Good
<1>2. FileType(file) /\ FileType(disk) /\ TxType(tx[p]) /\ DOMAIN tx = Proc
  BY <1>1, Typed
<1>3. /\ tx[p].where \in Off /\ tx[p].where \in Nat
      /\ tx[p].map \in Nat /\ tx[p].old \in Nat /\ tx[p].eof \in Nat /\ tx[p].room \in Nat
  BY <1>2, TdbAssumption DEF TxType, IsTx, TxShape, Off, Huge
<1>4. \A q \in Others(p) : pc[q] \in {"closed", "idle"}
  BY <1>1, NobodyElse DEF Setup, Late, Live, Ending, Committing, Recovering
<1>5. IsContents(db.old) /\ IsContents(db.new)
  BY <1>1, DbContents
<1> QED
  BY <1>1, <1>2, <1>3, <1>4, <1>5 DEF CrashInv

\* A step from one such place to another.
LEMMA BusyStep ==
    ASSUME Good, NEW p \in Proc, pc[p] \in Setup \cup Late, NEW x \in Setup \cup Late,
           pc' = [pc EXCEPT ![p] = x], Stage(x, file', disk', tx'[p], db')
    PROVE  CrashInv'
<1>1. x \in Pc
  BY DEF Setup, Late, Live, Ending, Pc, Committing, Recovering
<1> QED
  BY <1>1, Busy, LonelyStep

\* WriteHead: the head points to a record that is still to be written.
LEMMA WriteHeadCrash ==
    ASSUME Good, NEW p \in Proc, WriteHead(p)
    PROVE  CrashInv'
<1> DEFINE w == tx[p].where
           R == db.old[Heads]
<1>0. /\ pc[p] = "head" /\ pc' = [pc EXCEPT ![p] = "body"] /\ UNCHANGED <<disk, tx, db>>
      /\ file' = [file EXCEPT !.head = w] /\ pc[p] \in Setup \cup Late /\ "body" \in Setup \cup Late
  BY DEF WriteHead, Go, Setup
<1>1. /\ Promised(file, disk, tx[p], db) /\ Clean(file, disk, db.old, 0)
      /\ w \notin file.magic \cup disk.magic /\ tx[p].eof # tx[p].old
  BY <1>0, Busy DEF Stage, Setup, Fresh
<1>2. FileType(file) /\ FileType(disk) /\ w \in Off /\ w \in Nat /\ tx[p].room \in Nat
  BY <1>0, Busy
<1>3. Fields(file', file.size, w, file.data, file.magic, file.max, file.log)
  BY <1>0, <1>2, HeadTyped
<1>4. /\ file'.size = file.size /\ file'.head = w /\ file'.data = file.data
      /\ file'.magic = file.magic /\ file'.max = file.max /\ file'.log = file.log
  BY <1>3 DEF Fields
<1>6. 1 < w /\ w < file.size /\ w \notin R
  <2>1. w \in w..w + tx[p].room
    BY <1>2
  <2> QED
    BY <1>1, <2>1 DEF Promised, Within
<1>8. Clean(file', disk, db.old, w)
  <2>1. Shows(file', db.old) /\ Shows(disk, db.old) /\ \A o \in R : 1 < o
    BY <1>1, <1>4 DEF Clean, Shows
  <2>2. 1 < disk.size /\ disk.size <= file'.size /\ \A o \in disk.magic : o < disk.size
    BY <1>1, <1>4 DEF Clean
  <2>4. ASSUME NEW h \in {w, disk.head}, h # 0
        PROVE  /\ 1 < h /\ h < file'.size /\ h \notin file'.magic \cup disk.magic
               /\ h # w => \A s \in {file'.size, disk.size} : h < s =>
                     /\ Within(h, file'.max[h], s, R)
                     /\ Within(h, disk.max[h], s, R)
    <3>1. CASE h = w
      BY <1>1, <1>4, <1>6, <3>1
    <3>2. CASE h # w
      BY <1>1, <1>4, <2>4, <3>2 DEF Clean
    <3> QED
      BY <3>1, <3>2
  <2> HIDE DEF w, R
  <2> QED
    BY <1>4, <2>1, <2>2, <2>4 DEF Clean, R
<1>9. Promised(file', disk, tx[p], db)
  BY <1>1, <1>4 DEF Promised
<1>10. Stage("body", file', disk', tx'[p], db')
  BY <1>0, <1>1, <1>4, <1>8, <1>9 DEF Stage, Fresh, Early, Setup, Live, Late, Ending
<1> QED
  BY <1>0, <1>2, <1>10, BusyStep

\* The record that is written fits in its area.
LEMMA RecordFits ==
    ASSUME Good, NEW p \in Proc, pc[p] = "body"
    PROVE  /\ tx[p].where + Cardinality(Taken(p)) <= file.size
           /\ Cardinality(Taken(p)) \in Nat
           /\ Taken(p) \subseteq tx[p].where..tx[p].where + tx[p].room
           /\ \A o \in Taken(p) : o \in Nat /\ o < tx[p].map
           /\ 1 < tx[p].where /\ tx[p].where < file.size
<1> DEFINE w == tx[p].where
           n == tdb_recovery_size(tx[p].elems, tx[p].eof)
<1>0. pc[p] \in Setup \cup Late
  BY DEF Setup
<1>1. Promised(file, disk, tx[p], db) /\ TypeInv /\ FileType(file)
  BY <1>0, Busy DEF Stage, Setup
<1>2. w \in Nat /\ tx[p].room \in Nat /\ tx[p].map \in Nat /\ file.size \in Nat
  BY <1>0, <1>1, Busy, Numbers
<1>3. n \in Nat /\ Taken(p) = w..w + n /\ Cardinality(Taken(p)) = n + 1
  BY <1>1, TakenCount
<1>4. n <= tx[p].room /\ file.size <= tx[p].map /\ 1 < w
  BY <1>1 DEF Promised
<1>5. w + tx[p].room < file.size
  <2>1. w + tx[p].room \in w..w + tx[p].room
    BY <1>2
  <2> QED
    BY <1>1, <2>1 DEF Promised, Within
<1> HIDE DEF n, w
<1>6. /\ w + Cardinality(Taken(p)) <= file.size
      /\ Cardinality(Taken(p)) \in Nat
      /\ Taken(p) \subseteq w..w + tx[p].room
      /\ \A o \in Taken(p) : o \in Nat /\ o < tx[p].map
      /\ 1 < w /\ w < file.size
  BY <1>2, <1>3, <1>4, <1>5
<1> QED
  BY <1>6 DEF w

\* transaction_oob never refuses it.
LEMMA NeverRefused ==
    ASSUME Good, NEW p \in Proc, RecordRefused(p)
    PROVE  FALSE
<1>1. PICK o \in Taken(p) : o >= tx[p].map
  BY DEF RecordRefused
<1>2. o \in Nat /\ o < tx[p].map /\ tx[p].map \in Nat
  BY RecordFits, Busy DEF RecordRefused, Setup
<1> QED
  BY <1>1, <1>2

\* WriteRecord touches no word of the database.
LEMMA WriteRecordCrash ==
    ASSUME Good, NEW p \in Proc, WriteRecord(p)
    PROVE  CrashInv' /\ 1 < tx[p].where
<1> DEFINE w == tx[p].where
           t == tx[p]
           R == db.old[Heads]
           words == Saved(t.elems, t.eof)
           saved == [o \in words |-> file.data[o]]
           v == IF t.eof # t.old THEN w ELSE 0
<1>0. /\ pc[p] = "body" /\ pc' = [pc EXCEPT ![p] = "sync1"] /\ UNCHANGED <<disk, tx, db>>
      /\ pc[p] \in Setup \cup Late /\ "sync1" \in Setup \cup Late
  BY DEF WriteRecord, Go, Setup
<1>1. Promised(file, disk, t, db) /\ Clean(file, disk, db.old, v) /\ file.head = w
  BY <1>0, Busy DEF Stage, Setup, Fresh
<1>2. /\ TypeInv /\ FileType(file) /\ FileType(disk) /\ w \in Off /\ w \in Nat
      /\ t.room \in Nat /\ IsContents(db.old) /\ IsContents(db.new) /\ TxType(t)
  BY <1>0, Busy
<1>3. /\ w + Cardinality(Taken(p)) <= file.size /\ Cardinality(Taken(p)) \in Nat
      /\ Taken(p) \subseteq w..w + t.room /\ 1 < w /\ w < file.size /\ file.size \in Nat
  BY <1>0, <1>2, RecordFits, Numbers
<1>4. /\ file'.size = file.size /\ file'.head = file.head /\ file'.magic = file.magic \ {w}
      /\ file'.data = [o \in Off |-> IF o \in Taken(p) THEN Pad ELSE file.data[o]]
      /\ file'.max = [file.max EXCEPT ![w] = t.room]
      /\ file'.log = [file.log EXCEPT ![w] = [eof |-> t.eof, saved |-> saved]]
  <2> DEFINE end == w + Cardinality(Taken(p))
             size == IF end > file.size THEN end ELSE file.size
  <2>1. Fields(file', size, file.head,
               [o \in Off |-> IF o \in Taken(p) THEN Pad ELSE file.data[o]], file.magic \ {w},
               [file.max EXCEPT ![w] = t.room],
               [file.log EXCEPT ![w] = [eof |-> t.eof, saved |-> saved]])
    BY <1>2, <1>3, RecordFields
  <2>2. size = file.size
    BY <1>2, <1>3
  <2> HIDE DEF size, w, saved
  <2> QED
    BY <2>1, <2>2 DEF Fields
<1>5. /\ Within(w, t.room, file.size, R \cup db.new[Heads])
      /\ w < disk.size => Within(w, t.room, disk.size, {})
  BY <1>1 DEF Promised
<1>6. \A o \in Taken(p) : o \notin R /\ o \notin db.new[Heads] /\ o # Heads
  BY <1>2, <1>3, <1>5 DEF Within, Heads
<1>7. /\ DOMAIN file.max = Off /\ DOMAIN file.log = Off /\ Heads \in Off /\ R \subseteq Off
  BY <1>2, TypeOfFile, PadTyped, ReachTyped DEF IsLog
<1>8. /\ file'.max[w] = t.room /\ file'.log[w].eof = t.eof /\ file'.log[w].saved = saved
      /\ \A h \in Off : h # w => file'.max[h] = file.max[h]
      /\ file'.data[Heads] = file.data[Heads] /\ \A o \in R : file'.data[o] = file.data[o]
  BY <1>2, <1>4, <1>6, <1>7
<1>9. Shows(file, db.old) /\ Shows(disk, db.old) /\ \A o \in R : 1 < o
  BY <1>1 DEF Clean
<1>10. Recorded(file', t, db)
  <2>1. DOMAIN saved = words /\ \A o \in words : saved[o] = file.data[o]
    OBVIOUS
  <2>2. \A o \in words \cap (R \cup {Heads}) : saved[o] = db.old[o]
    BY <1>9, <2>1 DEF Shows
  <2> HIDE DEF saved, words
  <2> QED
    BY <1>8, <2>1, <2>2 DEF Recorded, words
<1>11. Clean(file', disk, db.old, v)
  <2>1. Shows(file', db.old)
    BY <1>4, <1>8, <1>9 DEF Shows
  <2>2. 1 < disk.size /\ disk.size <= file'.size /\ \A o \in disk.magic : o < disk.size
    BY <1>1, <1>4 DEF Clean
  <2>3. Within(w, t.room, file.size, R) /\ (w < disk.size => Within(w, t.room, disk.size, R))
    <3>1. Within(w, t.room, file.size, R)
      BY <1>5 DEF Within
    <3> QED
      BY <1>5, <3>1, WithinOther
  <2>4. ASSUME NEW h \in {w, disk.head}, h # 0
        PROVE  /\ 1 < h /\ h < file'.size /\ h \notin file'.magic \cup disk.magic
               /\ h # v => \A s \in {file'.size, disk.size} : h < s =>
                     Within(h, file'.max[h], s, R) /\ Within(h, disk.max[h], s, R)
    <3>0. h \in Off
      BY <1>2, <2>4, Numbers
    <3>1. /\ 1 < h /\ h < file'.size /\ h \notin file'.magic \cup disk.magic
          /\ h # v => \A s \in {file'.size, disk.size} : h < s =>
               /\ Within(h, file.max[h], s, R)
               /\ Within(h, disk.max[h], s, R)
      BY <1>1, <1>4, <2>4 DEF Clean
    <3>2. CASE h = w
      BY <1>4, <1>8, <2>3, <3>1, <3>2
    <3>3. CASE h # w
      BY <1>8, <3>0, <3>1, <3>3
    <3> QED
      BY <3>2, <3>3
  <2> HIDE DEF w, R, v
  <2> QED
    BY <1>1, <1>4, <1>9, <2>1, <2>2, <2>4 DEF Clean, R
<1>12. Promised(file', disk, t, db)
  BY <1>1, <1>4 DEF Promised
<1>13. Stage("sync1", file', disk', tx'[p], db')
  BY <1>0, <1>1, <1>4, <1>10, <1>11, <1>12 DEF Stage, Fresh, Early, Setup, Live, Late, Ending
<1> QED
  BY <1>0, <1>2, <1>3, <1>13, BusyStep

\* What a sync makes of file and disk.
LEMMA SyncLeaves ==
    ASSUME FileType(file), transaction_sync
    PROVE  /\ disk' = file' /\ CutOf(file', file, file) /\ FileType(file')
           /\ file'.size = file.size /\ file'.head = file.head
           /\ \A o \in Off : o < file.size =>
                 /\ file'.data[o] = file.data[o] /\ file'.max[o] = file.max[o]
                 /\ file'.log[o] = file.log[o] /\ (o \in file'.magic <=> o \in file.magic)
<1>1. disk' = file' /\ CutOf(file', file, file)
  BY TrimCuts DEF transaction_sync
<1> QED
  BY <1>1 DEF CutOf

\* Only the size of the disk matters to a promise.
LEMMA PromisedSynced ==
    ASSUME NEW f, NEW d, NEW g, NEW t, NEW b, Promised(f, d, t, b), g.size = f.size
    PROVE  Promised(g, g, t, b)
<1>1. Within(t.where, t.room, f.size, {})
  BY DEF Promised, Within
<1> QED
  BY <1>1 DEF Promised

\* The place of the record lies in the file.
LEMMA PromisedPlace ==
    ASSUME NEW f, NEW d, NEW t, NEW b, Promised(f, d, t, b), t.where \in Nat, t.room \in Nat
    PROVE  1 < t.where /\ t.where < f.size
<1>1. t.where \in t.where..t.where + t.room
  OBVIOUS
<1> QED
  BY <1>1 DEF Promised, Within

\* SyncRecord: head, size and record are on the disk.
LEMMA SyncRecordCrash ==
    ASSUME Good, NEW p \in Proc, SyncRecord(p)
    PROVE  CrashInv'
<1> DEFINE w == tx[p].where
           t == tx[p]
<1>0. /\ pc[p] = "sync1" /\ pc' = [pc EXCEPT ![p] = "magic"] /\ UNCHANGED <<tx, db>>
      /\ pc[p] \in Setup \cup Late /\ "magic" \in Setup \cup Late /\ transaction_sync
  BY DEF SyncRecord, Go, Setup
<1>1. /\ Promised(file, disk, t, db) /\ file.head = w /\ Recorded(file, t, db)
      /\ Shows(file, db.old) /\ (\A o \in db.old[Heads] : 1 < o) /\ (w # 0 => w \notin file.magic)
  BY <1>0, Busy DEF Stage, Setup, Clean
<1>2. /\ FileType(file) /\ FileType(disk) /\ w \in Off /\ w \in Nat /\ t.room \in Nat
      /\ IsContents(db.old)
  BY <1>0, Busy
<1>3. /\ disk' = file' /\ CutOf(file', file, file) /\ FileType(file')
      /\ file'.size = file.size /\ file'.head = file.head
      /\ w < file.size => file'.max[w] = file.max[w] /\ file'.log[w] = file.log[w]
  BY <1>0, <1>2, SyncLeaves
<1>4. 1 < w /\ w < file.size
  BY <1>1, <1>2, PromisedPlace
<1>5. /\ Shows(file', db.old) /\ (\A o \in file'.magic : o < file'.size)
      /\ w \notin file'.magic /\ 1 < file'.size /\ file'.size <= file'.size
  <2>1. Shows(file', db.old) /\ \A o \in file'.magic : o < file'.size
    BY <1>1, <1>2, <1>3, CutShows, CutMagic
  <2>2. w \notin file'.magic
    BY <1>1, <1>2, <1>3, <1>4 DEF CutOf
  <2> QED
    BY <1>2, <1>3, <1>4, <2>1, <2>2, Numbers
<1>6. Clean(file', file', db.old, 0)
  <2>1. Within(w, file'.max[w], file'.size, db.old[Heads])
    BY <1>1, <1>3, <1>4 DEF Promised, Recorded, Within
  <2> HIDE DEF w
  <2> QED
    BY <1>1, <1>3, <1>4, <1>5, <2>1 DEF Clean
<1>7. Promised(file', file', t, db)
  BY <1>1, <1>3, PromisedSynced
<1>8. Recorded(file', t, db)
  BY <1>1, <1>3, <1>4 DEF Recorded
<1>9. Stage("magic", file', disk', tx'[p], db')
  BY <1>0, <1>1, <1>3, <1>6, <1>7, <1>8 DEF Stage, Fresh, Early, Setup, Live, Late, Ending
<1> QED
  BY <1>0, <1>3, <1>9, BusyStep

\* The record that is in the file leads back to the old contents.
LEMMA LogHolds ==
    ASSUME NEW f, NEW t, NEW b, Promised(f, f, t, b), Recorded(f, t, b), Shows(f, b.old),
           FileType(f), t.where \in Off, t.room \in Nat, t.eof \in Nat
    PROVE  Logged(f, f, t.where, b.old, b.new)
<1> DEFINE w == t.where
           log == f.log[w]
           words == Saved(t.elems, t.eof)
<1>1. /\ f.max[w] = t.room /\ log.eof = t.eof /\ DOMAIN log.saved = words
      /\ \A o \in words \cap (b.old[Heads] \cup {Heads}) : log.saved[o] = b.old[o]
  BY DEF Recorded
<1>2. /\ 1 < w /\ 1 < log.eof /\ log.eof <= f.size
      /\ \A o \in b.old[Heads] \cup b.new[Heads] : 1 < o
  BY <1>1 DEF Promised
<1>3. Heads \in words
  BY DEF Promised, Saved, Heads
<1>4. Cardinality(DOMAIN log.saved) <= f.max[w]
  BY <1>1 DEF Promised, tdb_recovery_size
<1>5. \A o \in b.old[Heads] :
        /\ o < log.eof
        /\ IF o \in DOMAIN log.saved THEN log.saved[o] = b.old[o] ELSE f.data[o] = b.old[o]
  BY <1>1 DEF Promised, Shows
<1>6. f.data[Heads] = b.old[Heads]
  BY DEF Shows
<1>7. Within(w, f.max[w], f.size, b.old[Heads] \cup b.new[Heads])
  BY <1>1 DEF Promised
<1>8. Within(w, f.max[w], f.size, {}) /\ \A o \in w..w + f.max[w] : o \notin b.old[Heads] \cup b.new[Heads]
  BY <1>7 DEF Within
<1>9. w < log.eof => Within(w, f.max[w], log.eof, {})
  BY <1>1 DEF Promised
<1> HIDE DEF words, log, w
<1> QED
  BY <1>1, <1>2, <1>3, <1>4, <1>5, <1>6, <1>8, <1>9 DEF Logged, log, w

\* Magic is no part of what the record holds.
LEMMA LoggedFields ==
    ASSUME NEW f, NEW d, NEW g, NEW w, NEW old, NEW new, Logged(f, d, w, old, new),
           g.size = f.size, g.data = f.data, g.max = f.max, g.log = f.log
    PROVE  Logged(g, d, w, old, new)
  BY DEF Logged

\* WriteMagic: from here on the next open goes back to the old contents.
LEMMA WriteMagicCrash ==
    ASSUME Good, NEW p \in Proc, WriteMagic(p)
    PROVE  CrashInv'
<1> DEFINE w == tx[p].where
           t == tx[p]
<1>0. /\ pc[p] = "magic" /\ pc' = [pc EXCEPT ![p] = "sync2"] /\ UNCHANGED <<disk, tx, db>>
      /\ pc[p] \in Setup \cup Late /\ "sync2" \in Setup \cup Late
      /\ file' = [file EXCEPT !.magic = @ \cup {w}]
  BY DEF WriteMagic, Go, Setup, Late, Live
<1>1. /\ Promised(file, disk, t, db) /\ Clean(file, disk, db.old, 0) /\ file.head = w
      /\ Recorded(file, t, db) /\ file = disk
  BY <1>0, Busy DEF Stage, Setup, Fresh
<1>2. /\ FileType(file) /\ FileType(disk) /\ w \in Off /\ w \in Nat /\ t.room \in Nat /\ t.eof \in Nat
  BY <1>0, Busy
<1>3. /\ file'.size = file.size /\ file'.head = file.head /\ file'.data = file.data
      /\ file'.magic = file.magic \cup {w} /\ file'.max = file.max /\ file'.log = file.log
  <2>1. file.magic \cup {w} \in SUBSET Off
    BY <1>2, TypeOfFile
  <2>2. file' = [file EXCEPT !.magic = file.magic \cup {w}]
    BY <1>0, <1>2 DEF FileType, FileShape
  <2>3. Fields(file', file.size, file.head, file.data, file.magic \cup {w}, file.max, file.log)
    BY <1>2, <2>1, <2>2, MagicTyped
  <2> QED
    BY <2>3 DEF Fields
<1>4. 1 < w /\ w < file.size
  BY <1>1, <1>2, PromisedPlace
<1>5. Shows(file, db.old) /\ Shows(disk, db.old) /\ Shows(file', db.old)
  BY <1>1, <1>3 DEF Clean, Shows
<1>6. Logged(file', disk, w, db.old, db.new)
  <2>1. Logged(file, disk, w, db.old, db.new)
    BY <1>1, <1>2, <1>5, LogHolds
  <2> QED
    BY <1>3, <2>1, LoggedFields
<1>7. Redo(file', disk, w, db.old, db.new)
  BY <1>1, <1>3, <1>4, <1>5, <1>6 DEF Redo, Either
<1>8. Promised(file', disk, t, db) /\ Recorded(file', t, db)
  BY <1>1, <1>3 DEF Promised, Recorded
<1>9. Stage("sync2", file', disk', tx'[p], db')
  BY <1>0, <1>1, <1>3, <1>5, <1>7, <1>8 DEF Stage, Early, Setup, Live, Late, Ending
<1> QED
  BY <1>0, <1>2, <1>9, BusyStep

-----------------------------------------------------------------------------
(* The writes *)

\* Once all is on the disk, the file is what a power cut leaves.
LEMMA LoggedSelf ==
    ASSUME NEW f, NEW d, NEW w, NEW old, NEW new, Logged(f, d, w, old, new), w < f.size
    PROVE  Logged(f, f, w, old, new)
  BY DEF Logged

\* A sync keeps a record that is to be used.
LEMMA SyncRedo ==
    ASSUME NEW f, NEW d, NEW g, NEW w \in Off, NEW old, NEW new, FileType(f), FileType(d),
           CutOf(g, f, f), IsContents(old), IsContents(new), Redo(f, d, w, old, new)
    PROVE  Redo(g, g, w, old, new) /\ w \in g.magic
<1>1. Logged(f, d, w, old, new) /\ f.head = w /\ w < f.size /\ w \in f.magic
  BY DEF Redo, Either
<1>2. 1 < w /\ w \in Nat /\ f.size \in Nat
  BY <1>1, Numbers DEF Logged
<1>3. Either(f, f, w, old, new, old)
  BY <1>1, <1>2, LoggedSelf DEF Either
<1>4. g.size = f.size /\ g.head = w /\ w \in g.magic
  BY <1>1 DEF CutOf
<1>5. ~ (g.size <= g.head) /\ ~ Clean(g, g, old, 0)
  BY <1>1, <1>2, <1>4 DEF Clean
<1> QED
  BY <1>3, <1>4, <1>5, CutEither

\* SyncMagic: so it does after a power cut.
LEMMA SyncMagicCrash ==
    ASSUME Good, NEW p \in Proc, SyncMagic(p)
    PROVE  CrashInv'
<1> DEFINE w == tx[p].where
           t == tx[p]
<1>0. /\ pc[p] = "sync2" /\ pc' = [pc EXCEPT ![p] = "expand"] /\ UNCHANGED <<tx, db>>
      /\ pc[p] \in Setup \cup Late /\ "expand" \in Setup \cup Late /\ transaction_sync
  BY DEF SyncMagic, Go, Late, Live
<1>1. /\ Promised(file, disk, t, db) /\ Redo(file, disk, w, db.old, db.new)
      /\ Recorded(file, t, db) /\ Shows(file, db.old)
  BY <1>0, Busy DEF Stage, Setup, Live
<1>2. /\ FileType(file) /\ FileType(disk) /\ w \in Off /\ w \in Nat /\ t.room \in Nat
      /\ IsContents(db.old) /\ IsContents(db.new)
  BY <1>0, Busy
<1>3. /\ disk' = file' /\ CutOf(file', file, file) /\ FileType(file')
      /\ file'.size = file.size /\ file'.head = file.head
      /\ w < file.size => file'.max[w] = file.max[w] /\ file'.log[w] = file.log[w]
  BY <1>0, <1>2, SyncLeaves
<1>4. 1 < w /\ w < file.size
  BY <1>1, <1>2, PromisedPlace
<1>5. Redo(file', disk', w, db.old, db.new) /\ w \in disk'.magic
  BY <1>1, <1>2, <1>3, SyncRedo
<1>6. Shows(file', db.old)
  BY <1>1, <1>2, <1>3, CutShows
<1>7. Promised(file', disk', t, db)
  BY <1>1, <1>3, PromisedSynced
<1>8. Recorded(file', t, db)
  BY <1>1, <1>3, <1>4 DEF Recorded
<1>9. Stage("expand", file', disk', tx'[p], db')
  BY <1>0, <1>3, <1>5, <1>6, <1>7, <1>8 DEF Stage, Early, Setup, Live, Late, Ending
<1> QED
  BY <1>0, <1>3, <1>9, BusyStep

\* Words outside the record may change as long as those that are not saved stay.
LEMMA LoggedKept ==
    ASSUME NEW f, NEW d, NEW g, NEW w, NEW old, NEW new, Logged(f, d, w, old, new),
           f.log[w].eof <= g.size, g.max[w] = f.max[w], g.log[w] = f.log[w],
           g.data[Heads] \in {old[Heads], new[Heads]},
           \A o \in old[Heads] : o \notin DOMAIN f.log[w].saved => g.data[o] = f.data[o],
           w < g.size => Within(w, f.max[w], g.size, {})
    PROVE  Logged(g, d, w, old, new)
  BY DEF Logged

\* ExpandFile leaves the record and the old words alone.
LEMMA ExpandFileCrash ==
    ASSUME Good, NEW p \in Proc, ExpandFile(p)
    PROVE  CrashInv' /\ 1 < tx[p].old
<1> DEFINE w == tx[p].where
           t == tx[p]
           e == tx[p].elems
           log == file.log[w]
<1>0. /\ pc[p] = "expand" /\ pc' = [pc EXCEPT ![p] = "write"] /\ UNCHANGED <<disk, tx, db>>
      /\ pc[p] \in Setup \cup Late /\ "write" \in Setup \cup Late
      /\ file' = IF t.map # t.old THEN tdb_expand_file(file, t.old, t.map) ELSE file
  BY DEF ExpandFile, Go, Late, Live
<1>1. /\ Promised(file, disk, t, db) /\ Redo(file, disk, w, db.old, db.new)
      /\ Recorded(file, t, db) /\ Shows(file, db.old) /\ w \in disk.magic
  BY <1>0, Busy DEF Stage, Setup, Live
<1>2. /\ FileType(file) /\ FileType(disk) /\ w \in Off /\ w \in Nat /\ t.room \in Nat /\ TxType(t)
      /\ IsContents(db.old) /\ IsContents(db.new)
      /\ t.map \in Nat /\ t.old \in Nat /\ t.eof \in Nat /\ file.size \in Nat /\ file.size \in 0..MaxSize
  BY <1>0, Busy, Numbers, TypeOfFile
<1>3. 1 < w /\ w < file.size /\ t.old = file.size /\ file.size <= t.map /\ 1 < file.size /\ t.eof <= file.size
  BY <1>1, <1>2, PromisedPlace DEF Promised
<1>4. t.map \in 0..MaxSize
  BY <1>2 DEF TxType, IsTx
<1>5. /\ file'.size = t.map /\ file'.head = file.head
      /\ \A o \in Off : o < file.size =>
            /\ file'.data[o] = file.data[o] /\ file'.max[o] = file.max[o]
            /\ file'.log[o] = file.log[o] /\ (o \in file'.magic <=> o \in file.magic)
  <2>1. CASE t.map = t.old
    BY <1>0, <1>3, <2>1
  <2>2. CASE t.map # t.old
    <3>1. t.old \in 2..MaxSize
      BY <1>2, <1>3
    <3>2. Fields(file', t.map, file.head,
                 [o \in Off |-> IF o \in t.old..t.map - 1 THEN Pad ELSE file.data[o]],
                 file.magic \ (t.old..t.map - 1),
                 [o \in Off |-> IF o \in t.old..t.map - 1 THEN Huge ELSE file.max[o]],
                 [o \in Off |-> IF o \in t.old..t.map - 1 THEN NoLog ELSE file.log[o]])
      BY <1>0, <1>2, <1>4, <2>2, <3>1, ExpandTyped
    <3>3. \A o \in Off : o < file.size => o \notin t.old..t.map - 1
      BY <1>2, <1>3, Numbers
    <3> QED
      BY <3>2, <3>3 DEF Fields
  <2> QED
    BY <2>1, <2>2
<1>6. /\ Heads \in Off /\ Heads < file.size
      /\ file'.max[w] = file.max[w] /\ file'.log[w] = file.log[w] /\ w \in file'.magic
      /\ file'.data[Heads] = file.data[Heads]
  <2>1. Heads \in Off /\ Heads < file.size
    BY <1>3, PadTyped DEF Heads
  <2>2. w \in file.magic
    BY <1>1 DEF Redo
  <2> QED
    BY <1>2, <1>3, <1>5, <2>1, <2>2
<1>7. \A o \in db.old[Heads] : o \in Off /\ o < file.size /\ file'.data[o] = file.data[o]
  BY <1>1, <1>2, <1>5, ReachTyped DEF Shows
<1>8. Logged(file, disk, w, db.old, db.new)
  BY <1>1 DEF Redo, Either
<1>9. Logged(file', disk, w, db.old, db.new)
  <2>1. log.eof <= file'.size
    BY <1>2, <1>3, <1>5, <1>1 DEF Recorded
  <2>2. file'.data[Heads] \in {db.old[Heads], db.new[Heads]}
    BY <1>6, <1>8 DEF Logged
  <2>3. Within(w, file.max[w], file'.size, {})
    <3>1. Within(w, file.max[w], file.size, {})
      BY <1>3, <1>8 DEF Logged
    <3>2. file.max[w] \in Nat
      BY <1>2, Numbers
    <3> QED
      BY <1>2, <1>3, <1>5, <3>1, <3>2 DEF Within
  <2> QED
    BY <1>6, <1>7, <1>8, <2>1, <2>2, <2>3, LoggedKept
<1>10. Redo(file', disk, w, db.old, db.new)
  BY <1>1, <1>2, <1>3, <1>5, <1>6, <1>9 DEF Redo, Either
<1>11. Writing(file', t, db)
  <2>1. \A o \in DOMAIN e : o < log.eof => o \in DOMAIN log.saved
    BY <1>1 DEF Recorded, Saved
  <2>2. /\ DOMAIN e \subseteq db.new[Heads] \cup {Heads} /\ Heads \in DOMAIN e /\ e[Heads] = db.new[Heads]
        /\ \A o \in db.new[Heads] :
             /\ o < t.map
             /\ IF o \in DOMAIN e THEN db.new[o] = e[o]
                ELSE o \in db.old[Heads] /\ db.new[o] = db.old[o]
    BY <1>1 DEF Promised
  <2>3. \A o \in db.new[Heads] : o \notin DOMAIN e => file'.data[o] = db.new[o]
    BY <1>1, <1>7, <2>2 DEF Shows
  <2> QED
    BY <1>5, <1>6, <2>1, <2>2, <2>3 DEF Writing
<1>12. Stage("write", file', disk', tx'[p], db')
  BY <1>0, <1>1, <1>10, <1>11 DEF Stage, Early, Setup, Live, Late, Ending
<1> QED
  BY <1>0, <1>2, <1>3, <1>12, BusyStep

\* What writing an element changes.
LEMMA ElementFields ==
    ASSUME TypeInv, NEW p \in Proc, NEW o \in Off, WriteElement(p, o)
    PROVE  /\ o \in DOMAIN tx[p].elems /\ UNCHANGED <<disk, pc, db>>
           /\ file'.size = file.size /\ file'.head = file.head /\ file'.magic = file.magic
           /\ file'.max = file.max /\ file'.log = file.log
           /\ file'.data[o] = tx[p].elems[o]
           /\ \A x \in Off : x # o => file'.data[x] = file.data[x]
           /\ tx'[p].where = tx[p].where /\ tx'[p].eof = tx[p].eof
           /\ DOMAIN tx'[p].elems = DOMAIN tx[p].elems \ {o}
           /\ \A x \in DOMAIN tx[p].elems \ {o} : tx'[p].elems[x] = tx[p].elems[x]
<1> DEFINE e == tx[p].elems
           v == e[o]
           rest == [x \in DOMAIN e \ {o} |-> e[x]]
<1>0. FileType(file) /\ TxType(tx[p]) /\ DOMAIN tx = Proc
  BY Typed
<1>1. o \in DOMAIN e /\ UNCHANGED <<disk, pc, db>>
  BY DEF WriteElement
<1>2. v \in Word(o)
  BY <1>0, <1>1 DEF TxType, IsTx, IsWords
<1>3. file' = [file EXCEPT !.data[o] = v]
  BY DEF WriteElement
<1>4. tx' = [tx EXCEPT ![p] = [tx[p] EXCEPT !.elems = rest]]
  BY <1>0 DEF WriteElement
<1>5. tx'[p] = [tx[p] EXCEPT !.elems = rest]
  BY <1>0, <1>4
<1>6. tx'[p].where = tx[p].where /\ tx'[p].eof = tx[p].eof /\ tx'[p].elems = rest
  <2> HIDE DEF rest, e, v
  <2> QED
    BY <1>0, <1>5 DEF TxType, TxShape
<1>7. Fields(file', file.size, file.head, [file.data EXCEPT ![o] = v], file.magic, file.max, file.log)
  <2> HIDE DEF v
  <2> QED
    BY <1>0, <1>2, <1>3, WordTyped
<1>8. DOMAIN file.data = Off
  BY <1>0, TypeOfFile
<1> QED
  BY <1>1, <1>6, <1>7, <1>8 DEF Fields

\* CommitWrite: what it overwrites is saved.
LEMMA CommitWriteCrash ==
    ASSUME Good, NEW p \in Proc, NEW o \in Off, CommitWrite(p, o)
    PROVE  CrashInv'
<1> DEFINE w == tx[p].where
           e == tx[p].elems
           log == file.log[w]
<1>0. pc[p] = "write" /\ pc[p] \in Setup \cup Late /\ "write" \in Setup \cup Late /\ WriteElement(p, o)
  BY DEF CommitWrite, Late, Live
<1>1. Redo(file, disk, w, db.old, db.new) /\ w \in disk.magic /\ Writing(file, tx[p], db)
  BY <1>0, Busy DEF Stage, Setup, Live
<1>2. /\ FileType(file) /\ FileType(disk) /\ w \in Off /\ w \in Nat /\ TypeInv
      /\ IsContents(db.old) /\ IsContents(db.new)
  BY <1>0, Busy
<1>3. /\ o \in DOMAIN e /\ UNCHANGED <<disk, pc, db>>
      /\ file'.size = file.size /\ file'.head = file.head /\ file'.magic = file.magic
      /\ file'.max = file.max /\ file'.log = file.log
      /\ file'.data[o] = e[o]
      /\ \A x \in Off : x # o => file'.data[x] = file.data[x]
      /\ tx'[p].where = w
      /\ DOMAIN tx'[p].elems = DOMAIN e \ {o}
      /\ \A x \in DOMAIN e \ {o} : tx'[p].elems[x] = e[x]
  BY <1>0, <1>2, ElementFields
<1>4. Logged(file, disk, w, db.old, db.new) /\ w \in file.magic /\ 1 < w
  BY <1>1 DEF Redo, Either, Logged
<1>5. Heads \in Off /\ db.old[Heads] \subseteq Off /\ db.new[Heads] \subseteq Off
  BY <1>2, PadTyped, ReachTyped
<1>6. e[o] = db.new[o]
  BY <1>1, <1>3 DEF Writing
<1>7. Logged(file', disk, w, db.old, db.new)
  <2>1. log.eof <= file'.size
    BY <1>3, <1>4 DEF Logged
  <2>2. file'.data[Heads] \in {db.old[Heads], db.new[Heads]}
    BY <1>3, <1>4, <1>5, <1>6 DEF Logged
  <2>3. \A x \in db.old[Heads] : x \notin DOMAIN log.saved => x # o
    BY <1>1, <1>3, <1>4 DEF Logged, Writing
  <2>4. w < file'.size => Within(w, file.max[w], file'.size, {})
    BY <1>3, <1>4 DEF Logged
  <2> QED
    BY <1>3, <1>4, <1>5, <2>1, <2>2, <2>3, <2>4, LoggedKept
<1>8. Redo(file', disk, w, db.old, db.new)
  BY <1>1, <1>3, <1>4, <1>7 DEF Redo, Either
<1>9. Writing(file', tx'[p], db)
  <2>1. \A x \in db.new[Heads] \cup {Heads} :
           (IF x \in DOMAIN tx'[p].elems THEN tx'[p].elems[x] ELSE file'.data[x]) = db.new[x]
    <3> SUFFICES ASSUME NEW x \in db.new[Heads] \cup {Heads}
                 PROVE  (IF x \in DOMAIN tx'[p].elems THEN tx'[p].elems[x] ELSE file'.data[x]) = db.new[x]
      OBVIOUS
    <3>1. (IF x \in DOMAIN e THEN e[x] ELSE file.data[x]) = db.new[x] /\ x \in Off
      BY <1>1, <1>5 DEF Writing
    <3>2. CASE x = o
      BY <1>3, <1>6, <3>2
    <3>3. CASE x # o
      BY <1>3, <3>1, <3>3
    <3> QED
      BY <3>2, <3>3
  <2>2. \A x \in DOMAIN tx'[p].elems : x < log.eof => x \in DOMAIN log.saved
    BY <1>1, <1>3 DEF Writing
  <2>3. DOMAIN tx'[p].elems \subseteq db.new[Heads] \cup {Heads} /\ \A x \in db.new[Heads] : x < file'.size
    BY <1>1, <1>3 DEF Writing
  <2> QED
    BY <1>3, <2>1, <2>2, <2>3 DEF Writing
<1>10. Stage("write", file', disk', tx'[p], db')
  BY <1>0, <1>1, <1>3, <1>8, <1>9 DEF Stage, Early, Setup, Live, Late, Ending
<1>11. pc' = [pc EXCEPT ![p] = "write"]
  BY <1>0, <1>2, <1>3, SamePlace
<1> QED
  BY <1>0, <1>2, <1>3, <1>10, <1>11, BusyStep

\* SyncWrites: the new contents are on the disk.
LEMMA SyncWritesCrash ==
    ASSUME Good, NEW p \in Proc, SyncWrites(p)
    PROVE  CrashInv'
<1> DEFINE w == tx[p].where
<1>0. /\ pc[p] = "write" /\ pc' = [pc EXCEPT ![p] = "unmagic"] /\ UNCHANGED <<tx, db>>
      /\ pc[p] \in Setup \cup Late /\ "unmagic" \in Setup \cup Late /\ transaction_sync
      /\ DOMAIN tx[p].elems = {}
  BY DEF SyncWrites, Go, Late, Live
<1>1. Redo(file, disk, w, db.old, db.new) /\ Writing(file, tx[p], db)
  BY <1>0, Busy DEF Stage, Setup, Live
<1>2. /\ FileType(file) /\ FileType(disk) /\ w \in Off
      /\ IsContents(db.old) /\ IsContents(db.new)
  BY <1>0, Busy
<1>3. disk' = file' /\ CutOf(file', file, file)
  BY <1>0, <1>2, SyncLeaves
<1>4. Redo(file', disk', w, db.old, db.new) /\ w \in disk'.magic
  BY <1>1, <1>2, <1>3, SyncRedo
<1>5. Shows(file, db.new)
  BY <1>0, <1>1 DEF Writing, Shows
<1>6. Shows(file', db.new)
  BY <1>2, <1>3, <1>5, CutShows
<1>7. Stage("unmagic", file', disk', tx'[p], db')
  BY <1>0, <1>3, <1>4, <1>6 DEF Stage, Early, Setup, Live, Late, Ending
<1> QED
  BY <1>0, <1>3, <1>7, BusyStep

\* What taking away the magic changes.
LEMMA UnmagicFields ==
    ASSUME FileType(file), NEW w, file' = [file EXCEPT !.magic = @ \ {w}]
    PROVE  /\ file'.size = file.size /\ file'.head = file.head /\ file'.data = file.data
           /\ file'.magic = file.magic \ {w} /\ file'.max = file.max /\ file'.log = file.log
<1>1. file.magic \ {w} \in SUBSET Off
  BY TypeOfFile
<1>2. file' = [file EXCEPT !.magic = file.magic \ {w}]
  BY DEF FileType, FileShape
<1>3. Fields(file', file.size, file.head, file.data, file.magic \ {w}, file.max, file.log)
  BY <1>1, <1>2, MagicTyped
<1> QED
  BY <1>3 DEF Fields

\* RemoveMagic: a power cut leaves the new contents, or the record.
LEMMA RemoveMagicCrash ==
    ASSUME Good, NEW p \in Proc, RemoveMagic(p)
    PROVE  CrashInv'
<1> DEFINE w == tx[p].where
<1>0. /\ pc[p] = "unmagic" /\ pc' = [pc EXCEPT ![p] = "sync4"] /\ UNCHANGED <<disk, tx, db>>
      /\ pc[p] \in Setup \cup Late /\ "sync4" \in Setup \cup Late
      /\ file' = [file EXCEPT !.magic = @ \ {w}]
  BY DEF RemoveMagic, Go, Late, Live
<1>1. Redo(file, disk, w, db.old, db.new) /\ Shows(file, db.new) /\ Shows(disk, db.new)
  BY <1>0, Busy DEF Stage, Setup, Live
<1>2. FileType(file)
  BY <1>0, Busy
<1>3. /\ file'.size = file.size /\ file'.head = file.head /\ file'.data = file.data
      /\ file'.magic = file.magic \ {w} /\ file'.max = file.max /\ file'.log = file.log
  BY <1>0, <1>2, UnmagicFields
<1>4. Logged(file', disk, w, db.old, db.new)
  BY <1>1, <1>3, LoggedFields DEF Redo, Either
<1>5. Shows(file', db.new)
  BY <1>1, <1>3 DEF Shows
<1>6. Either(file', disk, w, db.old, db.new, db.new) /\ file'.head = w /\ w < file'.size /\ w \notin file'.magic
  BY <1>1, <1>3, <1>4, <1>5 DEF Redo, Either
<1>7. Stage("sync4", file', disk', tx'[p], db')
  BY <1>0, <1>1, <1>5, <1>6 DEF Stage, Early, Setup, Live, Late, Ending
<1> QED
  BY <1>0, <1>2, <1>7, BusyStep

\* CommitEnds: the new contents are there, and no record.
LEMMA CommitEndsCrash ==
    ASSUME Good, NEW p \in Proc, CommitEnds(p)
    PROVE  CrashInv'
<1> DEFINE w == tx[p].where
<1>0. pc[p] = "sync4" /\ pc[p] \in Setup \cup Late /\ transaction_sync
  BY DEF CommitEnds, Late
<1>1. /\ Either(file, disk, w, db.old, db.new, db.new) /\ file.head = w /\ w < file.size
      /\ w \notin file.magic /\ Shows(file, db.new)
  BY <1>0, Busy DEF Stage
<1>2. /\ FileType(file) /\ FileType(disk) /\ w \in Off /\ TypeInv /\ Inv
      /\ IsContents(db.old) /\ IsContents(db.new) /\ \A q \in Others(p) : pc[q] \in {"closed", "idle"}
  BY <1>0, Busy
<1>3. /\ disk' = file' /\ CutOf(file', file, file)
      /\ file'.size = file.size /\ file'.head = file.head
  BY <1>0, <1>2, SyncLeaves
<1>4. tx[p].nesting = 0
  BY <1>0, <1>2 DEF Inv, ReadersSafe, Placed, Committing
<1>5. pc' = [pc EXCEPT ![p] = "idle"] /\ db'.new = db.new
  <2>1. pc' = [pc EXCEPT ![p] = "idle"]
    BY <1>4 DEF CommitEnds, Cancel, Leave, Go
  <2>2. db' = [db EXCEPT !.old = db.new] /\ db \in [old: {db.old}, new: {db.new}]
    BY <1>2, Typed DEF CommitEnds, DbType
  <2> QED
    BY <2>1, <2>2
<1>6. Either(file, file, w, db.old, db.new, db.new)
  BY <1>1, LoggedSelf DEF Either
<1>7. Clean(file', disk', db.new, 0)
  <2>1. ~ (file'.size <= file'.head) /\ w \notin file'.magic
    BY <1>1, <1>2, <1>3, Numbers DEF CutOf
  <2>2. db.new \in {db.old, db.new}
    OBVIOUS
  <2>3. \/ file'.size <= file'.head \/ Clean(file', file', db.new, 0)
        \/ Redo(file', file', w, db.old, db.new)
    BY <1>2, <1>3, <1>6, <2>2, CutEither
  <2>4. ~ Redo(file', file', w, db.old, db.new)
    BY <2>1 DEF Redo
  <2> QED
    BY <1>3, <2>1, <2>3, <2>4
<1>8. Resting'
  BY <1>5, <1>7 DEF Resting
<1>9. Stage("idle", file', disk', tx'[p], db') /\ "idle" \in Pc
  BY StageElsewhere DEF Pc
<1> QED
  BY <1>2, <1>3, <1>5, <1>8, <1>9, LonelyStep

-----------------------------------------------------------------------------
(* Open and recovery *)

\* While a process is in tdb_transaction_recover, before it has read the
\* record, nobody commits or restores.
LEMMA OpenAlone ==
    ASSUME Good, NEW p \in Proc, pc[p] = "recover"
    PROVE  /\ TypeInv /\ Inv /\ Resting /\ FileType(file) /\ FileType(disk)
           /\ \A q \in Others(p) : q \in Proc /\ pc[q] \notin Recovering \cup (Committing \ {"global"})
<1>1. TypeInv /\ Inv /\ CrashInv
  BY DEF Good
<1>2. \A q \in Others(p) : q \in Proc /\ pc[q] \notin Recovering \cup (Committing \ {"global"})
  <2>1. HasGlobal(p)
    BY DEF HasGlobal, Recovering
  <2> QED
    BY <1>1, <2>1 DEF Inv, ReadersSafe, LocksExclude, HasGlobal, Others
<1>3. \A q \in Proc : pc[q] \notin Setup \cup Late
  <2>1. Setup \cup Late \subseteq Recovering \cup (Committing \ {"global"})
    BY DEF Setup, Late, Live, Ending, Recovering, Committing
  <2>2. pc[p] \notin Setup \cup Late
    BY DEF Setup, Late, Live, Ending
  <2> QED
    BY <1>2, <2>1, <2>2 DEF Others
<1> QED
  BY <1>1, <1>2, <1>3, Typed DEF CrashInv

\* Steps of open, close and read locks leave file and disk alone.
LEMMA OutsideCrash ==
    ASSUME Good, NEW p \in Proc,
           \/ tdb_open_ex(p) \/ tdb_close(p) \/ tdb_lockall_read(p) \/ tdb_unlockall_read(p)
           \/ RecoverFails(p)
    PROVE  CrashInv'
<1>0. DOMAIN tx = Proc
  BY Typed DEF Good
<1>1. UNCHANGED <<file, disk, cuts, db>>
  BY DEF tdb_open_ex, tdb_close, tdb_lockall_read, tdb_unlockall_read, RecoverFails, faults
<1>2. pc[p] \in {"closed", "idle", "reading", "tx", "recover"}
  BY DEF tdb_open_ex, tdb_close, tdb_lockall_read, tdb_unlockall_read, RecoverFails
<1>3. pc[p] \notin Setup \cup Late
  BY <1>2 DEF Setup, Late, Live, Ending
<1>4. \A q \in Others(p) : tx'[q] = tx[q]
  BY <1>0 DEF tdb_open_ex, tdb_close, tdb_lockall_read, tdb_unlockall_read, RecoverFails, Leave, Others
<1>5. CASE tdb_open_ex(p)
  BY <1>1, <1>3, <1>4, <1>5, LeaveStep DEF tdb_open_ex, Go
<1>6. CASE tdb_close(p)
  BY <1>1, <1>3, <1>4, <1>6, LeaveStep DEF tdb_close, Leave, Go
<1>7. CASE tdb_lockall_read(p)
  BY <1>1, <1>3, <1>4, <1>7, LeaveStep DEF tdb_lockall_read, Go
<1>8. CASE tdb_unlockall_read(p)
  BY <1>1, <1>3, <1>4, <1>8, LeaveStep DEF tdb_unlockall_read, Go
<1>9. CASE RecoverFails(p)
  BY <1>1, <1>3, <1>4, <1>9, LeaveStep DEF RecoverFails, Leave, Go
<1> QED
  BY <1>5, <1>6, <1>7, <1>8, <1>9

\* An open that finds no record finds whole contents.
LEMMA NothingToRecoverCrash ==
    ASSUME Good, NEW p \in Proc, NothingToRecover(p)
    PROVE  CrashInv'
<1>1. /\ pc[p] = "recover" /\ pc' = [pc EXCEPT ![p] = "idle"] /\ UNCHANGED <<file, disk, cuts, db>>
      /\ tx' = [tx EXCEPT ![p] = NoTx] /\ (file.head = 0 \/ file.head < file.size)
  BY DEF NothingToRecover, Leave, Go, faults
<1>2. Resting /\ FileType(file) /\ FileType(disk) /\ DOMAIN tx = Proc
  BY <1>1, OpenAlone, Typed
<1>3. file.size \in Nat /\ file.head \in Nat
  BY <1>2, Numbers
<1>4. ~ (file.size <= file.head)
  <2>1. CASE file.head < file.size
    BY <1>3, <2>1
  <2>2. CASE file.head = 0
    <3>1. 1 < file.size
      <4>1. ASSUME NEW c, Clean(file, disk, c, 0) PROVE 1 < file.size
        BY <1>2, <1>3, <4>1, Numbers DEF Clean
      <4>2. ASSUME Redo(file, disk, file.head, db.old, db.new) PROVE 1 < file.size
        BY <1>3, <2>2, <4>2 DEF Redo, Either, Logged
      <4> QED
        BY <1>2, <4>1, <4>2 DEF Resting
    <3> QED
      BY <1>3, <2>2, <3>1
  <2> QED
    BY <1>1, <2>1, <2>2
<1>5. pc[p] \notin Setup \cup Late /\ \A q \in Others(p) : tx'[q] = tx[q]
  BY <1>1, <1>2 DEF Setup, Late, Live, Ending, Others
<1> QED
  BY <1>1, <1>4, <1>5, LeaveStep

\* A record that is found is the one of the last commit, and its reader is alone.
LEMMA ReadRecordCrash ==
    ASSUME Good, NEW p \in Proc, ReadRecord(p)
    PROVE  CrashInv'
<1> DEFINE w == file.head
           log == file.log[w]
           t == [tx[p] EXCEPT !.elems = log.saved, !.where = w, !.eof = log.eof]
<1>1. /\ pc[p] = "recover" /\ pc' = [pc EXCEPT ![p] = "restore"] /\ UNCHANGED <<file, disk, db>>
      /\ w # 0 /\ w \in file.magic /\ RecordEnd < file.size
  BY DEF ReadRecord, Go
<1>2. /\ TypeInv /\ Inv /\ Resting /\ FileType(file) /\ FileType(disk) /\ DOMAIN tx = Proc /\ TxType(tx[p])
      /\ \A q \in Others(p) : q \in Proc /\ pc[q] \notin Recovering \cup (Committing \ {"global"})
  BY <1>1, OpenAlone, Typed
<1>3. w < file.size /\ ~ (file.size <= w)
  <2>1. w \in Nat /\ file.size \in Nat /\ DOMAIN log.saved \subseteq Off
    BY <1>2, Numbers
  <2>2. Cardinality(DOMAIN log.saved) \in Nat
    <3>1. IsFiniteSet(Off)
      BY TdbAssumption, FS_Interval DEF Off
    <3> QED
      BY <2>1, <3>1, FS_Subset, FS_CardinalityType
  <2> QED
    BY <1>1, <2>1, <2>2 DEF RecordEnd
<1>4. Redo(file, disk, w, db.old, db.new)
  <2>1. \A c : ~ Clean(file, disk, c, 0)
    BY <1>1 DEF Clean
  <2> QED
    BY <1>2, <1>3, <2>1 DEF Resting
<1>5. \A q \in Others(p) : pc[q] \in {"closed", "idle"}
  <2>1. Armed
    BY <1>1 DEF Armed
  <2>2. \A q \in Proc : pc[q] \notin Live
    <3>1. Live \subseteq Committing \ {"global"} /\ pc[p] \notin Live
      BY <1>1 DEF Live, Committing
    <3> QED
      BY <1>2, <3>1 DEF Others
  <2>3. \A q \in Proc : pc[q] \in {"closed"} \cup Recovering
    BY <1>2, <2>1, <2>2 DEF Inv, ReadersSafe, ArmedInCommit
  <2> QED
    BY <1>2, <2>3
<1>6. tx' = [tx EXCEPT ![p] = t]
  BY <1>2 DEF ReadRecord
<1>7. tx'[p].elems = log.saved /\ tx'[p].where = w /\ tx'[p].eof = log.eof
  <2>1. tx'[p] = t
    BY <1>2, <1>6
  <2> HIDE DEF log, w
  <2> QED
    BY <1>2, <2>1 DEF TxType, TxShape
<1>8. Restoring(file, tx'[p])
  BY <1>7 DEF Restoring
<1>9. Stage("restore", file', disk', tx'[p], db')
  BY <1>1, <1>4, <1>7, <1>8 DEF Stage, Early, Setup, Live, Late, Ending
<1>10. "restore" \in Pc /\ "restore" \in Setup \cup Late
  BY <1>1 DEF Good, CrashInv, Pc, Recovering, Late
<1> QED
  BY <1>1, <1>2, <1>5, <1>9, <1>10, LonelyStep

\* RestoreElement writes words of the old contents.
LEMMA RestoreElementCrash ==
    ASSUME Good, NEW p \in Proc, NEW o \in Off, RestoreElement(p, o)
    PROVE  CrashInv'
<1> DEFINE w == tx[p].where
           e == tx[p].elems
           log == file.log[w]
<1>0. pc[p] = "restore" /\ pc[p] \in Setup \cup Late /\ "restore" \in Setup \cup Late /\ WriteElement(p, o)
  BY DEF RestoreElement, Late, Live
<1>1. Redo(file, disk, w, db.old, db.new) /\ Restoring(file, tx[p]) /\ tx[p].eof = log.eof
  BY <1>0, Busy DEF Stage, Setup, Live
<1>2. /\ FileType(file) /\ FileType(disk) /\ w \in Off /\ w \in Nat /\ TypeInv
      /\ IsContents(db.old) /\ IsContents(db.new)
  BY <1>0, Busy
<1>3. /\ o \in DOMAIN e /\ UNCHANGED <<disk, pc, db>>
      /\ file'.size = file.size /\ file'.head = file.head /\ file'.magic = file.magic
      /\ file'.max = file.max /\ file'.log = file.log
      /\ file'.data[o] = e[o]
      /\ \A x \in Off : x # o => file'.data[x] = file.data[x]
      /\ tx'[p].where = w /\ tx'[p].eof = tx[p].eof
      /\ DOMAIN tx'[p].elems = DOMAIN e \ {o}
      /\ \A x \in DOMAIN e \ {o} : tx'[p].elems[x] = e[x]
  BY <1>0, <1>2, ElementFields
<1>4. Logged(file, disk, w, db.old, db.new) /\ 1 < w
  BY <1>1 DEF Redo, Either, Logged
<1>5. Heads \in Off /\ db.old[Heads] \subseteq Off
  BY <1>2, PadTyped, ReachTyped
<1>6. /\ o \in DOMAIN log.saved /\ e[o] = log.saved[o]
      /\ o \in db.old[Heads] \cup {Heads} => e[o] = db.old[o]
  <2>1. o \in DOMAIN log.saved /\ e[o] = log.saved[o]
    BY <1>1, <1>3 DEF Restoring
  <2> QED
    BY <1>4, <2>1 DEF Logged
<1>7. Logged(file', disk, w, db.old, db.new)
  <2>1. log.eof <= file'.size
    BY <1>3, <1>4 DEF Logged
  <2>2. file'.data[Heads] \in {db.old[Heads], db.new[Heads]}
    BY <1>3, <1>4, <1>5, <1>6 DEF Logged
  <2>3. \A x \in db.old[Heads] : x \notin DOMAIN log.saved => x # o
    BY <1>6
  <2>4. w < file'.size => Within(w, file.max[w], file'.size, {})
    BY <1>3, <1>4 DEF Logged
  <2> QED
    BY <1>3, <1>4, <1>5, <2>1, <2>2, <2>3, <2>4, LoggedKept
<1>8. ASSUME Shows(file, db.old) PROVE Shows(file', db.old)
  BY <1>3, <1>5, <1>6, <1>8 DEF Shows
<1>9. Redo(file', disk, w, db.old, db.new)
  BY <1>1, <1>3, <1>7, <1>8 DEF Redo, Either
<1>10. Restoring(file', tx'[p])
  <2>1. DOMAIN log.saved \subseteq Off
    BY <1>2, Numbers
  <2>2. \A x \in DOMAIN log.saved :
           (IF x \in DOMAIN tx'[p].elems THEN tx'[p].elems[x] ELSE file'.data[x]) = log.saved[x]
    <3> SUFFICES ASSUME NEW x \in DOMAIN log.saved
                 PROVE  (IF x \in DOMAIN tx'[p].elems THEN tx'[p].elems[x] ELSE file'.data[x]) = log.saved[x]
      OBVIOUS
    <3>1. (IF x \in DOMAIN e THEN e[x] ELSE file.data[x]) = log.saved[x] /\ x \in Off
      BY <1>1, <2>1 DEF Restoring
    <3>2. CASE x = o
      BY <1>3, <1>6, <3>2
    <3>3. CASE x # o
      BY <1>3, <3>1, <3>3
    <3> QED
      BY <3>2, <3>3
  <2>3. DOMAIN tx'[p].elems \subseteq DOMAIN log.saved
    BY <1>1, <1>3 DEF Restoring
  <2> QED
    BY <1>3, <2>2, <2>3 DEF Restoring
<1>11. Stage("restore", file', disk', tx'[p], db')
  BY <1>0, <1>1, <1>3, <1>9, <1>10 DEF Stage, Early, Setup, Live, Late, Ending
<1>12. pc' = [pc EXCEPT ![p] = "restore"]
  BY <1>0, <1>2, <1>3, SamePlace
<1> QED
  BY <1>0, <1>2, <1>3, <1>11, <1>12, BusyStep

\* SyncRestored: the old contents are on the disk.
LEMMA SyncRestoredCrash ==
    ASSUME Good, NEW p \in Proc, SyncRestored(p)
    PROVE  CrashInv'
<1> DEFINE w == tx[p].where
           log == file.log[w]
<1>0. /\ pc[p] = "restore" /\ pc' = [pc EXCEPT ![p] = "rhead"] /\ UNCHANGED <<tx, db>>
      /\ pc[p] \in Setup \cup Late /\ "rhead" \in Setup \cup Late /\ transaction_sync
      /\ DOMAIN tx[p].elems = {}
  BY DEF SyncRestored, Go, Late, Ending
<1>1. Redo(file, disk, w, db.old, db.new) /\ Restoring(file, tx[p]) /\ tx[p].eof = log.eof
  BY <1>0, Busy DEF Stage, Setup, Live
<1>2. /\ FileType(file) /\ FileType(disk) /\ w \in Off
      /\ IsContents(db.old) /\ IsContents(db.new)
  BY <1>0, Busy
<1>3. Logged(file, disk, w, db.old, db.new) /\ w < file.size
  BY <1>1 DEF Redo, Either
<1>4. /\ disk' = file' /\ CutOf(file', file, file) /\ file'.log[w] = log
  BY <1>0, <1>2, <1>3, SyncLeaves
<1>5. Redo(file', disk', w, db.old, db.new)
  BY <1>1, <1>2, <1>4, SyncRedo
<1>6. Shows(file, db.old)
  <2>1. \A o \in DOMAIN log.saved : file.data[o] = log.saved[o]
    BY <1>0, <1>1 DEF Restoring
  <2>2. ASSUME NEW o \in db.old[Heads]
        PROVE  file.data[o] = db.old[o]
    <3>1. IF o \in DOMAIN log.saved THEN log.saved[o] = db.old[o] ELSE file.data[o] = db.old[o]
      BY <1>3 DEF Logged
    <3> HIDE DEF w, log
    <3> QED
      BY <2>1, <3>1
  <2>3. file.data[Heads] = db.old[Heads]
    BY <1>3, <2>1 DEF Logged
  <2>4. \A o \in db.old[Heads] : o < file.size
    <3> SUFFICES ASSUME NEW o \in db.old[Heads] PROVE o < file.size
      OBVIOUS
    <3>1. o \in Nat /\ log.eof \in Nat /\ file.size \in Nat
      BY <1>2, ReachTyped, Numbers
    <3>2. o < log.eof /\ log.eof <= file.size
      BY <1>3 DEF Logged
    <3> QED
      BY <3>1, <3>2
  <2> QED
    BY <2>2, <2>3, <2>4 DEF Shows
<1>7. Shows(file', db.old)
  BY <1>2, <1>4, <1>6, CutShows
<1>8. Stage("rhead", file', disk', tx'[p], db')
  BY <1>0, <1>1, <1>4, <1>5, <1>7 DEF Stage, Early, Setup, Live, Late, Ending, Redo
<1> QED
  BY <1>0, <1>4, <1>8, BusyStep

\* RemoveHead: the record is no longer needed.
LEMMA RemoveHeadCrash ==
    ASSUME Good, NEW p \in Proc, RemoveHead(p)
    PROVE  CrashInv'
<1> DEFINE w == tx[p].where
           h == IF tx[p].eof <= w THEN 0 ELSE file.head
<1>0. /\ pc[p] = "rhead" /\ pc' = [pc EXCEPT ![p] = "rmagic"] /\ UNCHANGED <<disk, tx, db>>
      /\ pc[p] \in Setup \cup Late /\ "rmagic" \in Setup \cup Late
      /\ file' = IF tx[p].eof <= w THEN [file EXCEPT !.head = 0] ELSE file
  BY DEF RemoveHead, Go, Late, Ending
<1>1. /\ Redo(file, disk, w, db.old, db.new) /\ Shows(file, db.old) /\ Shows(disk, db.old)
      /\ tx[p].eof = file.log[w].eof
  BY <1>0, Busy DEF Stage, Setup, Live, Ending
<1>2. FileType(file)
  BY <1>0, Busy
<1>3. /\ file'.size = file.size /\ file'.head = h /\ file'.data = file.data
      /\ file'.magic = file.magic /\ file'.max = file.max /\ file'.log = file.log
  <2>1. CASE tx[p].eof <= w
    <3>1. Fields([file EXCEPT !.head = 0], file.size, 0, file.data, file.magic, file.max, file.log)
      BY <1>2, PadTyped, HeadTyped
    <3> QED
      BY <1>0, <2>1, <3>1 DEF Fields
  <2>2. CASE ~ (tx[p].eof <= w)
    BY <1>0, <2>2
  <2> QED
    BY <2>1, <2>2
<1>4. Logged(file', disk, w, db.old, db.new) /\ Shows(file', db.old)
  BY <1>1, <1>3, LoggedFields DEF Redo, Either, Shows
<1>5. Either(file', disk, w, db.old, db.new, db.old) /\ file'.head = IF tx[p].eof <= w THEN 0 ELSE w
  BY <1>1, <1>3, <1>4 DEF Redo, Either
<1>6. Stage("rmagic", file', disk', tx'[p], db')
  BY <1>0, <1>1, <1>3, <1>4, <1>5 DEF Stage, Early, Setup, Live, Late, Ending
<1> QED
  BY <1>0, <1>2, <1>6, BusyStep

\* RemoveRecoveryMagic: nor is its magic.
LEMMA RemoveRecoveryMagicCrash ==
    ASSUME Good, NEW p \in Proc, RemoveRecoveryMagic(p)
    PROVE  CrashInv'
<1> DEFINE w == tx[p].where
<1>0. /\ pc[p] = "rmagic" /\ pc' = [pc EXCEPT ![p] = "rtrunc"] /\ UNCHANGED <<disk, tx, db>>
      /\ pc[p] \in Setup \cup Late /\ "rtrunc" \in Setup \cup Late
      /\ file' = [file EXCEPT !.magic = @ \ {w}]
  BY DEF RemoveRecoveryMagic, Go, Late, Ending
<1>1. /\ Either(file, disk, w, db.old, db.new, db.old) /\ Shows(file, db.old) /\ Shows(disk, db.old)
      /\ tx[p].eof = file.log[w].eof /\ file.head = IF tx[p].eof <= w THEN 0 ELSE w
  BY <1>0, Busy DEF Stage, Setup, Live, Ending
<1>2. FileType(file)
  BY <1>0, Busy
<1>3. /\ file'.size = file.size /\ file'.head = file.head /\ file'.data = file.data
      /\ file'.magic = file.magic \ {w} /\ file'.max = file.max /\ file'.log = file.log
  BY <1>0, <1>2, UnmagicFields
<1>4. Logged(file', disk, w, db.old, db.new) /\ Shows(file', db.old)
  BY <1>1, <1>3, LoggedFields DEF Either, Shows
<1>5. Either(file', disk, w, db.old, db.new, db.old)
  BY <1>1, <1>3, <1>4 DEF Either
<1>6. Stage("rtrunc", file', disk', tx'[p], db')
  BY <1>0, <1>1, <1>3, <1>4, <1>5 DEF Stage, Early, Setup, Live, Late, Ending
<1> QED
  BY <1>0, <1>2, <1>6, BusyStep

\* TruncateFile cuts off none of the old contents.
LEMMA TruncateFileCrash ==
    ASSUME Good, NEW p \in Proc, TruncateFile(p)
    PROVE  CrashInv'
<1> DEFINE w == tx[p].where
           log == file.log[w]
<1>0. /\ pc[p] = "rtrunc" /\ pc' = [pc EXCEPT ![p] = "rsync2"] /\ UNCHANGED <<disk, tx, db>>
      /\ pc[p] \in Setup \cup Late /\ "rsync2" \in Setup \cup Late
      /\ file' = [file EXCEPT !.size = tx[p].eof]
  BY DEF TruncateFile, Go, Late, Ending
<1>1. /\ Either(file, disk, w, db.old, db.new, db.old) /\ Shows(file, db.old) /\ Shows(disk, db.old)
      /\ tx[p].eof = log.eof /\ file.head = IF tx[p].eof <= w THEN 0 ELSE w
      /\ w \notin file.magic
  BY <1>0, Busy DEF Stage, Setup, Live, Ending
<1>2. FileType(file) /\ TxType(tx[p]) /\ IsContents(db.old)
  BY <1>0, Busy
<1>3. /\ file'.size = log.eof /\ file'.head = file.head /\ file'.data = file.data
      /\ file'.magic = file.magic /\ file'.max = file.max /\ file'.log = file.log
  <2>1. tx[p].eof \in 0..MaxSize
    BY <1>2 DEF TxType, IsTx
  <2>2. Fields(file', tx[p].eof, file.head, file.data, file.magic, file.max, file.log)
    BY <1>0, <1>2, <2>1, TruncateTyped
  <2> QED
    BY <1>1, <2>2 DEF Fields
<1>4. Logged(file, disk, w, db.old, db.new)
  BY <1>1 DEF Either
<1>5. Shows(file', db.old)
  BY <1>1, <1>3, <1>4 DEF Shows, Logged
<1>6. Logged(file', disk, w, db.old, db.new)
  <2>1. log.eof <= file'.size
    <3>1. log.eof \in Nat
      BY <1>2, <1>0, Busy, Numbers
    <3> QED
      BY <1>3, <3>1
  <2>2. w < file'.size => Within(w, file.max[w], file'.size, {})
    BY <1>3, <1>4 DEF Logged
  <2>3. file'.data[Heads] \in {db.old[Heads], db.new[Heads]}
    BY <1>3, <1>4 DEF Logged
  <2> QED
    BY <1>3, <1>4, <2>1, <2>2, <2>3, LoggedKept
<1>7. Either(file', disk, w, db.old, db.new, db.old)
  BY <1>1, <1>3, <1>5, <1>6 DEF Either
<1>8. Stage("rsync2", file', disk', tx'[p], db')
  BY <1>0, <1>1, <1>3, <1>5, <1>7 DEF Stage, Early, Setup, Live, Late, Ending
<1> QED
  BY <1>0, <1>2, <1>8, BusyStep

\* RecoverEnds: the old contents are there, and no record.
LEMMA RecoverEndsCrash ==
    ASSUME Good, NEW p \in Proc, RecoverEnds(p)
    PROVE  CrashInv'
<1> DEFINE w == tx[p].where
<1>0. pc[p] = "rsync2" /\ pc[p] \in Setup \cup Late /\ transaction_sync
  BY DEF RecoverEnds, Late, Ending
<1>1. /\ Either(file, disk, w, db.old, db.new, db.old) /\ Shows(file, db.old)
      /\ tx[p].eof = file.log[w].eof /\ file.head = IF tx[p].eof <= w THEN 0 ELSE w
      /\ w \notin file.magic /\ file.size = tx[p].eof
  BY <1>0, Busy DEF Stage, Ending
<1>2. /\ FileType(file) /\ FileType(disk) /\ w \in Off /\ w \in Nat /\ TypeInv
      /\ IsContents(db.old) /\ IsContents(db.new) /\ \A q \in Others(p) : pc[q] \in {"closed", "idle"}
  BY <1>0, Busy
<1>3. /\ disk' = file' /\ CutOf(file', file, file)
      /\ file'.size = file.size /\ file'.head = file.head /\ file.size \in Nat
  BY <1>0, <1>2, SyncLeaves, Numbers
<1>4. Logged(file, disk, w, db.old, db.new) /\ 1 < w /\ 1 < file.size
  BY <1>1 DEF Either, Logged
<1>5. Clean(file', file', db.old, 0)
  <2>1. CASE tx[p].eof <= w
    <3>1. file.head = 0
      BY <1>1, <2>1
    <3>2. Shows(file', db.old) /\ \A o \in file'.magic : o < file'.size
      BY <1>1, <1>2, <1>3, CutShows, CutMagic
    <3> QED
      BY <1>3, <1>4, <3>1, <3>2 DEF Clean, Logged
  <2>2. CASE ~ (tx[p].eof <= w)
    <3>1. file.head = w /\ w < file.size
      BY <1>1, <1>2, <1>3, <2>2
    <3>2. Either(file, file, w, db.old, db.new, db.old)
      BY <1>1, <1>4, <3>1, LoggedSelf DEF Either
    <3>3. ~ (file'.size <= file'.head) /\ w \notin file'.magic
      BY <1>1, <1>2, <1>3, <3>1 DEF CutOf
    <3>4. db.old \in {db.old, db.new}
      OBVIOUS
    <3>5. \/ file'.size <= file'.head \/ Clean(file', file', db.old, 0)
          \/ Redo(file', file', w, db.old, db.new)
      BY <1>2, <1>3, <3>2, <3>4, CutEither
    <3>6. ~ Redo(file', file', w, db.old, db.new)
      BY <3>3 DEF Redo
    <3> QED
      BY <3>3, <3>5, <3>6
  <2> QED
    BY <2>1, <2>2
<1>6. db'.old = db.old /\ pc' = [pc EXCEPT ![p] = "idle"]
  BY <1>1 DEF RecoverEnds, Leave, Go
<1>7. Resting'
  BY <1>3, <1>5, <1>6 DEF Resting
<1>8. Stage("idle", file', disk', tx'[p], db') /\ "idle" \in Pc
  BY StageElsewhere DEF Pc
<1> QED
  BY <1>2, <1>3, <1>6, <1>7, <1>8, LonelyStep

-----------------------------------------------------------------------------
(* Failures *)

\* A commit without a new area has overwritten nothing before its record is valid.
LEMMA Settled ==
    ASSUME NEW p \in Proc, Place(p) # "newarea", Stage(pc[p], file, disk, tx[p], db), pc[p] \in Setup
    PROVE  Clean(file, disk, db.old, 0)
<1>1. ~ Fresh(pc[p], tx[p])
  BY DEF Fresh, Place
<1> QED
  BY <1>1 DEF Stage

\* A killed process leaves a file without a record, or with one that leads back
\* to the old contents.
LEMMA KillCrash ==
    ASSUME Orderly, Good, NEW p \in Proc, Kill(p)
    PROVE  CrashInv'
<1>1. /\ Place(p) \in KillAt /\ pc' = [pc EXCEPT ![p] = "closed"] /\ tx' = [tx EXCEPT ![p] = NoTx]
      /\ UNCHANGED <<file, disk, cuts, db>>
  BY DEF Kill, Leave, Go
<1>2. DOMAIN tx = Proc /\ TypeInv
  BY Typed DEF Good, CrashInv
<1>3. CASE pc[p] \notin Setup \cup Late
  <2>1. \A q \in Others(p) : tx'[q] = tx[q]
    BY <1>1, <1>2 DEF Others
  <2> QED
    BY <1>1, <1>3, <2>1, LeaveStep
<1>4. CASE pc[p] \in Setup \cup Late
  <2>1. Place(p) # "newarea" /\ pc[p] \in Setup \cup Live \cup {"restore", "rhead"}
    BY <1>1, <1>4 DEF Orderly, Setup, Late, Live, Ending, Place
  <2>2. /\ Stage(pc[p], file, disk, tx[p], db)
        /\ \A q \in Others(p) : pc[q] \in {"closed", "idle"}
    BY <1>4, Busy
  <2>3. ASSUME pc[p] \in Setup
        PROVE  Clean(file, disk, db.old, 0)
    BY <2>1, <2>2, <2>3, Settled
  <2>4. ASSUME pc[p] \in Live \cup {"restore", "rhead"}
        PROVE  Redo(file, disk, file.head, db.old, db.new)
    <3>1. Redo(file, disk, tx[p].where, db.old, db.new)
      BY <2>2, <2>4 DEF Stage
    <3>2. file.head = tx[p].where
      BY <3>1 DEF Redo
    <3> QED
      BY <3>1, <3>2
  <2>5. Resting'
    BY <1>1, <2>1, <2>3, <2>4 DEF Resting
  <2>6. Stage("closed", file', disk', tx'[p], db') /\ "closed" \in Pc
    BY StageElsewhere DEF Pc
  <2> QED
    BY <1>1, <1>2, <2>2, <2>5, <2>6, LonelyStep
<1> QED
  BY <1>3, <1>4

\* Before a power cut, no writes are under way, or there is the record to undo
\* them, or they are all on the disk, or nobody could open the file before.
LEMMA CutFrom ==
    ASSUME Orderly, Good, \A p \in Proc : Place(p) \in CutAt
    PROVE  \/ \E c \in {db.old, db.new} : Clean(file, disk, c, 0)
           \/ \E w \in Off, c \in {db.old, db.new} : Either(file, disk, w, db.old, db.new, c)
           \/ 1 < file.size /\ file.size <= file.head /\ file = disk
<1>1. CASE \E p \in Proc : pc[p] \in Setup \cup Late
  <2>1. PICK p \in Proc : pc[p] \in Setup \cup Late
    BY <1>1
  <2>2. Stage(pc[p], file, disk, tx[p], db) /\ tx[p].where \in Off
    BY <2>1, Busy
  <2>3. Place(p) # "newarea"
    BY DEF Orderly
  <2>4. CASE pc[p] \in Setup
    BY <2>2, <2>3, <2>4, Settled
  <2>5. CASE pc[p] \in Live \cup {"restore"} \cup Ending
    <3>1. Either(file, disk, tx[p].where, db.old, db.new, db.old)
      BY <2>2, <2>5 DEF Stage, Redo
    <3> QED
      BY <2>2, <3>1
  <2>6. CASE pc[p] = "sync4"
    <3>1. Either(file, disk, tx[p].where, db.old, db.new, db.new)
      BY <2>2, <2>6 DEF Stage
    <3> QED
      BY <2>2, <3>1
  <2> QED
    BY <2>1, <2>4, <2>5, <2>6 DEF Late
<1>2. CASE \A p \in Proc : pc[p] \notin Setup \cup Late
  <2>1. Resting /\ file.head \in Off
    BY <1>2, Typed, Numbers DEF Good, CrashInv
  <2>2. ASSUME Redo(file, disk, file.head, db.old, db.new)
        PROVE  Either(file, disk, file.head, db.old, db.new, db.old)
    BY <2>2 DEF Redo
  <2> QED
    BY <2>1, <2>2 DEF Resting
<1> QED
  BY <1>1, <1>2

\* A power cut leaves whole contents, or a record that leads to them, or a file that
\* cannot be opened.
LEMMA PowerCutCrash ==
    ASSUME Orderly, Good, PowerCut
    PROVE  CrashInv'
<1>1. /\ TypeInv /\ FileType(file) /\ FileType(disk) /\ IsContents(db.old) /\ IsContents(db.new)
      /\ cuts \in 0..MaxCuts /\ backs \in 0..MaxBacks
  BY Typed, DbContents DEF Good
<1>2. /\ (\A p \in Proc : Place(p) \in CutAt) /\ cuts' = cuts + 1 /\ db' = db
      /\ pc' = [p \in Proc |-> "closed"]
  BY DEF PowerCut
<1>3. disk' = file' /\ CutOf(file', file, disk)
  BY <1>1, CutLeaves
<1>5. \A p \in Proc : pc'[p] = "closed" /\ Stage(pc'[p], file', disk', tx'[p], db')
  BY <1>2, StageElsewhere
<1>6. \/ 1 < file'.size /\ file'.size <= file'.head
      \/ \E c \in {db.old, db.new} : Clean(file', file', c, 0)
      \/ Redo(file', file', file'.head, db.old, db.new)
  <2>1. ASSUME NEW c \in {db.old, db.new}, Clean(file, disk, c, 0)
        PROVE  1 < file'.size /\ (file'.size <= file'.head \/ Clean(file', file', c, 0))
    BY <1>1, <1>3, <2>1, CutClean
  <2>2. ASSUME NEW w \in Off, NEW c \in {db.old, db.new}, Either(file, disk, w, db.old, db.new, c)
        PROVE  /\ 1 < file'.size
               /\ \/ file'.size <= file'.head \/ Clean(file', file', c, 0)
                  \/ Redo(file', file', w, db.old, db.new) /\ file'.head = w
    BY <1>1, <1>3, <2>2, CutEither
  <2>3. ASSUME 1 < file.size, file.size <= file.head, file = disk
        PROVE  1 < file'.size /\ file'.size <= file'.head
    BY <1>3, <2>3 DEF CutOf
  <2> QED
    BY <1>2, <2>1, <2>2, <2>3, CutFrom
<1>7. Resting'
  <2>1. cuts' > 0
    BY <1>1, <1>2
  <2> QED
    BY <1>2, <1>3, <1>5, <1>6, <2>1 DEF Resting
<1> QED
  BY <1>5, <1>7 DEF CrashInv

\* A write that reaches the disk changes nothing that processes rely on.
LEMMA WriteBackCrash ==
    ASSUME Good, WriteBack
    PROVE  CrashInv'
<1>1. /\ FileType(file) /\ FileType(disk) /\ IsContents(db.old) /\ IsContents(db.new)
      /\ pc \in [Proc -> Pc] /\ (\A p \in Proc : TxType(tx[p])) /\ file.head \in Off
  BY Typed, DbContents, Numbers DEF Good
<1>2. BackOf(disk', file, disk) /\ disk # file /\ UNCHANGED <<file, pc, tx, db>>
  BY <1>1, BackLeaves DEF WriteBack
<1>3. ASSUME NEW p \in Proc
      PROVE  Stage(pc[p], file, disk', tx[p], db)
  <2>1. Stage(pc[p], file, disk, tx[p], db) /\ pc[p] \in Pc
    BY <1>1 DEF Good, CrashInv
  <2>2. pc[p] # "magic"
    BY <1>2, <2>1 DEF Stage
  <2> QED
    BY <1>1, <1>2, <2>1, <2>2, BackStage
<1>4. ASSUME \A p \in Proc : pc[p] \notin Setup \cup Late
      PROVE  \/ \E c \in {db.old, db.new} : Clean(file, disk', c, 0)
             \/ Redo(file, disk', file.head, db.old, db.new)
  <2>1. \/ \E c \in {db.old, db.new} : Clean(file, disk, c, 0)
        \/ Redo(file, disk, file.head, db.old, db.new)
    BY <1>2, <1>4 DEF Good, CrashInv, Resting
  <2>2. ASSUME NEW c \in {db.old, db.new}, Clean(file, disk, c, 0)
        PROVE  Clean(file, disk', c, 0)
    BY <1>1, <1>2, <2>2, BackClean
  <2>3. ASSUME Redo(file, disk, file.head, db.old, db.new)
        PROVE  Redo(file, disk', file.head, db.old, db.new)
    BY <1>1, <1>2, <2>3, BackRedo
  <2> QED
    BY <2>1, <2>2, <2>3
<1> QED
  BY <1>2, <1>3, <1>4 DEF CrashInv, Resting

\* A new database is whole.
LEMMA InitCrash == Init => CrashInv
<1> SUFFICES ASSUME Init PROVE CrashInv
  OBVIOUS
<1> DEFINE c == db.old
<1>1. /\ file = NewDatabase /\ disk = NewDatabase /\ TypeInv
      /\ \A p \in Proc : pc[p] = "closed"
  BY InitTyped DEF Init
<1>2. /\ NewDatabase.size = FirstSize /\ NewDatabase.head = 0 /\ NewDatabase.magic = {}
      /\ NewDatabase.max = [o \in Off |-> 0]
      /\ NewDatabase.data = [o \in Off |-> IF o = Heads THEN 2..FirstSize - 1 ELSE Pad]
  BY DEF NewDatabase
<1>3. c = Contents(NewDatabase.data)
  BY DEF Init
<1>4. NewDatabase.data[Heads] = 2..FirstSize - 1 /\ c[Heads] = NewDatabase.data[Heads]
  BY <1>2, <1>3, PadTyped DEF Contents
<1>5. \A o \in c[Heads] : o \in Off /\ 1 < o /\ o < FirstSize
  BY <1>4, TdbAssumption DEF Off
<1>6. \A o \in c[Heads] : c[o] = NewDatabase.data[o]
  BY <1>3, <1>4, <1>5 DEF Contents
<1>7. Shows(file, c) /\ Shows(disk, c)
  BY <1>1, <1>2, <1>4, <1>5, <1>6 DEF Shows
<1>8. Clean(file, disk, c, 0)
  BY <1>1, <1>2, <1>5, <1>7, TdbAssumption DEF Clean
<1>10. \A p \in Proc : Stage(pc[p], file, disk, tx[p], db)
  BY <1>1, StageElsewhere
<1> QED
  BY <1>8, <1>10 DEF CrashInv, Resting

-----------------------------------------------------------------------------
(* All steps *)

\* Transactions and commits keep the invariant.
LEMMA TransactionGood ==
    ASSUME Good, NEW p \in Proc, Transaction(p)
    PROVE  TypeInv' /\ CrashInv'
<1>0. TypeInv
  BY DEF Good
<1>1. CASE \/ NestedStart(p) \/ CommitNested(p) \/ \E held \in BOOLEAN : TxLock(p, held)
           \/ tdb_transaction_commit(p) \/ tdb_brlock_upgrade(p) \/ TakeGlobal(p)
  BY <1>0, <1>1, BeforeCommitTyped, MemoryCrash
<1>2. CASE tdb_transaction_start(p)
  BY <1>0, <1>2, BeforeCommitTyped, StartCrash
<1>3. CASE \/ tdb_transaction_cancel(p) \/ CommitRefused(p) \/ UpgradeFails(p) \/ AllocateFails(p)
  BY <1>0, <1>3, GivesUpTyped, GivesUpCrash, AllocateFailsTyped, AllocateFailsCrash
<1>4. CASE \E o \in Off, v \in Val \ {Pad} : transaction_write(p, o, v)
  BY <1>0, <1>4, WriteTyped, WriteCrash
<1>5. CASE transaction_expand_file(p)
  BY <1>0, <1>5, GrowTyped, GrowCrash
<1>6. CASE UseArea(p)
  BY <1>0, <1>6, UseAreaTyped, UseAreaCrash
<1>7. CASE NewArea(p)
  BY <1>0, <1>7, NewAreaTyped, NewAreaCrash
<1>8. CASE WriteHead(p) \/ WriteMagic(p) \/ RemoveMagic(p)
  BY <1>0, <1>8, FieldStepsTyped, WriteHeadCrash, WriteMagicCrash, RemoveMagicCrash
<1>9. CASE WriteRecord(p)
  BY <1>0, <1>9, WriteRecordTyped, WriteRecordCrash
<1>10. CASE RecordRefused(p)
  BY <1>10, NeverRefused
<1>11. CASE SyncRecord(p) \/ SyncMagic(p) \/ SyncWrites(p) \/ CommitEnds(p)
  BY <1>0, <1>11, SyncsTyped, SyncRecordCrash, SyncMagicCrash, SyncWritesCrash, CommitEndsCrash
<1>12. CASE ExpandFile(p)
  BY <1>0, <1>12, ExpandFileTyped, ExpandFileCrash
<1>13. CASE \E o \in Off : CommitWrite(p, o)
  BY <1>0, <1>13, WriteElementTyped, CommitWriteCrash DEF CommitWrite
<1> QED
  BY <1>1, <1>2, <1>3, <1>4, <1>5, <1>6, <1>7, <1>8, <1>9, <1>10, <1>11, <1>12, <1>13, Zenon
  DEF Transaction

\* Recoveries keep the invariant.
LEMMA RecoveryGood ==
    ASSUME Good, NEW p \in Proc, Recovery(p)
    PROVE  TypeInv' /\ CrashInv'
<1>0. TypeInv
  BY DEF Good
<1>1. CASE NothingToRecover(p) \/ RecoverFails(p)
  BY <1>0, <1>1, OutsideTyped, NothingToRecoverCrash, OutsideCrash
<1>2. CASE ReadRecord(p)
  BY <1>0, <1>2, ReadRecordTyped, ReadRecordCrash
<1>3. CASE \E o \in Off : RestoreElement(p, o)
  BY <1>0, <1>3, WriteElementTyped, RestoreElementCrash DEF RestoreElement
<1>4. CASE SyncRestored(p) \/ RecoverEnds(p)
  BY <1>0, <1>4, SyncsTyped, SyncRestoredCrash, RecoverEndsCrash
<1>5. CASE RemoveHead(p) \/ RemoveRecoveryMagic(p) \/ TruncateFile(p)
  BY <1>0, <1>5, FieldStepsTyped, RemoveHeadCrash, RemoveRecoveryMagicCrash, TruncateFileCrash
<1> QED
  BY <1>1, <1>2, <1>3, <1>4, <1>5, Zenon DEF Recovery

\* Every step keeps the invariant.
LEMMA NextGood ==
    ASSUME Orderly, Good, [Next]_vars
    PROVE  Good'
<1>0. TypeInv /\ CrashInv
  BY DEF Good
<1>1. Inv'
  BY NextInv DEF Good, Orderly
<1>2. CASE WriteBack \/ PowerCut
  BY <1>0, <1>1, <1>2, WriteBackTyped, WriteBackCrash, PowerCutTyped, PowerCutCrash DEF Good
<1>3. CASE UNCHANGED vars
  <2>1. TypeInv'
    BY <1>0, <1>3 DEF vars, TypeInv, TypeOK, Shape, FileShape, TxShape
  <2>2. CrashInv'
    BY <1>0, <1>3 DEF vars, CrashInv, Resting
  <2> QED
    BY <1>1, <2>1, <2>2 DEF Good
<1>4. ASSUME NEW p \in Proc, Transaction(p)
      PROVE  Good'
  BY <1>1, <1>4, TransactionGood DEF Good
<1>5. ASSUME NEW p \in Proc,
             tdb_open_ex(p) \/ tdb_close(p) \/ tdb_lockall_read(p) \/ tdb_unlockall_read(p)
      PROVE  Good'
  BY <1>0, <1>1, <1>5, OutsideTyped, OutsideCrash DEF Good
<1>6. ASSUME NEW p \in Proc, Recovery(p)
      PROVE  Good'
  BY <1>1, <1>6, RecoveryGood DEF Good
<1>7. ASSUME NEW p \in Proc, Kill(p)
      PROVE  Good'
  BY <1>0, <1>1, <1>7, KillTyped, KillCrash DEF Good
<1> QED
  BY <1>2, <1>3, <1>4, <1>5, <1>6, <1>7 DEF Next

\* The invariant holds in the initial states.
LEMMA InitGood == Init => Good
  BY InitInv, InitTyped, InitCrash DEF Good

\* What is known of the file when nobody commits or recovers.
LEMMA QuietRests ==
    ASSUME Good, Quiet
    PROVE  /\ Resting /\ FileType(file) /\ FileType(disk) /\ cuts \in Nat
           /\ \/ \A p \in Proc : pc[p] = "closed"
              \/ \E c \in {db.old, db.new} : Clean(file, disk, c, 0)
<1>1. Setup \cup Late \subseteq Committing \cup Recovering
  BY DEF Setup, Late, Live, Ending, Committing, Recovering
<1>2. Resting
  BY <1>1 DEF Good, CrashInv, Quiet
<1>3. ASSUME NEW p \in Proc, pc[p] # "closed"
      PROVE  \E c \in {db.old, db.new} : Clean(file, disk, c, 0)
  <2>1. pc[p] \notin {"closed"} \cup Recovering
    BY <1>3 DEF Quiet
  <2>2. \A q \in Proc : pc[q] \notin Live
    BY DEF Quiet, Live, Committing
  <2>3. ~ Armed
    BY <2>1, <2>2 DEF Good, Inv, ReadersSafe, ArmedInCommit
  <2>4. ~ Redo(file, disk, file.head, db.old, db.new)
    BY <2>3 DEF Armed, Redo, Either, Logged
  <2>5. pc[p] \notin {"closed", "recover"}
    BY <2>1 DEF Recovering
  <2> QED
    BY <1>2, <2>4, <2>5 DEF Resting
<1> QED
  BY <1>2, <1>3, Typed DEF Good

\* Types of all variables, when kills and cuts are Orderly.  Without that a
\* recovery can read a record that was never synced and truncate to nothing.
THEOREM TdbTypes ==
    ASSUME Orderly
    PROVE  Spec => []TypeOK
<1>1. Init => Good
  BY InitGood
<1>2. Good /\ [Next]_vars => Good'
  BY NextGood
<1>3. Good => TypeOK
  BY DEF Good, TypeInv
<1> QED
  BY <1>1, <1>2, <1>3, PTL DEF Spec

\* A process that has the database open sees all of the last commit or nothing
\* of it (tdb_transaction_commit, tdb_transaction_recover).
THEOREM CommitsAreAtomic ==
    ASSUME Orderly
    PROVE  Spec => []AllOrNothing
<1>1. Init => Good
  BY InitGood
<1>2. Good /\ [Next]_vars => Good'
  BY NextGood
<1>3. Good => AllOrNothing
  BY QuietRests DEF AllOrNothing, Clean
<1> QED
  BY <1>1, <1>2, <1>3, PTL DEF Spec

\* Between commits the recovery area lies inside the file and is no part of the
\* database, so tdb_recovery_allocate may use all of it.
THEOREM AreaIsSound ==
    ASSUME Orderly
    PROVE  Spec => []AreaSound
<1>1. Init => Good
  BY InitGood
<1>2. Good /\ [Next]_vars => Good'
  BY NextGood
<1>3. Good => AreaSound
  <2> SUFFICES ASSUME Good, Quiet, file.head # 0, file.head < file.size
               PROVE  Within(file.head, file.max[file.head], file.size, file.data[Heads])
    BY DEF AreaSound, Within
  <2>1. Resting /\ FileType(file) /\ FileType(disk)
    BY QuietRests
  <2>2. ASSUME NEW c, Clean(file, disk, c, 0)
        PROVE  Within(file.head, file.max[file.head], file.size, file.data[Heads])
    BY <2>2 DEF Clean, Shows
  <2>3. ASSUME Redo(file, disk, file.head, db.old, db.new)
        PROVE  Within(file.head, file.max[file.head], file.size, file.data[Heads])
    <3> DEFINE h == file.head
    <3>1. /\ Within(h, file.max[h], file.size, {})
          /\ \A o \in h..h + file.max[h] : o \notin db.old[Heads] \cup db.new[Heads]
          /\ file.data[Heads] \subseteq db.old[Heads] \cup db.new[Heads]
      BY <2>3 DEF Redo, Either, Logged
    <3> QED
      BY <3>1 DEF Within
  <2>4. ~ (file.size <= file.head)
    BY <2>1, Numbers
  <2> QED
    BY <2>1, <2>2, <2>3, <2>4 DEF Resting
<1> QED
  BY <1>1, <1>2, <1>3, PTL DEF Spec

\* As long as the power has not failed, the recovery record can be read by
\* tdb_open_ex, also after a kill in the middle of a commit or of a recovery.
THEOREM RecordCanBeRead ==
    ASSUME Orderly
    PROVE  Spec => []OpenWorks
<1>1. Init => Good
  BY InitGood
<1>2. Good /\ [Next]_vars => Good'
  BY NextGood
<1>3. Good => OpenWorks
  <2> SUFFICES ASSUME Good, Quiet, cuts = 0
               PROVE  file.head < file.size
    BY DEF OpenWorks
  <2>1. Resting /\ FileType(file) /\ FileType(disk)
    BY QuietRests
  <2>2. ASSUME NEW c, Clean(file, disk, c, 0)
        PROVE  file.head < file.size
    BY <2>1, <2>2, Numbers DEF Clean
  <2>3. ASSUME Redo(file, disk, file.head, db.old, db.new)
        PROVE  file.head < file.size
    BY <2>3 DEF Redo
  <2> QED
    BY <2>1, <2>2, <2>3 DEF Resting
<1> QED
  BY <1>1, <1>2, <1>3, PTL DEF Spec

\* transaction_oob refuses no recovery record: the area a commit chose has room
\* for it inside the file.
THEOREM RecordIsNeverRefused ==
    ASSUME Orderly
    PROVE  Spec => [][\A p \in Proc : ~ RecordRefused(p)]_vars
<1>1. Init => Good
  BY InitGood
<1>2. Good /\ [Next]_vars => Good'
  BY NextGood
<1>3. Good /\ [Next]_vars => [\A p \in Proc : ~ RecordRefused(p)]_vars
  BY NeverRefused
<1> QED
  BY <1>1, <1>2, <1>3, PTL DEF Spec
=============================================================================
