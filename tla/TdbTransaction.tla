--------------------------- MODULE TdbTransaction ---------------------------
(***************************************************************************)
(* Transactions of tdb (source4/lib/tdb/common/transaction.c): writes kept *)
(* in memory, and the commit, which saves the old words in the recovery    *)
(* area of the same file before it overwrites them.  Every write to the    *)
(* file and every fsync of the commit is a step.                           *)
(***************************************************************************)
EXTENDS TdbBase

(* Inside a transaction *)

\* The read lock on the chains cannot be refused to the holder of the
\* transaction lock, so both are taken in this step.
tdb_transaction_start(p) ==
    /\ pc[p] = "idle"
    /\ begun < MaxBegun
    /\ \A q \in Others(p) : ~ InTransaction(q)
    /\ begun' = begun + 1
    /\ Go(p, "tx")
    /\ tx' = [tx EXCEPT ![p] = [NoTx EXCEPT !.elems = [o \in {Heads} |-> file.data[Heads]],
                                            !.map = file.size, !.old = file.size]]
    /\ UNCHANGED <<file, disk, faults, db>>

NestedStart(p) ==
    /\ pc[p] = "tx"
    /\ tx[p].nesting < MaxNesting
    /\ tx' = [tx EXCEPT ![p].nesting = @ + 1]
    /\ UNCHANGED <<file, disk, pc, begun, faults, db>>

\* transaction_read: the elements before the file.
transaction_read(p) == Over(file.data, tx[p].elems)

\* transaction_write of one word of the database.
transaction_write(p, o, v) ==
    /\ pc[p] = "tx"
    /\ o \in transaction_read(p)[Heads]
    /\ tx' = [tx EXCEPT ![p].elems = Over(@, [x \in {o} |-> v])]
    /\ UNCHANGED <<file, disk, pc, begun, faults, db>>

\* tdb_expand with transaction_expand_file: the new words are elements, and the
\* free list gets them.
transaction_expand_file(p) ==
    LET map == Aligned(tx[p].map + 1)
        new == tx[p].map..map - 1
    IN  /\ pc[p] = "tx"
        /\ map <= MaxSize
        /\ tx' = [tx EXCEPT
             ![p].map = map,
             ![p].elems = Over(@, [o \in new \cup {Heads} |->
                                     IF o = Heads THEN transaction_read(p)[Heads] \cup new ELSE Pad])]
        /\ UNCHANGED <<file, disk, pc, begun, faults, db>>

\* Locks are only counted inside a transaction (transaction_brlock).
TxLock(p, held) ==
    /\ pc[p] = "tx"
    /\ tx[p].locks # held
    /\ tx' = [tx EXCEPT ![p].locks = held]
    /\ UNCHANGED <<file, disk, pc, begun, faults, db>>

AlwaysInner(p) == tx' = [tx EXCEPT ![p].nesting = @ - 1, ![p].error = TRUE] /\ UNCHANGED pc

\* tdb_transaction_cancel: an inner one only poisons the outer transaction.
Cancel(p) ==
    IF tx[p].nesting # 0
    THEN tx' = [tx EXCEPT ![p].nesting = @ - 1, ![p].error = TRUE] /\ UNCHANGED pc
    ELSE Leave(p, "idle")

tdb_transaction_cancel(p) ==
    /\ pc[p] = "tx"
    /\ Cancel(p)
    /\ UNCHANGED <<file, disk, begun, faults, db>>

-----------------------------------------------------------------------------
(* tdb_transaction_commit, up to the locks *)

\* An error or a lock that was not given back cancels the transaction.
CommitRefused(p) ==
    /\ pc[p] = "tx"
    /\ tx[p].error \/ (tx[p].nesting = 0 /\ tx[p].locks)
    /\ Cancel(p)
    /\ UNCHANGED <<file, disk, begun, faults, db>>

CommitNested(p) ==
    /\ pc[p] = "tx"
    /\ ~ tx[p].error
    /\ tx[p].nesting # 0
    /\ tx' = [tx EXCEPT ![p].nesting = @ - 1]
    /\ UNCHANGED <<file, disk, pc, begun, faults, db>>

tdb_transaction_commit(p) ==
    /\ pc[p] = "tx"
    /\ ~ tx[p].error /\ tx[p].nesting = 0 /\ ~ tx[p].locks
    /\ Go(p, "upgrade")
    /\ UNCHANGED <<file, disk, tx, begun, faults, db>>

NoWaitUpgrade(p) ==
    /\ pc[p] = "upgrade"
    /\ Go(p, "global")
    /\ UNCHANGED <<file, disk, tx, begun, faults, db>>

\* tdb_brlock_upgrade waits until nobody else reads.
tdb_brlock_upgrade(p) ==
    /\ pc[p] = "upgrade"
    /\ \A q \in Others(p) : ~ ReadsHash(q)
    /\ Go(p, "global")
    /\ UNCHANGED <<file, disk, tx, begun, faults, db>>

\* fcntl may see a deadlock where others only read, and the upgrade gives up.
UpgradeFails(p) ==
    /\ pc[p] = "upgrade"
    /\ \E q \in Others(p) : ReadsHash(q)
    /\ Cancel(p)
    /\ UNCHANGED <<file, disk, begun, faults, db>>

TakeGlobal(p) ==
    /\ pc[p] = "global"
    /\ \A q \in Others(p) : ~ HasGlobal(q)
    /\ Go(p, "setup")
    /\ UNCHANGED <<file, disk, tx, begun, faults, db>>

-----------------------------------------------------------------------------
(* transaction_setup_recovery *)

\* tdb_recovery_size: one word for every word that has to be saved.
Saved(elems, eof) == {o \in DOMAIN elems : o < eof}
tdb_recovery_size(elems, eof) == Cardinality(Saved(elems, eof))

Fits(p) ==
    /\ file.head # 0
    /\ tdb_recovery_size(tx[p].elems, tx[p].old) <= file.max[file.head]

\* History: what the commit is going to make of the database.
Promise(elems) == db' = [old |-> Contents(file.data), new |-> Contents(Over(file.data, elems))]

\* tdb_recovery_allocate, when the record fits in the existing area.
UseArea(p) ==
    /\ pc[p] = "setup"
    /\ file.head < file.size
    /\ Fits(p)
    /\ Go(p, "body")
    /\ tx' = [tx EXCEPT ![p].where = file.head, ![p].room = file.max[file.head],
                        ![p].eof = tx[p].old]
    /\ Promise(tx[p].elems)
    /\ UNCHANGED <<file, disk, begun, faults>>

\* The elements once tdb_free has put the old area on the free list.
Freed(p) ==
    IF file.head = 0
    THEN tx[p].elems
    ELSE Over(tx[p].elems, [o \in {Heads, file.head} |->
                IF o = Heads THEN transaction_read(p)[Heads] \cup {file.head} ELSE Pad])

\* Size of the file with a new area behind everything else.
NewEnd(p) == tx[p].map + Aligned(1 + tdb_recovery_size(Freed(p), tx[p].old))

AreaAtOldEnd(p) ==
    /\ pc[p] = "setup"
    /\ file.head < file.size
    /\ ~ Fits(p)
    /\ NewEnd(p) <= MaxSize
    /\ Go(p, "head")
    /\ file' = tdb_expand_file(file, tx[p].old, NewEnd(p))
    /\ tx' = [tx EXCEPT ![p].elems = Freed(p), ![p].where = tx[p].old,
                        ![p].room = NewEnd(p) - tx[p].map - 1,
                        ![p].eof = tx[p].old, ![p].map = NewEnd(p), ![p].old = NewEnd(p)]
    /\ Promise(Freed(p))
    /\ UNCHANGED <<disk, begun, faults>>

\* tdb_recovery_allocate of a new area: the file is expanded at once.
NewArea(p) ==
    /\ pc[p] = "setup"
    /\ file.head < file.size
    /\ ~ Fits(p)
    /\ NewEnd(p) <= MaxSize
    /\ Go(p, "head")
    /\ file' = tdb_expand_file(file, tx[p].old, NewEnd(p))
    /\ tx' = [tx EXCEPT ![p].elems = Freed(p), ![p].where = tx[p].map,
                        ![p].room = NewEnd(p) - tx[p].map - 1,
                        ![p].eof = tx[p].old, ![p].map = NewEnd(p), ![p].old = NewEnd(p)]
    /\ Promise(Freed(p))
    /\ UNCHANGED <<disk, begun, faults>>

\* The recovery record cannot be read, or the disk gets full while
\* tdb_expand_file makes the file longer, which it stays.
AllocateFails(p) ==
    /\ pc[p] = "setup"
    /\ \/ file.head >= file.size /\ UNCHANGED file
       \/ /\ file.head < file.size /\ ~ Fits(p) /\ NewEnd(p) > MaxSize
          /\ \E new \in tx[p].old..MaxSize : file' = tdb_expand_file(file, tx[p].old, new)
    /\ Cancel(p)
    /\ UNCHANGED <<disk, begun, faults, db>>

WriteHead(p) ==
    /\ pc[p] = "head"
    /\ Go(p, "body")
    /\ file' = [file EXCEPT !.head = tx[p].where]
    /\ UNCHANGED <<disk, tx, begun, faults, db>>

\* The words that the record and the saved words take up.
Taken(p) == tx[p].where..tx[p].where + tdb_recovery_size(tx[p].elems, tx[p].eof)

\* The record without its magic, and the old contents of the words to write.
WriteRecord(p) ==
    /\ pc[p] = "body"
    /\ \A o \in Taken(p) : o < tx[p].map
    /\ Go(p, "sync1")
    /\ file' = [file EXCEPT
         !.size = IF tx[p].where + Cardinality(Taken(p)) > @
                  THEN tx[p].where + Cardinality(Taken(p)) ELSE @,
         !.data = [o \in Off |-> IF o \in Taken(p) THEN Pad ELSE @[o]],
         !.magic = @ \ {tx[p].where},
         !.max[tx[p].where] = tx[p].room,
         !.log[tx[p].where] =
            [eof |-> tx[p].eof,
             saved |-> [o \in Saved(tx[p].elems, tx[p].eof) |-> file.data[o]]]]
    /\ UNCHANGED <<disk, tx, begun, faults, db>>

\* transaction_oob refuses the record; the commit is given up.
RecordRefused(p) ==
    /\ pc[p] = "body"
    /\ \E o \in Taken(p) : o >= tx[p].map
    /\ Cancel(p)
    /\ db' = [db EXCEPT !.new = db.old]
    /\ UNCHANGED <<file, disk, begun, faults>>

SyncRecord(p) ==
    /\ pc[p] = "sync1"
    /\ Go(p, "magic")
    /\ transaction_sync
    /\ UNCHANGED <<tx, begun, faults, db>>

WriteMagic(p) ==
    /\ pc[p] = "magic"
    /\ Go(p, "sync2")
    /\ file' = [file EXCEPT !.magic = @ \cup {tx[p].where}]
    /\ UNCHANGED <<disk, tx, begun, faults, db>>

SyncMagic(p) ==
    /\ pc[p] = "sync2"
    /\ Go(p, "expand")
    /\ transaction_sync
    /\ UNCHANGED <<tx, begun, faults, db>>

-----------------------------------------------------------------------------
(* tdb_transaction_commit, the writes *)

ExpandFile(p) ==
    /\ pc[p] = "expand"
    /\ Go(p, "write")
    /\ file' = IF tx[p].map # tx[p].old THEN tdb_expand_file(file, tx[p].old, tx[p].map) ELSE file
    /\ UNCHANGED <<disk, tx, begun, faults, db>>

\* One element is written and freed; the hash heads are the first of the list.
WriteElement(p, o) ==
    /\ o \in DOMAIN tx[p].elems
    /\ o = Heads \/ Heads \notin DOMAIN tx[p].elems
    /\ file' = [file EXCEPT !.data[o] = tx[p].elems[o]]
    /\ tx' = [tx EXCEPT ![p].elems = [x \in DOMAIN @ \ {o} |-> @[x]]]
    /\ UNCHANGED <<disk, pc, begun, faults, db>>

CommitWrite(p, o) == pc[p] = "write" /\ WriteElement(p, o)

SyncWrites(p) ==
    /\ pc[p] = "write"
    /\ DOMAIN tx[p].elems = {}
    /\ Go(p, "unmagic")
    /\ transaction_sync
    /\ UNCHANGED <<tx, begun, faults, db>>

RemoveMagic(p) ==
    /\ pc[p] = "unmagic"
    /\ Go(p, "sync4")
    /\ file' = [file EXCEPT !.magic = @ \ {tx[p].where}]
    /\ UNCHANGED <<disk, tx, begun, faults, db>>

\* The last sync, and the cancel that frees memory and locks.
CommitEnds(p) ==
    /\ pc[p] = "sync4"
    /\ transaction_sync
    /\ Cancel(p)
    /\ db' = [db EXCEPT !.old = db.new]
    /\ UNCHANGED <<begun, faults>>

Transaction(p) ==
    \/ tdb_transaction_start(p) \/ NestedStart(p) \/ tdb_transaction_cancel(p)
    \/ \E o \in Off, v \in Val \ {Pad} : transaction_write(p, o, v)
    \/ transaction_expand_file(p)
    \/ \E held \in BOOLEAN : TxLock(p, held)
    \/ CommitRefused(p) \/ CommitNested(p) \/ tdb_transaction_commit(p)
    \/ tdb_brlock_upgrade(p) \/ UpgradeFails(p) \/ TakeGlobal(p)
    \/ UseArea(p) \/ NewArea(p) \/ AllocateFails(p) \/ WriteHead(p)
    \/ WriteRecord(p) \/ RecordRefused(p) \/ SyncRecord(p) \/ WriteMagic(p) \/ SyncMagic(p)
    \/ ExpandFile(p)
    \/ \E o \in Off : CommitWrite(p, o)
    \/ SyncWrites(p) \/ RemoveMagic(p) \/ CommitEnds(p)
=============================================================================
