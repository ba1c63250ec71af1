-------------------------------- MODULE Tdb --------------------------------
(***************************************************************************)
(* Opening a tdb, which runs the recovery, reading it, closing it, and the *)
(* failures: a process that is killed, a power cut.                        *)
(***************************************************************************)
EXTENDS TdbTransaction

\* tdb_open_ex, up to the recovery, in which it holds GLOBAL_LOCK.
tdb_open_ex(p) ==
    /\ pc[p] = "closed"
    /\ \A q \in Others(p) : ~ HasGlobal(q)
    /\ Go(p, "recover")
    /\ UNCHANGED <<file, disk, tx, begun, faults, db>>

\* tdb_close; a transaction is cancelled, and locks go with the file descriptor.
tdb_close(p) ==
    /\ pc[p] \in {"idle", "reading", "tx"}
    /\ Leave(p, "closed")
    /\ UNCHANGED <<file, disk, begun, faults, db>>

tdb_lockall_read(p) ==
    /\ pc[p] = "idle"
    /\ \A q \in Others(p) : ~ WritesHash(q)
    /\ Go(p, "reading")
    /\ UNCHANGED <<file, disk, tx, begun, faults, db>>

tdb_unlockall_read(p) ==
    /\ pc[p] = "reading"
    /\ Go(p, "idle")
    /\ UNCHANGED <<file, disk, tx, begun, faults, db>>

-----------------------------------------------------------------------------
(* tdb_transaction_recover *)

\* The last word of the record at the recovery head.
RecordEnd == file.head + Cardinality(DOMAIN file.log[file.head].saved)

NothingToRecover(p) ==
    /\ pc[p] = "recover"
    /\ file.head = 0 \/ (file.head < file.size /\ file.head \notin file.magic)
    /\ Leave(p, "idle")
    /\ UNCHANGED <<file, disk, begun, faults, db>>

\* The record or its words lie beyond the end of the file: the open fails.
RecoverFails(p) ==
    /\ pc[p] = "recover"
    /\ file.head # 0
    /\ file.head >= file.size \/ (file.head \in file.magic /\ RecordEnd >= file.size)
    /\ Leave(p, "closed")
    /\ UNCHANGED <<file, disk, begun, faults, db>>

ReadRecord(p) ==
    /\ pc[p] = "recover"
    /\ file.head # 0 /\ file.head \in file.magic
    /\ RecordEnd < file.size
    /\ Go(p, "restore")
    /\ tx' = [tx EXCEPT ![p].elems = file.log[file.head].saved, ![p].where = file.head,
                        ![p].eof = file.log[file.head].eof]
    /\ UNCHANGED <<file, disk, begun, faults, db>>

RestoreElement(p, o) == pc[p] = "restore" /\ WriteElement(p, o)

NoSyncRestored(p) ==
    /\ pc[p] = "restore"
    /\ DOMAIN tx[p].elems = {}
    /\ Go(p, "rhead")
    /\ UNCHANGED <<file, disk, tx, begun, faults, db>>

SyncRestored(p) ==
    /\ pc[p] = "restore"
    /\ DOMAIN tx[p].elems = {}
    /\ Go(p, "rhead")
    /\ transaction_sync
    /\ UNCHANGED <<tx, begun, faults, db>>

KeepHead(p) ==
    /\ pc[p] = "rhead"
    /\ Go(p, "rmagic")
    /\ UNCHANGED <<file, disk, tx, begun, faults, db>>

\* The area goes when it lies after the old end of the file.
RemoveHead(p) ==
    /\ pc[p] = "rhead"
    /\ Go(p, "rmagic")
    /\ file' = IF tx[p].eof <= tx[p].where THEN [file EXCEPT !.head = 0] ELSE file
    /\ UNCHANGED <<disk, tx, begun, faults, db>>

RemoveRecoveryMagic(p) ==
    /\ pc[p] = "rmagic"
    /\ Go(p, "rtrunc")
    /\ file' = [file EXCEPT !.magic = @ \ {tx[p].where}]
    /\ UNCHANGED <<disk, tx, begun, faults, db>>

TruncateFile(p) ==
    /\ pc[p] = "rtrunc"
    /\ Go(p, "rsync2")
    /\ file' = [file EXCEPT !.size = tx[p].eof]
    /\ UNCHANGED <<disk, tx, begun, faults, db>>

\* The last sync; what the recovery has chosen stays.
RecoverEnds(p) ==
    LET shown == IF Shows(file, db.old) THEN db.old ELSE db.new
    IN  /\ pc[p] = "rsync2"
        /\ transaction_sync
        /\ Leave(p, "idle")
        /\ db' = [old |-> shown, new |-> shown]
        /\ UNCHANGED <<begun, faults>>

-----------------------------------------------------------------------------
(* Failures *)

\* Where a process is when it fails.  "newarea": the header already points to a
\* new recovery area, whose record is not written or not synced.
Place(p) == IF pc[p] \in {"body", "sync1"} /\ tx[p].eof # tx[p].old THEN "newarea" ELSE pc[p]

\* A killed process loses its memory and its locks, not its writes.
Kill(p) ==
    /\ kills < MaxKills
    /\ Place(p) \in KillAt
    /\ kills' = kills + 1
    /\ Leave(p, "closed")
    /\ UNCHANGED <<file, disk, begun, cuts, backs, db>>

\* Words that were written since the last sync; of the recovery records only
\* the one that the header points to is ever read.
DirtyWords == {o \in Off : file.data[o] # disk.data[o]}
DirtyRecords == {o \in {file.head, disk.head} :
                   file.max[o] # disk.max[o] \/ file.log[o] # disk.log[o]}
DirtyMagic == {o \in {file.head, disk.head} : o \in file.magic <=> o \notin disk.magic}

\* The kernel writes one of them to the disk, before it may be written again; what
\* lies behind a new end of the file goes with the next sync or power cut.
WriteBack ==
    /\ backs < MaxBacks /\ cuts < MaxCuts
    /\ backs' = backs + 1
    /\ \/ \E o \in DirtyWords : disk' = [disk EXCEPT !.data[o] = file.data[o]]
       \/ \E o \in DirtyRecords :
             disk' = [disk EXCEPT !.max[o] = file.max[o], !.log[o] = file.log[o]]
       \/ \E o \in DirtyMagic :
             disk' = [disk EXCEPT !.magic = (@ \ {o}) \cup (file.magic \cap {o})]
       \/ disk.head # file.head /\ disk' = [disk EXCEPT !.head = file.head]
       \/ disk.size # file.size /\ disk' = [disk EXCEPT !.size = file.size]
    /\ UNCHANGED <<file, pc, tx, begun, kills, cuts, db>>

\* The file without the writes to some places since these were last on the disk.
Image(size, head, words, records, magic) ==
    Trim([file EXCEPT !.size = size,
                      !.head = head,
                      !.data = [o \in Off |-> IF o \in words THEN disk.data[o] ELSE @[o]],
                      !.max = [o \in Off |-> IF o \in records THEN disk.max[o] ELSE @[o]],
                      !.log = [o \in Off |-> IF o \in records THEN disk.log[o] ELSE @[o]],
                      !.magic = (@ \ magic) \cup (disk.magic \cap magic)])

\* The machine stops: of each place either what was written last is kept, or
\* what the last sync or a later WriteBack has brought to the disk.
PowerCut ==
    /\ cuts < MaxCuts
    /\ \A p \in Proc : Place(p) \in CutAt
    /\ cuts' = cuts + 1
    /\ \E size \in {file.size, disk.size}, head \in {file.head, disk.head},
          words \in SUBSET DirtyWords, records \in SUBSET DirtyRecords,
          magic \in SUBSET DirtyMagic :
            /\ file' = Image(size, head, words, records, magic)
            /\ disk' = Image(size, head, words, records, magic)
    /\ pc' = [p \in Proc |-> "closed"]
    /\ tx' = [p \in Proc |-> NoTx]
    /\ UNCHANGED <<begun, kills, backs, db>>

-----------------------------------------------------------------------------

Recovery(p) ==
    \/ NothingToRecover(p) \/ RecoverFails(p) \/ ReadRecord(p)
    \/ \E o \in Off : RestoreElement(p, o)
    \/ SyncRestored(p) \/ RemoveHead(p) \/ RemoveRecoveryMagic(p)
    \/ TruncateFile(p) \/ RecoverEnds(p)

Next ==
    \/ \E p \in Proc :
         \/ Transaction(p)
         \/ tdb_open_ex(p) \/ tdb_close(p) \/ tdb_lockall_read(p) \/ tdb_unlockall_read(p)
         \/ Recovery(p)
         \/ Kill(p)
    \/ WriteBack \/ PowerCut

Spec == Init /\ [][Next]_vars

-----------------------------------------------------------------------------
(* Properties *)

\* Types of all variables.
TypeOK ==
    /\ IsFile(file) /\ IsFile(disk)
    /\ DOMAIN pc = Proc /\ \A p \in Proc : pc[p] \in Pc
    /\ DOMAIN tx = Proc /\ \A p \in Proc : IsTx(tx[p])
    /\ begun \in 0..MaxBegun /\ kills \in 0..MaxKills /\ cuts \in 0..MaxCuts
    /\ backs \in 0..MaxBacks
    /\ DOMAIN db.old = Off /\ IsWords(db.old)
    /\ DOMAIN db.new = Off /\ IsWords(db.new)

\* Nobody is in the middle of a commit or of a recovery.
Quiet == \A p \in Proc : pc[p] \notin Committing \cup Recovering

\* A process that uses the database sees all of the last commit or nothing of
\* it, and all of it once tdb_transaction_commit has returned, whatever
\* crashed before (tdb_transaction_commit, tdb_transaction_recover).
AllOrNothing ==
    Quiet /\ (\E p \in Proc : pc[p] # "closed") => Shows(file, db.old) \/ Shows(file, db.new)

\* When nobody commits, the recovery area that the header points to is no part
\* of the database and lies inside the file, so that the next commit may
\* overwrite all of it (tdb_recovery_allocate trusts its rec_len).
AreaSound ==
    Quiet /\ file.head # 0 /\ file.head < file.size =>
        \A o \in file.head..file.head + file.max[file.head] :
            o < file.size /\ o \notin file.data[Heads]

\* When nobody commits and the power has not failed, the recovery record can be
\* read, so that the next tdb_open_ex does not fail for it, wherever a process
\* was killed (tdb_transaction_recover).
OpenWorks == Quiet /\ cuts = 0 => file.head < file.size

\* While a process holds the chains for reading, in tdb_lockall_read or in a
\* transaction, nobody changes the database under it.
Isolation ==
    [][\A p \in Proc : ReadsHash(p) /\ ReadsHash(p)' =>
          Contents(file'.data) = Contents(file.data)]_vars
=============================================================================
