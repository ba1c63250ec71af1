------------------------------ MODULE TdbBase ------------------------------
(***************************************************************************)
(* A tdb file (source4/lib/tdb/common), the processes that use it, and the *)
(* locks between them.                                                     *)
(*                                                                         *)
(* The file is an array of words.  Word 0 is the tdb header, of which only *)
(* the pointer to the recovery area matters.  Word 1 stands for the heads  *)
(* of the free list and the hash chains; its value is the set of words     *)
(* that can be reached from them, which are the words of the database.     *)
(* `file' is what processes read and write (the page cache), `disk' what a *)
(* power cut leaves.  A write reaches the disk at any time, or never,      *)
(* until an fsync.                                                         *)
(***************************************************************************)
EXTENDS Naturals, FiniteSets

CONSTANTS
    Proc,        \* processes that may open the database
    Val,         \* contents of a word of the database
    Pad,         \* TDB_PAD_BYTE
    FirstSize,   \* size of the file in the initial state
    MaxSize,     \* size at which the disk is full
    Page,        \* page size, in words
    MaxBegun,    \* bound: transactions begun
    MaxNesting,  \* bound: nested tdb_transaction_start
    MaxKills,    \* bound: processes killed
    KillAt,      \* the places of a process in which it may be killed
    MaxCuts,     \* bound: power cuts
    CutAt,       \* the places of a process in which the power may fail
    MaxBacks     \* bound: writes that the kernel brings to the disk before a sync

Off == 0..MaxSize - 1
Heads == 1

\* Places of a process: without the file; open; holding tdb_lockall_read; in a
\* transaction; in the steps of a commit; in the steps of a recovery.
Committing == {"global", "setup", "head", "body", "sync1", "magic", "sync2", "expand",
               "write", "unmagic", "sync4"}
Recovering == {"recover", "restore", "rhead", "rmagic", "rtrunc", "rsync2"}
Pc == {"closed", "idle", "reading", "tx", "upgrade"} \cup Committing \cup Recovering

ASSUME TdbAssumption ==
    /\ Pad \in Val
    /\ FirstSize \in Nat /\ FirstSize > 1
    /\ MaxSize \in Nat /\ FirstSize <= MaxSize
    /\ Page \in Nat /\ Page > 0
    /\ MaxBegun \in Nat /\ MaxNesting \in Nat /\ MaxKills \in Nat /\ MaxCuts \in Nat
    /\ MaxBacks \in Nat
    /\ KillAt \subseteq (Pc \cup {"newarea"}) \ {"closed"} /\ CutAt \subseteq Pc \cup {"newarea"}

\* rec_len of a record that was never written: TDB_PAD_BYTE in every byte.
Huge == 2 * MaxSize

Word(o) == IF o = Heads THEN SUBSET Off ELSE Val

\* Some words and their contents: the elements of a transaction, or the old
\* contents in a recovery record.
NoWords == [o \in {} |-> Pad]
IsWords(w) == DOMAIN w \subseteq Off /\ \A o \in DOMAIN w : w[o] \in Word(o)

\* The words of w, and of u where u has them.
Over(w, u) == [o \in DOMAIN w \cup DOMAIN u |-> IF o \in DOMAIN u THEN u[o] ELSE w[o]]

NoLog == [eof |-> 0, saved |-> NoWords]

\* head is TDB_RECOVERY_HEAD.  magic, max and log hold recovery records by the
\* word at which they start: those with TDB_RECOVERY_MAGIC, rec_len, and key_len
\* with the saved words.
IsFile(f) ==
    /\ f.size \in 0..MaxSize
    /\ f.head \in Off
    /\ DOMAIN f.data = Off /\ IsWords(f.data)
    /\ f.magic \subseteq Off
    /\ f.max \in [Off -> 0..Huge]
    /\ DOMAIN f.log = Off
    /\ \A o \in Off : f.log[o].eof \in 0..MaxSize /\ IsWords(f.log[o].saved)

\* struct tdb_transaction with tdb->map_size and the locals of the commit and of
\* the recovery: where the record is, its rec_len and its old end of file.
IsTx(t) ==
    /\ IsWords(t.elems)
    /\ t.map \in 0..MaxSize /\ t.old \in 0..MaxSize /\ t.eof \in 0..MaxSize
    /\ t.where \in Off /\ t.room \in 0..Huge
    /\ t.nesting \in 0..MaxNesting
    /\ t.error \in BOOLEAN /\ t.locks \in BOOLEAN

VARIABLES
    file,      \* the file as processes see it
    disk,      \* the file as the disk holds it
    pc,        \* [Proc -> Pc]
    tx,        \* [Proc -> struct tdb_transaction]
    begun,     \* transactions begun so far
    kills,     \* processes killed so far
    cuts,      \* power cuts so far
    backs,     \* writes that the kernel has brought to the disk so far
    db         \* history: contents before and after the last commit begun

vars == <<file, disk, pc, tx, begun, kills, cuts, backs, db>>
faults == <<kills, cuts, backs>>

NoTx == [elems |-> NoWords, map |-> 0, old |-> 0, eof |-> 0, where |-> 0, room |-> 0,
         nesting |-> 0, error |-> FALSE, locks |-> FALSE]

\* The words of the database.
Contents(d) == [o \in Off |-> IF o = Heads \/ o \in d[Heads] THEN d[o] ELSE Pad]
Shows(f, c) ==
    /\ f.data[Heads] = c[Heads]
    /\ \A o \in c[Heads] : o < f.size /\ f.data[o] = c[o]

\* A database that tdb_new_database made, with free words after the heads.
NewDatabase ==
    [size |-> FirstSize, head |-> 0,
     data |-> [o \in Off |-> IF o = Heads THEN 2..FirstSize - 1 ELSE Pad],
     magic |-> {}, max |-> [o \in Off |-> 0], log |-> [o \in Off |-> NoLog]]

Init ==
    /\ file = NewDatabase
    /\ disk = NewDatabase
    /\ pc = [p \in Proc |-> "closed"]
    /\ tx = [p \in Proc |-> NoTx]
    /\ begun = 0
    /\ kills = 0
    /\ cuts = 0
    /\ backs = 0
    /\ db = [old |-> Contents(NewDatabase.data), new |-> Contents(NewDatabase.data)]

-----------------------------------------------------------------------------
(* The file *)

\* What lies beyond the end of the file reads as a hole once it is inside again.
Trim(f) ==
    [f EXCEPT !.data = [o \in Off |-> IF o = Heads \/ o < f.size THEN @[o] ELSE Pad],
              !.magic = {o \in @ : o < f.size},
              !.max = [o \in Off |-> IF o < f.size THEN @[o] ELSE 0],
              !.log = [o \in Off |-> IF o < f.size THEN @[o] ELSE NoLog]]

\* tdb_expand_file: the file ends at new, and the words from old on are padding.
tdb_expand_file(f, old, new) ==
    [f EXCEPT !.size = new,
              !.data = [o \in Off |-> IF o \in old..new - 1 THEN Pad ELSE @[o]],
              !.magic = @ \ (old..new - 1),
              !.max = [o \in Off |-> IF o \in old..new - 1 THEN Huge ELSE @[o]],
              !.log = [o \in Off |-> IF o \in old..new - 1 THEN NoLog ELSE @[o]]]

\* TDB_ALIGN to the page size.
Aligned(n) == ((n + Page - 1) \div Page) * Page

\* transaction_sync: every write so far is on the disk.
transaction_sync == file' = Trim(file) /\ disk' = Trim(file)

-----------------------------------------------------------------------------
(* Locks: each is held exactly in some places of a process. *)

Others(p) == Proc \ {p}

\* TRANSACTION_LOCK; the hash chains locked for reading and for writing;
\* GLOBAL_LOCK, which tdb_open_ex and the commit take.
InTransaction(p) == pc[p] \in {"tx", "upgrade"} \cup Committing
ReadsHash(p) == pc[p] \in {"reading", "tx", "upgrade"}
WritesHash(p) == pc[p] \in Committing
HasGlobal(p) == pc[p] \in Recovering \cup (Committing \ {"global"})

Go(p, place) == pc' = [pc EXCEPT ![p] = place]
Leave(p, place) == Go(p, place) /\ tx' = [tx EXCEPT ![p] = NoTx]
=============================================================================
