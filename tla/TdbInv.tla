------------------------------- MODULE TdbInv -------------------------------
(***************************************************************************)
(* The inductive invariant behind Isolation: how locks, the places of      *)
(* processes and the magic of the recovery record go together as long as   *)
(* no process is killed while its commit has the magic set and others have *)
(* the database open.                                                      *)
(***************************************************************************)
EXTENDS Tdb

\* Fields and domains; what a word holds does not matter here.
FileShape(f) ==
    /\ f \in [size: Nat, head: Off, data: {f.data}, magic: SUBSET Off, max: {f.max}, log: {f.log}]
    /\ DOMAIN f.log = Off
    /\ \A o \in Off : f.log[o].eof \in Nat /\ DOMAIN f.log[o].saved \subseteq Off

TxShape(t) ==
    /\ t \in [elems: {t.elems}, map: Nat, old: Nat, eof: Nat, where: Off, room: {t.room},
              nesting: {t.nesting}, error: {t.error}, locks: {t.locks}]
    /\ DOMAIN t.elems \subseteq Off

Shape ==
    /\ FileShape(file) /\ FileShape(disk)
    /\ DOMAIN tx = Proc /\ \A p \in Proc : TxShape(tx[p])
    /\ pc \in [Proc -> Pc]

\* fcntl grants conflicting locks to one process at a time.
LocksExclude ==
    \A p \in Proc : \A q \in Others(p) :
        /\ InTransaction(p) => ~ InTransaction(q)
        /\ WritesHash(p) => ~ ReadsHash(q)
        /\ HasGlobal(p) => ~ HasGlobal(q)

\* The next tdb_open_ex would restore the saved words.
Armed == file.head # 0 /\ file.head \in file.magic

\* The places of a commit in which the file is armed.
Live == {"sync2", "expand", "write", "unmagic"}

\* A process that is killed with the magic set leaves nobody behind.
LiveKillsAlone == KillAt \cap Live = {} \/ \A p, q \in Proc : p = q

ArmedInCommit ==
    Armed => \/ \E p \in Proc : pc[p] \in Live
             \/ \A p \in Proc : pc[p] \in {"closed"} \cup Recovering

\* A process restores words only while nobody else has the database open.
RecoveryAlone ==
    \A p \in Proc : pc[p] \in Recovering \ {"recover"} => \A q \in Others(p) : pc[q] = "closed"

\* What a commit or a recovery knows of the file at each of its steps.
Placed(p) ==
    /\ pc[p] \in {"tx", "upgrade", "global", "setup"} =>
         tx[p].old = file.size /\ file.size <= tx[p].map
    /\ pc[p] \in {"upgrade"} \cup Committing => tx[p].nesting = 0
    /\ pc[p] = "head" => tx[p].where \notin file.magic
    /\ pc[p] \in {"body", "sync1", "magic"} =>
         file.head = tx[p].where /\ file.head \notin file.magic
    /\ pc[p] \in Live \cup {"restore", "rhead"} => file.head = tx[p].where
    /\ pc[p] = "rmagic" => file.head \in {0, tx[p].where}
    /\ pc[p] \in {"rtrunc", "rsync2"} => ~ Armed

\* While no process is killed with the magic set, locks and places keep readers,
\* the commit and the recovery apart: the recovery of tdb_open_ex, which takes no
\* chain lock, still runs only when nobody else uses the database.
ReadersSafe ==
    /\ LocksExclude
    /\ ArmedInCommit
    /\ RecoveryAlone
    /\ \A p \in Proc : Placed(p)

Inv == Shape /\ ReadersSafe
=============================================================================
