------------------------------- MODULE Opendb -------------------------------
(***************************************************************************)
(* The open files database: what opendb_tdb.c does with the record of one  *)
(* file.  Every operation holds the chain lock of the record, so each is   *)
(* an operator from the record to what it leaves of it.  Oplocks are off,  *)
(* which is the default, and files have no streams.                        *)
(***************************************************************************)
EXTENDS Naturals, FiniteSets, SequencesExt

CONSTANTS
    Server,     \* smbd processes
    Request,    \* open requests and the handles they become
    ServerOf,   \* the process a request is sent to
    Addr        \* addresses of struct pvfs_open_retry in a process

ASSUME OdbAssumption == ServerOf \in [Request -> Server]

\* Reading (or executing), writing (or appending) and deleting.
Right == {"R", "W", "D"}

\* struct opendb_entry, struct opendb_pending and struct opendb_file.
OdbEntry == [handle: Request, access: SUBSET Right, share: SUBSET Right, delete: BOOLEAN]
OdbPending == [server: Server, ptr: Addr]
OdbFile == [entries: Seq(OdbEntry), delete: BOOLEAN, pending: Seq(OdbPending)]

\* A record without entries is deleted.
NoFile == [entries |-> <<>>, delete |-> FALSE, pending |-> <<>>]

\* Mutant of share_conflict: only the new open is asked what it shares.
OneWayConflict(e1, e2) ==
    e1.access # {} /\ e2.access # {} /\ ~(e1.access \subseteq e2.share)

share_conflict(e1, e2) ==
    /\ e1.access # {} /\ e2.access # {}
    /\ ~(e1.access \subseteq e2.share /\ e2.access \subseteq e1.share)

\* The outcome of odb_tdb_open_file for entry e.
odb_tdb_open_file(file, e) ==
    IF file.delete \/ (file.entries # <<>> /\ e.delete) THEN "delete_pending"
    ELSE IF \E i \in DOMAIN file.entries : share_conflict(file.entries[i], e)
         THEN "sharing_violation" ELSE "ok"

odb_push_record(file) == IF file.entries = <<>> THEN NoFile ELSE file

\* Mutant of DeleteNow: the flag with which the handle was opened is not seen.
IgnoresEntry(file) == Len(file.entries) = 1 /\ file.delete

\* odb_tdb_get_delete_on_close: the handle that asks is the last and the file
\* is to be deleted.
DeleteNow(file) ==
    /\ Len(file.entries) = 1
    /\ file.delete \/ file.entries[1].delete

\* odb_tdb_can_open for a delete.
odb_tdb_can_open(file) == file.entries = <<>> /\ ~file.delete

\* odb_tdb_remove_pending
odb_tdb_remove_pending(file, p) == odb_push_record([file EXCEPT !.pending = RemoveFirst(@, p)])

\* odb_tdb_close_file of handle h.  Those of file.pending are told to retry.
odb_tdb_close_file(file, h) ==
    LET k == SelectInSeq(file.entries, LAMBDA e : e.handle = h)
    IN  IF k = 0 THEN file
        ELSE odb_push_record(
                [entries |-> RemoveAt(file.entries, k),
                 delete |-> file.delete \/ file.entries[k].delete,
                 pending |-> <<>>])
=============================================================================
