---------------------------- MODULE PvfsOpenInv ----------------------------
(***************************************************************************)
(* The invariants of PvfsOpen that its proofs rest on, and what they ask   *)
(* of the clients.                                                         *)
(***************************************************************************)
EXTENDS PvfsOpen

(* What keeps the key of a handle the inode it has open *)

\* A name that is not there when it is resolved again after a collision does
\* not come back before the open.
NamesFound == \A r \in Request : op[r].pc = "open" /\ link # None => op[r].key # None

\* A collision is an error for every create, so that no name is resolved
\* again.
NoOpenIf == \A r \in Request : \A in \in Inputs[r] : in.disp # "open_if"

-----------------------------------------------------------------------------
(* The parts of the inductive invariants *)

\* Before the file is there, a request has no file descriptor; a created file
\* is registered under its own inode.
Descriptors ==
    \A r \in Request :
        /\ op[r].pc \in {"resolve", "create", "again", "open", "unlink"} =>
            op[r].fd = None /\ op[r].gen = 0
        /\ op[r].pc = "register" => op[r].key = op[r].fd /\ op[r].fd \in Inode

\* An open handle has a file open, the one it is registered under if that is
\* the record of a file at all.
OpenFiles ==
    \A r \in Request : Opened(r) => op[r].fd \in Inode /\ op[r].key \in {op[r].fd, None}

OwnRecord == \A r \in Request : Opened(r) => op[r].key = op[r].fd

\* Handles that are in the database.
Entered(r) == op[r].pc \in {"opened", "abort", "check", "remove", "close"}

\* An entry is that of a handle with the key of the record.
EntriesOwned ==
    \A k \in Key, r \in Request : \A i \in DOMAIN odb[k].entries :
        odb[k].entries[i].handle = r =>
            /\ Entered(r) /\ op[r].key = k
            /\ odb[k].entries[i].access = op[r].in.access
            /\ odb[k].entries[i].share = op[r].in.share

\* A handle has an entry, and has it once.
HandlesEntered ==
    /\ \A r \in Request : Entered(r) =>
        \E i \in DOMAIN odb[op[r].key].entries : odb[op[r].key].entries[i].handle = r
    /\ \A k \in Key : \A i, j \in DOMAIN odb[k].entries :
        odb[k].entries[i].handle = odb[k].entries[j].handle => i = j

\* No two entries of a record deny each other.
NoConflicts ==
    \A k \in Key : \A i, j \in DOMAIN odb[k].entries :
        i # j => ~share_conflict(odb[k].entries[i], odb[k].entries[j])

\* No two requests that wait have the same address in one process.
OwnAddress ==
    \A q, r \in Request : op[q].pc = "wait" /\ op[r].pc = "wait" /\ PendingOf(q) = PendingOf(r) => q = r

Entries == EntriesOwned /\ HandlesEntered /\ NoConflicts

OpenInv == TypeOK /\ Descriptors /\ OpenFiles /\ Entries /\ OwnAddress /\ WaiterPending

\* With clients whose collisions are errors.
OpenIfInv ==
    /\ OwnRecord
    /\ \A r \in Request :
        op[r].pc # "unsent" =>
            /\ op[r].in \in Inputs[r]
            /\ op[r].pc # "again"
            /\ op[r].pc = "create" => op[r].in.disp = "create"
            /\ op[r].pc = "open" => op[r].key # None

-----------------------------------------------------------------------------
(* Files are deleted through one process *)

\* Deletes go to process s, and so do the opens with the right to delete or the
\* option to delete on close, which the opens in other processes do not go
\* together with.
OneDeleter(s) ==
    \A r \in Request : \A in \in Inputs[r] :
        /\ in.disp = "unlink" => ServerOf[r] = s
        /\ in.delete \/ "D" \in in.access =>
             /\ ServerOf[r] = s
             /\ \A q \in Request : ServerOf[q] # s => \A other \in Inputs[q] : share_conflict(in, other)

\* What was asked for, and entered in the database.
AsSent ==
    /\ \A r \in Request : op[r].pc # "unsent" => op[r].in \in Inputs[r]
    /\ \A k \in Key : \A i \in DOMAIN odb[k].entries :
        odb[k].entries[i].delete => op[odb[k].entries[i].handle].in.delete

\* A process runs one handler at a time.
OneRunner ==
    \A q, r \in Request :
        op[q].pc \in Running /\ op[r].pc \in Running /\ ServerOf[q] = ServerOf[r] => q = r

\* A file that is to be deleted is open in process s only.
MarkedOwn(s) ==
    \A k \in Key : odb[k].delete =>
        \A i \in DOMAIN odb[k].entries : ServerOf[odb[k].entries[i].handle] = s

\* A name is removed by process s, after it was found to be that of a file of
\* which the closer has the last handle or of one that nobody has open.
Removals(s) ==
    \A r \in Request :
        /\ op[r].pc \in {"remove", "unlink"} => ServerOf[r] = s
        /\ op[r].pc = "remove" => DeleteNow(odb[op[r].key])
        /\ op[r].pc = "unlink" => link = op[r].key /\ link \in Inode

\* The files of process s keep their name as long as they are open, and do not
\* keep it if the last handle was to delete them.
Names(s) ==
    \A r \in Request : ServerOf[r] = s =>
        /\ op[r].pc \in {"register", "opened", "check", "remove"} => link \in Inode /\ IsLinked(r)
        /\ op[r].pc = "close" =>
             /\ op[r].key \in Inode /\ op[r].gen <= gen[op[r].key]
             /\ ~(IsLinked(r) /\ DeleteNow(odb[op[r].key]))

DeleteInv(s) == AsSent /\ OneRunner /\ MarkedOwn(s) /\ Removals(s) /\ Names(s)
=============================================================================
