------------------------------ MODULE PvfsOpen ------------------------------
(***************************************************************************)
(* Opening, closing and deleting one name: pvfs_open.c and pvfs_unlink.c   *)
(* over the open files database and the file system.  The database locks a *)
(* record by the inode that the name had when it was looked up; the file   *)
(* system is asked by name.  Every call on either is a step of its own     *)
(* unless a chain lock is held across calls that nothing can come between. *)
(***************************************************************************)
EXTENDS Opendb

CONSTANTS
    Inode,      \* inode numbers; freed ones are used again
    None,       \* no inode: the name does not exist
    Inputs,     \* [Request -> set of requests that may be sent as it]
    FirstLink   \* the file in the initial state

VARIABLES
    link,       \* the inode of the name
    gen,        \* history: how often an inode number has been given to a file
    odb,        \* openfiles.tdb: record by key
    op,         \* requests and handles
    notices,    \* MSG_PVFS_RETRY_OPEN messages not yet received, by addressee
    replies     \* replies sent to each request

vars == <<link, gen, odb, op, notices, replies>>

\* pvfs_locking_key of a name that did not exist has no inode in it.
Key == Inode \cup {None}

\* The fields of union smb_open that matter, or a request to delete the name.
\* delete is NTCREATEX_OPTIONS_DELETE_ON_CLOSE.
Disposition == {"open", "create", "open_if"}
Input == [access: SUBSET Right, share: SUBSET Right,
          disp: Disposition \cup {"unlink"}, delete: BOOLEAN, async: BOOLEAN]

ASSUME OpenAssumption ==
    /\ None \notin Inode
    /\ Inputs \in [Request -> SUBSET Input]
    /\ FirstLink \in Key

\* Places in a handler, which the process runs to its end.
Running == {"resolve", "create", "register", "again", "open", "abort",
            "unlink", "check", "remove", "close"}
Ended == {"failed", "closed"}

\* A request: key and file descriptor are those of the handle it becomes, ptr
\* is the address of its struct pvfs_open_retry.
Unsent == [pc |-> "unsent"]
OpState == {Unsent} \cup
    [pc: Running \cup Ended \cup {"opened"}, in: Input, key: Key, fd: Key, gen: Nat, ptr: {None}]
      \cup [pc: {"wait"}, in: Input, key: Key, fd: {None}, gen: {0}, ptr: Addr]

Init ==
    /\ link = FirstLink
    /\ gen = [i \in Inode |-> IF i = FirstLink THEN 1 ELSE 0]
    /\ odb = [k \in Key |-> NoFile]
    /\ op = [r \in Request |-> Unsent]
    /\ notices = [p \in OdbPending |-> 0]
    /\ replies = [r \in Request |-> 0]

-----------------------------------------------------------------------------

Idle(r) == \A q \in Request : op[q].pc \in Running => ServerOf[q] # ServerOf[r]

Goto(r, pc) == op' = [op EXCEPT ![r].pc = pc]

Reply(r) == replies' = [replies EXCEPT ![r] = @ + 1]

Fail(r) == Goto(r, "failed") /\ Reply(r)

FdOpen(i) == \E r \in Request : op[r].pc # "unsent" /\ op[r].fd = i

EntryOf(r, delete) ==
    [handle |-> r, access |-> op[r].in.access, share |-> op[r].in.share, delete |-> delete]

AddEntry(k, e) == odb' = [odb EXCEPT ![k].entries = Append(@, e)]

\* Requests are numbered in the order in which they arrive at a process.
Start(r, in) ==
    /\ op[r] = Unsent
    /\ Idle(r)
    /\ \A q \in Request : ServerOf[q] = ServerOf[r] /\ q < r => op[q] # Unsent
    /\ op' = [op EXCEPT ![r] = [pc |-> "resolve", in |-> in, key |-> None, fd |-> None,
                                gen |-> 0, ptr |-> None]]
    /\ UNCHANGED <<link, gen, odb, notices, replies>>

\* pvfs_resolve_name and the switch on the disposition; for a delete,
\* pvfs_unlink up to the lock.
Resolve(r) ==
    /\ op[r].pc = "resolve"
    /\ LET disp == op[r].in.disp
           Go(pc) == op' = [op EXCEPT ![r].key = link, ![r].pc = pc] /\ UNCHANGED replies
       IN  IF link = None
           THEN IF disp \in {"create", "open_if"} THEN Go("create") ELSE Fail(r)
           ELSE CASE disp = "create" -> Fail(r)
                  [] disp = "unlink" -> Go("unlink")
                  [] OTHER -> Go("open")
    /\ UNCHANGED <<link, gen, odb, notices>>

\* open with O_CREAT and O_EXCL: a new inode for the name.
pvfs_create_file(r, i) ==
    /\ op[r].pc = "create"
    /\ link = None /\ ~FdOpen(i)
    /\ link' = i
    /\ gen' = [gen EXCEPT ![i] = @ + 1]
    /\ op' = [op EXCEPT ![r].pc = "register", ![r].key = i, ![r].fd = i,
                      ![r].gen = gen'[i]]
    /\ UNCHANGED <<odb, notices, replies>>

\* Someone else has created it meanwhile.
CreateCollides(r) ==
    /\ op[r].pc = "create"
    /\ link # None
    /\ IF op[r].in.disp = "create" THEN Fail(r) ELSE Goto(r, "again") /\ UNCHANGED replies
    /\ UNCHANGED <<link, gen, odb, notices>>

\* The created file gets its entry in the database.  If that fails the file
\* stays.
Register(r) ==
    LET e == EntryOf(r, op[r].in.delete)
    IN  /\ op[r].pc = "register"
        /\ IF odb_tdb_open_file(odb[op[r].key], e) = "ok"
           THEN /\ AddEntry(op[r].key, e)
                /\ Goto(r, "opened")
           ELSE /\ op' = [op EXCEPT ![r].pc = "failed", ![r].fd = None]
                /\ UNCHANGED odb
        /\ Reply(r)
        /\ UNCHANGED <<link, gen, notices>>

\* The name is resolved again after a collision, and opened whatever comes out.
ResolveAgain(r) ==
    /\ op[r].pc = "again"
    /\ op' = [op EXCEPT ![r].key = link, ![r].pc = "open"]
    /\ UNCHANGED <<link, gen, odb, notices, replies>>

-----------------------------------------------------------------------------
(* The open of a file that exists.  SMB2 only: SMB1 ignores the delete on    *)
(* close option for it.                                                      *)

\* The open() under the chain lock: by name, and by pvfs_resolve_name_fd
\* refused if the inode is no longer the one that was resolved.
OpenGranted(r) ==
    LET k == op[r].key
        e == EntryOf(r, op[r].in.delete)
    IN  /\ odb_tdb_open_file(odb[k], e) = "ok"
        /\ AddEntry(k, e)
        /\ IF link # None /\ k \in {link, None}
           THEN op' = [op EXCEPT ![r].pc = "opened", ![r].fd = link,
                                ![r].gen = gen[link]] /\ Reply(r)
           ELSE Goto(r, "abort") /\ UNCHANGED replies

\* Free addresses for a struct pvfs_open_retry in the process of r.
FreeAddr(r) ==
    Addr \ {op[q].ptr : q \in {q \in Request : ServerOf[q] = ServerOf[r] /\ op[q].pc = "wait"}}

\* pvfs_open_setup_retry: a pending entry, still under the chain lock.
pvfs_open_setup_retry(r) ==
    LET k == op[r].key
    IN  /\ odb_tdb_open_file(odb[k], EntryOf(r, op[r].in.delete)) = "sharing_violation"
        /\ op[r].in.async
        /\ \E a \in FreeAddr(r) :
            /\ odb' = [odb EXCEPT ![k].pending =
                            Append(@, [server |-> ServerOf[r], ptr |-> a])]
            /\ op' = [op EXCEPT ![r].pc = "wait", ![r].ptr = a]
        /\ UNCHANGED replies

OpenRefused(r) ==
    LET status == odb_tdb_open_file(odb[op[r].key], EntryOf(r, op[r].in.delete))
    IN  /\ \/ status = "delete_pending"
           \/ status = "sharing_violation" /\ ~op[r].in.async
        /\ Fail(r)
        /\ UNCHANGED odb

pvfs_open(r) ==
    /\ op[r].pc = "open"
    /\ OpenGranted(r) \/ pvfs_open_setup_retry(r) \/ OpenRefused(r)
    /\ UNCHANGED <<link, gen, notices>>

Waits(r) == op[r].pc = "wait" /\ Idle(r)

PendingOf(r) == [server |-> ServerOf[r], ptr |-> op[r].ptr]

\* Mutant of RetryOpen: the retry is not freed before the open is tried again.
KeepsRetry(r) ==
    /\ Waits(r)
    /\ notices[PendingOf(r)] > 0
    /\ notices' = [notices EXCEPT ![PendingOf(r)] = @ - 1]
    /\ op' = [op EXCEPT ![r].pc = "resolve"]
    /\ UNCHANGED <<link, gen, odb, replies>>

\* pvfs_open_retry on a message: the whole open again.  The closer has removed
\* the pending entry.
RetryOpen(r) ==
    /\ Waits(r)
    /\ notices[PendingOf(r)] > 0
    /\ notices' = [notices EXCEPT ![PendingOf(r)] = @ - 1]
    /\ op' = [op EXCEPT ![r].pc = "resolve", ![r].ptr = None]
    /\ UNCHANGED <<link, gen, odb, replies>>

\* The message finds no wait with its pointer.
DropNotice(p) ==
    /\ notices[p] > 0
    /\ \A r \in Request : ServerOf[r] = p.server =>
            op[r].pc \notin Running /\ ~(op[r].pc = "wait" /\ op[r].ptr = p.ptr)
    /\ notices' = [notices EXCEPT ![p] = @ - 1]
    /\ UNCHANGED <<link, gen, odb, op, replies>>

\* Mutant of TimeoutOpen: another try, as after a message.
TriesForEver(r) ==
    /\ Waits(r)
    /\ odb' = [odb EXCEPT ![op[r].key] = odb_tdb_remove_pending(@, PendingOf(r))]
    /\ op' = [op EXCEPT ![r].pc = "resolve", ![r].ptr = None]
    /\ UNCHANGED <<link, gen, notices, replies>>

\* pvfs_open_retry on a timeout, and pvfs_retry_destructor.
TimeoutOpen(r) ==
    /\ Waits(r)
    /\ odb' = [odb EXCEPT ![op[r].key] = odb_tdb_remove_pending(@, PendingOf(r))]
    /\ op' = [op EXCEPT ![r].pc = "failed", ![r].ptr = None]
    /\ Reply(r)
    /\ UNCHANGED <<link, gen, notices>>

-----------------------------------------------------------------------------
(* Closing and deleting *)

\* Mutant of OdbClose: only the first that waits is told.
TellsOne(r) ==
    LET k == op[r].key
        told == odb[k].pending
    IN  /\ odb' = [odb EXCEPT ![k] = odb_tdb_close_file(@, r)]
        /\ notices' = [p \in OdbPending |->
                notices[p] + IF told # <<>> /\ told[1] = p THEN 1 ELSE 0]

\* odb_tdb_close_file and its messages.
OdbClose(r) ==
    LET k == op[r].key
        told == odb[k].pending
    IN  /\ odb' = [odb EXCEPT ![k] = odb_tdb_close_file(@, r)]
        /\ notices' = [p \in OdbPending |->
                notices[p] + Cardinality({i \in DOMAIN told : told[i] = p})]

\* Mutant of AbortOpen: the entry is left behind.
AbortKeepsEntry(r) ==
    /\ op[r].pc = "abort"
    /\ Fail(r)
    /\ UNCHANGED <<link, gen, odb, notices>>

\* The handle of an open that failed after its entry was added.
AbortOpen(r) ==
    /\ op[r].pc = "abort"
    /\ OdbClose(r)
    /\ Fail(r)
    /\ UNCHANGED <<link, gen>>

\* pvfs_set_delete_on_close, for which the handle needs the right to delete.
pvfs_set_delete_on_close(r, b) ==
    /\ op[r].pc = "opened" /\ Idle(r)
    /\ "D" \in op[r].in.access
    /\ odb[op[r].key].delete # b
    /\ odb' = [odb EXCEPT ![op[r].key].delete = b]
    /\ UNCHANGED <<link, gen, op, notices, replies>>

\* pvfs_close up to the close of the file descriptor.
StartClose(r) ==
    /\ op[r].pc = "opened" /\ Idle(r)
    /\ op' = [op EXCEPT ![r].pc = "check", ![r].fd = None]
    /\ UNCHANGED <<link, gen, odb, notices, replies>>

\* Mutant of CheckDelete: the file goes with the first handle that is closed.
CheckFirst(r) ==
    /\ op[r].pc = "check"
    /\ Goto(r, IF odb[op[r].key].delete THEN "remove" ELSE "close")
    /\ UNCHANGED <<link, gen, odb, notices, replies>>

\* pvfs_delete_on_close_set, with the chain lock for this call only.
CheckDelete(r) ==
    /\ op[r].pc = "check"
    /\ Goto(r, IF DeleteNow(odb[op[r].key]) THEN "remove" ELSE "close")
    /\ UNCHANGED <<link, gen, odb, notices, replies>>

\* The unlink() of pvfs_handle_destructor, by name.
RemoveName(r) ==
    /\ op[r].pc = "remove"
    /\ link' = None
    /\ Goto(r, "close")
    /\ UNCHANGED <<gen, odb, notices, replies>>

\* The rest of pvfs_handle_destructor.
CloseEntry(r) ==
    /\ op[r].pc = "close"
    /\ OdbClose(r)
    /\ Goto(r, "closed")
    /\ UNCHANGED <<link, gen, replies>>

\* pvfs_unlink_one: pvfs_can_delete and, the chain lock still held, unlink().
pvfs_unlink_one(r) ==
    /\ op[r].pc = "unlink"
    /\ link' = IF odb_tdb_can_open(odb[op[r].key]) THEN None ELSE link
    /\ Goto(r, "closed") /\ Reply(r)
    /\ UNCHANGED <<gen, odb, notices>>

-----------------------------------------------------------------------------

Handler(r) ==
    \/ Resolve(r)
    \/ \E i \in Inode : pvfs_create_file(r, i)
    \/ CreateCollides(r) \/ Register(r) \/ ResolveAgain(r)
    \/ pvfs_open(r) \/ AbortOpen(r)
    \/ CheckDelete(r) \/ RemoveName(r) \/ CloseEntry(r)
    \/ pvfs_unlink_one(r)

Next ==
    \/ \E r \in Request : \E in \in Inputs[r] : Start(r, in)
    \/ \E r \in Request : Handler(r)
    \/ \E r \in Request : RetryOpen(r)
    \/ \E p \in OdbPending : DropNotice(p)
    \/ \E r \in Request : TimeoutOpen(r)
    \/ \E r \in Request, b \in BOOLEAN : pvfs_set_delete_on_close(r, b)
    \/ \E r \in Request : StartClose(r)

Spec == Init /\ [][Next]_vars

\* A process runs its handlers, serves messages and has a timer for each wait.
Fairness ==
    \A r \in Request :
        WF_vars(Handler(r)) /\ WF_vars(RetryOpen(r)) /\ WF_vars(TimeoutOpen(r))

FairSpec == Spec /\ Fairness

-----------------------------------------------------------------------------
(* Properties *)

\* The variables have their types; of an open, that it has a struct
\* pvfs_open_retry exactly while it waits.
TypeOK ==
    /\ link \in Key
    /\ gen \in [Inode -> Nat]
    /\ odb \in [Key -> OdbFile]
    /\ op \in [Request -> OpState]
    /\ notices \in [OdbPending -> Nat]
    /\ replies \in [Request -> Nat]

Opened(r) == op[r].pc = "opened"

\* Two handles on one file never deny each other: what each may do, the other
\* shares, although the name is looked up, created, deleted and opened outside
\* the lock of the record (pvfs_open, pvfs_create_file).
ShareModes ==
    \A r, q \in Request : r # q /\ Opened(r) /\ Opened(q) /\ op[r].fd = op[q].fd =>
        \/ op[r].in.access = {} \/ op[q].in.access = {}
        \/ op[r].in.access \subseteq op[q].in.share /\ op[q].in.access \subseteq op[r].in.share

\* An open handle has one entry, in the record of the file that it really has
\* open, and no entry outlives its handle.
EntriesMatch ==
    /\ \A r \in Request : Opened(r) =>
        Cardinality({i \in DOMAIN odb[op[r].fd].entries :
                        odb[op[r].fd].entries[i].handle = r}) = 1
    /\ \A k \in Key : \A i \in DOMAIN odb[k].entries :
        op[odb[k].entries[i].handle].pc \in {"opened", "abort", "check", "remove", "close"}

\* No lost wakeup: an open that waits is in the record of a file that is open,
\* whose next close tells it, or has been told.
WaiterPending ==
    \A r \in Request : op[r].pc = "wait" =>
        \/ notices[PendingOf(r)] > 0
        \/ /\ odb[op[r].key].entries # <<>>
           /\ \E i \in DOMAIN odb[op[r].key].pending : odb[op[r].key].pending[i] = PendingOf(r)

\* The file a handle has or had open.
IsLinked(r) == link = op[r].key /\ gen[link] = op[r].gen

\* A close deletes nothing but the file of its handle, and not while another
\* handle has it open (pvfs_handle_destructor).
DeletesItsOwn ==
    [][\A r \in Request : op[r].pc = "remove" /\ op'[r].pc # "remove" /\ link # None =>
            IsLinked(r) /\ \A q \in Request : Opened(q) => op[q].fd # link]_vars

\* A file to be deleted is gone when its last handle is closed, although the
\* question whether it is the last and the close are two calls on the database
\* (pvfs_delete_on_close_set, odb_tdb_close_file).
DeletedOnClose ==
    [][\A r \in Request :
        LET file == odb[op[r].key]
        IN  /\ op[r].pc = "close" /\ op'[r].pc = "closed"
            /\ Len(file.entries) = 1 /\ (file.delete \/ file.entries[1].delete)
            => ~IsLinked(r)]_vars

\* Every open and delete is answered, one that waits for a sharing violation to
\* go away at the latest after its timeout (pvfs_open_retry), and only once, also
\* when the timeout and the message for a retry cross.  (Requests are finitely
\* many, so in the end no new one comes.)
AnsweredOnce == <>[](\A r \in Request : op[r].pc # "unsent" => replies[r] = 1)
=============================================================================
