--------------------------- MODULE PvfsOpenProofs ---------------------------
(***************************************************************************)
(* Opens for any number of processes, requests and inodes: the types, that *)
(* no open waits without being told (WaiterPending), and, as long as a     *)
(* name that is resolved twice is found (NamesFound), that the entries in  *)
(* the database are those of the files that are open (EntriesMatch), that  *)
(* open handles do not deny each other (ShareModes) and, if one process    *)
(* does all that deletes (OneDeleter), that closes delete their own files  *)
(* (DeletesItsOwn) and do delete them (DeletedOnClose).                    *)
(***************************************************************************)
EXTENDS PvfsOpenInv, SubsequenceProofs

(* Requests that were sent *)

Sent == [pc: Running \cup Ended \cup {"opened", "wait"}, in: Input, key: Key, fd: Key,
         gen: Nat, ptr: Addr \cup {None}]

Rec(pc, in, key, fd, g, ptr) ==
    [pc |-> pc, in |-> in, key |-> key, fd |-> fd, gen |-> g, ptr |-> ptr]

\* The fields of a request that was sent.
LEMMA SentOp ==
    ASSUME op \in [Request -> OpState], NEW r \in Request, op[r].pc # "unsent"
    PROVE  /\ op[r] \in Sent /\ op[r] \in OpState /\ op[r].in \in Input /\ op[r].key \in Key
           /\ op[r].pc = "wait" => op[r].ptr \in Addr /\ op[r].fd = None /\ op[r].gen = 0
           /\ op[r].pc # "wait" => op[r].ptr = None
<1>1. op[r] \in OpState /\ op[r] # Unsent
  BY DEF Unsent
<1>2. CASE op[r] \in [pc: Running \cup Ended \cup {"opened"}, in: Input, key: Key, fd: Key,
                      gen: Nat, ptr: {None}]
  <2>1. op[r].pc # "wait" /\ op[r].ptr = None
    BY <1>2 DEF Running, Ended
  <2>2. op[r] \in Sent
    BY <1>2 DEF Sent
  <2> QED
    BY <1>1, <2>1, <2>2 DEF Sent
<1>3. CASE op[r] \in [pc: {"wait"}, in: Input, key: Key, fd: {None}, gen: {0}, ptr: Addr]
  <2>1. op[r].pc = "wait" /\ op[r].ptr \in Addr /\ op[r].fd = None /\ op[r].gen = 0
    BY <1>3
  <2>2. op[r] \in Sent
    BY <1>3 DEF Sent, Key
  <2> QED
    BY <1>1, <2>1, <2>2 DEF Sent
<1> QED
  BY <1>1, <1>2, <1>3 DEF OpState

\* A record that belongs to the state space.
LEMMA RecOpState ==
    ASSUME NEW in \in Input, NEW key \in Key, NEW pc, NEW fd, NEW g, NEW ptr,
           \/ pc \in Running \cup Ended \cup {"opened"} /\ fd \in Key /\ g \in Nat /\ ptr = None
           \/ pc = "wait" /\ fd = None /\ g = 0 /\ ptr \in Addr
    PROVE  Rec(pc, in, key, fd, g, ptr) \in OpState
BY DEF Rec, OpState

\* The fields of a record built from its parts.
LEMMA RecFields ==
    ASSUME NEW pc, NEW in, NEW key, NEW fd, NEW g, NEW ptr
    PROVE  LET y == Rec(pc, in, key, fd, g, ptr)
           IN  /\ y.pc = pc /\ y.in = in /\ y.key = key /\ y.fd = fd /\ y.gen = g /\ y.ptr = ptr
BY DEF Rec

\* A request is its parts.
LEMMA SentIsRec ==
    ASSUME NEW y \in Sent
    PROVE  y = Rec(y.pc, y.in, y.key, y.fd, y.gen, y.ptr)
BY DEF Sent, Rec

\* The request r has changed, and no other.
Became(r, pc, key, fd, g, ptr) ==
    /\ op' = [q \in Request |-> op'[q]]
    /\ op'[r] = Rec(pc, op[r].in, key, fd, g, ptr)
    /\ \A q \in Request : q # r => op'[q] = op[q]

Place == Running \cup Ended \cup {"opened", "wait"}

\* A step that replaces the record of one request.
LEMMA BecameByRecord ==
    ASSUME op \in [Request -> OpState], NEW r \in Request, NEW x,
           op' = [op EXCEPT ![r] = x],
           x \in Sent, x.in = op[r].in
    PROVE  Became(r, x.pc, x.key, x.fd, x.gen, x.ptr)
<1>1. x = Rec(x.pc, op[r].in, x.key, x.fd, x.gen, x.ptr)
  BY SentIsRec
<1> QED
  BY <1>1 DEF Became

\* The assignments of the handlers.
LEMMA BecameGoto ==
    ASSUME op \in [Request -> OpState], NEW r \in Request, op[r].pc # "unsent",
           NEW pc \in Place, op' = [op EXCEPT ![r].pc = pc]
    PROVE  Became(r, pc, op[r].key, op[r].fd, op[r].gen, op[r].ptr)
<1> DEFINE x == [op[r] EXCEPT !.pc = pc]
<1>1. op[r] \in Sent
  BY SentOp
<1>2. /\ x \in Sent /\ x.pc = pc /\ x.in = op[r].in /\ x.key = op[r].key /\ x.fd = op[r].fd
      /\ x.gen = op[r].gen /\ x.ptr = op[r].ptr
  BY <1>1 DEF Sent, Place
<1>3. op' = [op EXCEPT ![r] = x]
  OBVIOUS
<1> HIDE DEF x
<1>4. Became(r, x.pc, x.key, x.fd, x.gen, x.ptr)
  BY <1>2, <1>3, BecameByRecord
<1> QED
  BY <1>2, <1>4

\* A step that sets place and key of a request.
LEMMA BecameKey ==
    ASSUME op \in [Request -> OpState], NEW r \in Request, op[r].pc # "unsent",
           NEW pc \in Place, NEW k \in Key, op' = [op EXCEPT ![r].key = k, ![r].pc = pc]
    PROVE  Became(r, pc, k, op[r].fd, op[r].gen, op[r].ptr)
<1> DEFINE x == [op[r] EXCEPT !.key = k, !.pc = pc]
<1>1. op[r] \in Sent
  BY SentOp
<1>2. /\ x \in Sent /\ x.pc = pc /\ x.in = op[r].in /\ x.key = k /\ x.fd = op[r].fd
      /\ x.gen = op[r].gen /\ x.ptr = op[r].ptr
  BY <1>1 DEF Sent, Place
<1>3. op' = [op EXCEPT ![r] = x]
  OBVIOUS
<1> HIDE DEF x
<1>4. Became(r, x.pc, x.key, x.fd, x.gen, x.ptr)
  BY <1>2, <1>3, BecameByRecord
<1> QED
  BY <1>2, <1>4

\* A step that sets place and file descriptor.
LEMMA BecameFd ==
    ASSUME op \in [Request -> OpState], NEW r \in Request, op[r].pc # "unsent",
           NEW pc \in Place, NEW i \in Key, op' = [op EXCEPT ![r].pc = pc, ![r].fd = i]
    PROVE  Became(r, pc, op[r].key, i, op[r].gen, op[r].ptr)
<1> DEFINE x == [op[r] EXCEPT !.pc = pc, !.fd = i]
<1>1. op[r] \in Sent
  BY SentOp
<1>2. /\ x \in Sent /\ x.pc = pc /\ x.in = op[r].in /\ x.key = op[r].key /\ x.fd = i
      /\ x.gen = op[r].gen /\ x.ptr = op[r].ptr
  BY <1>1 DEF Sent, Place
<1>3. op' = [op EXCEPT ![r] = x]
  OBVIOUS
<1> HIDE DEF x
<1>4. Became(r, x.pc, x.key, x.fd, x.gen, x.ptr)
  BY <1>2, <1>3, BecameByRecord
<1> QED
  BY <1>2, <1>4

\* A step that opens the file of a request.
LEMMA BecameOpen ==
    ASSUME op \in [Request -> OpState], NEW r \in Request, op[r].pc # "unsent",
           NEW pc \in Place, NEW i \in Key, NEW g \in Nat,
           op' = [op EXCEPT ![r].pc = pc, ![r].fd = i, ![r].gen = g]
    PROVE  Became(r, pc, op[r].key, i, g, op[r].ptr)
<1> DEFINE x == [op[r] EXCEPT !.pc = pc, !.fd = i, !.gen = g]
<1>1. op[r] \in Sent
  BY SentOp
<1>2. /\ x \in Sent /\ x.pc = pc /\ x.in = op[r].in /\ x.key = op[r].key /\ x.fd = i
      /\ x.gen = g /\ x.ptr = op[r].ptr
  BY <1>1 DEF Sent, Place
<1>3. op' = [op EXCEPT ![r] = x]
  OBVIOUS
<1> HIDE DEF x
<1>4. Became(r, x.pc, x.key, x.fd, x.gen, x.ptr)
  BY <1>2, <1>3, BecameByRecord
<1> QED
  BY <1>2, <1>4

\* A step that creates the file of a request.
LEMMA BecameCreated ==
    ASSUME op \in [Request -> OpState], NEW r \in Request, op[r].pc # "unsent",
           NEW pc \in Place, NEW k \in Key, NEW i \in Key, NEW g \in Nat,
           op' = [op EXCEPT ![r].pc = pc, ![r].key = k, ![r].fd = i, ![r].gen = g]
    PROVE  Became(r, pc, k, i, g, op[r].ptr)
<1> DEFINE x == [op[r] EXCEPT !.pc = pc, !.key = k, !.fd = i, !.gen = g]
<1>1. op[r] \in Sent
  BY SentOp
<1>2. /\ x \in Sent /\ x.pc = pc /\ x.in = op[r].in /\ x.key = k /\ x.fd = i
      /\ x.gen = g /\ x.ptr = op[r].ptr
  BY <1>1 DEF Sent, Place
<1>3. op' = [op EXCEPT ![r] = x]
  OBVIOUS
<1> HIDE DEF x
<1>4. Became(r, x.pc, x.key, x.fd, x.gen, x.ptr)
  BY <1>2, <1>3, BecameByRecord
<1> QED
  BY <1>2, <1>4

\* A step that sets or clears the address of a waiting request.
LEMMA BecamePtr ==
    ASSUME op \in [Request -> OpState], NEW r \in Request, op[r].pc # "unsent",
           NEW pc \in Place, NEW a \in Addr \cup {None},
           op' = [op EXCEPT ![r].pc = pc, ![r].ptr = a]
    PROVE  Became(r, pc, op[r].key, op[r].fd, op[r].gen, a)
<1> DEFINE x == [op[r] EXCEPT !.pc = pc, !.ptr = a]
<1>1. op[r] \in Sent
  BY SentOp
<1>2. /\ x \in Sent /\ x.pc = pc /\ x.in = op[r].in /\ x.key = op[r].key /\ x.fd = op[r].fd
      /\ x.gen = op[r].gen /\ x.ptr = a
  BY <1>1 DEF Sent, Place
<1>3. op' = [op EXCEPT ![r] = x]
  OBVIOUS
<1> HIDE DEF x
<1>4. Became(r, x.pc, x.key, x.fd, x.gen, x.ptr)
  BY <1>2, <1>3, BecameByRecord
<1> QED
  BY <1>2, <1>4

-----------------------------------------------------------------------------
(* What the steps do *)

\* The request goes on, and nothing else of the request but its place changes.
GoesTo(r, pc) == Became(r, pc, op[r].key, op[r].fd, op[r].gen, op[r].ptr)

Arrives(r, in) ==
    /\ op[r].pc = "unsent"
    /\ op' = [op EXCEPT ![r] = Rec("resolve", in, None, None, 0, None)]
    /\ UNCHANGED <<odb, notices>>

\* A step of a handler that leaves the database alone.
Walks(r) ==
    /\ UNCHANGED <<odb, notices>>
    /\ \/ op[r].pc \in {"resolve", "create", "open"} /\ GoesTo(r, "failed")
       \/ /\ op[r].pc = "resolve" /\ op[r].in.disp \in {"create", "open_if"}
          /\ Became(r, "create", link, op[r].fd, op[r].gen, op[r].ptr)
       \/ /\ op[r].pc = "resolve" /\ link # None
          /\ \E pc \in {"unlink", "open"} : Became(r, pc, link, op[r].fd, op[r].gen, op[r].ptr)
       \/ /\ op[r].pc = "create"
          /\ \E i \in Inode, g \in Nat : Became(r, "register", i, i, g, op[r].ptr)
       \/ op[r].pc = "create" /\ op[r].in.disp # "create" /\ GoesTo(r, "again")
       \/ /\ op[r].pc = "register"
          /\ Became(r, "failed", op[r].key, None, op[r].gen, op[r].ptr)
       \/ op[r].pc = "again" /\ Became(r, "open", link, op[r].fd, op[r].gen, op[r].ptr)
       \/ op[r].pc = "opened" /\ Became(r, "check", op[r].key, None, op[r].gen, op[r].ptr)
       \/ op[r].pc = "check" /\ \E pc \in {"remove", "close"} : GoesTo(r, pc)
       \/ op[r].pc = "remove" /\ GoesTo(r, "close")
       \/ op[r].pc = "unlink" /\ GoesTo(r, "closed")

\* An entry is added.
Enters(r) ==
    /\ odb_tdb_open_file(odb[op[r].key], EntryOf(r, op[r].in.delete)) = "ok"
    /\ AddEntry(op[r].key, EntryOf(r, op[r].in.delete))
    /\ UNCHANGED notices
    /\ \/ op[r].pc = "register" /\ GoesTo(r, "opened")
       \/ /\ op[r].pc = "open" /\ link \in Inode /\ op[r].key \in {link, None}
          /\ Became(r, "opened", op[r].key, link, gen[link], op[r].ptr)
       \/ op[r].pc = "open" /\ GoesTo(r, "abort")

\* An entry is removed, and those who wait are told.
Leaves(r) ==
    /\ OdbClose(r)
    /\ \/ op[r].pc = "abort" /\ GoesTo(r, "failed")
       \/ op[r].pc = "close" /\ GoesTo(r, "closed")

SetsUp(r, a) ==
    LET k == op[r].key
    IN  /\ op[r].pc = "open" /\ a \in FreeAddr(r)
        /\ odb_tdb_open_file(odb[k], EntryOf(r, op[r].in.delete)) = "sharing_violation"
        /\ odb' = [odb EXCEPT ![k].pending = Append(@, [server |-> ServerOf[r], ptr |-> a])]
        /\ Became(r, "wait", k, op[r].fd, op[r].gen, a)
        /\ UNCHANGED notices

Retries(r) ==
    /\ op[r].pc = "wait" /\ notices[PendingOf(r)] > 0
    /\ notices' = [notices EXCEPT ![PendingOf(r)] = @ - 1]
    /\ Became(r, "resolve", op[r].key, op[r].fd, op[r].gen, None)
    /\ UNCHANGED odb

TimesOut(r) ==
    /\ op[r].pc = "wait"
    /\ odb' = [odb EXCEPT ![op[r].key] = odb_tdb_remove_pending(@, PendingOf(r))]
    /\ Became(r, "failed", op[r].key, op[r].fd, op[r].gen, None)
    /\ UNCHANGED notices

Drops(p) ==
    /\ notices[p] > 0
    /\ \A r \in Request : op[r].pc = "wait" => PendingOf(r) # p
    /\ notices' = [notices EXCEPT ![p] = @ - 1]
    /\ UNCHANGED <<odb, op>>

SetsDelete(k, b) == odb' = [odb EXCEPT ![k].delete = b] /\ UNCHANGED <<op, notices>>

NoEffect == UNCHANGED <<odb, op, notices>>

Effect ==
    \/ NoEffect
    \/ \E r \in Request : \E in \in Inputs[r] : Arrives(r, in)
    \/ \E r \in Request : Walks(r)
    \/ \E r \in Request : Enters(r)
    \/ \E r \in Request : Leaves(r)
    \/ \E r \in Request, a \in Addr : SetsUp(r, a)
    \/ \E r \in Request : Retries(r)
    \/ \E r \in Request : TimesOut(r)
    \/ \E p \in OdbPending : Drops(p)
    \/ \E k \in Key, b \in BOOLEAN : SetsDelete(k, b)

\* Every step of a handler walks on, adds an entry, removes it, or sets up a
\* wait.
LEMMA HandlerEffect ==
    ASSUME TypeOK, NEW r \in Request, Handler(r)
    PROVE  /\ \/ Walks(r) \/ Enters(r) \/ Leaves(r)
              \/ \E a \in Addr : SetsUp(r, a)
           /\ link' \in Key /\ gen' \in [Inode -> Nat] /\ replies' \in [Request -> Nat]
<1>0. /\ op \in [Request -> OpState] /\ link \in Key /\ gen \in [Inode -> Nat]
      /\ replies \in [Request -> Nat]
  BY DEF TypeOK
<1>p. {"failed", "create", "unlink", "open", "register", "again", "opened", "check", "remove",
       "close", "closed", "abort", "wait", "resolve"} \subseteq Place /\ None \in Key
  BY DEF Place, Running, Ended, Key
<1>r. Reply(r) => replies' \in [Request -> Nat]
  BY <1>0 DEF Reply
<1>s. (UNCHANGED link => link' \in Key) /\ (UNCHANGED gen => gen' \in [Inode -> Nat])
      /\ (UNCHANGED replies => replies' \in [Request -> Nat])
  BY <1>0
<1>f. op[r].pc # "unsent" /\ Fail(r) => GoesTo(r, "failed") /\ replies' \in [Request -> Nat]
  BY <1>0, <1>p, <1>r, BecameGoto DEF Fail, Goto, GoesTo
<1>g. \A pc \in Place : op[r].pc # "unsent" /\ Goto(r, pc) => GoesTo(r, pc)
  BY <1>0, BecameGoto DEF Goto, GoesTo
<1>1. CASE Resolve(r)
  <2> DEFINE Go(pc) == op' = [op EXCEPT ![r].key = link, ![r].pc = pc] /\ UNCHANGED replies
  <2>0. op[r].pc = "resolve" /\ UNCHANGED <<link, gen, odb, notices>>
    BY <1>1 DEF Resolve
  <2>1. CASE Fail(r)
    BY <1>f, <1>s, <2>0, <2>1 DEF Walks
  <2>2. CASE Go("create") /\ op[r].in.disp \in {"create", "open_if"}
    <3>1. Became(r, "create", link, op[r].fd, op[r].gen, op[r].ptr)
      BY <1>0, <1>p, <2>0, <2>2, BecameKey
    <3> QED
      BY <1>s, <2>0, <2>2, <3>1 DEF Walks
  <2>3. CASE link # None /\ \E pc \in {"unlink", "open"} : Go(pc)
    <3>1. \E pc \in {"unlink", "open"} : Became(r, pc, link, op[r].fd, op[r].gen, op[r].ptr)
      BY <1>0, <1>p, <2>0, <2>3, BecameKey
    <3> QED
      BY <1>s, <2>0, <2>3, <3>1 DEF Walks
  <2> QED
    BY <1>1, <2>1, <2>2, <2>3 DEF Resolve
<1>2. ASSUME NEW i \in Inode, pvfs_create_file(r, i)
      PROVE  /\ Walks(r)
             /\ link' \in Key /\ gen' \in [Inode -> Nat] /\ replies' \in [Request -> Nat]
  <2>1. i \in Key /\ gen' \in [Inode -> Nat] /\ gen'[i] \in Nat
    BY <1>0, <1>2 DEF pvfs_create_file, Key
  <2>2. op[r].pc = "create" /\ link' = i /\ UNCHANGED <<odb, notices, replies>>
        /\ op' = [op EXCEPT ![r].pc = "register", ![r].key = i, ![r].fd = i, ![r].gen = gen'[i]]
    BY <1>2 DEF pvfs_create_file
  <2>3. Became(r, "register", i, i, gen'[i], op[r].ptr)
    BY <1>0, <1>p, <2>1, <2>2, BecameCreated
  <2> QED
    BY <1>s, <2>1, <2>2, <2>3 DEF Walks
<1>3. CASE CreateCollides(r)
  <2>0. op[r].pc = "create" /\ UNCHANGED <<link, gen, odb, notices>>
    BY <1>3 DEF CreateCollides
  <2>1. CASE Fail(r)
    BY <1>f, <1>s, <2>0, <2>1 DEF Walks
  <2>2. CASE op[r].in.disp # "create" /\ Goto(r, "again") /\ UNCHANGED replies
    <3>1. GoesTo(r, "again")
      BY <1>g, <1>p, <2>0, <2>2
    <3> QED
      BY <1>s, <2>0, <2>2, <3>1 DEF Walks
  <2> QED
    BY <1>3, <2>1, <2>2 DEF CreateCollides
<1>4. CASE Register(r)
  <2>0. op[r].pc = "register" /\ UNCHANGED <<link, gen, notices>> /\ Reply(r)
    BY <1>4 DEF Register
  <2>1. CASE op' = [op EXCEPT ![r].pc = "failed", ![r].fd = None] /\ UNCHANGED odb
    <3>1. Became(r, "failed", op[r].key, None, op[r].gen, op[r].ptr)
      BY <1>0, <1>p, <2>0, <2>1, BecameFd
    <3> QED
      BY <1>r, <1>s, <2>0, <2>1, <3>1 DEF Walks
  <2>2. CASE /\ odb_tdb_open_file(odb[op[r].key], EntryOf(r, op[r].in.delete)) = "ok"
             /\ AddEntry(op[r].key, EntryOf(r, op[r].in.delete)) /\ Goto(r, "opened")
    <3>1. GoesTo(r, "opened")
      BY <1>g, <1>p, <2>0, <2>2
    <3> QED
      BY <1>r, <1>s, <2>0, <2>2, <3>1 DEF Enters
  <2> QED
    BY <1>4, <2>1, <2>2 DEF Register
<1>5. CASE ResolveAgain(r)
  <2>1. /\ op[r].pc = "again" /\ UNCHANGED <<link, gen, odb, notices, replies>>
        /\ op' = [op EXCEPT ![r].key = link, ![r].pc = "open"]
    BY <1>5 DEF ResolveAgain
  <2>2. Became(r, "open", link, op[r].fd, op[r].gen, op[r].ptr)
    BY <1>0, <1>p, <2>1, BecameKey
  <2> QED
    BY <1>s, <2>1, <2>2 DEF Walks
<1>6. CASE pvfs_open(r)
  <2>0. op[r].pc = "open" /\ UNCHANGED <<link, gen, notices>>
    BY <1>6 DEF pvfs_open
  <2>1. CASE OpenGranted(r)
    <3>0. /\ odb_tdb_open_file(odb[op[r].key], EntryOf(r, op[r].in.delete)) = "ok"
          /\ AddEntry(op[r].key, EntryOf(r, op[r].in.delete))
      BY <2>1 DEF OpenGranted
    <3>1. CASE /\ link # None /\ op[r].key \in {link, None} /\ Reply(r)
               /\ op' = [op EXCEPT ![r].pc = "opened", ![r].fd = link, ![r].gen = gen[link]]
      <4>1. link \in Inode /\ gen[link] \in Nat
        BY <1>0, <3>1 DEF Key
      <4>2. Became(r, "opened", op[r].key, link, gen[link], op[r].ptr)
        BY <1>0, <1>p, <2>0, <3>1, <4>1, BecameOpen
      <4> QED
        BY <1>r, <1>s, <2>0, <3>0, <3>1, <4>1, <4>2 DEF Enters
    <3>2. CASE Goto(r, "abort") /\ UNCHANGED replies
      <4>1. GoesTo(r, "abort")
        BY <1>g, <1>p, <2>0, <3>2
      <4> QED
        BY <1>s, <2>0, <3>0, <3>2, <4>1 DEF Enters
    <3> QED
      BY <2>1, <3>1, <3>2 DEF OpenGranted
  <2>2. CASE pvfs_open_setup_retry(r)
    <3> DEFINE k == op[r].key
    <3>0. PICK a \in FreeAddr(r) :
             /\ odb' = [odb EXCEPT ![k].pending = Append(@, [server |-> ServerOf[r], ptr |-> a])]
             /\ op' = [op EXCEPT ![r].pc = "wait", ![r].ptr = a]
      BY <2>2 DEF pvfs_open_setup_retry
    <3>1. /\ odb_tdb_open_file(odb[k], EntryOf(r, op[r].in.delete)) = "sharing_violation"
          /\ UNCHANGED replies
      BY <2>2 DEF pvfs_open_setup_retry
    <3>2. a \in Addr
      BY DEF FreeAddr
    <3>3. Became(r, "wait", k, op[r].fd, op[r].gen, a)
      BY <1>0, <1>p, <2>0, <3>0, <3>2, BecamePtr
    <3>4. SetsUp(r, a)
      BY <2>0, <3>0, <3>1, <3>3 DEF SetsUp
    <3> QED
      BY <1>s, <2>0, <3>1, <3>2, <3>4
  <2>3. CASE OpenRefused(r)
    BY <1>f, <1>s, <2>0, <2>3 DEF OpenRefused, Walks
  <2> QED
    BY <1>6, <2>1, <2>2, <2>3 DEF pvfs_open
<1>7. CASE AbortOpen(r)
  BY <1>f, <1>s, <1>7 DEF AbortOpen, Leaves
<1>8. CASE CheckDelete(r)
  <2>1. /\ op[r].pc = "check" /\ UNCHANGED <<link, gen, odb, notices, replies>>
        /\ \E pc \in {"remove", "close"} : Goto(r, pc)
    BY <1>8 DEF CheckDelete
  <2>2. \E pc \in {"remove", "close"} : GoesTo(r, pc)
    BY <1>g, <1>p, <2>1
  <2> QED
    BY <1>s, <2>1, <2>2 DEF Walks
<1>9. CASE RemoveName(r)
  <2>1. op[r].pc = "remove" /\ link' = None /\ Goto(r, "close") /\ UNCHANGED <<gen, odb, notices, replies>>
    BY <1>9 DEF RemoveName
  <2>2. GoesTo(r, "close")
    BY <1>g, <1>p, <2>1
  <2> QED
    BY <1>p, <1>s, <2>1, <2>2 DEF Walks
<1>10. CASE CloseEntry(r)
  <2>1. op[r].pc = "close" /\ OdbClose(r) /\ Goto(r, "closed") /\ UNCHANGED <<link, gen, replies>>
    BY <1>10 DEF CloseEntry
  <2>2. GoesTo(r, "closed")
    BY <1>g, <1>p, <2>1
  <2> QED
    BY <1>s, <2>1, <2>2 DEF Leaves
<1>11. CASE pvfs_unlink_one(r)
  <2>1. /\ op[r].pc = "unlink" /\ Goto(r, "closed") /\ Reply(r) /\ UNCHANGED <<gen, odb, notices>>
        /\ link' \in {link, None}
    BY <1>11 DEF pvfs_unlink_one
  <2>2. GoesTo(r, "closed")
    BY <1>g, <1>p, <2>1
  <2>3. link' \in Key
    BY <1>0, <1>p, <2>1
  <2> QED
    BY <1>r, <1>s, <2>1, <2>2, <2>3 DEF Walks
<1> QED
  BY <1>1, <1>2, <1>3, <1>4, <1>5, <1>6, <1>7, <1>8, <1>9, <1>10, <1>11 DEF Handler

\* Every step is one of the effects listed, and the file system keeps its
\* type.
LEMMA StepEffect ==
    ASSUME TypeOK, [Next]_vars
    PROVE  /\ Effect
           /\ link' \in Key /\ gen' \in [Inode -> Nat] /\ replies' \in [Request -> Nat]
<1>0. /\ op \in [Request -> OpState] /\ link \in Key /\ gen \in [Inode -> Nat]
      /\ replies \in [Request -> Nat]
  BY DEF TypeOK
<1>s. (UNCHANGED link => link' \in Key) /\ (UNCHANGED gen => gen' \in [Inode -> Nat])
      /\ (UNCHANGED replies => replies' \in [Request -> Nat])
  BY <1>0
<1>p. "resolve" \in Place /\ "failed" \in Place
  BY DEF Place, Running, Ended
<1>1. ASSUME NEW r \in Request, NEW in \in Inputs[r], Start(r, in)
      PROVE  Arrives(r, in) /\ UNCHANGED <<link, gen, replies>>
  BY <1>1 DEF Start, Arrives, Rec, Unsent
<1>2. ASSUME NEW r \in Request, RetryOpen(r)
      PROVE  Retries(r) /\ UNCHANGED <<link, gen, replies>>
  <2>1. /\ op[r].pc = "wait" /\ notices[PendingOf(r)] > 0 /\ UNCHANGED <<link, gen, odb, replies>>
        /\ notices' = [notices EXCEPT ![PendingOf(r)] = @ - 1]
        /\ op' = [op EXCEPT ![r].pc = "resolve", ![r].ptr = None]
    BY <1>2 DEF RetryOpen, Waits
  <2>2. Became(r, "resolve", op[r].key, op[r].fd, op[r].gen, None)
    BY <1>0, <1>p, <2>1, BecamePtr
  <2> QED
    BY <2>1, <2>2 DEF Retries
<1>3. ASSUME NEW p \in OdbPending, DropNotice(p)
      PROVE  Drops(p) /\ UNCHANGED <<link, gen, replies>>
  BY <1>3 DEF DropNotice, Drops, PendingOf
<1>4. ASSUME NEW r \in Request, TimeoutOpen(r)
      PROVE  TimesOut(r) /\ UNCHANGED <<link, gen>> /\ replies' \in [Request -> Nat]
  <2>1. /\ op[r].pc = "wait" /\ UNCHANGED <<link, gen, notices>> /\ Reply(r)
        /\ odb' = [odb EXCEPT ![op[r].key] = odb_tdb_remove_pending(@, PendingOf(r))]
        /\ op' = [op EXCEPT ![r].pc = "failed", ![r].ptr = None]
    BY <1>4 DEF TimeoutOpen, Waits
  <2>2. Became(r, "failed", op[r].key, op[r].fd, op[r].gen, None)
    BY <1>0, <1>p, <2>1, BecamePtr
  <2>3. replies' \in [Request -> Nat]
    BY <1>0, <2>1 DEF Reply
  <2> QED
    BY <2>1, <2>2, <2>3 DEF TimesOut
<1>5. ASSUME NEW r \in Request, NEW b \in BOOLEAN, pvfs_set_delete_on_close(r, b)
      PROVE  op[r].key \in Key /\ SetsDelete(op[r].key, b) /\ UNCHANGED <<link, gen, replies>>
  BY <1>0, <1>5, SentOp DEF pvfs_set_delete_on_close, SetsDelete
<1>6. ASSUME NEW r \in Request, StartClose(r)
      PROVE  Walks(r) /\ UNCHANGED <<link, gen, replies>>
  <2>1. /\ op[r].pc = "opened" /\ UNCHANGED <<link, gen, odb, notices, replies>>
        /\ op' = [op EXCEPT ![r].pc = "check", ![r].fd = None]
    BY <1>6 DEF StartClose
  <2>2. Became(r, "check", op[r].key, None, op[r].gen, op[r].ptr)
    <3>1. "check" \in Place /\ None \in Key
      BY DEF Place, Running, Key
    <3> QED
      BY <1>0, <2>1, <3>1, BecameFd
  <2> QED
    BY <2>1, <2>2 DEF Walks
<1>7. CASE UNCHANGED vars
  BY <1>s, <1>7 DEF vars, Effect, NoEffect
<1>8. ASSUME NEW r \in Request, Handler(r)
      PROVE  /\ Effect
             /\ link' \in Key /\ gen' \in [Inode -> Nat] /\ replies' \in [Request -> Nat]
  BY <1>8, HandlerEffect DEF Effect
<1>9. CASE Next
  <2>1. CASE \E r \in Request : \E in \in Inputs[r] : Start(r, in)
    BY <1>1, <1>s, <2>1 DEF Effect
  <2>2. CASE \E r \in Request : RetryOpen(r)
    BY <1>2, <1>s, <2>2 DEF Effect
  <2>3. CASE \E p \in OdbPending : DropNotice(p)
    BY <1>3, <1>s, <2>3 DEF Effect
  <2>4. CASE \E r \in Request : TimeoutOpen(r)
    BY <1>4, <1>s, <2>4 DEF Effect
  <2>5. CASE \E r \in Request, b \in BOOLEAN : pvfs_set_delete_on_close(r, b)
    BY <1>5, <1>s, <2>5 DEF Effect
  <2>6. CASE \E r \in Request : StartClose(r)
    BY <1>6, <1>s, <2>6 DEF Effect
  <2> QED
    BY <1>8, <1>9, <2>1, <2>2, <2>3, <2>4, <2>5, <2>6 DEF Next
<1> QED
  BY <1>7, <1>9

-----------------------------------------------------------------------------
(* The operations on a record *)

\* What odb_tdb_open_file does to the records when it lets an open in.
LEMMA AddedEntry ==
    ASSUME odb \in [Key -> OdbFile], NEW k \in Key, NEW e \in OdbEntry, AddEntry(k, e)
    PROVE  /\ odb' \in [Key -> OdbFile]
           /\ odb'[k].entries = Append(odb[k].entries, e) /\ odb'[k].pending = odb[k].pending
           /\ \A m \in Key : m # k => odb'[m] = odb[m]
<1>1. /\ odb[k] \in OdbFile /\ Append(odb[k].entries, e) \in Seq(OdbEntry)
  BY DEF OdbFile
<1>2. odb' = [odb EXCEPT ![k] = [odb[k] EXCEPT !.entries = Append(odb[k].entries, e)]]
  BY DEF AddEntry
<1> DEFINE x == [odb[k] EXCEPT !.entries = Append(odb[k].entries, e)]
<1>3. x \in OdbFile /\ x.entries = Append(odb[k].entries, e) /\ x.pending = odb[k].pending
  BY <1>1 DEF OdbFile
<1> HIDE DEF x
<1>4. odb' = [odb EXCEPT ![k] = x]
  BY <1>2 DEF x
<1> QED
  BY <1>3, <1>4

\* What odb_tdb_open_file_pending does to the records.
LEMMA AddedPending ==
    ASSUME odb \in [Key -> OdbFile], NEW k \in Key, NEW p \in OdbPending,
           odb' = [odb EXCEPT ![k].pending = Append(@, p)]
    PROVE  /\ odb' \in [Key -> OdbFile]
           /\ odb'[k].entries = odb[k].entries /\ odb'[k].pending = Append(odb[k].pending, p)
           /\ \A m \in Key : m # k => odb'[m] = odb[m]
<1>1. /\ odb[k] \in OdbFile /\ Append(odb[k].pending, p) \in Seq(OdbPending)
  BY DEF OdbFile
<1>2. odb' = [odb EXCEPT ![k] = [odb[k] EXCEPT !.pending = Append(odb[k].pending, p)]]
  OBVIOUS
<1> DEFINE x == [odb[k] EXCEPT !.pending = Append(odb[k].pending, p)]
<1>3. x \in OdbFile /\ x.entries = odb[k].entries /\ x.pending = Append(odb[k].pending, p)
  BY <1>1 DEF OdbFile
<1> HIDE DEF x
<1>4. odb' = [odb EXCEPT ![k] = x]
  BY <1>2 DEF x
<1> QED
  BY <1>3, <1>4

\* Setting the delete flag leaves entries and waiters.
LEMMA SetDelete ==
    ASSUME odb \in [Key -> OdbFile], NEW k \in Key, NEW b \in BOOLEAN,
           odb' = [odb EXCEPT ![k].delete = b]
    PROVE  /\ odb' \in [Key -> OdbFile]
           /\ \A m \in Key : odb'[m].entries = odb[m].entries /\ odb'[m].pending = odb[m].pending
<1>1. odb[k] \in OdbFile
  OBVIOUS
<1>2. odb' = [odb EXCEPT ![k] = [odb[k] EXCEPT !.delete = b]]
  OBVIOUS
<1> DEFINE x == [odb[k] EXCEPT !.delete = b]
<1>3. x \in OdbFile /\ x.entries = odb[k].entries /\ x.pending = odb[k].pending
  BY <1>1 DEF OdbFile
<1> HIDE DEF x
<1>4. odb' = [odb EXCEPT ![k] = x]
  BY <1>2 DEF x
<1> QED
  BY <1>3, <1>4

\* Taking one out leaves the others in.
LEMMA RemoveFirstLeaves ==
    ASSUME NEW S, NEW s \in Seq(S), NEW p
    PROVE  /\ RemoveFirst(s, p) \in Seq(S)
           /\ \A i \in DOMAIN s : s[i] # p =>
                 \E j \in DOMAIN RemoveFirst(s, p) : RemoveFirst(s, p)[j] = s[i]
<1> DEFINE P == {i \in 1 .. Len(s) : s[i] = p}
           x == Min(P)
<1>1. CASE P = {}
  <2>1. RemoveFirst(s, p) = s
    BY <1>1 DEF RemoveFirst
  <2> QED
    BY <2>1
<1>2. CASE P # {}
  <2>1. P \in SUBSET Nat
    OBVIOUS
  <2>2. x \in P
    BY <1>2, <2>1, MinNat
  <2>3. RemoveFirst(s, p) = RemoveAt(s, x)
    BY <1>2 DEF RemoveFirst, SelectInSeq
  <2>4. x \in DOMAIN s /\ s[x] = p
    BY <2>2
  <2> HIDE DEF x
  <2>5. RemoveAt(s, x) \in Seq(S) /\ Keeps(RemoveAt(s, x), s, DOMAIN s \ {x})
    BY <2>4, RemoveAtKeeps
  <2>6. PICK f : KeptFrom(f, RemoveAt(s, x), s, DOMAIN s \ {x})
    BY <2>5 DEF Keeps
  <2>7. ASSUME NEW i \in DOMAIN s, s[i] # p
        PROVE  \E j \in DOMAIN RemoveAt(s, x) : RemoveAt(s, x)[j] = s[i]
    <3>1. i \in DOMAIN s \ {x}
      BY <2>4, <2>7
    <3>2. PICK j \in DOMAIN RemoveAt(s, x) : f[j] = i
      BY <2>6, <3>1 DEF KeptFrom
    <3> QED
      BY <2>6, <3>2 DEF KeptFrom
  <2> QED
    BY <2>3, <2>5, <2>7
<1> QED
  BY <1>1, <1>2

\* odb_tdb_remove_pending leaves entries and other waiters.
LEMMA RemovedPending ==
    ASSUME NEW file \in OdbFile, NEW p
    PROVE  LET x == odb_tdb_remove_pending(file, p)
           IN  /\ x \in OdbFile /\ x.entries = file.entries
               /\ file.entries # <<>> => \A i \in DOMAIN file.pending : file.pending[i] # p =>
                     \E j \in DOMAIN x.pending : x.pending[j] = file.pending[i]
<1> DEFINE y == [file EXCEPT !.pending = RemoveFirst(file.pending, p)]
           x == odb_tdb_remove_pending(file, p)
<1>1. /\ file.pending \in Seq(OdbPending) /\ file.entries \in Seq(OdbEntry)
      /\ RemoveFirst(file.pending, p) \in Seq(OdbPending)
  BY RemoveFirstLeaves DEF OdbFile
<1>2. y \in OdbFile /\ y.entries = file.entries /\ y.pending = RemoveFirst(file.pending, p)
  BY <1>1 DEF OdbFile
<1>3. x = odb_push_record(y)
  BY DEF odb_tdb_remove_pending
<1> HIDE DEF x, y
<1>4. NoFile \in OdbFile /\ NoFile.entries = <<>>
  BY DEF NoFile, OdbFile
<1>5. CASE file.entries = <<>>
  BY <1>2, <1>3, <1>4, <1>5 DEF odb_push_record, x
<1>6. CASE file.entries # <<>>
  <2>1. x = y
    BY <1>2, <1>3, <1>6 DEF odb_push_record
  <2>2. \A i \in DOMAIN file.pending : file.pending[i] # p =>
           \E j \in DOMAIN x.pending : x.pending[j] = file.pending[i]
    BY <1>1, <1>2, <2>1, RemoveFirstLeaves
  <2> QED
    BY <1>2, <2>1, <2>2 DEF x
<1> QED
  BY <1>5, <1>6

\* odb_tdb_close_file takes out the one entry of its handle.
LEMMA ClosedFile ==
    ASSUME NEW file \in OdbFile, NEW h
    PROVE  LET x == odb_tdb_close_file(file, h)
           IN  /\ x \in OdbFile
               /\ \A n \in DOMAIN file.entries :
                     /\ file.entries[n].handle = h
                     /\ \A m \in DOMAIN file.entries : file.entries[m].handle = h => m = n
                     => x.entries = RemoveAt(file.entries, n)
<1> DEFINE P == {i \in 1 .. Len(file.entries) : file.entries[i].handle = h}
           k == IF P # {} THEN Min(P) ELSE 0
           y == [entries |-> RemoveAt(file.entries, k),
                 delete |-> file.delete \/ file.entries[k].delete, pending |-> <<>>]
           x == odb_tdb_close_file(file, h)
<1>1. file.entries \in Seq(OdbEntry) /\ P \in SUBSET Nat /\ file.delete \in BOOLEAN
  BY DEF OdbFile
<1>2. P # {} => k \in P
  BY <1>1, MinNat
<1>3. x = IF k = 0 THEN file ELSE odb_push_record(y)
  BY DEF odb_tdb_close_file, SelectInSeq
<1>4. k = 0 \/ k \in DOMAIN file.entries
  BY <1>1, <1>2
<1>5. ASSUME k \in DOMAIN file.entries
      PROVE  y \in OdbFile /\ y.entries = RemoveAt(file.entries, k)
  <2>1. RemoveAt(file.entries, k) \in Seq(OdbEntry)
    BY <1>1, <1>5, RemoveAtKeeps
  <2>2. (file.delete \/ file.entries[k].delete) \in BOOLEAN
    OBVIOUS
  <2>3. <<>> \in Seq(OdbPending)
    OBVIOUS
  <2> HIDE DEF k
  <2> QED
    BY <2>1, <2>2, <2>3 DEF OdbFile
<1> HIDE DEF x, y, k
<1>6. NoFile \in OdbFile /\ NoFile.entries = <<>>
  BY DEF NoFile, OdbFile
<1>7. x \in OdbFile /\ (k # 0 => x.entries = RemoveAt(file.entries, k))
  BY <1>3, <1>4, <1>5, <1>6 DEF odb_push_record
<1>8. ASSUME NEW n \in DOMAIN file.entries, file.entries[n].handle = h,
             \A m \in DOMAIN file.entries : file.entries[m].handle = h => m = n
      PROVE  k = n /\ k # 0
  <2>1. n \in P /\ P = {n} /\ n # 0
    BY <1>1, <1>8
  <2> QED
    BY <1>2, <2>1
<1> QED
  BY <1>7, <1>8 DEF x

\* An entry of the database.
LEMMA EntryIsEntry ==
    ASSUME op \in [Request -> OpState], NEW r \in Request, op[r].pc # "unsent"
    PROVE  LET e == EntryOf(r, op[r].in.delete)
           IN  /\ e \in OdbEntry /\ e.handle = r /\ e.access = op[r].in.access
               /\ e.share = op[r].in.share
<1>1. op[r].in \in Input
  BY SentOp
<1> QED
  BY <1>1 DEF EntryOf, OdbEntry, Input

-----------------------------------------------------------------------------
(* The types *)

\* What a waiting open leaves in the record.
LEMMA PendingIsPending ==
    ASSUME op \in [Request -> OpState], NEW r \in Request, op[r].pc = "wait"
    PROVE  PendingOf(r) \in OdbPending
<1>1. op[r].ptr \in Addr
  BY SentOp
<1> QED
  BY <1>1, OdbAssumption DEF PendingOf, OdbPending

\* Messages that a close sends.
LEMMA ToldNat ==
    ASSUME NEW S, NEW s \in Seq(S), NEW p
    PROVE  /\ Cardinality({i \in DOMAIN s : s[i] = p}) \in Nat
           /\ \A i \in DOMAIN s : s[i] = p => Cardinality({j \in DOMAIN s : s[j] = p}) > 0
<1> DEFINE T == {i \in DOMAIN s : s[i] = p}
<1>1. IsFiniteSet(T)
  BY FS_Interval, FS_Subset
<1>2. Cardinality(T) \in Nat /\ (Cardinality(T) = 0 <=> T = {})
  BY <1>1, FS_CardinalityType, FS_EmptySet
<1>3. \A i \in DOMAIN s : s[i] = p => T # {}
  OBVIOUS
<1> HIDE DEF T
<1>4. \A i \in DOMAIN s : s[i] = p => Cardinality(T) > 0
  BY <1>2, <1>3
<1> QED
  BY <1>2, <1>4 DEF T

\* Another place of one request.
LEMMA BecameTyped ==
    ASSUME op \in [Request -> OpState], NEW r \in Request, op[r].pc # "unsent",
           NEW pc, NEW key \in Key, NEW fd, NEW g, NEW ptr, Became(r, pc, key, fd, g, ptr),
           \/ pc \in Running \cup Ended \cup {"opened"} /\ fd \in Key /\ g \in Nat /\ ptr = None
           \/ pc = "wait" /\ fd = None /\ g = 0 /\ ptr \in Addr
    PROVE  op' \in [Request -> OpState]
<1>1. op[r].in \in Input
  BY SentOp
<1>2. op'[r] \in OpState
  BY <1>1, RecOpState DEF Became
<1>3. \A q \in Request : op'[q] \in OpState
  BY <1>2 DEF Became
<1> QED
  BY <1>3 DEF Became

\* The request after the step, and the others.
LEMMA BecameFields ==
    ASSUME NEW r \in Request, NEW pc, NEW key, NEW fd, NEW g, NEW ptr, Became(r, pc, key, fd, g, ptr)
    PROVE  /\ op'[r].pc = pc /\ op'[r].in = op[r].in /\ op'[r].key = key /\ op'[r].fd = fd
           /\ op'[r].gen = g /\ op'[r].ptr = ptr
           /\ \A q \in Request : q # r => op'[q] = op[q]
BY RecFields DEF Became

Files == Descriptors /\ OpenFiles

\* A step that moves one request keeps the descriptors and files of all.
LEMMA FilesKept ==
    ASSUME Files, NEW r \in Request, NEW pc, NEW key, NEW fd, NEW g, NEW ptr,
           Became(r, pc, key, fd, g, ptr),
           pc \in {"resolve", "create", "again", "open", "unlink"} => fd = None /\ g = 0,
           pc = "register" => key = fd /\ fd \in Inode,
           pc = "opened" => fd \in Inode /\ key \in {fd, None}
    PROVE  Files'
<1>1. /\ op'[r].pc = pc /\ op'[r].key = key /\ op'[r].fd = fd /\ op'[r].gen = g
      /\ \A q \in Request : q # r => op'[q] = op[q]
  BY BecameFields
<1>2. Descriptors'
  BY <1>1 DEF Files, Descriptors
<1>3. OpenFiles'
  BY <1>1 DEF Files, OpenFiles, Opened
<1> QED
  BY <1>2, <1>3 DEF Files

\* What every step does to the request it is about.
LEMMA OpTypedStep ==
    ASSUME TypeOK, Files, Effect
    PROVE  op' \in [Request -> OpState] /\ Files'
<1>0. op \in [Request -> OpState] /\ link \in Key /\ gen \in [Inode -> Nat] /\ None \in Key
  BY DEF TypeOK, Key
<1> DEFINE Good == op' \in [Request -> OpState] /\ Files'
<1>a. ASSUME NEW r \in Request, op[r].pc # "unsent", op[r].pc # "wait", NEW pc \in Running \cup Ended,
             pc \notin {"register", "resolve", "create", "again", "open", "unlink"}, NEW fd \in Key,
             Became(r, pc, op[r].key, fd, op[r].gen, op[r].ptr)
      PROVE  Good
  <2>1. op[r] \in Sent /\ op[r].ptr = None
    BY <1>0, <1>a, SentOp
  <2>2. op[r].key \in Key /\ op[r].gen \in Nat
    BY <2>1 DEF Sent
  <2>3. op' \in [Request -> OpState]
    BY <1>0, <1>a, <2>1, <2>2, BecameTyped
  <2>4. pc # "opened"
    BY DEF Running, Ended
  <2> QED
    BY <1>a, <2>3, <2>4, FilesKept
<1>b. ASSUME NEW r \in Request, op[r].pc \in {"resolve", "create", "again", "open", "unlink"},
             NEW pc \in {"create", "again", "open", "unlink"}, NEW key \in Key,
             Became(r, pc, key, op[r].fd, op[r].gen, op[r].ptr)
      PROVE  Good
  <2>1. op[r].ptr = None
    BY <1>0, <1>b, SentOp
  <2>2. op[r].fd = None /\ op[r].gen = 0
    BY <1>b DEF Files, Descriptors
  <2>3. pc \in Running
    BY DEF Running
  <2>4. op' \in [Request -> OpState]
    BY <1>0, <1>b, <2>1, <2>2, <2>3, BecameTyped
  <2> QED
    BY <1>b, <2>2, <2>4, FilesKept
<1>1. CASE UNCHANGED op
  BY <1>0, <1>1 DEF Files, Descriptors, OpenFiles, Opened
<1>2. ASSUME NEW r \in Request, NEW in \in Inputs[r], Arrives(r, in)
      PROVE  Good
  <2>1. in \in Input
    BY OpenAssumption
  <2> DEFINE x == Rec("resolve", in, None, None, 0, None)
  <2>2. x \in OpState
    <3>1. "resolve" \in Running /\ 0 \in Nat
      BY DEF Running
    <3> QED
      BY <1>0, <2>1, <3>1, RecOpState
  <2>3. x.pc = "resolve" /\ x.fd = None /\ x.gen = 0
    BY RecFields
  <2> HIDE DEF x
  <2>4. op' = [op EXCEPT ![r] = x]
    BY <1>2 DEF Arrives, x
  <2>5. op' \in [Request -> OpState] /\ op'[r] = x /\ \A q \in Request : q # r => op'[q] = op[q]
    BY <1>0, <2>2, <2>4
  <2>6. Descriptors'
    BY <2>3, <2>5 DEF Files, Descriptors
  <2>7. OpenFiles'
    BY <2>3, <2>5 DEF Files, OpenFiles, Opened
  <2> QED
    BY <2>5, <2>6, <2>7 DEF Files
<1>3. ASSUME NEW r \in Request, Walks(r)
      PROVE  Good
  <2> USE DEF GoesTo
  <2>0. op[r].pc # "unsent" => op[r].key \in Key /\ op[r].fd \in Key
    BY <1>0, SentOp DEF Sent
  <2>1. CASE op[r].pc \in {"resolve", "create", "open"} /\ GoesTo(r, "failed")
    BY <1>a, <2>0, <2>1 DEF Ended
  <2>2. CASE op[r].pc = "resolve" /\ Became(r, "create", link, op[r].fd, op[r].gen, op[r].ptr)
    BY <1>0, <1>b, <2>2
  <2>3. CASE /\ op[r].pc = "resolve"
             /\ \E pc \in {"unlink", "open"} : Became(r, pc, link, op[r].fd, op[r].gen, op[r].ptr)
    <3>1. PICK pc \in {"unlink", "open"} : Became(r, pc, link, op[r].fd, op[r].gen, op[r].ptr)
      BY <2>3
    <3> QED
      BY <1>0, <1>b, <2>3, <3>1
  <2>4. CASE /\ op[r].pc = "create"
             /\ \E i \in Inode, g \in Nat : Became(r, "register", i, i, g, op[r].ptr)
    <3>1. PICK i \in Inode, g \in Nat : Became(r, "register", i, i, g, op[r].ptr)
      BY <2>4
    <3>2. i \in Key /\ "register" \in Running /\ op[r].ptr = None
      BY <1>0, <2>4, SentOp DEF Key, Running
    <3>3. op' \in [Request -> OpState]
      BY <1>0, <2>4, <3>1, <3>2, BecameTyped
    <3> QED
      BY <3>1, <3>3, FilesKept
  <2>5. CASE op[r].pc = "create" /\ GoesTo(r, "again")
    BY <1>b, <2>0, <2>5
  <2>6. CASE op[r].pc = "register" /\ Became(r, "failed", op[r].key, None, op[r].gen, op[r].ptr)
    BY <1>0, <1>a, <2>6 DEF Ended
  <2>7. CASE op[r].pc = "again" /\ Became(r, "open", link, op[r].fd, op[r].gen, op[r].ptr)
    BY <1>0, <1>b, <2>7
  <2>8. CASE op[r].pc = "opened" /\ Became(r, "check", op[r].key, None, op[r].gen, op[r].ptr)
    BY <1>0, <1>a, <2>8 DEF Running
  <2>9. CASE op[r].pc = "check" /\ \E pc \in {"remove", "close"} : GoesTo(r, pc)
    BY <1>a, <2>0, <2>9 DEF Running
  <2>10. CASE op[r].pc = "remove" /\ GoesTo(r, "close")
    BY <1>a, <2>0, <2>10 DEF Running
  <2>11. CASE op[r].pc = "unlink" /\ GoesTo(r, "closed")
    BY <1>a, <2>0, <2>11 DEF Ended
  <2> HIDE DEF GoesTo, Good
  <2> QED
    BY <1>3, <2>1, <2>2, <2>3, <2>4, <2>5, <2>6, <2>7, <2>8, <2>9, <2>10, <2>11 DEF Walks
<1>4. ASSUME NEW r \in Request, Enters(r)
      PROVE  Good
  <2>0. op[r].pc \in {"register", "open"} /\ op[r] \in Sent /\ op[r].ptr = None
    BY <1>0, <1>4, SentOp DEF Enters
  <2>1. op[r].key \in Key /\ op[r].fd \in Key /\ op[r].gen \in Nat
    BY <2>0 DEF Sent
  <2>2. CASE op[r].pc = "register" /\ GoesTo(r, "opened")
    <3>1. op[r].key = op[r].fd /\ op[r].fd \in Inode
      BY <2>2 DEF Files, Descriptors
    <3>2. op' \in [Request -> OpState]
      BY <1>0, <2>0, <2>1, <2>2, BecameTyped DEF GoesTo
    <3> QED
      BY <2>2, <3>1, <3>2, FilesKept DEF GoesTo
  <2>3. CASE /\ op[r].pc = "open" /\ link \in Inode /\ op[r].key \in {link, None}
             /\ Became(r, "opened", op[r].key, link, gen[link], op[r].ptr)
    <3>1. PICK g \in Nat, l \in Key : g = gen[link] /\ l = link
      BY <1>0, <2>3
    <3>2. op' \in [Request -> OpState]
      <4>1. Became(r, "opened", op[r].key, l, g, None)
        BY <2>0, <2>3, <3>1
      <4> QED
        BY <1>0, <2>0, <2>1, <4>1, BecameTyped
    <3> QED
      BY <2>3, <3>2, FilesKept
  <2>4. CASE op[r].pc = "open" /\ GoesTo(r, "abort")
    BY <1>a, <2>1, <2>4 DEF GoesTo, Running
  <2> QED
    BY <1>4, <2>2, <2>3, <2>4 DEF Enters
<1>5. ASSUME NEW r \in Request, Leaves(r)
      PROVE  Good
  <2>1. op[r].pc \in {"abort", "close"} /\ op[r].fd \in Key
    BY <1>0, <1>5, SentOp DEF Leaves, Sent
  <2> QED
    BY <1>5, <1>a, <2>1 DEF Leaves, GoesTo, Ended
<1>6. ASSUME NEW r \in Request, NEW a \in Addr, SetsUp(r, a)
      PROVE  Good
  <2>1. op[r].pc = "open" /\ Became(r, "wait", op[r].key, op[r].fd, op[r].gen, a)
    BY <1>6 DEF SetsUp
  <2>2. op[r].fd = None /\ op[r].gen = 0 /\ op[r].key \in Key
    BY <1>0, <2>1, SentOp DEF Files, Descriptors
  <2>3. op' \in [Request -> OpState]
    BY <1>0, <2>1, <2>2, BecameTyped
  <2> QED
    BY <2>1, <2>3, FilesKept
<1>7. ASSUME NEW r \in Request, Retries(r)
      PROVE  Good
  <2>1. op[r].pc = "wait" /\ Became(r, "resolve", op[r].key, op[r].fd, op[r].gen, None)
    BY <1>7 DEF Retries
  <2>2. op[r].fd = None /\ op[r].gen = 0 /\ op[r].key \in Key /\ "resolve" \in Running
    BY <1>0, <2>1, SentOp DEF Running
  <2>3. op' \in [Request -> OpState]
    BY <1>0, <2>1, <2>2, BecameTyped
  <2> QED
    BY <2>1, <2>2, <2>3, FilesKept
<1>8. ASSUME NEW r \in Request, TimesOut(r)
      PROVE  Good
  <2>1. op[r].pc = "wait" /\ Became(r, "failed", op[r].key, op[r].fd, op[r].gen, None)
    BY <1>8 DEF TimesOut
  <2>2. op[r].fd = None /\ op[r].gen = 0 /\ op[r].key \in Key /\ "failed" \in Ended
    BY <1>0, <2>1, SentOp DEF Ended
  <2>3. op' \in [Request -> OpState]
    <3>1. Became(r, "failed", op[r].key, None, 0, None)
      BY <2>1, <2>2
    <3>2. "failed" \in Running \cup Ended \cup {"opened"} /\ None \in Key /\ 0 \in Nat
      BY <1>0, <2>2
    <3> QED
      BY <1>0, <2>1, <2>2, <3>1, <3>2, BecameTyped
  <2> QED
    BY <2>1, <2>3, FilesKept
<1> HIDE DEF Good
<1>9. Good
  <2>1. CASE NoEffect \/ (\E p \in OdbPending : Drops(p)) \/ (\E k \in Key, b \in BOOLEAN : SetsDelete(k, b))
    <3>1. UNCHANGED op
      BY <2>1 DEF NoEffect, Drops, SetsDelete
    <3> QED
      BY <1>1, <3>1 DEF Good
  <2>2. CASE \E r \in Request : \E in \in Inputs[r] : Arrives(r, in)
    BY <1>2, <2>2
  <2>3. CASE \E r \in Request, a \in Addr : SetsUp(r, a)
    BY <1>6, <2>3
  <2> QED
    BY <1>3, <1>4, <1>5, <1>7, <1>8, <2>1, <2>2, <2>3 DEF Effect
<1> QED
  BY <1>9 DEF Good

\* The records and the messages keep their types.
LEMMA OdbTypedStep ==
    ASSUME TypeOK, Effect
    PROVE  odb' \in [Key -> OdbFile] /\ notices' \in [OdbPending -> Nat]
<1>0. /\ op \in [Request -> OpState] /\ odb \in [Key -> OdbFile]
      /\ notices \in [OdbPending -> Nat]
  BY DEF TypeOK
<1>1. CASE UNCHANGED <<odb, notices>>
  BY <1>0, <1>1
<1>2. ASSUME NEW r \in Request, Enters(r)
      PROVE  odb' \in [Key -> OdbFile] /\ UNCHANGED notices
  <2>1. op[r].key \in Key /\ EntryOf(r, op[r].in.delete) \in OdbEntry
    BY <1>0, <1>2, SentOp, EntryIsEntry DEF Enters
  <2> QED
    BY <1>0, <1>2, <2>1, AddedEntry DEF Enters
<1>3. ASSUME NEW r \in Request, Leaves(r)
      PROVE  odb' \in [Key -> OdbFile] /\ notices' \in [OdbPending -> Nat]
  <2>1. op[r].key \in Key
    BY <1>0, <1>3, SentOp DEF Leaves
  <2>2. odb[op[r].key] \in OdbFile /\ odb_tdb_close_file(odb[op[r].key], r) \in OdbFile
    BY <1>0, <2>1, ClosedFile
  <2>3. odb' \in [Key -> OdbFile]
    BY <1>0, <1>3, <2>1, <2>2 DEF Leaves, OdbClose
  <2> DEFINE told == odb[op[r].key].pending
  <2>4. told \in Seq(OdbPending)
    BY <2>2 DEF OdbFile
  <2>5. notices' = [p \in OdbPending |-> notices[p] + Cardinality({i \in DOMAIN told : told[i] = p})]
    BY <1>3 DEF Leaves, OdbClose
  <2> HIDE DEF told
  <2>6. \A p \in OdbPending : Cardinality({i \in DOMAIN told : told[i] = p}) \in Nat
    BY <2>4, ToldNat
  <2>7. notices' \in [OdbPending -> Nat]
    BY <1>0, <2>5, <2>6
  <2> QED
    BY <2>3, <2>7
<1>4. ASSUME NEW r \in Request, NEW a \in Addr, SetsUp(r, a)
      PROVE  odb' \in [Key -> OdbFile] /\ UNCHANGED notices
  <2>1. op[r].key \in Key /\ [server |-> ServerOf[r], ptr |-> a] \in OdbPending
    BY <1>0, <1>4, SentOp, OdbAssumption DEF SetsUp, OdbPending
  <2> QED
    BY <1>0, <1>4, <2>1, AddedPending DEF SetsUp
<1>5. ASSUME NEW p \in OdbPending, notices[p] > 0, notices' = [notices EXCEPT ![p] = @ - 1]
      PROVE  notices' \in [OdbPending -> Nat]
  <2>1. notices[p] \in Nat /\ notices[p] - 1 \in Nat
    BY <1>0, <1>5
  <2> QED
    BY <1>0, <1>5, <2>1
<1>6. ASSUME NEW r \in Request, Retries(r)
      PROVE  odb' \in [Key -> OdbFile] /\ notices' \in [OdbPending -> Nat]
  <2>1. PendingOf(r) \in OdbPending
    BY <1>0, <1>6, PendingIsPending DEF Retries
  <2> QED
    BY <1>0, <1>5, <1>6, <2>1 DEF Retries
<1>7. ASSUME NEW r \in Request, TimesOut(r)
      PROVE  odb' \in [Key -> OdbFile] /\ UNCHANGED notices
  <2>1. op[r].key \in Key
    BY <1>0, <1>7, SentOp DEF TimesOut
  <2>2. odb_tdb_remove_pending(odb[op[r].key], PendingOf(r)) \in OdbFile
    BY <1>0, <2>1, RemovedPending
  <2> QED
    BY <1>0, <1>7, <2>1, <2>2 DEF TimesOut
<1>8. ASSUME NEW p \in OdbPending, Drops(p)
      PROVE  odb' \in [Key -> OdbFile] /\ notices' \in [OdbPending -> Nat]
  BY <1>0, <1>5, <1>8 DEF Drops
<1>9. ASSUME NEW k \in Key, NEW b \in BOOLEAN, SetsDelete(k, b)
      PROVE  odb' \in [Key -> OdbFile] /\ UNCHANGED notices
  BY <1>0, <1>9, SetDelete DEF SetsDelete
<1> QED
  BY <1>0, <1>1, <1>2, <1>3, <1>4, <1>6, <1>7, <1>8, <1>9 DEF Effect, NoEffect, Arrives, Walks

-----------------------------------------------------------------------------
(* Entries and handles *)

\* The entries stay, and so do the handles that have one.
EntriesStay ==
    /\ \A k \in Key : odb'[k].entries = odb[k].entries
    /\ \A q \in Request : Entered(q)' <=> Entered(q)
    /\ \A q \in Request : Entered(q) => op'[q].key = op[q].key /\ op'[q].in = op[q].in

EntryComes(r) ==
    LET k == op[r].key
        e == EntryOf(r, op[r].in.delete)
    IN  /\ op[r].pc # "unsent" /\ ~Entered(r)
        /\ Entered(r)' /\ op'[r].key = k /\ op'[r].in = op[r].in
        /\ \A q \in Request : q # r => op'[q] = op[q]
        /\ odb'[k].entries = Append(odb[k].entries, e)
        /\ \A i \in DOMAIN odb[k].entries : ~share_conflict(odb[k].entries[i], e)
        /\ \A m \in Key : m # k => odb'[m].entries = odb[m].entries

EntryGoes(r) ==
    LET k == op[r].key
    IN  /\ Entered(r) /\ ~Entered(r)'
        /\ \A q \in Request : q # r => op'[q] = op[q]
        /\ \A n \in DOMAIN odb[k].entries :
              /\ odb[k].entries[n].handle = r
              /\ \A m \in DOMAIN odb[k].entries : odb[k].entries[m].handle = r => m = n
              => odb'[k].entries = RemoveAt(odb[k].entries, n)
        /\ \A m \in Key : m # k => odb'[m].entries = odb[m].entries

\* What an effect does to the entries: one comes, one goes, or nothing.
LEMMA EffectOnEntries ==
    ASSUME TypeOK, Effect
    PROVE  \/ EntriesStay
           \/ \E r \in Request : EntryComes(r)
           \/ \E r \in Request : EntryGoes(r)
<1>0. /\ op \in [Request -> OpState] /\ odb \in [Key -> OdbFile]
  BY DEF TypeOK
<1>a. ASSUME NEW r \in Request, NEW pc, NEW key, NEW fd, NEW g, NEW ptr,
             Became(r, pc, key, fd, g, ptr), UNCHANGED odb,
             op[r].pc \in {"opened", "check", "remove"} /\ pc \in {"check", "remove", "close"} /\ key = op[r].key
      PROVE  EntriesStay
  BY <1>a, BecameFields DEF EntriesStay, Entered
<1>b. ASSUME NEW r \in Request, NEW pc, NEW key, NEW fd, NEW g, NEW ptr,
             Became(r, pc, key, fd, g, ptr), \A k \in Key : odb'[k].entries = odb[k].entries,
             ~Entered(r), pc \notin {"opened", "abort", "check", "remove", "close"}
      PROVE  EntriesStay
  BY <1>b, BecameFields DEF EntriesStay, Entered
<1>1. CASE NoEffect
  BY <1>1 DEF NoEffect, EntriesStay, Entered
<1>2. ASSUME NEW r \in Request, NEW in \in Inputs[r], Arrives(r, in)
      PROVE  EntriesStay
  <2>1. op[r].pc = "unsent" /\ op'[r].pc = "resolve" /\ UNCHANGED odb
        /\ \A q \in Request : q # r => op'[q] = op[q]
    BY <1>0, <1>2, RecFields DEF Arrives
  <2> QED
    BY <2>1 DEF EntriesStay, Entered
<1>3. ASSUME NEW r \in Request, Walks(r)
      PROVE  EntriesStay
  <2>0. UNCHANGED odb
    BY <1>3 DEF Walks
  <2>1. CASE op[r].pc \in {"opened", "check", "remove"}
    BY <1>3, <1>a, <2>0, <2>1 DEF Walks, GoesTo
  <2>2. CASE op[r].pc \notin {"opened", "check", "remove"}
    <3>1. ~Entered(r)
      BY <1>3, <2>2 DEF Walks, Entered
    <3>2. \E pc \in {"failed", "create", "unlink", "open", "register", "again", "closed"} : \E key, fd, g :
             Became(r, pc, key, fd, g, op[r].ptr)
      BY <1>3, <2>2 DEF Walks, GoesTo
    <3> QED
      BY <1>b, <2>0, <3>1, <3>2
  <2> QED
    BY <2>1, <2>2
<1>4. ASSUME NEW r \in Request, Enters(r)
      PROVE  EntryComes(r)
  <2> DEFINE k == op[r].key
             e == EntryOf(r, op[r].in.delete)
  <2>1. ~Entered(r) /\ op[r].pc # "unsent" /\ k \in Key /\ e \in OdbEntry
    BY <1>0, <1>4, SentOp, EntryIsEntry DEF Enters, Entered
  <2>2. /\ odb'[k].entries = Append(odb[k].entries, e)
        /\ \A m \in Key : m # k => odb'[m] = odb[m]
    BY <1>0, <1>4, <2>1, AddedEntry DEF Enters
  <2>3. \A i \in DOMAIN odb[k].entries : ~share_conflict(odb[k].entries[i], e)
    BY <1>4 DEF Enters, odb_tdb_open_file
  <2>4. \E pc \in {"opened", "abort"} : \E fd, g : Became(r, pc, k, fd, g, op[r].ptr)
    BY <1>4 DEF Enters, GoesTo
  <2>5. /\ Entered(r)' /\ op'[r].key = k /\ op'[r].in = op[r].in
        /\ \A q \in Request : q # r => op'[q] = op[q]
    BY <2>4, BecameFields DEF Entered
  <2> QED
    BY <2>1, <2>2, <2>3, <2>5 DEF EntryComes
<1>5. ASSUME NEW r \in Request, Leaves(r)
      PROVE  EntryGoes(r)
  <2> DEFINE k == op[r].key
  <2>1. Entered(r) /\ k \in Key
    BY <1>0, <1>5, SentOp DEF Leaves, Entered
  <2>2. \E pc \in {"failed", "closed"} : Became(r, pc, k, op[r].fd, op[r].gen, op[r].ptr)
    BY <1>5 DEF Leaves, GoesTo
  <2>3. ~Entered(r)' /\ \A q \in Request : q # r => op'[q] = op[q]
    BY <2>2, BecameFields DEF Entered
  <2>4. /\ odb'[k] = odb_tdb_close_file(odb[k], r)
        /\ \A m \in Key : m # k => odb'[m] = odb[m]
    BY <1>0, <1>5, <2>1 DEF Leaves, OdbClose
  <2>5. \A n \in DOMAIN odb[k].entries :
            /\ odb[k].entries[n].handle = r
            /\ \A m \in DOMAIN odb[k].entries : odb[k].entries[m].handle = r => m = n
            => odb'[k].entries = RemoveAt(odb[k].entries, n)
    BY <1>0, <2>1, <2>4, ClosedFile
  <2> QED
    BY <2>1, <2>3, <2>4, <2>5 DEF EntryGoes
<1>6. ASSUME NEW r \in Request, NEW a \in Addr, SetsUp(r, a)
      PROVE  EntriesStay
  <2>1. op[r].key \in Key /\ [server |-> ServerOf[r], ptr |-> a] \in OdbPending /\ ~Entered(r)
    BY <1>0, <1>6, SentOp, OdbAssumption DEF SetsUp, OdbPending, Entered
  <2>2. \A k \in Key : odb'[k].entries = odb[k].entries
    BY <1>0, <1>6, <2>1, AddedPending DEF SetsUp
  <2> QED
    BY <1>6, <1>b, <2>1, <2>2 DEF SetsUp
<1>7. ASSUME NEW r \in Request, Retries(r)
      PROVE  EntriesStay
  BY <1>7, <1>b DEF Retries, Entered
<1>8. ASSUME NEW r \in Request, TimesOut(r)
      PROVE  EntriesStay
  <2>1. op[r].key \in Key /\ ~Entered(r)
    BY <1>0, <1>8, SentOp DEF TimesOut, Entered
  <2>2. \A k \in Key : odb'[k].entries = odb[k].entries
    BY <1>0, <1>8, <2>1, RemovedPending DEF TimesOut
  <2> QED
    BY <1>8, <1>b, <2>1, <2>2 DEF TimesOut
<1>9. ASSUME NEW p \in OdbPending, Drops(p)
      PROVE  EntriesStay
  BY <1>9 DEF Drops, EntriesStay, Entered
<1>10. ASSUME NEW k \in Key, NEW b \in BOOLEAN, SetsDelete(k, b)
       PROVE  EntriesStay
  BY <1>0, <1>10, SetDelete DEF SetsDelete, EntriesStay, Entered
<1>11. CASE \E r \in Request : \E in \in Inputs[r] : Arrives(r, in)
  BY <1>2, <1>11
<1>12. CASE \E r \in Request, a \in Addr : SetsUp(r, a)
  BY <1>6, <1>12
<1>13. CASE \E k \in Key, b \in BOOLEAN : SetsDelete(k, b)
  BY <1>10, <1>13
<1> QED
  BY <1>1, <1>3, <1>4, <1>5, <1>7, <1>8, <1>9, <1>11, <1>12, <1>13 DEF Effect

\* Every step keeps entries and handles together and free of conflicts.
LEMMA EntriesStep ==
    ASSUME TypeOK, Entries, Effect, TypeOK'
    PROVE  Entries'
<1>0. /\ op \in [Request -> OpState] /\ odb \in [Key -> OdbFile]
      /\ \A k \in Key : odb[k].entries \in Seq(OdbEntry)
  BY DEF TypeOK, OdbFile
<1>1. CASE EntriesStay
  <2>1. EntriesOwned'
    BY <1>1 DEF EntriesStay, Entries, EntriesOwned
  <2>2. HandlesEntered'
    <3>1. \A q \in Request : Entered(q)' =>
             /\ op'[q].key = op[q].key /\ op[q].key \in Key
             /\ odb'[op[q].key].entries = odb[op[q].key].entries
      BY <1>0, <1>1, SentOp DEF EntriesStay, Entered
    <3>2. \A r \in Request : Entered(r)' =>
             \E i \in DOMAIN odb'[op'[r].key].entries : odb'[op'[r].key].entries[i].handle = r
      BY <1>1, <3>1 DEF EntriesStay, Entries, HandlesEntered
    <3>3. \A k \in Key : \A i, j \in DOMAIN odb'[k].entries :
             odb'[k].entries[i].handle = odb'[k].entries[j].handle => i = j
      BY <1>1 DEF EntriesStay, Entries, HandlesEntered
    <3> QED
      BY <3>2, <3>3 DEF HandlesEntered
  <2>3. NoConflicts'
    BY <1>1 DEF EntriesStay, Entries, NoConflicts
  <2> QED
    BY <2>1, <2>2, <2>3 DEF Entries
<1>2. ASSUME NEW r \in Request, EntryComes(r)
      PROVE  Entries'
  <2>0. PICK k \in Key, e \in OdbEntry : /\ k = op[r].key /\ e = EntryOf(r, op[r].in.delete)
                                         /\ e.handle = r /\ e.access = op[r].in.access
                                         /\ e.share = op[r].in.share
    BY <1>0, <1>2, SentOp, EntryIsEntry DEF EntryComes
  <2> DEFINE s == odb[k].entries
             t == odb'[k].entries
             n == Len(s) + 1
  <2>1. /\ ~Entered(r) /\ Entered(r)' /\ op'[r].key = k /\ op'[r].in = op[r].in
        /\ \A q \in Request : q # r => op'[q] = op[q]
        /\ t = Append(s, e) /\ \A i \in DOMAIN s : ~share_conflict(s[i], e)
        /\ \A m \in Key : m # k => odb'[m].entries = odb[m].entries
    BY <1>2, <2>0 DEF EntryComes
  <2>2. s \in Seq(OdbEntry)
    BY <1>0
  <2>3. /\ DOMAIN t = DOMAIN s \cup {n} /\ n \notin DOMAIN s /\ t[n] = e
        /\ \A x \in DOMAIN s : t[x] = s[x]
    <3> HIDE DEF s
    <3> QED
      BY <2>1, <2>2, AppendPlaces
  <2>4. \A q \in Request : Entered(q)' <=> (Entered(q) \/ q = r)
    BY <2>1 DEF Entered
  <2>5. \A m \in Key : \A i \in DOMAIN odb[m].entries : odb[m].entries[i].handle # r
    BY <2>1 DEF Entries, EntriesOwned
  <2> HIDE DEF n
  <2>6. EntriesOwned'
    <3> SUFFICES ASSUME NEW m \in Key, NEW q \in Request, NEW i \in DOMAIN odb'[m].entries,
                        odb'[m].entries[i].handle = q
                 PROVE  /\ Entered(q)' /\ op'[q].key = m
                        /\ odb'[m].entries[i].access = op'[q].in.access
                        /\ odb'[m].entries[i].share = op'[q].in.share
      BY DEF EntriesOwned
    <3>1. CASE m = k /\ i = n
      BY <2>0, <2>1, <2>3, <3>1
    <3>2. CASE ~(m = k /\ i = n)
      <4>1. i \in DOMAIN odb[m].entries /\ odb'[m].entries[i] = odb[m].entries[i]
        BY <2>1, <2>3, <3>2
      <4>2. q # r
        BY <2>5, <4>1
      <4>3. /\ Entered(q) /\ op[q].key = m /\ odb[m].entries[i].access = op[q].in.access
            /\ odb[m].entries[i].share = op[q].in.share
        BY <4>1 DEF Entries, EntriesOwned
      <4> QED
        BY <2>1, <2>4, <4>1, <4>2, <4>3
    <3> QED
      BY <3>1, <3>2
  <2>7. ASSUME NEW q \in Request, Entered(q)'
        PROVE  \E i \in DOMAIN odb'[op'[q].key].entries : odb'[op'[q].key].entries[i].handle = q
    <3>1. CASE q = r
      BY <2>0, <2>1, <2>3, <3>1
    <3>2. CASE q # r
      <4>1. Entered(q) /\ op'[q] = op[q] /\ op[q].key \in Key
        BY <1>0, <2>1, <2>4, <2>7, <3>2, SentOp DEF Entered
      <4>2. PICK i \in DOMAIN odb[op[q].key].entries : odb[op[q].key].entries[i].handle = q
        BY <4>1 DEF Entries, HandlesEntered
      <4>3. CASE op[q].key = k
        BY <2>3, <4>1, <4>2, <4>3
      <4>4. CASE op[q].key # k
        BY <2>1, <4>1, <4>2, <4>4
      <4> QED
        BY <4>3, <4>4
    <3> QED
      BY <3>1, <3>2
  <2>8. ASSUME NEW m \in Key, NEW i \in DOMAIN odb'[m].entries, NEW j \in DOMAIN odb'[m].entries,
               odb'[m].entries[i].handle = odb'[m].entries[j].handle
        PROVE  i = j
    <3>1. CASE m # k
      BY <2>1, <2>8, <3>1 DEF Entries, HandlesEntered
    <3>2. CASE m = k
      <4>1. CASE i = n \/ j = n
        BY <2>0, <2>3, <2>5, <2>8, <3>2, <4>1
      <4>2. CASE i # n /\ j # n
        BY <2>3, <2>8, <3>2, <4>2 DEF Entries, HandlesEntered
      <4> QED
        BY <4>1, <4>2
    <3> QED
      BY <3>1, <3>2
  <2>9. HandlesEntered'
    BY <2>7, <2>8 DEF HandlesEntered
  <2>10. ASSUME NEW m \in Key, NEW i \in DOMAIN odb'[m].entries, NEW j \in DOMAIN odb'[m].entries,
                i # j
         PROVE  ~share_conflict(odb'[m].entries[i], odb'[m].entries[j])
    <3>1. CASE m # k
      BY <2>1, <2>10, <3>1 DEF Entries, NoConflicts
    <3>2. CASE m = k
      <4>1. CASE i \in DOMAIN s /\ j \in DOMAIN s
        BY <2>3, <2>10, <3>2, <4>1 DEF Entries, NoConflicts
      <4>2. CASE i \in DOMAIN s /\ j = n
        BY <2>1, <2>3, <3>2, <4>2
      <4>3. CASE i = n /\ j \in DOMAIN s
        <5>1. ~share_conflict(s[j], e)
          BY <2>1, <4>3
        <5>2. ~share_conflict(e, s[j])
          BY <5>1 DEF share_conflict
        <5> QED
          BY <2>3, <3>2, <4>3, <5>2
      <4> QED
        BY <2>3, <2>10, <3>2, <4>1, <4>2, <4>3
    <3> QED
      BY <3>1, <3>2
  <2>11. NoConflicts'
    BY <2>10 DEF NoConflicts
  <2> QED
    BY <2>6, <2>9, <2>11 DEF Entries
<1>3. ASSUME NEW r \in Request, EntryGoes(r)
      PROVE  Entries'
  <2>0. PICK k \in Key : k = op[r].key
    BY <1>0, <1>3, SentOp DEF EntryGoes, Entered
  <2> DEFINE s == odb[k].entries
             t == odb'[k].entries
  <2>1. PICK n \in DOMAIN s : s[n].handle = r
    BY <1>3, <2>0 DEF EntryGoes, Entries, HandlesEntered
  <2>2. \A m \in DOMAIN s : s[m].handle = r => m = n
    BY <2>1 DEF Entries, HandlesEntered
  <2>3. /\ t = RemoveAt(s, n) /\ Entered(r) /\ ~Entered(r)'
        /\ \A q \in Request : q # r => op'[q] = op[q]
        /\ \A m \in Key : m # k => odb'[m].entries = odb[m].entries
    BY <1>3, <2>0, <2>1, <2>2 DEF EntryGoes
  <2>4. PICK f : KeptFrom(f, t, s, DOMAIN s \ {n})
    <3>1. s \in Seq(OdbEntry)
      BY <1>0
    <3> QED
      BY <2>3, <3>1, RemoveAtKeeps DEF Keeps
  <2>5. /\ \A x \in DOMAIN t : f[x] \in DOMAIN s /\ f[x] # n /\ t[x] = s[f[x]]
        /\ \A y \in DOMAIN s : y # n => \E x \in DOMAIN t : f[x] = y
        /\ \A x, y \in DOMAIN t : f[x] = f[y] => x = y
    BY <2>4 DEF KeptFrom
  <2>6. \A q \in Request : Entered(q)' <=> (Entered(q) /\ q # r)
    BY <2>3 DEF Entered
  <2>7. ASSUME NEW m \in Key, NEW q \in Request, NEW i \in DOMAIN odb'[m].entries,
               odb'[m].entries[i].handle = q
        PROVE  /\ Entered(q)' /\ op'[q].key = m
               /\ odb'[m].entries[i].access = op'[q].in.access
               /\ odb'[m].entries[i].share = op'[q].in.share
    <3>1. PICK x \in DOMAIN odb[m].entries : /\ odb'[m].entries[i] = odb[m].entries[x]
                                             /\ m = k => x # n
      <4>1. CASE m = k
        BY <2>5, <2>7, <4>1
      <4>2. CASE m # k
        BY <2>3, <2>7, <4>2
      <4> QED
        BY <4>1, <4>2
    <3>2. /\ Entered(q) /\ op[q].key = m /\ odb[m].entries[x].access = op[q].in.access
          /\ odb[m].entries[x].share = op[q].in.share
      BY <2>7, <3>1 DEF Entries, EntriesOwned
    <3>3. q # r
      BY <2>0, <2>2, <2>7, <3>1, <3>2
    <3> QED
      BY <2>3, <2>6, <3>1, <3>2, <3>3
  <2>8. EntriesOwned'
    BY <2>7 DEF EntriesOwned
  <2>9. ASSUME NEW q \in Request, Entered(q)'
        PROVE  \E i \in DOMAIN odb'[op'[q].key].entries : odb'[op'[q].key].entries[i].handle = q
    <3>1. Entered(q) /\ q # r /\ op'[q] = op[q] /\ op[q].key \in Key
      BY <1>0, <2>3, <2>6, <2>9, SentOp DEF Entered
    <3>2. PICK i \in DOMAIN odb[op[q].key].entries : odb[op[q].key].entries[i].handle = q
      BY <3>1 DEF Entries, HandlesEntered
    <3>3. CASE op[q].key = k
      BY <2>1, <2>5, <3>1, <3>2, <3>3
    <3>4. CASE op[q].key # k
      BY <2>3, <3>1, <3>2, <3>4
    <3> QED
      BY <3>3, <3>4
  <2>10. ASSUME NEW m \in Key, NEW i \in DOMAIN odb'[m].entries, NEW j \in DOMAIN odb'[m].entries
         PROVE  /\ odb'[m].entries[i].handle = odb'[m].entries[j].handle => i = j
                /\ i # j => ~share_conflict(odb'[m].entries[i], odb'[m].entries[j])
    <3>1. CASE m # k
      BY <2>3, <3>1 DEF Entries, HandlesEntered, NoConflicts
    <3>2. CASE m = k
      <4>1. /\ f[i] \in DOMAIN s /\ f[j] \in DOMAIN s /\ t[i] = s[f[i]] /\ t[j] = s[f[j]]
            /\ (f[i] = f[j] => i = j)
        BY <2>5, <3>2
      <4>2. /\ s[f[i]].handle = s[f[j]].handle => f[i] = f[j]
            /\ f[i] # f[j] => ~share_conflict(s[f[i]], s[f[j]])
        BY <4>1 DEF Entries, HandlesEntered, NoConflicts
      <4> HIDE DEF s, t
      <4>3. odb'[m].entries = t
        BY <3>2 DEF t
      <4> QED
        BY <4>1, <4>2, <4>3
    <3> QED
      BY <3>1, <3>2
  <2>11. HandlesEntered' /\ NoConflicts'
    BY <2>9, <2>10 DEF HandlesEntered, NoConflicts
  <2> QED
    BY <2>8, <2>11 DEF Entries
<1> QED
  BY <1>1, <1>2, <1>3, EffectOnEntries

-----------------------------------------------------------------------------
(* Who waits *)

StillWaits == \A q \in Request : op'[q].pc = "wait" => op'[q] = op[q]

\* Request q, with address p and the key k, has been told or is listed in a
\* record that has entries.
Safe(n, db, p, k) ==
    n[p] > 0 \/ (db[k].entries # <<>> /\ \E i \in DOMAIN db[k].pending : db[k].pending[i] = p)

\* WaiterPending by what a waiter needs: a message, or an entry in a record
\* that is not empty.
LEMMA SafeWaiters ==
    WaiterPending <=> \A q \in Request : op[q].pc = "wait" => Safe(notices, odb, PendingOf(q), op[q].key)
BY DEF WaiterPending, Safe

\* The waiters after a step that makes none.
LEMMA WaitersKept ==
    ASSUME OwnAddress, StillWaits,
           \A q \in Request : op'[q].pc = "wait" => Safe(notices', odb', PendingOf(q), op[q].key)
    PROVE  OwnAddress' /\ WaiterPending'
<1>1. \A q \in Request : op'[q].pc = "wait" => /\ op[q].pc = "wait" /\ PendingOf(q)' = PendingOf(q)
                                               /\ op'[q].key = op[q].key
  BY DEF StillWaits, PendingOf
<1>2. OwnAddress'
  BY <1>1 DEF OwnAddress
<1>3. WaiterPending'
  BY <1>1 DEF WaiterPending, Safe
<1> QED
  BY <1>2, <1>3

\* Every step keeps the waiters safe, and their addresses apart.
LEMMA WaitersStep ==
    ASSUME TypeOK, OwnAddress, WaiterPending, Effect
    PROVE  OwnAddress' /\ WaiterPending'
<1>0. /\ op \in [Request -> OpState] /\ odb \in [Key -> OdbFile] /\ notices \in [OdbPending -> Nat]
  BY DEF TypeOK
<1>1. /\ \A q \in Request : op[q].pc = "wait" => Safe(notices, odb, PendingOf(q), op[q].key)
      /\ \A q \in Request : op[q].pc = "wait" => PendingOf(q) \in OdbPending /\ op[q].key \in Key
  BY <1>0, SafeWaiters, PendingIsPending, SentOp
<1>a. ASSUME NEW r \in Request, NEW pc, pc # "wait", NEW key, NEW fd, NEW g, NEW ptr,
             Became(r, pc, key, fd, g, ptr)
      PROVE  StillWaits /\ op'[r].pc # "wait"
  BY <1>a, BecameFields DEF StillWaits
<1>b. ASSUME StillWaits, UNCHANGED notices,
             \A k \in Key : /\ odb'[k].pending = odb[k].pending
                            /\ odb[k].entries # <<>> => odb'[k].entries # <<>>
      PROVE  OwnAddress' /\ WaiterPending'
  <2>1. ASSUME NEW q \in Request, op'[q].pc = "wait"
        PROVE  Safe(notices', odb', PendingOf(q), op[q].key)
    <3>1. op[q].pc = "wait" /\ op[q].key \in Key
      BY <1>1, <1>b, <2>1 DEF StillWaits
    <3>2. Safe(notices, odb, PendingOf(q), op[q].key)
      BY <1>1, <3>1
    <3> QED
      BY <1>b, <3>1, <3>2 DEF Safe
  <2> QED
    BY <1>b, <2>1, WaitersKept
<1>c. UNCHANGED <<odb, notices>> /\ StillWaits => OwnAddress' /\ WaiterPending'
  BY <1>b
<1>2. CASE NoEffect
  BY <1>2, <1>c DEF NoEffect, StillWaits
<1>3. ASSUME NEW r \in Request, NEW in \in Inputs[r], Arrives(r, in)
      PROVE  OwnAddress' /\ WaiterPending'
  <2>1. op'[r].pc = "resolve" /\ \A q \in Request : q # r => op'[q] = op[q]
    BY <1>0, <1>3, RecFields DEF Arrives
  <2> QED
    BY <1>3, <1>c, <2>1 DEF Arrives, StillWaits
<1>4. ASSUME NEW r \in Request, Walks(r)
      PROVE  OwnAddress' /\ WaiterPending'
  <2>1. \E pc \in {"failed", "create", "unlink", "open", "register", "again", "closed", "check",
                   "remove", "close"} : \E key, fd, g : Became(r, pc, key, fd, g, op[r].ptr)
    BY <1>4 DEF Walks, GoesTo
  <2>2. StillWaits
    BY <1>a, <2>1
  <2> QED
    BY <1>4, <1>c, <2>2 DEF Walks
<1>5. ASSUME NEW r \in Request, Enters(r)
      PROVE  OwnAddress' /\ WaiterPending'
  <2>1. \E pc \in {"opened", "abort"} : \E fd, g : Became(r, pc, op[r].key, fd, g, op[r].ptr)
    BY <1>5 DEF Enters, GoesTo
  <2>2. StillWaits
    BY <1>a, <2>1
  <2>3. PICK k \in Key, e \in OdbEntry : k = op[r].key /\ e = EntryOf(r, op[r].in.delete)
    BY <1>0, <1>5, SentOp, EntryIsEntry DEF Enters
  <2>4. /\ odb'[k].entries = Append(odb[k].entries, e) /\ odb'[k].pending = odb[k].pending
        /\ \A m \in Key : m # k => odb'[m] = odb[m]
    BY <1>0, <1>5, <2>3, AddedEntry DEF Enters
  <2>5. odb'[k].entries # <<>>
    <3>1. odb[k].entries \in Seq(OdbEntry)
      BY <1>0 DEF OdbFile
    <3> QED
      BY <2>4, <3>1
  <2>6. \A m \in Key : /\ odb'[m].pending = odb[m].pending
                       /\ odb[m].entries # <<>> => odb'[m].entries # <<>>
    BY <2>4, <2>5
  <2> QED
    BY <1>5, <1>b, <2>2, <2>6 DEF Enters
<1>6. ASSUME NEW r \in Request, Leaves(r)
      PROVE  OwnAddress' /\ WaiterPending'
  <2>1. \E pc \in {"failed", "closed"} : Became(r, pc, op[r].key, op[r].fd, op[r].gen, op[r].ptr)
    BY <1>6 DEF Leaves, GoesTo
  <2>2. StillWaits
    BY <1>a, <2>1
  <2>3. PICK k \in Key : k = op[r].key
    BY <1>0, <1>6, SentOp DEF Leaves
  <2> DEFINE told == odb[k].pending
  <2>4. told \in Seq(OdbPending)
    BY <1>0 DEF OdbFile
  <2>5. /\ notices' = [p \in OdbPending |-> notices[p] + Cardinality({i \in DOMAIN told : told[i] = p})]
        /\ \A m \in Key : m # k => odb'[m] = odb[m]
    BY <1>0, <1>6, <2>3 DEF Leaves, OdbClose
  <2> HIDE DEF told
  <2>6. \A p \in OdbPending : /\ notices'[p] \in Nat /\ notices'[p] >= notices[p]
                              /\ \A i \in DOMAIN told : told[i] = p => notices'[p] > 0
    <3> TAKE p \in OdbPending
    <3>1. PICK c \in Nat : c = Cardinality({i \in DOMAIN told : told[i] = p})
      BY <2>4, ToldNat
    <3>2. \A i \in DOMAIN told : told[i] = p => c > 0
      BY <2>4, <3>1, ToldNat
    <3>3. notices'[p] = notices[p] + c /\ notices[p] \in Nat
      BY <1>0, <2>5, <3>1
    <3> QED
      BY <3>2, <3>3
  <2>7. ASSUME NEW q \in Request, op'[q].pc = "wait"
        PROVE  Safe(notices', odb', PendingOf(q), op[q].key)
    <3>1. op[q].pc = "wait" /\ op[q].key \in Key /\ PendingOf(q) \in OdbPending
      BY <1>1, <2>2, <2>7 DEF StillWaits
    <3>2. PICK p \in OdbPending, m \in Key : p = PendingOf(q) /\ m = op[q].key
      BY <3>1
    <3>3. Safe(notices, odb, p, m)
      BY <1>1, <3>1, <3>2
    <3>4. CASE notices[p] > 0
      <4>1. notices'[p] > 0
        BY <1>0, <2>6, <3>4
      <4> QED
        BY <3>2, <4>1 DEF Safe
    <3>5. CASE m = k /\ \E i \in DOMAIN odb[m].pending : odb[m].pending[i] = p
      <4>1. notices'[p] > 0
        BY <2>6, <3>5 DEF told
      <4> QED
        BY <3>2, <4>1 DEF Safe
    <3>6. CASE m # k
      <4>1. odb'[m] = odb[m]
        BY <2>5, <3>6
      <4>2. notices[p] > 0 \/ Safe(notices', odb', p, m)
        BY <3>3, <4>1 DEF Safe
      <4> QED
        BY <3>2, <3>4, <4>2
    <3> QED
      BY <3>3, <3>4, <3>5, <3>6 DEF Safe
  <2> QED
    BY <2>2, <2>7, WaitersKept
<1>7. ASSUME NEW r \in Request, NEW a \in Addr, SetsUp(r, a)
      PROVE  OwnAddress' /\ WaiterPending'
  <2>0. PICK k \in Key : k = op[r].key
    BY <1>0, <1>7, SentOp DEF SetsUp
  <2>1. PICK p \in OdbPending : p = [server |-> ServerOf[r], ptr |-> a]
    BY OdbAssumption DEF OdbPending
  <2>2. /\ op[r].pc = "open" /\ Became(r, "wait", k, op[r].fd, op[r].gen, a) /\ UNCHANGED notices
        /\ odb' = [odb EXCEPT ![k].pending = Append(@, p)] /\ a \in FreeAddr(r)
        /\ odb_tdb_open_file(odb[k], EntryOf(r, op[r].in.delete)) = "sharing_violation"
    BY <1>7, <2>0, <2>1 DEF SetsUp
  <2>3. /\ odb'[k].entries = odb[k].entries /\ odb'[k].pending = Append(odb[k].pending, p)
        /\ \A m \in Key : m # k => odb'[m] = odb[m]
    BY <1>0, <2>2, AddedPending
  <2>4. odb[k].entries # <<>>
    BY <2>2 DEF odb_tdb_open_file
  <2>5. /\ op'[r].pc = "wait" /\ op'[r].ptr = a /\ op'[r].key = k
        /\ \A q \in Request : q # r => op'[q] = op[q]
    BY <2>2, BecameFields
  <2>6. /\ PendingOf(r)' = p
        /\ \A q \in Request : q # r => PendingOf(q)' = PendingOf(q)
    BY <2>1, <2>5 DEF PendingOf
  <2>7. ASSUME NEW q \in Request, op[q].pc = "wait"
        PROVE  PendingOf(q) # p
    <3>1. CASE ServerOf[q] = ServerOf[r]
      <4>1. op[q].ptr # a
        BY <2>2, <2>7, <3>1 DEF FreeAddr
      <4> QED
        BY <2>1, <4>1 DEF PendingOf
    <3>2. CASE ServerOf[q] # ServerOf[r]
      BY <2>1, <3>2 DEF PendingOf
    <3> QED
      BY <3>1, <3>2
  <2>8. OwnAddress'
    BY <2>5, <2>6, <2>7 DEF OwnAddress
  <2>9. /\ odb[k].pending \in Seq(OdbPending)
        /\ \E i \in DOMAIN odb'[k].pending : odb'[k].pending[i] = p
        /\ \A i \in DOMAIN odb[k].pending : i \in DOMAIN odb'[k].pending
                                            /\ odb'[k].pending[i] = odb[k].pending[i]
    <3>1. odb[k].pending \in Seq(OdbPending)
      BY <1>0 DEF OdbFile
    <3> QED
      BY <2>3, <3>1, AppendPlaces
  <2>10. ASSUME NEW q \in Request, op'[q].pc = "wait"
         PROVE  Safe(notices', odb', PendingOf(q)', op'[q].key)
    <3>1. CASE q = r
      BY <2>3, <2>4, <2>5, <2>6, <2>9, <3>1 DEF Safe
    <3>2. CASE q # r
      <4>1. Safe(notices, odb, PendingOf(q), op[q].key) /\ op[q].key \in Key
        BY <1>1, <2>5, <2>10, <3>2
      <4>2. Safe(notices', odb', PendingOf(q), op[q].key)
        <5>1. CASE op[q].key = k
          BY <2>2, <2>3, <2>4, <2>9, <4>1, <5>1 DEF Safe
        <5>2. CASE op[q].key # k
          BY <2>2, <2>3, <4>1, <5>2 DEF Safe
        <5> QED
          BY <5>1, <5>2
      <4> QED
        BY <2>5, <2>6, <3>2, <4>2
    <3> QED
      BY <3>1, <3>2
  <2>11. WaiterPending'
    BY <2>10 DEF WaiterPending, Safe
  <2> QED
    BY <2>8, <2>11
\* A message is received: no other request waits for it.
<1>d. ASSUME StillWaits, UNCHANGED odb, NEW p \in OdbPending, notices' = [notices EXCEPT ![p] = @ - 1],
             \A q \in Request : op'[q].pc = "wait" => PendingOf(q) # p
      PROVE  OwnAddress' /\ WaiterPending'
  <2>1. ASSUME NEW q \in Request, op'[q].pc = "wait"
        PROVE  Safe(notices', odb', PendingOf(q), op[q].key)
    <3>1. op[q].pc = "wait" /\ PendingOf(q) \in OdbPending
      BY <1>1, <1>d, <2>1 DEF StillWaits
    <3>2. notices'[PendingOf(q)] = notices[PendingOf(q)]
      BY <1>0, <1>d, <2>1, <3>1
    <3>3. Safe(notices, odb, PendingOf(q), op[q].key)
      BY <1>1, <3>1
    <3> QED
      BY <1>d, <3>2, <3>3 DEF Safe
  <2> QED
    BY <1>d, <2>1, WaitersKept
<1>8. ASSUME NEW r \in Request, Retries(r)
      PROVE  OwnAddress' /\ WaiterPending'
  <2>1. /\ op[r].pc = "wait" /\ Became(r, "resolve", op[r].key, op[r].fd, op[r].gen, None)
        /\ UNCHANGED odb /\ notices' = [notices EXCEPT ![PendingOf(r)] = @ - 1]
    BY <1>8 DEF Retries
  <2>2. StillWaits /\ op'[r].pc # "wait"
    BY <1>a, <2>1
  <2>3. \A q \in Request : op'[q].pc = "wait" => PendingOf(q) # PendingOf(r)
    BY <2>1, <2>2 DEF OwnAddress, StillWaits
  <2> QED
    BY <1>1, <1>d, <2>1, <2>2, <2>3
<1>9. ASSUME NEW r \in Request, TimesOut(r)
      PROVE  OwnAddress' /\ WaiterPending'
  <2>0. PICK k \in Key, p \in OdbPending : k = op[r].key /\ p = PendingOf(r)
    BY <1>1, <1>9 DEF TimesOut
  <2>1. /\ op[r].pc = "wait" /\ Became(r, "failed", op[r].key, op[r].fd, op[r].gen, None)
        /\ UNCHANGED notices
        /\ odb'[k] = odb_tdb_remove_pending(odb[k], p) /\ \A m \in Key : m # k => odb'[m] = odb[m]
    BY <1>0, <1>9, <2>0 DEF TimesOut
  <2>2. StillWaits /\ op'[r].pc # "wait"
    BY <1>a, <2>1
  <2>3. /\ odb'[k].entries = odb[k].entries
        /\ odb[k].entries # <<>> => \A i \in DOMAIN odb[k].pending : odb[k].pending[i] # p =>
              \E j \in DOMAIN odb'[k].pending : odb'[k].pending[j] = odb[k].pending[i]
    BY <1>0, <2>1, RemovedPending
  <2>4. ASSUME NEW q \in Request, op'[q].pc = "wait"
        PROVE  Safe(notices', odb', PendingOf(q), op[q].key)
    <3>1. op[q].pc = "wait" /\ op[q].key \in Key /\ PendingOf(q) # p /\ PendingOf(q) \in OdbPending
      BY <1>1, <2>0, <2>1, <2>2, <2>4 DEF StillWaits, OwnAddress
    <3>2. PICK u \in OdbPending, m \in Key : u = PendingOf(q) /\ m = op[q].key
      BY <3>1
    <3>3. Safe(notices, odb, u, m) /\ u # p
      BY <1>1, <3>1, <3>2
    <3>4. CASE m # k
      BY <2>1, <3>2, <3>3, <3>4 DEF Safe
    <3>5. CASE m = k
      BY <2>1, <2>3, <3>2, <3>3, <3>5 DEF Safe
    <3> QED
      BY <3>4, <3>5
  <2> QED
    BY <2>2, <2>4, WaitersKept
<1>10. ASSUME NEW p \in OdbPending, Drops(p)
       PROVE  OwnAddress' /\ WaiterPending'
  BY <1>10, <1>d DEF Drops, StillWaits
<1>11. ASSUME NEW k \in Key, NEW b \in BOOLEAN, SetsDelete(k, b)
       PROVE  OwnAddress' /\ WaiterPending'
  <2>1. /\ UNCHANGED notices /\ StillWaits
        /\ \A m \in Key : odb'[m].entries = odb[m].entries /\ odb'[m].pending = odb[m].pending
    BY <1>0, <1>11, SetDelete DEF SetsDelete, StillWaits
  <2> QED
    BY <1>b, <2>1
<1>12. CASE \E r \in Request : \E in \in Inputs[r] : Arrives(r, in)
  BY <1>3, <1>12
<1>13. CASE \E r \in Request, a \in Addr : SetsUp(r, a)
  BY <1>7, <1>13
<1>14. CASE \E k \in Key, b \in BOOLEAN : SetsDelete(k, b)
  BY <1>11, <1>14
<1> QED
  BY <1>2, <1>4, <1>5, <1>6, <1>8, <1>9, <1>10, <1>12, <1>13, <1>14 DEF Effect

-----------------------------------------------------------------------------
(* The invariant that asks nothing of the clients *)

\* The invariant holds at the start.
LEMMA OpenInvInit == Init => OpenInv
<1> SUFFICES ASSUME Init
             PROVE  OpenInv
  OBVIOUS
<1>1. /\ \A r \in Request : op[r] = Unsent /\ op[r].pc = "unsent"
      /\ \A k \in Key : odb[k] = NoFile
  BY DEF Init, Unsent
<1>2. NoFile \in OdbFile /\ NoFile.entries = <<>>
  BY DEF NoFile, OdbFile
<1>3. TypeOK
  <2>1. gen \in [Inode -> Nat]
    BY DEF Init
  <2> QED
    BY <1>2, <2>1, OpenAssumption DEF Init, TypeOK, OpState
<1>4. Descriptors /\ OpenFiles /\ OwnAddress /\ WaiterPending
  BY <1>1 DEF Descriptors, OpenFiles, OwnAddress, WaiterPending, Opened
<1>5. Entries
  <2>1. \A k \in Key : DOMAIN odb[k].entries = {}
    BY <1>1, <1>2
  <2> QED
    BY <1>1, <2>1 DEF Entries, EntriesOwned, HandlesEntered, NoConflicts, Entered
<1> QED
  BY <1>3, <1>4, <1>5 DEF OpenInv

\* Every step keeps it.
LEMMA OpenInvStep == OpenInv /\ [Next]_vars => OpenInv'
<1> SUFFICES ASSUME OpenInv, [Next]_vars
             PROVE  OpenInv'
  OBVIOUS
<1>1. TypeOK /\ Files /\ Entries /\ OwnAddress /\ WaiterPending
  BY DEF OpenInv, Files
<1>2. Effect /\ link' \in Key /\ gen' \in [Inode -> Nat] /\ replies' \in [Request -> Nat]
  BY <1>1, StepEffect
<1>3. op' \in [Request -> OpState] /\ Files'
  BY <1>1, <1>2, OpTypedStep
<1>4. odb' \in [Key -> OdbFile] /\ notices' \in [OdbPending -> Nat]
  BY <1>1, <1>2, OdbTypedStep
<1>5. TypeOK'
  BY <1>2, <1>3, <1>4 DEF TypeOK
<1>6. Entries'
  BY <1>1, <1>2, <1>5, EntriesStep
<1>7. OwnAddress' /\ WaiterPending'
  BY <1>1, <1>2, WaitersStep
<1> QED
  BY <1>3, <1>5, <1>6, <1>7 DEF OpenInv, Files

\* It holds in every behaviour.
LEMMA OpenInvHolds == Spec => []OpenInv
<1> QED
  BY OpenInvInit, OpenInvStep, PTL DEF Spec

\* The variables of the opens keep their types, and a request has a struct
\* pvfs_open_retry exactly while it waits (pvfs_open_setup_retry,
\* pvfs_open_retry).
THEOREM OpensTyped == Spec => []TypeOK
<1>1. OpenInv => TypeOK
  BY DEF OpenInv
<1> QED
  BY <1>1, OpenInvHolds, PTL

\* No lost wakeup, for any number of processes, requests and addresses: an
\* open that waits after a sharing violation is in the record of a file that is
\* open, so that its close will tell it, or the message is under way
\* (pvfs_open_setup_retry, odb_tdb_close_file, pvfs_retry_destructor).
THEOREM WaitersAreTold == Spec => []WaiterPending
<1>1. OpenInv => WaiterPending
  BY DEF OpenInv
<1> QED
  BY <1>1, OpenInvHolds, PTL

-----------------------------------------------------------------------------
(* Handles are registered under the file that they have open *)

\* A handle that is open was so before, or its entry has just been added.
LEMMA OpenedBefore ==
    ASSUME TypeOK, Effect, NEW q \in Request, op'[q].pc = "opened"
    PROVE  op'[q] = op[q] \/ Enters(q)
<1>a. ASSUME NEW r \in Request, NEW pc, pc # "opened", NEW key, NEW fd, NEW g, NEW ptr,
             Became(r, pc, key, fd, g, ptr)
      PROVE  op'[q] = op[q]
  BY <1>a, BecameFields
<1>1. ASSUME NEW r \in Request, NEW in, Arrives(r, in)
      PROVE  op'[q] = op[q]
  <2>1. op \in [Request -> OpState]
    BY DEF TypeOK
  <2>2. op'[r].pc = "resolve"
    BY <1>1, <2>1, RecFields DEF Arrives
  <2>3. q # r
    BY <2>2
  <2> QED
    BY <1>1, <2>1, <2>3 DEF Arrives
<1>2. ASSUME NEW r \in Request, Walks(r)
      PROVE  op'[q] = op[q]
  BY <1>2, <1>a DEF Walks, GoesTo
<1>3. ASSUME NEW r \in Request, Enters(r)
      PROVE  op'[q] = op[q] \/ Enters(q)
  <2>1. CASE q = r
    BY <1>3, <2>1
  <2>2. CASE q # r
    BY <1>3, <2>2, BecameFields DEF Enters, GoesTo
  <2> QED
    BY <2>1, <2>2
<1>4. ASSUME NEW r \in Request, Leaves(r) \/ Retries(r) \/ TimesOut(r)
      PROVE  op'[q] = op[q]
  BY <1>4, <1>a DEF Leaves, Retries, TimesOut, GoesTo
<1>5. ASSUME NEW r \in Request, NEW a \in Addr, SetsUp(r, a)
      PROVE  op'[q] = op[q]
  BY <1>5, <1>a DEF SetsUp
<1>6. CASE \E r \in Request : \E in \in Inputs[r] : Arrives(r, in)
  BY <1>1, <1>6
<1>7. CASE \E r \in Request, a \in Addr : SetsUp(r, a)
  BY <1>5, <1>7
<1>8. CASE UNCHANGED op
  BY <1>8
<1> QED
  BY <1>2, <1>3, <1>4, <1>6, <1>7, <1>8 DEF Effect, NoEffect, Drops, SetsDelete

\* The open() by name, under the lock of a record, finds the file of that
\* record: its inode is compared, unless the name was not there.
LEMMA OwnRecordStep ==
    ASSUME OpenInv, OwnRecord, NamesFound, [Next]_vars
    PROVE  OwnRecord'
<1>0. TypeOK /\ Descriptors
  BY DEF OpenInv
<1>1. Effect
  BY <1>0, StepEffect
<1>2. ASSUME NEW q \in Request, op'[q].pc = "opened"
      PROVE  op'[q].key = op'[q].fd
  <2>1. CASE op'[q] = op[q]
    BY <1>2, <2>1 DEF OwnRecord, Opened
  <2>2. CASE op[q].pc = "register" /\ GoesTo(q, "opened")
    <3>1. op[q].key = op[q].fd
      BY <1>0, <2>2 DEF Descriptors
    <3> QED
      BY <2>2, <3>1, BecameFields DEF GoesTo
  <2>3. CASE /\ op[q].pc = "open" /\ link \in Inode /\ op[q].key \in {link, None}
             /\ Became(q, "opened", op[q].key, link, gen[link], op[q].ptr)
    <3>1. link # None
      BY <2>3, OpenAssumption
    <3>2. op[q].key = link
      BY <2>3, <3>1 DEF NamesFound
    <3> QED
      BY <2>3, <3>2, BecameFields
  <2>4. CASE op[q].pc = "open" /\ GoesTo(q, "abort")
    BY <1>2, <2>4, BecameFields DEF GoesTo
  <2> QED
    BY <1>0, <1>1, <1>2, <2>1, <2>2, <2>3, <2>4, OpenedBefore DEF Enters
<1> QED
  BY <1>2 DEF OwnRecord, Opened

\* At the start no handle is open.
LEMMA OwnRecordInit == Init => OwnRecord
BY DEF Init, Unsent, OwnRecord, Opened

\* The entries of two handles on one file are in one record, in which none
\* conflict.
LEMMA SharedRecord ==
    ASSUME OpenInv, OwnRecord
    PROVE  ShareModes
<1> SUFFICES ASSUME NEW r \in Request, NEW q \in Request, r # q, Opened(r), Opened(q),
                    op[r].fd = op[q].fd
             PROVE  \/ op[r].in.access = {} \/ op[q].in.access = {}
                    \/ /\ op[r].in.access \subseteq op[q].in.share
                       /\ op[q].in.access \subseteq op[r].in.share
  BY DEF ShareModes
<1>0. TypeOK /\ EntriesOwned /\ HandlesEntered /\ NoConflicts
  BY DEF OpenInv, Entries
<1>1. /\ op[r].key = op[q].key /\ op[r].key \in Key /\ Entered(r) /\ Entered(q)
  BY <1>0, SentOp DEF OwnRecord, Opened, Entered, TypeOK
<1>2. PICK k \in Key : k = op[r].key
  BY <1>1
<1>3. PICK i \in DOMAIN odb[k].entries : odb[k].entries[i].handle = r
  BY <1>0, <1>1, <1>2 DEF HandlesEntered
<1>4. PICK j \in DOMAIN odb[k].entries : odb[k].entries[j].handle = q
  BY <1>0, <1>1, <1>2 DEF HandlesEntered
<1>5. /\ odb[k].entries[i].access = op[r].in.access /\ odb[k].entries[i].share = op[r].in.share
      /\ odb[k].entries[j].access = op[q].in.access /\ odb[k].entries[j].share = op[q].in.share
  BY <1>0, <1>3, <1>4 DEF EntriesOwned
<1>6. ~share_conflict(odb[k].entries[i], odb[k].entries[j])
  BY <1>0, <1>3, <1>4 DEF NoConflicts
<1> QED
  BY <1>5, <1>6 DEF share_conflict

\* When handles are in the record of their file, entries and open files agree.
LEMMA RecordsMatch ==
    ASSUME OpenInv, OwnRecord
    PROVE  EntriesMatch
<1>0. TypeOK /\ EntriesOwned /\ HandlesEntered
  BY DEF OpenInv, Entries
<1>1. ASSUME NEW r \in Request, Opened(r)
      PROVE  Cardinality({i \in DOMAIN odb[op[r].fd].entries :
                            odb[op[r].fd].entries[i].handle = r}) = 1
  <2>1. op[r].key = op[r].fd /\ op[r].key \in Key /\ Entered(r)
    BY <1>0, <1>1, SentOp DEF OwnRecord, Opened, Entered, TypeOK
  <2>2. PICK k \in Key : k = op[r].fd
    BY <2>1
  <2>3. PICK i \in DOMAIN odb[k].entries : odb[k].entries[i].handle = r
    BY <1>0, <2>1, <2>2 DEF HandlesEntered
  <2>4. \A j \in DOMAIN odb[k].entries : odb[k].entries[j].handle = r => j = i
    BY <1>0, <2>3 DEF HandlesEntered
  <2> DEFINE D == DOMAIN odb[k].entries
             X == {j \in D : odb[k].entries[j].handle = r}
  <2>5. i \in D /\ X \in SUBSET D /\ i \in X /\ \A y \in X : y = i
    BY <2>3, <2>4
  <2> HIDE DEF D
  <2>6. Cardinality(X) = 1
    <3> HIDE DEF X
    <3> QED
      BY <2>5, OnePlace
  <2> QED
    BY <2>2, <2>6 DEF D
<1>2. ASSUME NEW k \in Key, NEW i \in DOMAIN odb[k].entries
      PROVE  op[odb[k].entries[i].handle].pc \in {"opened", "abort", "check", "remove", "close"}
  <2>1. odb[k].entries \in Seq(OdbEntry)
    BY <1>0 DEF TypeOK, OdbFile
  <2>2. odb[k].entries[i] \in OdbEntry
    BY <2>1
  <2>3. odb[k].entries[i].handle \in Request
    BY <2>2 DEF OdbEntry
  <2> QED
    BY <1>0, <2>3 DEF EntriesOwned, Entered
<1> QED
  BY <1>1, <1>2 DEF EntriesMatch

\* In a behaviour in which no name that a collision has shown to be missing
\* comes back before it is opened, two handles on one file never deny each
\* other and the entries are those of the open handles, whatever creates,
\* deletes and opens by name come between the lookup and the lock
\* (pvfs_open, pvfs_create_file, pvfs_resolve_name_fd).
THEOREM FoundNamesShare == Spec /\ []NamesFound => [](ShareModes /\ EntriesMatch)
<1>1. Init => OwnRecord
  BY OwnRecordInit
<1>2. OpenInv /\ OwnRecord /\ NamesFound /\ [Next]_vars => OwnRecord'
  BY OwnRecordStep
<1>3. OpenInv /\ OwnRecord => ShareModes /\ EntriesMatch
  BY SharedRecord, RecordsMatch
<1> QED
  BY <1>1, <1>2, <1>3, OpenInvHolds, PTL DEF Spec

-----------------------------------------------------------------------------
(* Clients whose collisions are errors *)

\* What OpenIfInv says of the record y of request r.
Plain(r, y) ==
    y.pc # "unsent" =>
        /\ y.in \in Inputs[r] /\ y.pc # "again"
        /\ y.pc = "create" => y.in.disp = "create"
        /\ y.pc = "open" => y.key # None

\* Without open_if no request resolves its name again.
LEMMA PlainStep ==
    ASSUME NoOpenIf, TypeOK, Effect, \A q \in Request : Plain(q, op[q])
    PROVE  \A q \in Request : Plain(q, op'[q])
<1>0. op \in [Request -> OpState]
  BY DEF TypeOK
<1>a. ASSUME NEW r \in Request, op[r].pc # "unsent", NEW pc, NEW key, NEW fd, NEW g, NEW ptr,
             Became(r, pc, key, fd, g, ptr), pc # "again",
             pc = "create" => op[r].in.disp = "create", pc = "open" => key # None
      PROVE  \A q \in Request : Plain(q, op'[q])
  <2>1. /\ op'[r].pc = pc /\ op'[r].in = op[r].in /\ op'[r].key = key
        /\ \A q \in Request : q # r => op'[q] = op[q]
    BY <1>a, BecameFields
  <2>2. op[r].in \in Inputs[r]
    BY <1>a DEF Plain
  <2>3. Plain(r, op'[r])
    BY <1>a, <2>1, <2>2 DEF Plain
  <2> QED
    BY <2>1, <2>3
<1>1. ASSUME NEW r \in Request, NEW in \in Inputs[r], Arrives(r, in)
      PROVE  \A q \in Request : Plain(q, op'[q])
  <2>1. /\ op'[r] = Rec("resolve", in, None, None, 0, None)
        /\ \A q \in Request : q # r => op'[q] = op[q]
    BY <1>0, <1>1 DEF Arrives
  <2>2. Plain(r, op'[r])
    BY <2>1, RecFields DEF Plain
  <2> QED
    BY <2>1, <2>2
<1>2. ASSUME NEW r \in Request, Walks(r)
      PROVE  \A q \in Request : Plain(q, op'[q])
  <2>1. CASE op[r].pc = "resolve" /\ op[r].in.disp \in {"create", "open_if"}
             /\ Became(r, "create", link, op[r].fd, op[r].gen, op[r].ptr)
    <3>1. op[r].in \in Inputs[r]
      BY <2>1 DEF Plain
    <3>2. op[r].in.disp = "create"
      BY <2>1, <3>1 DEF NoOpenIf
    <3> QED
      BY <1>a, <2>1, <3>2
  <2>2. CASE op[r].pc = "create" /\ op[r].in.disp # "create" /\ GoesTo(r, "again")
    BY <2>2 DEF Plain
  <2>3. CASE op[r].pc = "again"
    BY <2>3 DEF Plain
  <2>4. CASE op[r].pc = "resolve" /\ link # None
             /\ \E pc \in {"unlink", "open"} : Became(r, pc, link, op[r].fd, op[r].gen, op[r].ptr)
    BY <1>a, <2>4
  <2>5. CASE op[r].pc = "create"
             /\ \E i \in Inode, g \in Nat : Became(r, "register", i, i, g, op[r].ptr)
    BY <1>a, <2>5
  <2>6. CASE \/ op[r].pc \in {"resolve", "create", "open"} /\ GoesTo(r, "failed")
             \/ op[r].pc = "check" /\ \E pc \in {"remove", "close"} : GoesTo(r, pc)
             \/ op[r].pc = "remove" /\ GoesTo(r, "close")
             \/ op[r].pc = "unlink" /\ GoesTo(r, "closed")
    BY <1>a, <2>6 DEF GoesTo
  <2>7. CASE \/ /\ op[r].pc = "register"
                /\ Became(r, "failed", op[r].key, None, op[r].gen, op[r].ptr)
             \/ op[r].pc = "opened" /\ Became(r, "check", op[r].key, None, op[r].gen, op[r].ptr)
    BY <1>a, <2>7
  <2> QED
    BY <1>2, <2>1, <2>2, <2>3, <2>4, <2>5, <2>6, <2>7 DEF Walks
<1>3. ASSUME NEW r \in Request, Enters(r)
      PROVE  \A q \in Request : Plain(q, op'[q])
  BY <1>3, <1>a DEF Enters, GoesTo
<1>4. ASSUME NEW r \in Request, Leaves(r)
      PROVE  \A q \in Request : Plain(q, op'[q])
  BY <1>4, <1>a DEF Leaves, GoesTo
<1>5. ASSUME NEW r \in Request, Retries(r) \/ TimesOut(r)
      PROVE  \A q \in Request : Plain(q, op'[q])
  BY <1>5, <1>a DEF Retries, TimesOut
<1>6. ASSUME NEW r \in Request, NEW a \in Addr, SetsUp(r, a)
      PROVE  \A q \in Request : Plain(q, op'[q])
  BY <1>6, <1>a DEF SetsUp
<1>7. CASE \E r \in Request : \E in \in Inputs[r] : Arrives(r, in)
  BY <1>1, <1>7
<1>8. CASE \E r \in Request, a \in Addr : SetsUp(r, a)
  BY <1>6, <1>8
<1>9. CASE UNCHANGED op
  BY <1>9
<1> QED
  BY <1>2, <1>3, <1>4, <1>5, <1>7, <1>8, <1>9 DEF Effect, NoEffect, Drops, SetsDelete

\* OpenIfInv request by request.
LEMMA OpenIfInvPlain == OpenIfInv <=> OwnRecord /\ \A r \in Request : Plain(r, op[r])
BY DEF OpenIfInv, Plain

\* Without open_if every handle is in the record of its file.
LEMMA OpenIfInvHolds ==
    ASSUME NoOpenIf
    PROVE  Spec => []OpenIfInv
<1>1. Init => OpenIfInv
  <2>1. Init => \A r \in Request : Plain(r, op[r])
    BY DEF Init, Unsent, Plain
  <2> QED
    BY <2>1, OwnRecordInit, OpenIfInvPlain
<1>2. OpenIfInv => NamesFound
  BY DEF OpenIfInv, NamesFound
<1>3. OpenInv /\ OpenIfInv /\ [Next]_vars => OpenIfInv'
  <2> SUFFICES ASSUME OpenInv, OpenIfInv, [Next]_vars
               PROVE  OpenIfInv'
    OBVIOUS
  <2>1. OwnRecord'
    BY <1>2, OpenIfInvPlain, OwnRecordStep
  <2>2. TypeOK /\ Effect
    BY StepEffect DEF OpenInv
  <2>3. \A r \in Request : Plain(r, op'[r])
    BY <2>2, OpenIfInvPlain, PlainStep
  <2> QED
    BY <2>1, <2>3 DEF OpenIfInv, Plain
<1> QED
  BY <1>1, <1>3, OpenInvHolds, PTL DEF Spec

\* Where a create that collides is an error (no client sends the open_if
\* disposition), open handles never deny each other: the record is locked by the
\* inode that was resolved, and the open() refuses any other
\* (odb_tdb_open_file, pvfs_open, pvfs_resolve_name_fd).
THEOREM OpensShare ==
    ASSUME NoOpenIf
    PROVE  Spec => []ShareModes
<1>1. OpenIfInv => OwnRecord
  BY DEF OpenIfInv
<1>2. OpenInv /\ OwnRecord => ShareModes
  BY SharedRecord
<1> QED
  BY <1>1, <1>2, OpenInvHolds, OpenIfInvHolds, PTL

\* And the database agrees with the files that are open: every handle has one
\* entry, in the record of its file, and no entry outlives its handle
\* (odb_tdb_open_file, odb_tdb_close_file, pvfs_handle_destructor).
THEOREM OpensAreEntered ==
    ASSUME NoOpenIf
    PROVE  Spec => []EntriesMatch
<1>1. OpenIfInv => OwnRecord
  BY DEF OpenIfInv
<1>2. OpenInv /\ OwnRecord => EntriesMatch
  BY RecordsMatch
<1> QED
  BY <1>1, <1>2, OpenInvHolds, OpenIfInvHolds, PTL

-----------------------------------------------------------------------------
(* Files are deleted through one process *)

\* Places that the invariant speaks of.
Held == {"register", "opened", "check", "remove", "close", "unlink"}

\* The same request in another place.
Stays(q) == op'[q].key = op[q].key /\ op'[q].gen = op[q].gen

Advances(q) ==
    \/ op'[q] = op[q]
    \/ op'[q].pc \notin Held
    \/ /\ op[q].pc = "create" /\ op'[q].pc = "register" /\ op'[q].key \in Inode
       /\ link' = op'[q].key /\ op'[q].gen = gen'[link']
    \/ op[q].pc = "register" /\ op'[q].pc = "opened" /\ Stays(q) /\ UNCHANGED <<link, gen>>
    \/ /\ op[q].pc = "open" /\ op'[q].pc = "opened" /\ link \in Inode /\ UNCHANGED <<link, gen>>
       /\ op[q].key \in {link, None} /\ op'[q].key = op[q].key /\ op'[q].gen = gen[link]
    \/ op[q].pc = "opened" /\ op'[q].pc = "check" /\ Stays(q) /\ UNCHANGED <<link, gen>>
    \/ /\ op[q].pc = "check" /\ Stays(q) /\ UNCHANGED <<link, gen, odb>>
       /\ op'[q].pc = IF DeleteNow(odb[op[q].key]) THEN "remove" ELSE "close"
    \/ op[q].pc = "remove" /\ op'[q].pc = "close" /\ Stays(q) /\ link' = None /\ UNCHANGED gen
    \/ /\ op[q].pc = "resolve" /\ op'[q].pc = "unlink" /\ op[q].in.disp = "unlink"
       /\ link \in Inode /\ op'[q].key = link /\ UNCHANGED <<link, gen>>

\* What a step does to the name.
NameStays == UNCHANGED <<link, gen>>
NameMade == \E i \in Inode : link = None /\ link' = i /\ gen' = [gen EXCEPT ![i] = @ + 1]
NameRemoved(r) == op[r].pc = "remove" /\ op'[r].pc = "close" /\ link' = None /\ UNCHANGED gen
NameUnlinked(r) ==
    /\ op[r].pc = "unlink" /\ op'[r].pc = "closed"
    /\ odb_tdb_can_open(odb[op[r].key]) /\ link' = None /\ UNCHANGED gen

NameStep ==
    NameStays \/ NameMade \/ \E r \in Request : NameRemoved(r) \/ NameUnlinked(r)

\* Who runs after the step: one that ran before, or one whose process was idle.
RunsOn(q) ==
    op'[q].pc \in Running =>
        op[q].pc \in Running \/ (Idle(q) /\ \A p \in Request : p # q => op'[p] = op[p])

SameRequest(q) ==
    IF op[q].pc = "unsent"
    THEN op'[q] = op[q] \/ (op'[q].in \in Inputs[q] /\ op'[q].pc = "resolve")
    ELSE op'[q].pc # "unsent" /\ op'[q].in = op[q].in

Forward == NameStep /\ \A q \in Request : Advances(q) /\ RunsOn(q) /\ SameRequest(q)

\* A step that moves one request.
LEMMA ForwardBecame ==
    ASSUME NEW r \in Request, op[r].pc # "unsent",
           NEW pc \in Place, NEW key, NEW fd, NEW g, NEW ptr, Became(r, pc, key, fd, g, ptr),
           Advances(r), NameStep, pc \in Running => op[r].pc \in Running \/ Idle(r)
    PROVE  Forward
<1>1. /\ op'[r].pc = pc /\ op'[r].in = op[r].in
      /\ \A q \in Request : q # r => op'[q] = op[q]
  BY BecameFields
<1>2. pc # "unsent"
  BY DEF Place, Running, Ended
<1>3. ASSUME NEW q \in Request
      PROVE  Advances(q)
  BY <1>1 DEF Advances
<1>4. ASSUME NEW q \in Request
      PROVE  RunsOn(q)
  BY <1>1 DEF RunsOn
<1>5. ASSUME NEW q \in Request
      PROVE  SameRequest(q)
  BY <1>1, <1>2 DEF SameRequest
<1> QED
  BY <1>3, <1>4, <1>5 DEF Forward

\* A step that leaves the requests and the name alone.
LEMMA ForwardStill ==
    ASSUME UNCHANGED <<link, gen, op>>
    PROVE  Forward
BY DEF Forward, NameStep, NameStays, Advances, RunsOn, SameRequest

\* Handlers go forward.
LEMMA HandlerForward ==
    ASSUME TypeOK, NEW r \in Request, Handler(r)
    PROVE  Forward
<1>0. /\ op \in [Request -> OpState] /\ link \in Key /\ gen \in [Inode -> Nat]
      /\ (link # None => link \in Inode) /\ None \in Key /\ \A i \in Inode : i \in Key
  BY DEF TypeOK, Key
<1>h. op[r].pc \in Running /\ op[r].pc # "unsent"
  BY DEF Handler, Resolve, pvfs_create_file, CreateCollides, Register, ResolveAgain, pvfs_open,
         AbortOpen, CheckDelete, RemoveName, CloseEntry, pvfs_unlink_one, Running
<1>p. \A pc \in Running \cup Ended \cup {"opened", "wait"} : pc \in Place
  BY DEF Place
<1>q. /\ {"resolve", "create", "register", "again", "open", "abort", "unlink", "check", "remove",
          "close", "failed", "closed", "opened", "wait"} \subseteq Place
  BY DEF Place, Running, Ended
<1>g. ASSUME NEW pc \in Place, Goto(r, pc)
      PROVE  Became(r, pc, op[r].key, op[r].fd, op[r].gen, op[r].ptr)
  BY <1>0, <1>h, <1>g, BecameGoto DEF Goto
<1>n. UNCHANGED <<link, gen>> => NameStep
  BY DEF NameStep, NameStays
<1>a. ASSUME NEW pc \in Place, Goto(r, pc), pc \notin Held, NameStep
      PROVE  Forward
  <2>1. Became(r, pc, op[r].key, op[r].fd, op[r].gen, op[r].ptr)
    BY <1>a, <1>g
  <2>2. op'[r].pc = pc
    BY <2>1, BecameFields
  <2>3. Advances(r)
    BY <1>a, <2>2 DEF Advances
  <2> QED
    BY <1>a, <1>h, <2>1, <2>3, ForwardBecame
<1>b. ASSUME NEW pc \in Place, NEW k \in Key, op' = [op EXCEPT ![r].key = k, ![r].pc = pc],
             pc \notin Held, NameStep
      PROVE  Forward
  <2>1. Became(r, pc, k, op[r].fd, op[r].gen, op[r].ptr)
    BY <1>0, <1>h, <1>b, BecameKey
  <2>2. op'[r].pc = pc
    BY <2>1, BecameFields
  <2>3. Advances(r)
    BY <1>b, <2>2 DEF Advances
  <2> QED
    BY <1>b, <1>h, <2>1, <2>3, ForwardBecame
<1>f. "failed" \notin Held /\ "closed" \notin Held /\ "again" \notin Held /\ "create" \notin Held
      /\ "open" \notin Held /\ "abort" \notin Held /\ "wait" \notin Held
  BY DEF Held
<1>1. CASE Resolve(r)
  <2>1. op[r].pc = "resolve" /\ UNCHANGED <<link, gen>>
    BY <1>1 DEF Resolve
  <2>2. \/ Goto(r, "failed")
        \/ \E pc \in {"create", "open"} : op' = [op EXCEPT ![r].key = link, ![r].pc = pc]
        \/ /\ link # None /\ op[r].in.disp = "unlink"
           /\ op' = [op EXCEPT ![r].key = link, ![r].pc = "unlink"]
    BY <1>1 DEF Resolve, Fail
  <2>3. CASE Goto(r, "failed")
    BY <1>a, <1>f, <1>n, <1>q, <2>1, <2>3
  <2>4. CASE \E pc \in {"create", "open"} : op' = [op EXCEPT ![r].key = link, ![r].pc = pc]
    BY <1>0, <1>b, <1>f, <1>n, <1>q, <2>1, <2>4
  <2>5. CASE /\ link # None /\ op[r].in.disp = "unlink"
             /\ op' = [op EXCEPT ![r].key = link, ![r].pc = "unlink"]
    <3>1. Became(r, "unlink", link, op[r].fd, op[r].gen, op[r].ptr)
      BY <1>0, <1>h, <1>q, <2>5, BecameKey
    <3>2. op'[r].pc = "unlink" /\ op'[r].key = link
      BY <3>1, BecameFields
    <3>3. Advances(r)
      BY <1>0, <2>1, <2>5, <3>2 DEF Advances
    <3> QED
      BY <1>h, <1>n, <1>q, <2>1, <3>1, <3>3, ForwardBecame
  <2> QED
    BY <2>2, <2>3, <2>4, <2>5
<1>2. ASSUME NEW i \in Inode, pvfs_create_file(r, i)
      PROVE  Forward
  <2>1. /\ op[r].pc = "create" /\ link = None /\ link' = i
        /\ gen' = [gen EXCEPT ![i] = @ + 1]
        /\ op' = [op EXCEPT ![r].pc = "register", ![r].key = i, ![r].fd = i, ![r].gen = gen'[i]]
    BY <1>2 DEF pvfs_create_file
  <2>2. gen'[i] \in Nat
    BY <1>0, <2>1
  <2>3. Became(r, "register", i, i, gen'[i], op[r].ptr)
    BY <1>0, <1>h, <1>q, <2>1, <2>2, BecameCreated
  <2>4. op'[r].pc = "register" /\ op'[r].key = i /\ op'[r].gen = gen'[i]
    BY <2>3, BecameFields
  <2>5. Advances(r)
    BY <2>1, <2>4 DEF Advances
  <2>6. NameStep
    BY <2>1 DEF NameStep, NameMade
  <2> QED
    BY <1>h, <1>q, <2>3, <2>5, <2>6, ForwardBecame
<1>3. CASE CreateCollides(r)
  <2>1. (Goto(r, "failed") \/ Goto(r, "again")) /\ UNCHANGED <<link, gen>>
    BY <1>3 DEF CreateCollides, Fail
  <2> QED
    BY <1>a, <1>f, <1>n, <1>q, <2>1
<1>4. CASE Register(r)
  <2>1. op[r].pc = "register" /\ UNCHANGED <<link, gen>>
    BY <1>4 DEF Register
  <2>2. CASE Goto(r, "opened")
    <3>1. Became(r, "opened", op[r].key, op[r].fd, op[r].gen, op[r].ptr)
      BY <1>g, <1>q, <2>2
    <3>2. op'[r].pc = "opened" /\ op'[r].key = op[r].key /\ op'[r].gen = op[r].gen
      BY <3>1, BecameFields
    <3>3. Advances(r)
      BY <2>1, <3>2 DEF Advances, Stays
    <3> QED
      BY <1>h, <1>n, <1>q, <2>1, <3>1, <3>3, ForwardBecame
  <2>3. CASE op' = [op EXCEPT ![r].pc = "failed", ![r].fd = None]
    <3>1. Became(r, "failed", op[r].key, None, op[r].gen, op[r].ptr)
      BY <1>0, <1>h, <1>q, <2>3, BecameFd
    <3>2. op'[r].pc = "failed"
      BY <3>1, BecameFields
    <3>3. Advances(r)
      BY <1>f, <3>2 DEF Advances
    <3> QED
      BY <1>h, <1>n, <1>q, <2>1, <3>1, <3>3, ForwardBecame
  <2> QED
    BY <1>4, <2>2, <2>3 DEF Register
<1>5. CASE ResolveAgain(r)
  <2>1. op' = [op EXCEPT ![r].key = link, ![r].pc = "open"] /\ UNCHANGED <<link, gen>>
    BY <1>5 DEF ResolveAgain
  <2> QED
    BY <1>0, <1>b, <1>f, <1>n, <1>q, <2>1
<1>6. CASE pvfs_open(r)
  <2>1. op[r].pc = "open" /\ UNCHANGED <<link, gen>>
    BY <1>6 DEF pvfs_open
  <2>2. \/ Goto(r, "failed") \/ Goto(r, "abort")
        \/ \E a \in FreeAddr(r) : op' = [op EXCEPT ![r].pc = "wait", ![r].ptr = a]
        \/ /\ link # None /\ op[r].key \in {link, None}
           /\ op' = [op EXCEPT ![r].pc = "opened", ![r].fd = link, ![r].gen = gen[link]]
    BY <1>6 DEF pvfs_open, OpenGranted, pvfs_open_setup_retry, OpenRefused, Fail
  <2>3. CASE Goto(r, "failed") \/ Goto(r, "abort")
    BY <1>a, <1>f, <1>n, <1>q, <2>1, <2>3
  <2>4. ASSUME NEW a \in FreeAddr(r), op' = [op EXCEPT ![r].pc = "wait", ![r].ptr = a]
        PROVE  Forward
    <3>0. a \in Addr \cup {None}
      BY DEF FreeAddr
    <3>1. Became(r, "wait", op[r].key, op[r].fd, op[r].gen, a)
      BY <1>0, <1>h, <1>q, <2>4, <3>0, BecamePtr
    <3>2. op'[r].pc = "wait"
      BY <3>1, BecameFields
    <3>3. Advances(r)
      BY <1>f, <3>2 DEF Advances
    <3> QED
      BY <1>h, <1>n, <1>q, <2>1, <3>1, <3>3, ForwardBecame
  <2>5. CASE /\ link # None /\ op[r].key \in {link, None}
             /\ op' = [op EXCEPT ![r].pc = "opened", ![r].fd = link, ![r].gen = gen[link]]
    <3>0. link \in Inode /\ gen[link] \in Nat
      BY <1>0, <2>5
    <3>1. Became(r, "opened", op[r].key, link, gen[link], op[r].ptr)
      BY <1>0, <1>h, <1>q, <2>5, <3>0, BecameOpen
    <3>2. op'[r].pc = "opened" /\ op'[r].key = op[r].key /\ op'[r].gen = gen[link]
      BY <3>1, BecameFields
    <3>3. Advances(r)
      BY <2>1, <2>5, <3>0, <3>2 DEF Advances
    <3> QED
      BY <1>h, <1>n, <1>q, <2>1, <3>1, <3>3, ForwardBecame
  <2> QED
    BY <2>2, <2>3, <2>4, <2>5
<1>7. CASE AbortOpen(r)
  BY <1>7, <1>a, <1>f, <1>n, <1>q DEF AbortOpen, Fail
<1>8. CASE CheckDelete(r)
  <2> DEFINE pc == IF DeleteNow(odb[op[r].key]) THEN "remove" ELSE "close"
  <2>1. op[r].pc = "check" /\ UNCHANGED <<link, gen, odb>> /\ Goto(r, pc) /\ pc \in Place
    BY <1>8, <1>q DEF CheckDelete
  <2>2. Became(r, pc, op[r].key, op[r].fd, op[r].gen, op[r].ptr)
    <3> HIDE DEF pc
    <3> QED
      BY <1>g, <2>1
  <2>3. op'[r].pc = pc /\ op'[r].key = op[r].key /\ op'[r].gen = op[r].gen
    <3> HIDE DEF pc
    <3> QED
      BY <2>2, BecameFields
  <2>4. Advances(r)
    BY <2>1, <2>3 DEF Advances, Stays
  <2> HIDE DEF pc
  <2> QED
    BY <1>h, <1>n, <2>1, <2>2, <2>4, ForwardBecame
<1>9. CASE RemoveName(r)
  <2>1. op[r].pc = "remove" /\ link' = None /\ UNCHANGED gen /\ Goto(r, "close")
    BY <1>9 DEF RemoveName
  <2>2. Became(r, "close", op[r].key, op[r].fd, op[r].gen, op[r].ptr)
    BY <1>g, <1>q, <2>1
  <2>3. op'[r].pc = "close" /\ op'[r].key = op[r].key /\ op'[r].gen = op[r].gen
    BY <2>2, BecameFields
  <2>4. Advances(r)
    BY <2>1, <2>3 DEF Advances, Stays
  <2>5. NameStep
    BY <2>1, <2>3 DEF NameStep, NameRemoved
  <2> QED
    BY <1>h, <1>q, <2>2, <2>4, <2>5, ForwardBecame
<1>10. CASE CloseEntry(r)
  BY <1>10, <1>a, <1>f, <1>n, <1>q DEF CloseEntry
<1>11. CASE pvfs_unlink_one(r)
  <2>1. /\ op[r].pc = "unlink" /\ UNCHANGED gen /\ Goto(r, "closed")
        /\ link' = IF odb_tdb_can_open(odb[op[r].key]) THEN None ELSE link
    BY <1>11 DEF pvfs_unlink_one
  <2>2. op'[r].pc = "closed"
    BY <1>g, <1>q, <2>1, BecameFields
  <2>3. NameStep
    BY <2>1, <2>2 DEF NameStep, NameUnlinked, NameStays
  <2> QED
    BY <1>a, <1>f, <1>q, <2>1, <2>3
<1> QED
  BY <1>1, <1>2, <1>3, <1>4, <1>5, <1>6, <1>7, <1>8, <1>9, <1>10, <1>11 DEF Handler

\* Every step goes forward.
LEMMA StepForward ==
    ASSUME TypeOK, [Next]_vars
    PROVE  Forward
<1>0. op \in [Request -> OpState] /\ None \in Key
  BY DEF TypeOK, Key
<1>q. {"resolve", "check", "failed"} \subseteq Place
  BY DEF Place, Running, Ended
<1>n. UNCHANGED <<link, gen>> => NameStep
  BY DEF NameStep, NameStays
<1>1. ASSUME NEW r \in Request, NEW in \in Inputs[r], Start(r, in)
      PROVE  Forward
  <2>1. /\ Arrives(r, in) /\ Idle(r) /\ UNCHANGED <<link, gen>>
    BY <1>1 DEF Start, Arrives, Rec, Unsent
  <2>2. /\ op'[r] = Rec("resolve", in, None, None, 0, None)
        /\ \A q \in Request : q # r => op'[q] = op[q]
    BY <1>0, <2>1 DEF Arrives
  <2>3. op'[r].pc = "resolve" /\ op'[r].in = in /\ op[r].pc = "unsent"
    BY <2>1, <2>2, RecFields DEF Arrives
  <2>4. ASSUME NEW q \in Request
        PROVE  Advances(q) /\ RunsOn(q) /\ SameRequest(q)
    <3>1. CASE q = r
      BY <2>1, <2>2, <2>3, <3>1 DEF Advances, RunsOn, SameRequest, Held
    <3>2. CASE q # r
      BY <2>2, <3>2 DEF Advances, RunsOn, SameRequest
    <3> QED
      BY <3>1, <3>2
  <2> QED
    BY <1>n, <2>1, <2>4 DEF Forward
<1>2. ASSUME NEW r \in Request, NEW pc \in {"resolve", "failed"}, Waits(r),
             op' = [op EXCEPT ![r].pc = pc, ![r].ptr = None], UNCHANGED <<link, gen>>
      PROVE  Forward
  <2>1. op[r].pc = "wait" /\ op[r].pc # "unsent" /\ Idle(r)
    BY <1>2 DEF Waits
  <2>2. Became(r, pc, op[r].key, op[r].fd, op[r].gen, None)
    BY <1>0, <1>q, <1>2, <2>1, BecamePtr
  <2>3. op'[r].pc = pc
    BY <2>2, BecameFields
  <2>4. Advances(r)
    BY <2>3 DEF Advances, Held
  <2> QED
    BY <1>n, <1>q, <1>2, <2>1, <2>2, <2>4, ForwardBecame
<1>3. ASSUME NEW r \in Request, RetryOpen(r) \/ TimeoutOpen(r)
      PROVE  Forward
  BY <1>2, <1>3 DEF RetryOpen, TimeoutOpen
<1>4. ASSUME NEW r \in Request, StartClose(r)
      PROVE  Forward
  <2>1. /\ op[r].pc = "opened" /\ op[r].pc # "unsent" /\ Idle(r) /\ UNCHANGED <<link, gen>>
        /\ op' = [op EXCEPT ![r].pc = "check", ![r].fd = None]
    BY <1>4 DEF StartClose
  <2>2. Became(r, "check", op[r].key, None, op[r].gen, op[r].ptr)
    BY <1>0, <1>q, <2>1, BecameFd
  <2>3. op'[r].pc = "check" /\ op'[r].key = op[r].key /\ op'[r].gen = op[r].gen
    BY <2>2, BecameFields
  <2>4. Advances(r)
    BY <2>1, <2>3 DEF Advances, Stays
  <2> QED
    BY <1>n, <1>q, <2>1, <2>2, <2>4, ForwardBecame
<1>5. ASSUME \/ \E p \in OdbPending : DropNotice(p)
             \/ \E r \in Request, b \in BOOLEAN : pvfs_set_delete_on_close(r, b)
             \/ UNCHANGED vars
      PROVE  Forward
  BY <1>5, ForwardStill DEF DropNotice, pvfs_set_delete_on_close, vars
<1> QED
  BY <1>1, <1>3, <1>4, <1>5, HandlerForward DEF Next

\* What a step does to the record of a file.
RecordStays(k) ==
    /\ odb'[k].entries = odb[k].entries
    /\ odb'[k].delete => odb[k].delete
    /\ odb[k].entries # <<>> => odb'[k].delete = odb[k].delete

RecordEntered(k, r) ==
    LET e == EntryOf(r, op[r].in.delete)
    IN  /\ op[r].pc \in {"register", "open"} /\ op[r].key = k
        /\ odb_tdb_open_file(odb[k], e) = "ok"
        /\ odb'[k].entries = Append(odb[k].entries, e) /\ odb'[k].delete = odb[k].delete

RecordLeft(k, r) ==
    /\ op[r].pc \in {"abort", "close"} /\ op'[r].pc \in {"failed", "closed"} /\ op[r].key = k
    /\ \A i \in DOMAIN odb'[k].entries :
          \E j \in DOMAIN odb[k].entries : odb'[k].entries[i] = odb[k].entries[j]
    /\ odb'[k].delete =>
          odb[k].delete \/ \E j \in DOMAIN odb[k].entries : odb[k].entries[j].delete

RecordMarked(k, r) ==
    /\ op[r].pc = "opened" /\ Idle(r) /\ "D" \in op[r].in.access /\ op[r].key = k
    /\ odb'[k].entries = odb[k].entries

RecordStep(k) ==
    RecordStays(k) \/ \E r \in Request : RecordEntered(k, r) \/ RecordLeft(k, r) \/ RecordMarked(k, r)

\* odb_tdb_close_file leaves entries that were there, and a flag that was set
\* in the record or in an entry.
LEMMA ClosedFlag ==
    ASSUME NEW file \in OdbFile, NEW h
    PROVE  LET x == odb_tdb_close_file(file, h)
           IN  /\ \A i \in DOMAIN x.entries : \E j \in DOMAIN file.entries : x.entries[i] = file.entries[j]
               /\ x.delete => file.delete \/ \E j \in DOMAIN file.entries : file.entries[j].delete
<1> DEFINE P == {i \in 1 .. Len(file.entries) : file.entries[i].handle = h}
           k == IF P # {} THEN Min(P) ELSE 0
           y == [entries |-> RemoveAt(file.entries, k),
                 delete |-> file.delete \/ file.entries[k].delete, pending |-> <<>>]
           x == odb_tdb_close_file(file, h)
<1>1. file.entries \in Seq(OdbEntry) /\ P \in SUBSET Nat
  BY DEF OdbFile
<1>2. P # {} => k \in P
  BY <1>1, MinNat
<1>3. x = IF k = 0 THEN file ELSE odb_push_record(y)
  BY DEF odb_tdb_close_file, SelectInSeq
<1>4. k = 0 \/ k \in DOMAIN file.entries
  BY <1>1, <1>2
<1>5. y.entries = RemoveAt(file.entries, k) /\ (y.delete <=> file.delete \/ file.entries[k].delete)
  OBVIOUS
<1> HIDE DEF x, y, k
<1>6. NoFile.entries = <<>> /\ ~NoFile.delete
  BY DEF NoFile
<1>7. CASE k = 0
  BY <1>3, <1>7 DEF x
<1>8. CASE k \in DOMAIN file.entries
  <2>1. k # 0 /\ Keeps(RemoveAt(file.entries, k), file.entries, DOMAIN file.entries \ {k})
    BY <1>1, <1>8, RemoveAtKeeps
  <2>2. \A i \in DOMAIN y.entries : \E j \in DOMAIN file.entries : y.entries[i] = file.entries[j]
    BY <1>5, <2>1 DEF Keeps, KeptFrom
  <2>3. x = NoFile \/ x = y
    BY <1>3, <2>1 DEF odb_push_record
  <2> QED
    BY <1>5, <1>6, <1>8, <2>2, <2>3 DEF x
<1> QED
  BY <1>4, <1>7, <1>8

\* odb_tdb_remove_pending leaves the flag of a record that has entries.
LEMMA PendingFlag ==
    ASSUME NEW file \in OdbFile, NEW p
    PROVE  LET x == odb_tdb_remove_pending(file, p)
           IN  (x.delete => file.delete) /\ (file.entries # <<>> => x.delete = file.delete)
<1> DEFINE y == [file EXCEPT !.pending = RemoveFirst(file.pending, p)]
           x == odb_tdb_remove_pending(file, p)
<1>1. y.entries = file.entries /\ y.delete = file.delete
  BY DEF OdbFile
<1>2. x = odb_push_record(y)
  BY DEF odb_tdb_remove_pending
<1>3. ~NoFile.delete
  BY DEF NoFile
<1> HIDE DEF x, y
<1> QED
  BY <1>1, <1>2, <1>3 DEF odb_push_record, x

\* Every step does one of these to a record.
LEMMA RecordSteps ==
    ASSUME TypeOK, [Next]_vars
    PROVE  \A k \in Key : RecordStep(k)
<1>0. op \in [Request -> OpState] /\ odb \in [Key -> OdbFile] /\ \A k \in Key : odb[k] \in OdbFile
  BY DEF TypeOK
<1>s. ASSUME NEW k \in Key, odb'[k] = odb[k]
      PROVE  RecordStep(k)
  BY <1>s DEF RecordStep, RecordStays
<1>1. CASE UNCHANGED odb
  BY <1>1, <1>s
<1>k. \A r \in Request : op[r].pc # "unsent" => op[r].key \in Key
  BY <1>0, SentOp
<1>2. ASSUME NEW r \in Request, Enters(r)
      PROVE  \A k \in Key : RecordStep(k)
  <2> DEFINE e == EntryOf(r, op[r].in.delete)
             c == op[r].key
             s == Append(odb[c].entries, e)
  <2>1. /\ op[r].pc \in {"register", "open"} /\ odb_tdb_open_file(odb[c], e) = "ok"
        /\ odb' = [odb EXCEPT ![c].entries = s] /\ c \in Key
    BY <1>2, <1>k DEF Enters, AddEntry
  <2>2. odb'[c] = [odb[c] EXCEPT !.entries = s] /\ \A k \in Key : k # c => odb'[k] = odb[k]
    <3> HIDE DEF s, c
    <3> QED
      BY <1>0, <2>1
  <2>3. odb'[c].entries = s /\ odb'[c].delete = odb[c].delete
    <3> HIDE DEF s, c
    <3> QED
      BY <1>0, <2>1, <2>2 DEF OdbFile
  <2>4. RecordEntered(c, r)
    BY <2>1, <2>3 DEF RecordEntered
  <2> QED
    BY <1>s, <2>2, <2>4 DEF RecordStep
<1>3. ASSUME NEW r \in Request, Leaves(r)
      PROVE  \A k \in Key : RecordStep(k)
  <2> DEFINE c == op[r].key
  <2>1. /\ op[r].pc \in {"abort", "close"} /\ c \in Key
        /\ odb' = [odb EXCEPT ![c] = odb_tdb_close_file(@, r)]
    BY <1>3, <1>k DEF Leaves, OdbClose
  <2>p. op'[r].pc \in {"failed", "closed"}
    BY <1>3, BecameFields DEF Leaves, GoesTo
  <2>2. odb'[c] = odb_tdb_close_file(odb[c], r) /\ \A k \in Key : k # c => odb'[k] = odb[k]
    BY <1>0, <2>1
  <2>3. RecordLeft(c, r)
    <3>1. odb[c] \in OdbFile
      BY <1>0, <2>1
    <3> QED
      BY <2>p, <2>1, <2>2, <3>1, ClosedFlag DEF RecordLeft
  <2> QED
    BY <1>s, <2>1, <2>2, <2>3 DEF RecordStep
<1>4. ASSUME NEW r \in Request, NEW a, SetsUp(r, a)
      PROVE  \A k \in Key : RecordStep(k)
  <2> DEFINE c == op[r].key
             s == Append(odb[c].pending, [server |-> ServerOf[r], ptr |-> a])
  <2>1. c \in Key /\ odb' = [odb EXCEPT ![c].pending = s]
    BY <1>4, <1>k DEF SetsUp
  <2> HIDE DEF s, c
  <2>2. odb'[c] = [odb[c] EXCEPT !.pending = s] /\ \A k \in Key : k # c => odb'[k] = odb[k]
    BY <1>0, <2>1
  <2>3. odb'[c].entries = odb[c].entries /\ odb'[c].delete = odb[c].delete
    BY <1>0, <2>1, <2>2 DEF OdbFile
  <2>4. RecordStep(c)
    BY <2>3 DEF RecordStep, RecordStays
  <2> QED
    BY <1>s, <2>2, <2>4
<1>5. ASSUME NEW r \in Request, TimeoutOpen(r)
      PROVE  \A k \in Key : RecordStep(k)
  <2> DEFINE c == op[r].key
  <2>1. c \in Key /\ odb' = [odb EXCEPT ![c] = odb_tdb_remove_pending(@, PendingOf(r))]
    BY <1>5, <1>k DEF TimeoutOpen, Waits
  <2>2. odb'[c] = odb_tdb_remove_pending(odb[c], PendingOf(r)) /\ \A k \in Key : k # c => odb'[k] = odb[k]
    BY <1>0, <2>1
  <2>3. RecordStays(c)
    <3>1. odb[c] \in OdbFile
      BY <1>0, <2>1
    <3> QED
      BY <2>2, <3>1, RemovedPending, PendingFlag DEF RecordStays
  <2> QED
    BY <1>s, <2>2, <2>3 DEF RecordStep
<1>6. ASSUME NEW r \in Request, NEW b \in BOOLEAN, pvfs_set_delete_on_close(r, b)
      PROVE  \A k \in Key : RecordStep(k)
  <2>1. /\ op[r].pc = "opened" /\ Idle(r) /\ "D" \in op[r].in.access
        /\ odb' = [odb EXCEPT ![op[r].key].delete = b] /\ op[r].key \in Key
    BY <1>6, <1>k DEF pvfs_set_delete_on_close
  <2>2. \A k \in Key : odb'[k].entries = odb[k].entries
    BY <1>0, <2>1, SetDelete
  <2>3. \A k \in Key : k # op[r].key => odb'[k] = odb[k]
    BY <1>0, <2>1
  <2>4. RecordMarked(op[r].key, r)
    BY <2>1, <2>2 DEF RecordMarked
  <2> QED
    BY <1>s, <2>3, <2>4 DEF RecordStep
<1>7. ASSUME NEW r \in Request, Handler(r)
      PROVE  \A k \in Key : RecordStep(k)
  <2>1. Walks(r) \/ Enters(r) \/ Leaves(r) \/ \E a \in Addr : SetsUp(r, a)
    BY <1>7, HandlerEffect
  <2> QED
    BY <1>1, <1>2, <1>3, <1>4, <2>1 DEF Walks
<1>8. ASSUME \/ \E r \in Request : \E in \in Inputs[r] : Start(r, in)
             \/ \E r \in Request : RetryOpen(r) \/ StartClose(r)
             \/ \E p \in OdbPending : DropNotice(p)
             \/ UNCHANGED vars
      PROVE  UNCHANGED odb
  BY <1>8 DEF Start, RetryOpen, StartClose, DropNotice, vars
<1> QED
  BY <1>1, <1>5, <1>6, <1>7, <1>8 DEF Next

\* Every entry was there before the step, or is that of a request that opens.
LEMMA EntriesBefore ==
    ASSUME TypeOK, NEW k \in Key, RecordStep(k), NEW i \in DOMAIN odb'[k].entries
    PROVE  \/ \E j \in DOMAIN odb[k].entries : odb'[k].entries[i] = odb[k].entries[j]
           \/ \E r \in Request : /\ RecordEntered(k, r)
                                 /\ odb'[k].entries[i] = EntryOf(r, op[r].in.delete)
<1>1. CASE RecordStays(k) \/ \E r \in Request : RecordLeft(k, r) \/ RecordMarked(k, r)
  BY <1>1 DEF RecordStays, RecordLeft, RecordMarked
<1>2. ASSUME NEW r \in Request, RecordEntered(k, r)
      PROVE  \/ \E j \in DOMAIN odb[k].entries : odb'[k].entries[i] = odb[k].entries[j]
             \/ odb'[k].entries[i] = EntryOf(r, op[r].in.delete)
  <2> DEFINE e == EntryOf(r, op[r].in.delete)
             t == odb[k].entries
  <2>1. op[r].pc # "unsent" /\ odb'[k].entries = Append(t, e)
    BY <1>2 DEF RecordEntered
  <2>2. t \in Seq(OdbEntry) /\ e \in OdbEntry
    BY <2>1, EntryIsEntry DEF TypeOK, OdbFile
  <2> HIDE DEF t, e
  <2>3. i \in DOMAIN t \cup {Len(t) + 1} /\ Append(t, e)[Len(t) + 1] = e
        /\ \A x \in DOMAIN t : Append(t, e)[x] = t[x]
    BY <2>1, <2>2, AppendPlaces
  <2>4. (\E j \in DOMAIN t : odb'[k].entries[i] = t[j]) \/ odb'[k].entries[i] = e
    BY <2>1, <2>3
  <2> QED
    BY <2>4 DEF t, e
<1> QED
  BY <1>1, <1>2 DEF RecordStep

\* What the entries of a record are, and whose.
LEMMA EntryKnown ==
    ASSUME TypeOK, Entries, AsSent, NEW k \in Key, NEW i \in DOMAIN odb[k].entries
    PROVE  LET e == odb[k].entries[i]
               h == e.handle
           IN  /\ h \in Request /\ Entered(h) /\ op[h].pc # "unsent" /\ op[h].key = k
               /\ e.access = op[h].in.access /\ e.share = op[h].in.share
               /\ op[h].in \in Inputs[h] /\ (e.delete => op[h].in.delete)
<1> DEFINE e == odb[k].entries[i]
           h == e.handle
<1>1. odb[k].entries \in Seq(OdbEntry)
  BY DEF TypeOK, OdbFile
<1>2. e \in OdbEntry
  BY <1>1
<1>3. h \in Request
  BY <1>2 DEF OdbEntry
<1>4. Entered(h) /\ op[h].key = k /\ e.access = op[h].in.access /\ e.share = op[h].in.share
  BY <1>3 DEF Entries, EntriesOwned
<1>5. op[h].pc # "unsent"
  BY <1>4 DEF Entered
<1> QED
  BY <1>3, <1>4, <1>5 DEF AsSent

\* A file that is open in another process is not going to be deleted.
LEMMA ForeignPlain ==
    ASSUME NEW s, OneDeleter(s), TypeOK, Entries, AsSent, MarkedOwn(s),
           NEW k \in Key, NEW i \in DOMAIN odb[k].entries, ServerOf[odb[k].entries[i].handle] # s
    PROVE  /\ ~odb[k].delete
           /\ \A j \in DOMAIN odb[k].entries :
                 ~odb[k].entries[j].delete /\ "D" \notin op[odb[k].entries[j].handle].in.access
<1>1. ~odb[k].delete
  BY DEF MarkedOwn
<1>2. ASSUME NEW j \in DOMAIN odb[k].entries,
             odb[k].entries[j].delete \/ "D" \in op[odb[k].entries[j].handle].in.access
      PROVE  FALSE
  <2> DEFINE e == odb[k].entries[j]
             f == odb[k].entries[i]
             h == e.handle
             g == f.handle
  <2>1. /\ h \in Request /\ e.access = op[h].in.access /\ e.share = op[h].in.share
        /\ op[h].in \in Inputs[h] /\ (e.delete => op[h].in.delete)
    BY EntryKnown
  <2>2. /\ g \in Request /\ f.access = op[g].in.access /\ f.share = op[g].in.share
        /\ op[g].in \in Inputs[g]
    BY EntryKnown
  <2>3. ServerOf[h] = s /\ share_conflict(op[h].in, op[g].in)
    BY <1>2, <2>1, <2>2 DEF OneDeleter
  <2>4. share_conflict(e, f)
    BY <2>1, <2>2, <2>3 DEF share_conflict
  <2>5. i # j
    BY <2>3
  <2> QED
    BY <2>4, <2>5 DEF Entries, NoConflicts
<1> QED
  BY <1>1, <1>2

\* A handle has its entry.
LEMMA HandleKnown ==
    ASSUME TypeOK, Entries, NEW r \in Request, Entered(r)
    PROVE  /\ op[r].key \in Key /\ odb[op[r].key].entries # <<>>
           /\ \E i \in DOMAIN odb[op[r].key].entries : odb[op[r].key].entries[i].handle = r
<1>1. op[r].pc # "unsent"
  BY DEF Entered
<1>2. op[r].key \in Key
  BY <1>1, SentOp DEF TypeOK
<1>3. PICK i \in DOMAIN odb[op[r].key].entries : odb[op[r].key].entries[i].handle = r
  BY DEF Entries, HandlesEntered
<1> QED
  BY <1>2, <1>3

\* The only handle of a record.
LEMMA LastHandle ==
    ASSUME TypeOK, Entries, NEW r \in Request, Entered(r), DeleteNow(odb[op[r].key])
    PROVE  /\ odb[op[r].key].entries[1].handle = r /\ DOMAIN odb[op[r].key].entries = {1}
           /\ \A q \in Request : Entered(q) /\ op[q].key = op[r].key => q = r
<1> DEFINE k == op[r].key
           t == odb[k].entries
<1>1. k \in Key /\ \E i \in DOMAIN t : t[i].handle = r
  BY HandleKnown
<1>2. t \in Seq(OdbEntry) /\ Len(t) = 1
  BY <1>1 DEF TypeOK, OdbFile, DeleteNow
<1>3. DOMAIN t = {1}
  <2> HIDE DEF t
  <2> QED
    BY <1>2
<1>4. t[1].handle = r
  BY <1>1, <1>3
<1>5. ASSUME NEW q \in Request, Entered(q), op[q].key = k
      PROVE  q = r
  BY <1>3, <1>4, <1>5, HandleKnown
<1> QED
  BY <1>3, <1>4, <1>5

-----------------------------------------------------------------------------

\* Requests are answered for what they asked for.
LEMMA AsSentStep ==
    ASSUME TypeOK, Entries, AsSent, Forward, \A k \in Key : RecordStep(k)
    PROVE  AsSent'
<1>1. ASSUME NEW r \in Request, op'[r].pc # "unsent"
      PROVE  op'[r].in \in Inputs[r]
  BY <1>1 DEF Forward, SameRequest, AsSent
<1>2. ASSUME NEW k \in Key, NEW i \in DOMAIN odb'[k].entries, odb'[k].entries[i].delete
      PROVE  op'[odb'[k].entries[i].handle].in.delete
  <2>1. ASSUME NEW j \in DOMAIN odb[k].entries, odb'[k].entries[i] = odb[k].entries[j]
        PROVE  op'[odb'[k].entries[i].handle].in.delete
    <3> DEFINE h == odb[k].entries[j].handle
    <3>1. h \in Request /\ op[h].pc # "unsent" /\ op[h].in.delete
      BY <1>2, <2>1, EntryKnown
    <3>2. op'[h].in = op[h].in
      BY <3>1 DEF Forward, SameRequest
    <3> QED
      BY <2>1, <3>1, <3>2
  <2>2. ASSUME NEW r \in Request, RecordEntered(k, r), odb'[k].entries[i] = EntryOf(r, op[r].in.delete)
        PROVE  op'[odb'[k].entries[i].handle].in.delete
    <3>1. odb'[k].entries[i].handle = r /\ op[r].in.delete
      BY <1>2, <2>2 DEF EntryOf
    <3>2. op[r].pc # "unsent"
      BY <2>2 DEF RecordEntered
    <3>3. op'[r].in = op[r].in
      BY <3>2 DEF Forward, SameRequest
    <3> QED
      BY <3>1, <3>3
  <2> QED
    BY <2>1, <2>2, EntriesBefore
<1> QED
  BY <1>1, <1>2 DEF AsSent

\* A process that runs a handler starts no other.
LEMMA OneRunnerStep ==
    ASSUME OneRunner, Forward
    PROVE  OneRunner'
<1> SUFFICES ASSUME NEW q \in Request, NEW r \in Request, op'[q].pc \in Running,
                    op'[r].pc \in Running, ServerOf[q] = ServerOf[r], q # r
             PROVE  FALSE
  BY DEF OneRunner
<1>1. RunsOn(q) /\ RunsOn(r)
  BY DEF Forward
<1>2. CASE op[q].pc \in Running /\ op[r].pc \in Running
  BY <1>2 DEF OneRunner
<1>3. CASE op[q].pc \notin Running
  BY <1>1, <1>3 DEF RunsOn, Idle
<1>4. CASE op[r].pc \notin Running
  BY <1>1, <1>4 DEF RunsOn, Idle
<1> QED
  BY <1>2, <1>3, <1>4

\* A file that is to be deleted is opened by nobody else.
LEMMA MarkedOwnStep ==
    ASSUME NEW s, OneDeleter(s), TypeOK, Entries, AsSent, MarkedOwn(s), \A k \in Key : RecordStep(k)
    PROVE  MarkedOwn(s)'
<1> SUFFICES ASSUME NEW k \in Key, odb'[k].delete, NEW i \in DOMAIN odb'[k].entries
             PROVE  ServerOf[odb'[k].entries[i].handle] = s
  BY DEF MarkedOwn
<1>1. CASE RecordStays(k)
  BY <1>1 DEF RecordStays, MarkedOwn
<1>2. ASSUME NEW r \in Request, RecordEntered(k, r)
      PROVE  FALSE
  BY <1>2 DEF RecordEntered, odb_tdb_open_file
<1>3. ASSUME NEW r \in Request, RecordLeft(k, r)
      PROVE  ServerOf[odb'[k].entries[i].handle] = s
  <2>1. PICK j \in DOMAIN odb[k].entries : odb'[k].entries[i] = odb[k].entries[j]
    BY <1>3 DEF RecordLeft
  <2>2. ServerOf[odb[k].entries[j].handle] = s
    BY <1>3, ForeignPlain DEF RecordLeft
  <2> QED
    BY <2>1, <2>2
<1>4. ASSUME NEW r \in Request, RecordMarked(k, r)
      PROVE  ServerOf[odb'[k].entries[i].handle] = s
  <2>1. Entered(r) /\ op[r].key = k /\ "D" \in op[r].in.access /\ odb'[k].entries = odb[k].entries
    BY <1>4 DEF RecordMarked, Entered
  <2>2. PICK j \in DOMAIN odb[k].entries : odb[k].entries[j].handle = r
    BY <2>1, HandleKnown
  <2>3. ServerOf[odb[k].entries[i].handle] = s
    BY <2>1, <2>2, ForeignPlain
  <2> QED
    BY <2>1, <2>3
<1> QED
  BY <1>1, <1>2, <1>3, <1>4 DEF RecordStep

\* The last handle of a file that is to be deleted stays the last while its
\* process removes the name.
LEMMA RemoveStays ==
    ASSUME NEW s, OneDeleter(s), TypeOK, Entries, AsSent, OneRunner, MarkedOwn(s), Removals(s),
           \A k \in Key : RecordStep(k), NEW r \in Request, op[r].pc = "remove"
    PROVE  DeleteNow(odb'[op[r].key])
<1> DEFINE k == op[r].key
           t == odb[k].entries
<1>1. /\ Entered(r) /\ op[r].pc \in Running /\ ServerOf[r] = s /\ DeleteNow(odb[k])
  BY DEF Entered, Running, Removals
<1>2. /\ k \in Key /\ t # <<>> /\ t[1].handle = r /\ DOMAIN t = {1}
      /\ \A q \in Request : Entered(q) /\ op[q].key = k => q = r
  BY <1>1, HandleKnown, LastHandle
<1>3. CASE RecordStays(k)
  BY <1>1, <1>2, <1>3 DEF RecordStays, DeleteNow
<1>4. ASSUME NEW q \in Request, RecordEntered(k, q)
      PROVE  FALSE
  <2> DEFINE e == EntryOf(q, op[q].in.delete)
  <2>1. /\ op[q].pc \in Running /\ op[q].pc # "unsent" /\ q # r
        /\ odb_tdb_open_file(odb[k], e) = "ok"
    BY <1>4 DEF RecordEntered, Running
  <2>2. ServerOf[q] # s
    BY <1>1, <2>1 DEF OneRunner
  <2>3. ~odb[k].delete /\ ~share_conflict(t[1], e)
    BY <1>2, <2>1 DEF odb_tdb_open_file
  <2>4. t[1].delete
    BY <1>1, <2>3 DEF DeleteNow
  <2>5. /\ t[1].access = op[r].in.access /\ t[1].share = op[r].in.share /\ op[r].in.delete
        /\ op[r].in \in Inputs[r]
    BY <1>2, <2>4, EntryKnown
  <2>6. op[q].in \in Inputs[q]
    BY <2>1 DEF AsSent
  <2>7. share_conflict(op[r].in, op[q].in)
    BY <2>2, <2>5, <2>6 DEF OneDeleter
  <2>8. e.access = op[q].in.access /\ e.share = op[q].in.share
    BY DEF EntryOf
  <2> QED
    BY <2>3, <2>5, <2>7, <2>8 DEF share_conflict
<1>5. ASSUME NEW q \in Request, RecordLeft(k, q) \/ RecordMarked(k, q)
      PROVE  FALSE
  BY <1>2, <1>5 DEF RecordLeft, RecordMarked, Entered
<1> QED
  BY <1>2, <1>3, <1>4, <1>5 DEF RecordStep

\* Names are removed by the process of the deletes, after the right file was
\* looked at.
LEMMA RemovalsStep ==
    ASSUME NEW s, OneDeleter(s), TypeOK, Entries, AsSent, OneRunner, MarkedOwn(s), Removals(s),
           Forward, \A k \in Key : RecordStep(k)
    PROVE  Removals(s)'
<1> SUFFICES ASSUME NEW r \in Request
             PROVE  /\ op'[r].pc \in {"remove", "unlink"} => ServerOf[r] = s
                    /\ op'[r].pc = "remove" => DeleteNow(odb'[op'[r].key])
                    /\ op'[r].pc = "unlink" => link' = op'[r].key /\ link' \in Inode
  BY DEF Removals
<1>0. Advances(r) /\ NameStep
  BY DEF Forward
<1>1. CASE op'[r].pc = "remove"
  <2>1. CASE op'[r] = op[r]
    <3>1. ServerOf[r] = s /\ DeleteNow(odb'[op[r].key])
      BY <1>1, <2>1, RemoveStays DEF Removals
    <3> QED
      BY <1>1, <2>1, <3>1
  <2>2. CASE /\ op[r].pc = "check" /\ Stays(r) /\ UNCHANGED odb /\ DeleteNow(odb[op[r].key])
    <3> DEFINE k == op[r].key
    <3>1. Entered(r)
      BY <2>2 DEF Entered
    <3>2. k \in Key /\ odb[k].entries[1].handle = r /\ DOMAIN odb[k].entries = {1}
      BY <2>2, <3>1, HandleKnown, LastHandle
    <3>3. ServerOf[r] = s
      <4>1. CASE odb[k].delete
        BY <3>2, <4>1 DEF MarkedOwn
      <4>2. CASE odb[k].entries[1].delete
        <5>1. op[r].in \in Inputs[r] /\ op[r].in.delete
          BY <3>2, <4>2, EntryKnown
        <5> QED
          BY <5>1 DEF OneDeleter
      <4> QED
        BY <2>2, <4>1, <4>2 DEF DeleteNow
    <3> QED
      BY <1>1, <2>2, <3>3 DEF Stays
  <2> QED
    BY <1>0, <1>1, <2>1, <2>2 DEF Advances, Held
<1>2. CASE op'[r].pc = "unlink"
  <2>1. CASE op'[r] = op[r]
    <3>1. op[r].pc = "unlink" /\ op[r].pc \in Running /\ ServerOf[r] = s /\ link = op[r].key /\ link \in Inode
      BY <1>2, <2>1 DEF Removals, Running
    <3>2. ~NameMade
      BY <3>1, OpenAssumption DEF NameMade
    <3>3. ASSUME NEW q \in Request, NameRemoved(q) \/ NameUnlinked(q)
          PROVE  FALSE
      <4>1. op[q].pc \in Running /\ ServerOf[q] = s /\ op'[q].pc \in {"close", "closed"}
        BY <3>3 DEF NameRemoved, NameUnlinked, Removals, Running
      <4>2. q = r
        BY <3>1, <4>1 DEF OneRunner
      <4> QED
        BY <1>2, <4>1, <4>2
    <3>4. UNCHANGED link
      BY <1>0, <3>2, <3>3 DEF NameStep, NameStays
    <3> QED
      BY <1>2, <2>1, <3>1, <3>4
  <2>2. CASE /\ op[r].pc = "resolve" /\ op[r].in.disp = "unlink"
             /\ link \in Inode /\ op'[r].key = link /\ UNCHANGED link
    <3>1. op[r].in \in Inputs[r]
      BY <2>2 DEF AsSent
    <3>2. ServerOf[r] = s
      BY <2>2, <3>1 DEF OneDeleter
    <3> QED
      BY <1>2, <2>2, <3>2
  <2> QED
    BY <1>0, <1>2, <2>1, <2>2 DEF Advances, Held
<1> QED
  BY <1>1, <1>2

\* A file that process s has open keeps its name.
LEMMA NameKept ==
    ASSUME NEW s, OneDeleter(s), TypeOK, Entries, AsSent, OneRunner, MarkedOwn(s), Removals(s), Names(s),
           Forward, NEW r \in Request, ServerOf[r] = s,
           op[r].pc \in {"register", "opened", "check", "remove"}, op'[r].pc # "close"
    PROVE  UNCHANGED <<link, gen>>
<1>1. link \in Inode /\ link = op[r].key
  BY DEF Names, IsLinked
<1>2. ~NameMade
  BY <1>1, OpenAssumption DEF NameMade
<1>3. ASSUME NEW q \in Request, NameRemoved(q)
      PROVE  FALSE
  <2>1. /\ op[q].pc = "remove" /\ op[q].pc \in Running /\ ServerOf[q] = s /\ Entered(q)
        /\ DeleteNow(odb[op[q].key]) /\ op[q].key = link /\ q # r
    BY <1>3 DEF NameRemoved, Removals, Names, IsLinked, Running, Entered
  <2>2. CASE op[r].pc \in Running
    BY <2>1, <2>2 DEF OneRunner
  <2>3. CASE op[r].pc = "opened"
    <3>1. Entered(r)
      BY <2>3 DEF Entered
    <3> QED
      BY <1>1, <2>1, <3>1, LastHandle
  <2> QED
    BY <2>2, <2>3 DEF Running
<1>4. ASSUME NEW q \in Request, NameUnlinked(q)
      PROVE  FALSE
  <2>1. /\ op[q].pc = "unlink" /\ op[q].pc \in Running /\ ServerOf[q] = s /\ op[q].key = link
        /\ odb[link].entries = <<>>
    BY <1>4 DEF NameUnlinked, Removals, Running, odb_tdb_can_open
  <2>2. op[r].pc \notin Running
    BY <2>1 DEF OneRunner
  <2>3. Entered(r)
    BY <2>2 DEF Entered, Running
  <2> QED
    BY <1>1, <2>1, <2>3, HandleKnown
<1> QED
  BY <1>2, <1>3, <1>4 DEF Forward, NameStep, NameStays

\* A file that has lost its name does not get it back: the inode is given to
\* another file.
LEMMA NameGone ==
    ASSUME TypeOK, NameStep, NEW k \in Inode, NEW g \in Nat, g <= gen[k]
    PROVE  g <= gen'[k] /\ (~(link = k /\ gen[k] = g) => ~(link' = k /\ gen'[k] = g))
<1>1. gen \in [Inode -> Nat]
  BY DEF TypeOK
<1>2. CASE NameStays
  BY <1>2 DEF NameStays
<1>3. CASE NameMade
  <2>1. PICK i \in Inode : link' = i /\ gen' = [gen EXCEPT ![i] = @ + 1]
    BY <1>3 DEF NameMade
  <2>2. gen[k] \in Nat /\ gen'[k] = IF k = i THEN gen[k] + 1 ELSE gen[k]
    BY <1>1, <2>1
  <2> QED
    BY <2>1, <2>2
<1>4. ASSUME NEW r \in Request, NameRemoved(r) \/ NameUnlinked(r)
      PROVE  link' = None /\ UNCHANGED gen
  BY <1>4 DEF NameRemoved, NameUnlinked
<1>5. None # k
  BY OpenAssumption
<1> QED
  BY <1>2, <1>3, <1>4, <1>5 DEF NameStep

\* A file that was not to be deleted when the closer asked is not to be deleted
\* when it closes.
LEMMA CloseStays ==
    ASSUME NEW s, OneDeleter(s), TypeOK, TypeOK', Entries, AsSent, OneRunner, MarkedOwn(s),
           \A k \in Key : RecordStep(k), NEW r \in Request, ServerOf[r] = s, op[r].pc = "close",
           op'[r].pc = "close", ~DeleteNow(odb[op[r].key])
    PROVE  ~DeleteNow(odb'[op[r].key])
<1> DEFINE k == op[r].key
           t == odb[k].entries
           u == odb'[k].entries
<1>0. Entered(r) /\ op[r].pc \in Running
  BY DEF Entered, Running
<1>1. k \in Key /\ t # <<>> /\ \E i \in DOMAIN t : t[i].handle = r
  BY <1>0, HandleKnown
<1>2. t \in Seq(OdbEntry) /\ u \in Seq(OdbEntry)
  BY <1>1 DEF TypeOK, OdbFile
<1>3. CASE RecordStays(k)
  BY <1>3 DEF RecordStays, DeleteNow
<1>4. ASSUME NEW q \in Request, RecordEntered(k, q)
      PROVE  ~DeleteNow(odb'[k])
  <2>1. u = Append(t, EntryOf(q, op[q].in.delete)) /\ Len(t) # 0
    BY <1>1, <1>2, <1>4 DEF RecordEntered
  <2>2. Len(u) = Len(t) + 1 /\ Len(t) \in Nat
    <3> HIDE DEF t, u
    <3> QED
      BY <1>2, <2>1
  <2> QED
    BY <2>1, <2>2 DEF DeleteNow
<1>5. ASSUME NEW q \in Request, RecordLeft(k, q)
      PROVE  ~DeleteNow(odb'[k])
  <2>1. op[q].pc \in Running /\ Entered(q) /\ op[q].key = k /\ q # r
    BY <1>5 DEF RecordLeft, Running, Entered
  <2>2. ServerOf[q] # s
    BY <1>0, <2>1 DEF OneRunner
  <2>3. PICK i \in DOMAIN t : t[i].handle = q
    BY <2>1, HandleKnown
  <2>4. ~odb[k].delete /\ \A j \in DOMAIN t : ~t[j].delete
    BY <1>1, <2>2, <2>3, ForeignPlain
  <2>5. ~odb'[k].delete /\ \A m \in DOMAIN u : ~u[m].delete
    BY <1>5, <2>4 DEF RecordLeft
  <2>6. Len(u) = 1 => 1 \in DOMAIN u
    <3> HIDE DEF u
    <3> QED
      BY <1>2
  <2> QED
    BY <2>5, <2>6 DEF DeleteNow
<1>6. ASSUME NEW q \in Request, RecordMarked(k, q)
      PROVE  FALSE
  <2>1. Entered(q) /\ op[q].pc # "unsent" /\ Idle(q) /\ "D" \in op[q].in.access
    BY <1>6 DEF RecordMarked, Entered
  <2>2. op[q].in \in Inputs[q]
    BY <2>1 DEF AsSent
  <2>3. ServerOf[q] = s
    BY <2>1, <2>2 DEF OneDeleter
  <2> QED
    BY <1>0, <2>1, <2>3 DEF Idle
<1> QED
  BY <1>1, <1>3, <1>4, <1>5, <1>6 DEF RecordStep

\* The files of process s have their names.
LEMMA NamesStep ==
    ASSUME NEW s, OneDeleter(s), TypeOK, TypeOK', Entries, AsSent, OneRunner, MarkedOwn(s), Removals(s),
           Names(s), NamesFound, Forward, \A k \in Key : RecordStep(k)
    PROVE  Names(s)'
<1>0. gen \in [Inode -> Nat] /\ op \in [Request -> OpState] /\ NameStep
  BY DEF TypeOK, Forward
<1> SUFFICES ASSUME NEW r \in Request, ServerOf[r] = s
             PROVE  /\ op'[r].pc \in {"register", "opened", "check", "remove"} =>
                         link' \in Inode /\ IsLinked(r)'
                    /\ op'[r].pc = "close" =>
                         /\ op'[r].key \in Inode /\ op'[r].gen <= gen'[op'[r].key]
                         /\ ~(IsLinked(r)' /\ DeleteNow(odb'[op'[r].key]))
  BY DEF Names
<1>1. Advances(r)
  BY DEF Forward
<1>2. CASE op'[r].pc \in {"register", "opened", "check", "remove"}
  <2>1. CASE /\ op[r].pc \in {"register", "opened", "check", "remove"} /\ Stays(r)
    <3>1. link \in Inode /\ link = op[r].key /\ gen[link] = op[r].gen
      BY <2>1 DEF Names, IsLinked
    <3>2. UNCHANGED <<link, gen>>
      BY <1>2, <2>1, NameKept
    <3> QED
      BY <1>2, <2>1, <3>1, <3>2 DEF Stays, IsLinked
  <2>2. CASE /\ op'[r].pc = "register" /\ op'[r].key \in Inode
             /\ link' = op'[r].key /\ op'[r].gen = gen'[link']
    BY <2>2 DEF IsLinked
  <2>3. CASE /\ op[r].pc = "open" /\ op'[r].pc = "opened" /\ link \in Inode /\ UNCHANGED <<link, gen>>
             /\ op[r].key \in {link, None} /\ op'[r].key = op[r].key /\ op'[r].gen = gen[link]
    <3>1. link # None
      BY <2>3, OpenAssumption
    <3>2. op[r].key = link
      BY <2>3, <3>1 DEF NamesFound
    <3> QED
      BY <2>3, <3>2 DEF IsLinked
  <2>4. op'[r] = op[r] => Stays(r)
    BY DEF Stays
  <2> QED
    BY <1>1, <1>2, <2>1, <2>2, <2>3, <2>4 DEF Advances, Held
<1>3. CASE op'[r].pc = "close"
  <2>a. ASSUME op[r].pc \in {"check", "remove"}
        PROVE  op[r].key \in Inode /\ op[r].gen = gen[op[r].key] /\ gen[op[r].key] \in Nat
    BY <1>0, <2>a DEF Names, IsLinked
  <2>1. CASE op'[r] = op[r]
    <3> DEFINE k == op[r].key
               g == op[r].gen
    <3>1. k \in Inode /\ g <= gen[k] /\ ~(link = k /\ gen[k] = g /\ DeleteNow(odb[k]))
      BY <1>3, <2>1 DEF Names, IsLinked
    <3>2. g \in Nat
      <4>1. op[r] \in Sent
        BY <1>0, <1>3, <2>1, SentOp
      <4> QED
        BY <4>1 DEF Sent
    <3>3. g <= gen'[k] /\ (~(link = k /\ gen[k] = g) => ~(link' = k /\ gen'[k] = g))
      <4> HIDE DEF k, g
      <4> QED
        BY <1>0, <3>1, <3>2, NameGone
    <3>4. ~DeleteNow(odb[k]) => ~DeleteNow(odb'[k])
      BY <1>3, <2>1, CloseStays
    <3> QED
      BY <1>3, <2>1, <3>1, <3>3, <3>4 DEF IsLinked
  <2>2. CASE /\ op[r].pc = "check" /\ Stays(r) /\ UNCHANGED <<link, gen, odb>>
             /\ ~DeleteNow(odb[op[r].key])
    BY <1>3, <2>2, <2>a DEF Stays
  <2>3. CASE op[r].pc = "remove" /\ Stays(r) /\ link' = None /\ UNCHANGED gen
    <3>1. link' # op'[r].key
      BY <2>3, <2>a, OpenAssumption DEF Stays
    <3> QED
      BY <1>3, <2>3, <2>a, <3>1 DEF Stays, IsLinked
  <2> QED
    BY <1>1, <1>3, <2>1, <2>2, <2>3 DEF Advances, Held
<1> QED
  BY <1>2, <1>3

\* The invariant holds at the start.
LEMMA DeleteInvInit ==
    ASSUME NEW s
    PROVE  Init => DeleteInv(s)
<1> SUFFICES ASSUME Init
             PROVE  DeleteInv(s)
  OBVIOUS
<1>1. /\ \A r \in Request : op[r].pc = "unsent"
      /\ \A k \in Key : odb[k].entries = <<>>
  BY DEF Init, Unsent, NoFile
<1>2. AsSent
  BY <1>1 DEF AsSent
<1>3. OneRunner
  BY <1>1 DEF OneRunner, Running
<1>4. MarkedOwn(s)
  BY <1>1 DEF MarkedOwn
<1> QED
  BY <1>1, <1>2, <1>3, <1>4 DEF DeleteInv, Removals, Names

\* Every step keeps it.
LEMMA DeleteInvStep ==
    ASSUME NEW s, OneDeleter(s), OpenInv, OpenInv', NamesFound, DeleteInv(s), [Next]_vars
    PROVE  DeleteInv(s)'
<1>1. TypeOK /\ TypeOK' /\ Entries
  BY DEF OpenInv
<1>2. AsSent /\ OneRunner /\ MarkedOwn(s) /\ Removals(s) /\ Names(s)
  BY DEF DeleteInv
<1>3. Forward /\ \A k \in Key : RecordStep(k)
  BY <1>1, StepForward, RecordSteps
<1>4. AsSent'
  BY <1>1, <1>2, <1>3, AsSentStep
<1>5. OneRunner'
  BY <1>2, <1>3, OneRunnerStep
<1>6. MarkedOwn(s)'
  BY <1>1, <1>2, <1>3, MarkedOwnStep
<1>7. Removals(s)'
  BY <1>1, <1>2, <1>3, RemovalsStep
<1>8. Names(s)'
  BY <1>1, <1>2, <1>3, NamesStep
<1> QED
  BY <1>4, <1>5, <1>6, <1>7, <1>8 DEF DeleteInv

\* What DeletesItsOwn says of a step.
OwnDeleted ==
    \A r \in Request : op[r].pc = "remove" /\ op'[r].pc # "remove" /\ link # None =>
        IsLinked(r) /\ \A q \in Request : Opened(q) => op[q].fd # link

\* What DeletedOnClose says of a step.
GoneWhenClosed ==
    \A r \in Request :
        LET file == odb[op[r].key]
        IN  /\ op[r].pc = "close" /\ op'[r].pc = "closed"
            /\ Len(file.entries) = 1 /\ (file.delete \/ file.entries[1].delete)
            => ~IsLinked(r)

\* A name is removed only while it is that of the file to be deleted.
LEMMA OwnDeletedStep ==
    ASSUME NEW s, OneDeleter(s), OpenInv, OwnRecord, DeleteInv(s)
    PROVE  OwnDeleted
<1>0. TypeOK /\ Entries /\ Removals(s) /\ Names(s)
  BY DEF OpenInv, DeleteInv
<1> SUFFICES ASSUME NEW r \in Request, op[r].pc = "remove"
             PROVE  IsLinked(r) /\ \A q \in Request : Opened(q) => op[q].fd # link
  BY DEF OwnDeleted
<1>1. ServerOf[r] = s /\ DeleteNow(odb[op[r].key]) /\ Entered(r)
  BY <1>0 DEF Removals, Entered
<1>2. IsLinked(r)
  BY <1>0, <1>1 DEF Names
<1>3. ASSUME NEW q \in Request, Opened(q), op[q].fd = link
      PROVE  FALSE
  <2>1. op[q].key = op[r].key /\ Entered(q) /\ q # r
    BY <1>2, <1>3 DEF OwnRecord, Opened, Entered, IsLinked
  <2> QED
    BY <1>0, <1>1, <2>1, LastHandle
<1> QED
  BY <1>2, <1>3

\* The last close of a file that is to be deleted has removed its name.
LEMMA GoneWhenClosedStep ==
    ASSUME NEW s, OneDeleter(s), OpenInv, DeleteInv(s)
    PROVE  GoneWhenClosed
<1>0. TypeOK /\ Entries /\ AsSent /\ MarkedOwn(s) /\ Names(s)
  BY DEF OpenInv, DeleteInv
<1> SUFFICES ASSUME NEW r \in Request, op[r].pc = "close", DeleteNow(odb[op[r].key])
             PROVE  ~IsLinked(r)
  BY DEF GoneWhenClosed, DeleteNow
<1>1. Entered(r)
  BY DEF Entered
<1>2. op[r].key \in Key /\ odb[op[r].key].entries[1].handle = r /\ DOMAIN odb[op[r].key].entries = {1}
  BY <1>0, <1>1, HandleKnown, LastHandle
<1>3. ServerOf[r] = s
  BY <1>0, <1>2, ForeignPlain DEF DeleteNow
<1> QED
  BY <1>0, <1>3 DEF Names

\* With one process that deletes, the invariant and the two properties hold in
\* every behaviour in which names that are resolved twice are found.
LEMMA OneDeleterHolds ==
    ASSUME NEW s, OneDeleter(s)
    PROVE  Spec /\ []NamesFound => [][OwnDeleted /\ GoneWhenClosed]_vars
<1>1. Init => OwnRecord /\ DeleteInv(s)
  BY OwnRecordInit, DeleteInvInit
<1>2. OpenInv /\ OwnRecord /\ NamesFound /\ [Next]_vars => OwnRecord'
  BY OwnRecordStep
<1>3. OpenInv /\ OpenInv' /\ NamesFound /\ DeleteInv(s) /\ [Next]_vars => DeleteInv(s)'
  BY DeleteInvStep
<1>4. OpenInv /\ OwnRecord /\ DeleteInv(s) => OwnDeleted /\ GoneWhenClosed
  BY OwnDeletedStep, GoneWhenClosedStep
<1> QED
  BY <1>1, <1>2, <1>3, <1>4, OpenInvHolds, PTL DEF Spec

\* Where all that deletes goes to one process and other processes do not share
\* their opens with it, a close deletes nothing but the file of its handle, and
\* not while another handle has it open, although the question whether it is
\* the last handle, the unlink() by name and the close are three steps between
\* which others create, open and close (pvfs_delete_on_close_set,
\* pvfs_handle_destructor).
THEOREM ClosesDeleteTheirOwn ==
    ASSUME NEW s, OneDeleter(s)
    PROVE  Spec /\ []NamesFound => DeletesItsOwn
<1>1. OwnDeleted /\ GoneWhenClosed => OwnDeleted
  OBVIOUS
<1> QED
  BY <1>1, OneDeleterHolds, PTL DEF DeletesItsOwn, OwnDeleted

\* And the last close of a file that is to be deleted has deleted it: the race
\* of two closes, in which each finds the other's entry, needs two processes
\* that delete (pvfs_delete_on_close_set, odb_tdb_close_file).
THEOREM LastCloseDeletes ==
    ASSUME NEW s, OneDeleter(s)
    PROVE  Spec /\ []NamesFound => DeletedOnClose
<1>1. OwnDeleted /\ GoneWhenClosed => GoneWhenClosed
  OBVIOUS
<1> QED
  BY <1>1, OneDeleterHolds, PTL DEF DeletedOnClose, GoneWhenClosed
=============================================================================
