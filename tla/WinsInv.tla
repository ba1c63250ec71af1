------------------------------ MODULE WinsInv -------------------------------
(***************************************************************************)
(* Why no WINS server ever stores a record that it cannot read again.      *)
(*                                                                         *)
(* What is stored need not be what was read: winsdb_record takes the       *)
(* addresses out whose time has passed.  A normal group can lose its only  *)
(* address that way, and is then written back when a name of another type  *)
(* is replicated.  So the invariant says of every record, stored, about to *)
(* be written, on its way or with a question, which types it can have and  *)
(* whether one of its addresses can have expired.  It does not matter what *)
(* is stored when a record is written that was read before: the record is  *)
(* as good as it was.  x is a scenario, v the value of maxVersion.         *)
(***************************************************************************)
EXTENDS Wins

\* The scenarios the proof is about: where a name is used for a group and for a
\* host, no time runs out.
Apart(x) == "group" \in x.types /\ x.types # {"group"} => x.bound["expire"] = 0
SeparateNames == \A x \in Scenarios : Apart(x)

\* The list is not too long, and winsdb_message makes something readable of r.
Fits(r) == Cardinality(DOMAIN r.addrs) <= MaxAddrs
Storable(r) ==
    /\ r.type \in {"unique", "group"} => DOMAIN r.addrs # {}
    /\ r.type = "group" => Cardinality(DOMAIN r.addrs) = 1

Fresh(l) == \A a \in DOMAIN l : l[a].age # "past"

\* The types that r can have, and whether one of its addresses can have expired.
OfScenario(x, r) ==
    /\ x.types = {"group"} => r.type = "group"
    /\ "group" \notin x.types => r.type # "group"
    /\ x.bound["expire"] = 0 => Fresh(r.addrs)

\* The records that may be written, whatever their version; those whose version
\* was given by their owner; and what is then in the database.
Made(x) == {r \in Record : OfScenario(x, r) /\ Fits(r) /\ (Apart(x) => Storable(r))}
Sound(x, v) == {r \in Made(x) : r.version \in 1..v[r.owner]}
Stored(x, v) == {r \in Sound(x, v) : Apart(x) => Readable(r)}

\* What a process is about to write, and a pull cycle.
SoundJob(x, v) ==
    [op: {"add", "renew", "modify", "delete"}, rec: Made(x), own: {TRUE},
     seen: Record \cup {NotFound}]
      \cup [op: {"add", "renew", "modify", "delete"}, rec: Sound(x, v), own: {FALSE},
            seen: Record \cup {NotFound}]

SoundCycle(x, v) ==
    {Idle} \cup [stage: {"table"}, table: Versions]
      \cup [stage: {"request"}, owner: Server, min: Nat, max: Nat, owners: SUBSET Server]
      \cup [stage: {"reply", "apply"}, owner: Server, max: Nat, owners: SUBSET Server,
            names: Sound(x, v) \cup {NotFound}]

SoundHost(x, v) == {r \in Sound(x, v) : r.type \in {"unique", "mhomed"}}
SoundWaiting(x, v) ==
    [op: {"wack"}, at: Server, rec: SoundHost(x, v), addr: Addr, type: x.types]
      \cup [op: {"challenge"}, at: Server, rec: SoundHost(x, v), replica: Sound(x, v)]
      \cup [op: {"verify"}, at: Server, rec: Sound(x, v)]
      \cup [op: {"verified"}, at: Server, rec: Sound(x, v), answer: Answer]

\* The inductive invariant: every record that is under way may be written, and
\* what is stored can be read (winsdb.c, winsdb_record).
WinsInv ==
    /\ scenario \in Scenarios
    /\ rec \in [Server -> Stored(scenario, maxVersion) \cup {NotFound}]
    /\ maxVersion \in [Server -> Nat]
    /\ task \in [Server -> [Process -> SoundJob(scenario, maxVersion) \cup {Free}]]
    /\ table \in [Server -> Versions]
    /\ pulled \in [Server -> [Server -> Versions]]
    /\ cycle \in [Server -> [Server -> [Slot -> SoundCycle(scenario, maxVersion)]]]
    /\ waiting \subseteq SoundWaiting(scenario, maxVersion)
    /\ events \in [Events -> Nat]
=============================================================================
