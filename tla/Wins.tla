-------------------------------- MODULE Wins --------------------------------
(***************************************************************************)
(* WINS servers that register one name and replicate it to one another:    *)
(* winsserver.c, the pull cycles and the scavenging of wrepl_server.  Each *)
(* server has two processes, nbtd and wrepl, that share wins.ldb.  A       *)
(* handler reads the record in one step and writes what it made of it in   *)
(* another; the other process can run between the two.  Questions to hosts *)
(* and to other servers are answered later, or never.                      *)
(***************************************************************************)
EXTENDS Winsdb

CONSTANTS
    MaxUpdates, \* how many cycles UPDATE messages may have started at a partner
    Scenarios   \* which host registers the name with which server, as which types,
                \* and bounds: how often each kind of event from outside happens

Events == {"register", "release", "expire", "scavenge", "update", "fail", "restart"}

ASSUME WinsAssumption ==
    /\ MaxUpdates \in Nat
    /\ Scenarios \subseteq [uses: SUBSET (Addr \X Server),
                             types: {{"sgroup"}} \cup SUBSET {"unique", "mhomed", "group"},
                             bound: [Events -> Nat]]

VARIABLES
    scenario,   \* the one of Scenarios that is played
    rec,        \* the record in wins.ldb of each server
    maxVersion, \* CN=VERSION in wins.ldb of each server
    task,       \* what each process of a server is about to write
    table,      \* service->table without the entry of the server itself
    pulled,     \* partner->pull.table of each server and partner
    cycle,      \* the pull cycles of each server with each partner
    waiting,    \* states that wait for the answer to a name query
    overtaken,  \* history: a job wrote something older over something newer
    events      \* how often each kind of event has happened

db == <<rec, maxVersion>>
replication == <<table, pulled, cycle>>
vars == <<scenario, db, task, replication, waiting, overtaken, events>>

\* A write that a handler has decided on: the operation ("renew" is a delete
\* followed by an add), whether the server takes the ownership with a new
\* version, and what was stored when the handler looked.
Process == {"nbtd", "wrepl"}
Free == [op |-> "none"]
Job == [op: {"add", "renew", "modify", "delete"}, rec: Record, own: BOOLEAN,
        seen: Record \cup {NotFound}]

\* Of an owner that a table does not have, the version is Absent.
Absent == -1
Versions == [Server -> Nat \cup {Absent}]

\* A cycle has the partner's table, has asked for records of an owner, has got
\* them, or is applying them.  owners are the ones it has not passed yet.
\* Cycle 0 is partner->pull.creq, the others come from UPDATE messages.
Slot == 0..MaxUpdates
Idle == [stage |-> "idle"]
Cycle ==
    {Idle} \cup [stage: {"table"}, table: Versions]
      \cup [stage: {"request"}, owner: Server, min: Nat, max: Nat, owners: SUBSET Server]
      \cup [stage: {"reply", "apply"}, owner: Server, max: Nat, owners: SUBSET Server,
            names: Record \cup {NotFound}]

\* What a server has when it starts.
Empty == [o \in Server |-> Absent]
NothingPulled == [p \in Server |-> Empty]
NoCycles == [p \in Server |-> [i \in Slot |-> Idle]]

\* The answer to a name query: the addresses of a host or of a record, that there
\* is no such name or no answer, or the broadcast address of a normal group.
Gone == {"gone"}
Broadcast == {"broadcast"}
Answer == (SUBSET Addr) \cup {Gone, Broadcast}
Waiting ==
    [op: {"wack"}, at: Server, rec: Record, addr: Addr, type: Type]
      \cup [op: {"challenge"}, at: Server, rec: Record, replica: Record]
      \cup [op: {"verify"}, at: Server, rec: Record]
      \cup [op: {"verified"}, at: Server, rec: Record, answer: Answer]

Init ==
    /\ scenario \in Scenarios
    /\ rec = [s \in Server |-> NotFound]
    /\ maxVersion = [s \in Server |-> 0]
    /\ task = [s \in Server |-> [q \in Process |-> Free]]
    /\ table = [s \in Server |-> Empty]
    /\ pulled = [s \in Server |-> NothingPulled]
    /\ cycle = [s \in Server |-> NoCycles]
    /\ waiting = {}
    /\ overtaken = FALSE
    /\ events = [e \in Events |-> 0]

Happens(e) == events[e] < scenario.bound[e] /\ events' = [events EXCEPT ![e] = @ + 1]

-----------------------------------------------------------------------------
(* The database. *)

winsdb_lookup(s) == IF Found(rec[s]) THEN winsdb_record(s, rec[s]) ELSE rec[s]

\* The record is stored, in the second form with a version and the ownership.
Store(s, r) == rec' = [rec EXCEPT ![s] = winsdb_message(r)] /\ UNCHANGED maxVersion
StoreOwned(s, r) ==
    /\ maxVersion' = [maxVersion EXCEPT ![s] = @ + 1]
    /\ rec' = [rec EXCEPT ![s] =
                winsdb_message([r EXCEPT !.owner = s, !.version = maxVersion'[s]])]

\* A record that is there cannot be added, one that is gone not be modified.
winsdb_add(s, r, own) ==
    IF Found(rec[s]) THEN UNCHANGED db ELSE IF own THEN StoreOwned(s, r) ELSE Store(s, r)
winsdb_modify(s, r, own) ==
    IF ~Found(rec[s]) THEN UNCHANGED db ELSE IF own THEN StoreOwned(s, r) ELSE Store(s, r)

\* By name, whatever is stored now.
winsdb_delete(s) == rec' = [rec EXCEPT ![s] = NotFound] /\ UNCHANGED maxVersion

NewJob(op, s, r, own) == [op |-> op, rec |-> r, own |-> own, seen |-> rec[s]]

\* A handler of process q goes on with one of these writes, if there is any.
Begin(s, q, jobs) ==
    IF jobs = {} THEN UNCHANGED task ELSE \E j \in jobs : task' = [task EXCEPT ![s][q] = j]

\* The record has changed since the handler looked, or an older version of it is
\* put back.
Overtakes(s, j) ==
    \/ rec[s] # j.seen
    \/ /\ Found(rec[s]) /\ j.op = "modify" /\ ~j.own
       /\ rec[s].owner = j.rec.owner /\ j.rec.version < rec[s].version

\* One transaction of the job of process q, the first of two for "renew".
Write(s, q) ==
    LET j == task[s][q]
    IN  /\ CASE j.op = "add" -> winsdb_add(s, j.rec, j.own)
             [] j.op = "modify" -> winsdb_modify(s, j.rec, j.own)
             [] OTHER -> winsdb_delete(s)
        /\ task' = [task EXCEPT ![s][q] =
                      IF j.op = "renew" THEN [j EXCEPT !.op = "add", !.seen = NotFound] ELSE Free]
        /\ overtaken' = (overtaken \/ Overtakes(s, j))

-----------------------------------------------------------------------------
(* winsserver.c: hosts register and release the name. *)

\* Mutant of wins_register_new: WINSDB_FLAG_ALLOC_VERSION is not given.
NoNewVersion(s, a, t) ==
    NewJob("add", s, [type |-> t, state |-> "active", owner |-> s, version |-> 0,
                      expired |-> FALSE, addrs |-> [b \in {a} |-> Own(s)]], FALSE)

wins_register_new(s, a, t) ==
    NewJob("add", s, [type |-> t, state |-> "active", owner |-> s, version |-> 0,
                      expired |-> FALSE, addrs |-> [b \in {a} |-> Own(s)]], TRUE)

\* winsdb_delete comes before it, where there was a record.
Anew(s, a, t) == [wins_register_new(s, a, t) EXCEPT !.op = "renew"]

\* Mutant of wins_update_ttl: the address is added to a normal group too.
AddsToGroup(s, r, a) ==
    {NewJob("modify", s, [r EXCEPT !.expired = FALSE, !.addrs = l], r.owner # s) :
       l \in winsdb_addr_list_add(s, Keep(r.addrs), a)}

\* The address of a normal group is not touched.
wins_update_ttl(s, r, a) ==
    {NewJob("modify", s, [r EXCEPT !.expired = FALSE, !.addrs = l], r.owner # s) :
       l \in IF r.type = "group" THEN {Keep(r.addrs)}
             ELSE winsdb_addr_list_add(s, Keep(r.addrs), a)}

wins_sgroup_merge(s, r, a) ==
    {NewJob("modify", s, [r EXCEPT !.expired = FALSE, !.addrs = l], TRUE) :
       l \in winsdb_addr_list_add(s, Keep(r.addrs), a)}

wins_register_wack(s, r, a, t) ==
    /\ waiting' = waiting \cup {[op |-> "wack", at |-> s, rec |-> r, addr |-> a, type |-> t]}
    /\ UNCHANGED task

nbtd_winsserver_register(s, a, t) ==
    LET r == winsdb_lookup(s)
        wack == Found(r) /\ Active(r) /\ r.type \in {"unique", "mhomed"}
                  /\ (t = "group" \/ a \notin DOMAIN r.addrs)
        jobs == IF r = NotFound THEN {wins_register_new(s, a, t)}
                ELSE IF r = Corruption \/ (r.type = "group" /\ t # "group") THEN {}
                ELSE IF ~Active(r) THEN {Anew(s, a, t)}
                ELSE IF r.type = "sgroup" /\ a \notin DOMAIN r.addrs THEN wins_sgroup_merge(s, r, a)
                ELSE wins_update_ttl(s, r, a)
    IN  /\ Happens("register") /\ task[s]["nbtd"] = Free
        /\ <<a, s>> \in scenario.uses
        /\ IF wack THEN wins_register_wack(s, r, a, t)
           ELSE Begin(s, "nbtd", jobs) /\ UNCHANGED waiting
        /\ UNCHANGED <<scenario, db, replication, overtaken>>

\* The entries of the record that the answer does not name are removed, but the
\* loop passes over the one that moves up in place of one it removed.
WackAllows(s, r, a, answer) ==
    LET lost == DOMAIN r.addrs \ answer
        left == {Without(r.addrs, lost \ k) :
                   k \in {k \in SUBSET lost : 2 * Cardinality(k) <= Cardinality(lost)}}
    IN  {NewJob("modify", s,
                [r EXCEPT !.expired = FALSE, !.addrs = l,
                          !.type = IF Cardinality(DOMAIN l) > 1 THEN "mhomed" ELSE @], TRUE) :
           l \in UNION {winsdb_addr_list_add(s, Keep(k), a) : k \in left}}

wins_wack_allow(s, r, a, t, answer) ==
    LET r2 == winsdb_lookup(s)
    IN  IF ~Found(r2) \/ r2.version # r.version \/ r2.owner # r.owner THEN {}
        ELSE IF answer = Gone THEN {Anew(s, a, t)}
        ELSE WackAllows(s, r, a, answer)

\* wack_wins_challenge_handler: the host that had the name answers, or none does.
WackAnswered(w, answer) ==
    /\ w.op = "wack" /\ task[w.at]["nbtd"] = Free
    /\ Begin(w.at, "nbtd",
             IF answer = Gone \/ (w.type # "group" /\ w.addr \in answer)
             THEN wins_wack_allow(w.at, w.rec, w.addr, w.type, answer) ELSE {})
    /\ waiting' = waiting \ {w}
    /\ UNCHANGED <<scenario, db, replication, overtaken, events>>

\* a is the address the request comes from.
nbtd_winsserver_release(s, a) ==
    LET r == winsdb_lookup(s)
        rest == IF r.type \in {"sgroup", "mhomed"} THEN Without(r.addrs, {a}) ELSE r.addrs
        last == r.type \in {"unique", "group"} \/ DOMAIN rest = {}
    IN  /\ Happens("release") /\ task[s]["nbtd"] = Free
        /\ <<a, s>> \in scenario.uses
        /\ Found(r) /\ Active(r) /\ a \in DOMAIN r.addrs
        /\ Begin(s, "nbtd",
             {IF ~last THEN NewJob("modify", s, [r EXCEPT !.addrs = rest], FALSE)
              ELSE NewJob("modify", s,
                          [r EXCEPT !.addrs = Keep(rest), !.expired = FALSE,
                                    !.state = IF r.owner = s THEN "released" ELSE "tombstone"],
                          r.owner # s)})
        /\ UNCHANGED <<scenario, db, replication, waiting, overtaken>>

\* The write of a registration or a release.
NbtdWrites(s) ==
    /\ task[s]["nbtd"] # Free
    /\ Write(s, "nbtd")
    /\ UNCHANGED <<scenario, replication, waiting, events>>

-----------------------------------------------------------------------------
(* The pull cycles. *)

\* wreplsrv_fill_wrepl_table
TableOf(p) == [table[p] EXCEPT ![p] = maxVersion[p]]

\* Owners of whom table t has newer versions than table l, or whom l does not have.
Newer(l, t) == {o \in Server : t[o] > l[o]}

\* What a cycle with partner p does after its table or a reply: the next owner
\* of its list that has something new, or none.  l is service->table, t is
\* partner->pull.table.  The partner itself comes first in its list; of the
\* others, in whichever order they are, those before the next owner are passed.
wreplsrv_pull_cycle_next_owner_do_work(p, l, t, owners) ==
    LET newer == owners \cap Newer(l, t)
        left == {w \in SUBSET owners : newer \subseteq w /\ (p \in w <=> p \in newer)
                                        /\ (p \in newer => w = owners)}
    IN  IF newer = {} THEN {Idle}
        ELSE {[stage |-> "request", owner |-> o, min |-> IF l[o] = Absent THEN 1 ELSE l[o] + 1,
               max |-> t[o], owners |-> w] : o \in IF p \in newer THEN {p} ELSE newer, w \in left}

\* The partner's table is on its way, as the answer of wreplsrv_in_table_query in
\* cycle 0 or as an UPDATE; one that has nothing new is left out.  So is the entry
\* of s itself, which is never newer than what s has.
TableSent(s, p, i) ==
    /\ task[p]["wrepl"] = Free
    /\ cycle[s][p][i] = Idle /\ Newer(TableOf(s), TableOf(p)) # {}
    /\ cycle' = [cycle EXCEPT ![s][p][i] = [stage |-> "table", table |-> [TableOf(p) EXCEPT ![s] = Absent]]]
    /\ UNCHANGED <<scenario, db, task, table, pulled, waiting, overtaken>>

\* There is no pull in progress (wreplsrv_out_partner_pull); an INFORM comes to
\* the same.
wreplsrv_in_table_query(s, p) == TableSent(s, p, 0) /\ UNCHANGED events

\* wreplsrv_push_notify_update at p; wreplsrv_in_update at s does not ask whether
\* there is a pull in progress.
wreplsrv_in_update(s, p, i) == i # 0 /\ Happens("update") /\ TableSent(s, p, i)

wreplsrv_pull_cycle_wait_table_reply(s, p, i) ==
    LET c == cycle[s][p][i]
        t == [o \in Server |-> Max({c.table[o], pulled[s][p][o]})]
    IN  /\ task[s]["wrepl"] = Free
        /\ c.stage = "table"
        /\ pulled' = [pulled EXCEPT ![s][p] = t]
        /\ \E next \in wreplsrv_pull_cycle_next_owner_do_work(
                         p, TableOf(s), t, {o \in Server : c.table[o] # Absent}) :
              cycle' = [cycle EXCEPT ![s][p][i] = next]
        /\ UNCHANGED <<scenario, db, task, table, waiting, overtaken, events>>

\* What is sent of the record: unique and group names go without the owner of
\* their address, and the receiver puts the owner of the record.
OnWire(r) ==
    IF r.type \in {"sgroup", "mhomed"} THEN r
    ELSE [r EXCEPT !.addrs = [a \in DOMAIN r.addrs |-> [r.addrs[a] EXCEPT !.owner = r.owner]]]

\* A max of 0 is no limit.
wreplsrv_in_send_request(s, p, i) ==
    LET c == cycle[s][p][i]
        r == winsdb_lookup(p)
        match == /\ c.min <= TableOf(p)[c.owner]
                 /\ Found(rec[p]) /\ rec[p].owner = c.owner /\ rec[p].state # "released"
                 /\ rec[p].version >= c.min /\ (c.max = 0 \/ rec[p].version <= c.max)
        sent == match /\ Found(r) /\ r.state # "released"
    IN  /\ task[p]["wrepl"] = Free
        /\ c.stage = "request"
        /\ cycle' = [cycle EXCEPT ![s][p][i] =
                       IF match /\ r = Corruption THEN Idle
                       ELSE [stage |-> "reply", owner |-> c.owner, max |-> c.max, owners |-> c.owners,
                             names |-> IF sent THEN OnWire(r) ELSE NotFound]]
        /\ UNCHANGED <<scenario, db, task, table, pulled, waiting, overtaken, events>>

\* Mutant of wreplsrv_add_table: the version the partner has now is taken.
SkipsAhead(s, p, o, max) == [table EXCEPT ![s][o] = Max({@, TableOf(p)[o]})]

wreplsrv_add_table(s, p, o, max) == [table EXCEPT ![s][o] = Max({@, max})]

\* The end of wreplsrv_apply_records, and the next owner.
Applied(s, p, i) ==
    LET c == cycle[s][p][i]
    IN  /\ table' = wreplsrv_add_table(s, p, c.owner, c.max)
        /\ \E next \in wreplsrv_pull_cycle_next_owner_do_work(
                         p, TableOf(s)', pulled[s][p], c.owners) :
              cycle' = [cycle EXCEPT ![s][p][i] = next]
        /\ UNCHANGED pulled

\* The cycle ends with an error, and the table stays as it was.
Abandoned(s, p, i) == cycle' = [cycle EXCEPT ![s][p][i] = Idle] /\ UNCHANGED <<table, pulled>>

\* What is to be written for a replica that meets the record r.
wreplsrv_apply_one_record(s, r, replica) ==
    LET act == IF Found(r) THEN R_ACTION(s, r, replica) ELSE "add"
    IN  CASE act = "add" -> {NewJob("add", s, Replica(replica), FALSE)}
          [] act \in {"replace", "release_demand"} -> {NewJob("modify", s, Replica(replica), FALSE)}
          [] act = "propagate" -> {NewJob("modify", s, r, TRUE)}
          [] act = "sgroup_merge" ->
               {NewJob("modify", s, m, become_owner(s, r, replica, m)) : m \in SgroupMerge(r, replica)}
          [] OTHER -> {}

r_do_challenge(s, r, replica) ==
    waiting' = waiting \cup {[op |-> "challenge", at |-> s, rec |-> r, replica |-> replica]}

\* The record of a reply is looked up.
wreplsrv_apply_records(s, p, i) ==
    LET c == cycle[s][p][i]
        r == winsdb_lookup(s)
        jobs == IF c.names = NotFound THEN {} ELSE wreplsrv_apply_one_record(s, r, c.names)
        challenge == c.names # NotFound /\ Found(r) /\ R_ACTION(s, r, c.names) = "challenge"
    IN  /\ task[s]["wrepl"] = Free
        /\ c.stage = "reply"
        /\ UNCHANGED <<scenario, db, overtaken, events>>
        /\ IF c.names # NotFound /\ r = Corruption THEN Abandoned(s, p, i) /\ UNCHANGED task
           ELSE /\ Begin(s, "wrepl", jobs)
                /\ IF jobs = {} THEN Applied(s, p, i)
                   ELSE /\ cycle' = [cycle EXCEPT ![s][p][i].stage = "apply"]
                        /\ UNCHANGED <<table, pulled>>
        /\ IF challenge THEN r_do_challenge(s, r, c.names) ELSE UNCHANGED waiting

\* It is added or modified; that fails when it has come or gone meanwhile.
ApplyWrites(s, p, i) ==
    /\ cycle[s][p][i].stage = "apply" /\ task[s]["wrepl"] # Free
    /\ Write(s, "wrepl")
    /\ IF Found(rec[s]) <=> task[s]["wrepl"].op = "modify" THEN Applied(s, p, i)
       ELSE Abandoned(s, p, i)
    /\ UNCHANGED <<scenario, waiting, events>>

\* The connection to the partner is lost.
PullFails(s, p, i) ==
    /\ Happens("fail") /\ task[s]["wrepl"] = Free
    /\ cycle[s][p][i] # Idle
    /\ Abandoned(s, p, i)
    /\ UNCHANGED <<scenario, db, task, waiting, overtaken>>

\* The host that has the name in the record the replica met answers, or none does.
r_do_challenge_handler(w, answer) ==
    /\ w.op = "challenge" /\ task[w.at]["wrepl"] = Free
    /\ CASE answer = Gone -> winsdb_modify(w.at, Replica(w.replica), FALSE)
         [] answer # Gone /\ DOMAIN w.replica.addrs \cup DOMAIN w.rec.addrs \subseteq answer ->
              \E m \in MhomedMerge(w.rec, w.replica) : winsdb_modify(w.at, m, FALSE)
         [] OTHER -> UNCHANGED db
    /\ waiting' = waiting \ {w}
    /\ UNCHANGED <<scenario, task, replication, overtaken, events>>

-----------------------------------------------------------------------------
(* Time and scavenging. *)

RecordExpires(s) ==
    /\ Happens("expire") /\ Found(rec[s]) /\ ~rec[s].expired
    /\ rec' = [rec EXCEPT ![s].expired = TRUE,
                          ![s].addrs = [a \in DOMAIN @ |->
                              IF @[a].age = "with" THEN [@[a] EXCEPT !.age = "past"] ELSE @[a]]]
    /\ UNCHANGED <<scenario, maxVersion, task, replication, waiting, overtaken>>

AddressExpires(s, a) ==
    /\ Happens("expire") /\ Found(rec[s]) /\ a \in DOMAIN rec[s].addrs
    /\ rec[s].addrs[a].age = "apart"
    /\ rec' = [rec EXCEPT ![s].addrs[a].age = "past"]
    /\ UNCHANGED <<scenario, maxVersion, task, replication, waiting, overtaken>>

\* delete_tombstones: the service is up for tombstone_extra_timeout.
wreplsrv_scavenging_owned_records(s, delete_tombstones) ==
    LET r == [rec[s] EXCEPT !.expired = FALSE, !.addrs = Keep(@)]
    IN  CASE r.state = "active" -> {NewJob("modify", s, [r EXCEPT !.state = "released"], FALSE)}
          [] r.state = "released" -> {NewJob("modify", s, [r EXCEPT !.state = "tombstone"], TRUE)}
          [] r.state = "tombstone" -> IF delete_tombstones THEN {NewJob("delete", s, r, FALSE)} ELSE {}

wreplsrv_scavenging_replica_non_active_records(s, delete_tombstones) ==
    LET r == [rec[s] EXCEPT !.expired = FALSE, !.addrs = Keep(@)]
    IN  CASE r.state = "released" -> {NewJob("modify", s, [r EXCEPT !.state = "tombstone"], FALSE)}
          [] r.state = "tombstone" -> IF delete_tombstones THEN {NewJob("delete", s, r, FALSE)} ELSE {}

wreplsrv_scavenging_replica_active_records(s) ==
    /\ waiting' = waiting \cup {[op |-> "verify", at |-> s, rec |-> rec[s]]}
    /\ UNCHANGED task

\* The record is searched for.
wreplsrv_scavenging_run(s, delete_tombstones) ==
    LET r == rec[s]
        jobs == IF r.owner = s THEN wreplsrv_scavenging_owned_records(s, delete_tombstones)
                ELSE wreplsrv_scavenging_replica_non_active_records(s, delete_tombstones)
    IN  /\ Happens("scavenge") /\ task[s]["wrepl"] = Free
        /\ Found(r) /\ Readable(r) /\ r.expired
        /\ IF r.owner # s /\ Active(r) THEN wreplsrv_scavenging_replica_active_records(s)
           ELSE Begin(s, "wrepl", jobs) /\ UNCHANGED waiting
        /\ UNCHANGED <<scenario, db, replication, overtaken>>

\* It is modified or deleted.
ScavengingWrites(s) ==
    /\ task[s]["wrepl"] # Free
    /\ \A p \in Server, i \in Slot : cycle[s][p][i].stage # "apply"
    /\ Write(s, "wrepl")
    /\ UNCHANGED <<scenario, replication, waiting, events>>

\* The server that owns the record answers.
nbtd_winsserver_query(w) ==
    LET r == winsdb_lookup(w.rec.owner)
        answer == IF ~Found(r) THEN Gone
                  ELSE IF r.type = "group" THEN Broadcast
                  ELSE IF ~Active(r) THEN Gone
                  ELSE DOMAIN r.addrs
    IN  /\ w.op = "verify" /\ task[w.rec.owner]["nbtd"] = Free
        /\ waiting' = (waiting \ {w})
             \cup {[op |-> "verified", at |-> w.at, rec |-> w.rec, answer |-> answer]}
        /\ UNCHANGED <<scenario, db, task, replication, overtaken, events>>

\* No answer: nothing is done.
VerifyTimesOut(w) ==
    /\ w.op = "verify"
    /\ waiting' = waiting \ {w}
    /\ UNCHANGED <<scenario, db, task, replication, overtaken, events>>

verify_handler(w) ==
    LET r == [w.rec EXCEPT !.expired = FALSE, !.addrs = Renew(@)]
        different == IF r.type = "group" THEN w.answer # Broadcast
                     ELSE ~(w.answer \subseteq DOMAIN r.addrs)
    IN  /\ w.op = "verified" /\ task[w.at]["wrepl"] = Free
        /\ CASE w.answer = Gone -> winsdb_delete(w.at)
             [] w.answer # Gone /\ different ->
                  winsdb_modify(w.at, [r EXCEPT !.state = "tombstone"], TRUE)
             [] OTHER -> winsdb_modify(w.at, r, FALSE)
        /\ waiting' = waiting \ {w}
        /\ UNCHANGED <<scenario, task, replication, overtaken, events>>

\* Both processes start again.  wreplsrv_load_table: the table has the versions
\* of the records.
Restart(s) ==
    /\ Happens("restart")
    /\ task' = [task EXCEPT ![s] = [q \in Process |-> Free]]
    /\ table' = [table EXCEPT ![s] = [o \in Server |->
                   IF Found(rec[s]) /\ rec[s].owner = o THEN rec[s].version ELSE Absent]]
    /\ pulled' = [pulled EXCEPT ![s] = NothingPulled]
    /\ cycle' = [cycle EXCEPT ![s] = NoCycles]
    /\ waiting' = {w \in waiting : w.at # s}
    /\ UNCHANGED <<scenario, db, overtaken>>

-----------------------------------------------------------------------------

Next ==
    \/ \E s \in Server :
         \/ \E a \in Addr, t \in scenario.types : nbtd_winsserver_register(s, a, t)
         \/ \E a \in Addr : nbtd_winsserver_release(s, a)
         \/ NbtdWrites(s)
         \/ \E a \in Addr : AddressExpires(s, a)
         \/ RecordExpires(s)
         \/ \E d \in BOOLEAN : wreplsrv_scavenging_run(s, d)
         \/ ScavengingWrites(s)
         \/ Restart(s)
         \/ \E p \in Server \ {s} :
              \/ wreplsrv_in_table_query(s, p)
              \/ \E i \in Slot :
                   \/ wreplsrv_in_update(s, p, i)
                   \/ wreplsrv_pull_cycle_wait_table_reply(s, p, i)
                   \/ wreplsrv_in_send_request(s, p, i)
                   \/ wreplsrv_apply_records(s, p, i)
                   \/ ApplyWrites(s, p, i)
                   \/ PullFails(s, p, i)
    \/ \E w \in waiting :
         \/ \E answer \in {Gone} \cup SUBSET Addr : WackAnswered(w, answer)
         \/ \E answer \in {Gone} \cup SUBSET Addr : r_do_challenge_handler(w, answer)
         \/ nbtd_winsserver_query(w)
         \/ VerifyTimesOut(w)
         \/ verify_handler(w)

Spec == Init /\ [][Next]_vars

-----------------------------------------------------------------------------
(* Properties. *)

\* Type correctness; a version that is found anywhere was given by its owner.
TypeOK ==
    /\ scenario \in Scenarios
    /\ \A s \in Server : rec[s] = NotFound \/ rec[s] \in Record
    /\ \A s \in Server : Found(rec[s]) => rec[s].version \in 1..maxVersion[rec[s].owner]
    /\ maxVersion \in [Server -> Nat] /\ table \in [Server -> Versions]
    /\ \A s \in Server : \A q \in Process : task[s][q] = Free \/ task[s][q] \in Job
    /\ \A s, p \in Server : pulled[s][p] \in Versions
    /\ \A s, p \in Server : \A i \in Slot : cycle[s][p][i] \in Cycle
    /\ waiting \subseteq Waiting

\* No server is about to write, has a pull cycle or a question open, or has
\* anything new for another one.
Quiet ==
    /\ waiting = {}
    /\ \A s \in Server : \A q \in Process : task[s][q] = Free
    /\ \A s, p \in Server : \A i \in Slot : cycle[s][p][i] = Idle
    /\ \A s \in Server : \A p \in Server \ {s} : Newer(TableOf(s), TableOf(p)) = {}

Members(s) == IF Found(rec[s]) THEN DOMAIN rec[s].addrs ELSE {}
Calm == events["release"] = 0 /\ events["expire"] = 0

\* The members of a logon group, registered at whichever server, are known to
\* every server once replication has come to rest: no version is skipped by a
\* pull that fails, by one that runs while the partner changes the record or
\* beside another one, or by a restart, and no merge forgets a member.  Where
\* something older was written over something newer a member can be lost.
MembersAgree ==
    scenario.types = {"sgroup"} /\ Calm /\ Quiet /\ ~overtaken =>
      \A s, p \in Server : Members(s) = Members(p)

\* Replication comes to rest: a registration, release, expiry, scavenging or
\* restart makes a server give at most two versions, so no two servers answer
\* each other's replicas with a new version of their own for ever.
NoPingPong ==
    \A s \in Server : maxVersion[s] <= 2 * FoldSet(LAMBDA e, n : n + events[e], 0, Events \ {"fail"})

\* No record is stored that winsdb_record refuses as corrupted when it is read
\* again, whatever merges, takes addresses from it or lets them expire.
AllReadable == \A s \in Server : Found(rec[s]) => Readable(rec[s])
=============================================================================
