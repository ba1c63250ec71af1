------------------------------- MODULE Winsdb -------------------------------
(***************************************************************************)
(* What wins.ldb holds for one name, winsdb.c, and how an incoming replica *)
(* fares against it, the tables of wrepl_apply_records.c.  Static records, *)
(* the node type and registeredBy are left out.                            *)
(***************************************************************************)
EXTENDS Integers, FiniteSetsExt

CONSTANTS
    Server,     \* WINS servers: values of winsOwner
    Addr,       \* addresses of the hosts that register the name
    MaxAddrs    \* addresses a record may have: 25

ASSUME WinsdbAssumption == MaxAddrs \in Nat \ {0} /\ IsFiniteSet(Addr)

\* The search found nothing; and winsdb_record found the record corrupt.
NotFound == [found |-> FALSE]
Corruption == [found |-> FALSE, corrupt |-> TRUE]

\* struct winsdb_addr.  age says how expire_time stands: it is the one of the
\* record, it is another one still to come, or it has passed.
AddrEntry == [owner: Server, age: {"with", "apart", "past"}]
AddrList == UNION {[d -> AddrEntry] : d \in SUBSET Addr}

Type == {"unique", "group", "sgroup", "mhomed"}
Record ==
    [type: Type, state: {"active", "released", "tombstone"}, owner: Server,
     version: Nat, expired: BOOLEAN, addrs: AddrList]

-----------------------------------------------------------------------------
(* The list of addresses. *)

\* The record gets a new expire_time, the entries keep theirs.
Keep(l) == [a \in DOMAIN l |-> IF l[a].age = "with" THEN [l[a] EXCEPT !.age = "apart"] ELSE l[a]]

\* The entries get the expire_time of the record.
Renew(l) == [a \in DOMAIN l |-> [l[a] EXCEPT !.age = "with"]]

Without(l, d) == [a \in DOMAIN l \ d |-> l[a]]

\* The entry that server s makes for a registration.
Own(s) == [owner |-> s, age |-> "with"]

\* Adding the address of a registration: the lists it may result in.  In a full
\* list the oldest replica gives way, or else the oldest entry; which one that
\* is, expire_time decides.
winsdb_addr_list_add(s, l, a) ==
    LET replicas == {b \in DOMAIN l : l[b].owner # s}
        gone == IF a \in DOMAIN l \/ Cardinality(DOMAIN l) < MaxAddrs THEN {{}}
                ELSE {{b} : b \in IF replicas # {} THEN replicas ELSE DOMAIN l}
    IN  {[b \in {a} \cup (DOMAIN l \ g) |-> IF b = a THEN Own(s) ELSE l[b]] : g \in gone}

\* Adding the entries of a second list one by one, not for a registration: those
\* that find the list full are ignored.
AddAll(l, more) ==
    LET new == DOMAIN more \ DOMAIN l
        room == MaxAddrs - Cardinality(DOMAIN l)
        kept == {k \in SUBSET new : Cardinality(k) = Min({room, Cardinality(new)})}
    IN  {[a \in DOMAIN l \cup k |-> IF a \in DOMAIN more THEN more[a] ELSE l[a]] : k \in kept}

-----------------------------------------------------------------------------
(* Reading and writing a record. *)

\* What winsdb_record asks of a stored record.
Readable(r) ==
    /\ r.type \in {"unique", "group"} => Cardinality(DOMAIN r.addrs) = 1
    /\ r.state = "active" => DOMAIN r.addrs # {}
    /\ Cardinality(DOMAIN r.addrs) <= MaxAddrs

\* Reading at server s, with the time of now.
winsdb_record(s, r) ==
    LET live == Without(r.addrs, {a \in DOMAIN r.addrs : r.addrs[a].age = "past"})
    IN  IF ~Readable(r) THEN Corruption
        ELSE IF r.owner # s \/ r.state # "active" THEN r
        ELSE IF r.expired THEN [r EXCEPT !.state = "released"]
        ELSE [r EXCEPT !.addrs = live, !.state = IF DOMAIN live = {} THEN "released" ELSE "active"]

Found(r) == "state" \in DOMAIN r

\* The form in which a record is stored.
winsdb_message(r) ==
    [r EXCEPT !.state = IF @ = "active" /\ DOMAIN r.addrs = {} THEN "released" ELSE @,
              !.type = IF @ = "unique" /\ Cardinality(DOMAIN r.addrs) > 1 THEN "mhomed" ELSE @]

-----------------------------------------------------------------------------
(* A replica r2 against the record r1. *)

Active(r) == r.state = "active"

r_1_is_subset_of_2_address_list(r1, r2) == DOMAIN r1.addrs \subseteq DOMAIN r2.addrs

r_1_is_superset_of_2_address_list(r1, r2, check_owners) ==
    \A a \in DOMAIN r2.addrs :
        a \in DOMAIN r1.addrs /\ (check_owners => r1.addrs[a].owner = r2.addrs[a].owner)

r_1_is_same_as_2_address_list(r1, r2, check_owners) ==
    /\ Cardinality(DOMAIN r1.addrs) = Cardinality(DOMAIN r2.addrs)
    /\ r_1_is_superset_of_2_address_list(r1, r2, check_owners)

r_contains_addrs_from_owner(r1, owner) == \E a \in DOMAIN r1.addrs : r1.addrs[a].owner = owner

replace_unique_replica_vs_X_replica(r1, r2) ==
    IF ~Active(r1) \/ (r2.type # "sgroup" /\ Active(r2)) THEN "replace" ELSE "not"

\* The same table as for unique names.
replace_mhomed_replica_vs_X_replica(r1, r2) == replace_unique_replica_vs_X_replica(r1, r2)

replace_group_replica_vs_X_replica(r1, r2) ==
    IF \/ ~Active(r1) /\ r2.type = "group"
       \/ r1.state = "tombstone" /\ r2.type # "unique"
    THEN "replace" ELSE "not"

replace_sgroup_replica_vs_X_replica(r1, r2) ==
    IF ~Active(r1) THEN "replace"
    ELSE IF r2.type # "sgroup" THEN "not"
    ELSE IF ~Active(r2) THEN "replace"
    ELSE IF DOMAIN r2.addrs = {}
         THEN IF r_contains_addrs_from_owner(r1, r2.owner) THEN "sgroup_merge" ELSE "not"
    ELSE IF r_1_is_superset_of_2_address_list(r1, r2, TRUE) THEN "not"
    ELSE IF r_1_is_same_as_2_address_list(r1, r2, FALSE) THEN "replace"
    ELSE "sgroup_merge"

replace_unique_owned_vs_X_replica(r1, r2) ==
    IF ~Active(r1) THEN "replace"
    ELSE IF ~Active(r2) THEN "propagate"
    ELSE IF r2.type \in {"group", "sgroup"} THEN "release_demand"
    ELSE IF r_1_is_subset_of_2_address_list(r1, r2) THEN "replace"
    ELSE "challenge"

\* The same table as for unique names.
replace_mhomed_owned_vs_X_replica(r1, r2) == replace_unique_owned_vs_X_replica(r1, r2)

replace_group_owned_vs_X_replica(r1, r2) ==
    IF r2.type = "group" /\ (~Active(r1) \/ Active(r2)) THEN "replace" ELSE "propagate"

\* Mutant of replace_sgroup_owned_vs_X_replica: equal lists are merged.
MergesEqual(r1, r2) ==
    IF ~Active(r1) THEN "replace"
    ELSE IF r2.type # "sgroup" \/ ~Active(r2) THEN "propagate"
    ELSE "sgroup_merge"

replace_sgroup_owned_vs_X_replica(r1, r2) ==
    IF ~Active(r1) THEN "replace"
    ELSE IF r2.type # "sgroup" \/ ~Active(r2) THEN "propagate"
    ELSE IF r_1_is_same_as_2_address_list(r1, r2, TRUE) THEN "not"
    ELSE "sgroup_merge"

\* The choice of wreplsrv_apply_one_record at server s.
R_ACTION(s, r1, r2) ==
    IF r1.owner = s
    THEN CASE r1.type = "unique" -> replace_unique_owned_vs_X_replica(r1, r2)
           [] r1.type = "group" -> replace_group_owned_vs_X_replica(r1, r2)
           [] r1.type = "sgroup" -> replace_sgroup_owned_vs_X_replica(r1, r2)
           [] r1.type = "mhomed" -> replace_mhomed_owned_vs_X_replica(r1, r2)
    ELSE IF r1.owner = r2.owner THEN "replace"
    ELSE CASE r1.type = "unique" -> replace_unique_replica_vs_X_replica(r1, r2)
           [] r1.type = "group" -> replace_group_replica_vs_X_replica(r1, r2)
           [] r1.type = "sgroup" -> replace_sgroup_replica_vs_X_replica(r1, r2)
           [] r1.type = "mhomed" -> replace_mhomed_replica_vs_X_replica(r1, r2)

\* r_do_add and r_do_replace store the replica with an expire_time of their own.
Replica(r2) == [r2 EXCEPT !.expired = FALSE, !.addrs = Renew(@)]

\* r_do_sgroup_merge: the addresses that stay, and whether server s takes the
\* ownership of the result.
Dropped(r1, r2) ==
    {a \in DOMAIN r1.addrs \ DOMAIN r2.addrs : r1.addrs[a].owner = r2.owner}

SgroupMerge(r1, r2) ==
    {[Replica(r2) EXCEPT !.addrs = l] :
        l \in AddAll(Keep(Without(r1.addrs, Dropped(r1, r2))), Renew(r2.addrs))}

become_owner(s, r1, r2, merge) ==
    \/ r1.owner = s
    \/ DOMAIN merge.addrs = {}
    \/ /\ Dropped(r1, r2) = {}
       /\ \A a \in DOMAIN r1.addrs \cap DOMAIN r2.addrs : r1.addrs[a].owner = r2.addrs[a].owner

MhomedMerge(r1, r2) ==
    {[Replica(r2) EXCEPT !.type = "mhomed", !.addrs = l] :
        l \in AddAll(Renew(r2.addrs), Keep(Without(r1.addrs, DOMAIN r2.addrs)))}
=============================================================================
