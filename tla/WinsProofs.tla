----------------------------- MODULE WinsProofs -----------------------------
(***************************************************************************)
(* Proofs about the WINS servers: every version was given by its owner,    *)
(* and what is stored can be read again.                                   *)
(***************************************************************************)
EXTENDS WinsInv, FiniteSetTheorems, TLAPS

-----------------------------------------------------------------------------
(* Lists of addresses. *)

\* What a list of addresses is.
LEMMA ListKnown ==
    ASSUME NEW l \in AddrList
    PROVE  /\ DOMAIN l \subseteq Addr
           /\ l \in [DOMAIN l -> AddrEntry]
           /\ IsFiniteSet(DOMAIN l)
           /\ Cardinality(DOMAIN l) \in Nat
           /\ DOMAIN l = {} <=> Cardinality(DOMAIN l) = 0
  <1>1. PICK d \in SUBSET Addr : l \in [d -> AddrEntry]  BY DEF AddrList
  <1>2. DOMAIN l = d  BY <1>1
  <1>3. IsFiniteSet(d)  BY WinsdbAssumption, FS_Subset
  <1>4. Cardinality(d) \in Nat  BY <1>3, FS_CardinalityType
  <1>5. d = {} <=> Cardinality(d) = 0  BY <1>3, FS_EmptySet
  <1> QED  BY <1>1, <1>2, <1>3, <1>4, <1>5

\* A function from addresses to entries is a list.
LEMMA ListMade ==
    ASSUME NEW d \in SUBSET Addr, NEW l \in [d -> AddrEntry]
    PROVE  l \in AddrList /\ DOMAIN l = d
  BY DEF AddrList

\* Keep, Renew and Without give lists, with the addresses one expects and none
\* whose time has passed, unless it was so before.
LEMMA KeepIs ==
    ASSUME NEW l \in AddrList
    PROVE  Keep(l) \in AddrList /\ DOMAIN Keep(l) = DOMAIN l /\ (Fresh(l) => Fresh(Keep(l)))
  <1>1. DOMAIN l \subseteq Addr /\ l \in [DOMAIN l -> AddrEntry]  BY ListKnown
  <1>2. Keep(l) \in [DOMAIN l -> AddrEntry]  BY <1>1 DEF Keep, AddrEntry
  <1>3. Keep(l) \in AddrList /\ DOMAIN Keep(l) = DOMAIN l  BY <1>1, <1>2, ListMade
  <1>4. ASSUME Fresh(l) PROVE Fresh(Keep(l))  BY <1>1, <1>4 DEF Fresh, Keep, AddrEntry
  <1> QED  BY <1>3, <1>4

LEMMA RenewIs ==
    ASSUME NEW l \in AddrList
    PROVE  Renew(l) \in AddrList /\ DOMAIN Renew(l) = DOMAIN l /\ Fresh(Renew(l))
  <1>1. DOMAIN l \subseteq Addr /\ l \in [DOMAIN l -> AddrEntry]  BY ListKnown
  <1>2. Renew(l) \in [DOMAIN l -> AddrEntry]  BY <1>1 DEF Renew, AddrEntry
  <1>3. Renew(l) \in AddrList /\ DOMAIN Renew(l) = DOMAIN l  BY <1>1, <1>2, ListMade
  <1>4. Fresh(Renew(l))  BY <1>1 DEF Fresh, Renew, AddrEntry
  <1> QED  BY <1>3, <1>4

LEMMA WithoutIs ==
    ASSUME NEW l \in AddrList, NEW d
    PROVE  /\ Without(l, d) \in AddrList
           /\ DOMAIN Without(l, d) = DOMAIN l \ d
           /\ Cardinality(DOMAIN Without(l, d)) <= Cardinality(DOMAIN l)
           /\ Fresh(l) => Fresh(Without(l, d))
  <1>1. /\ DOMAIN l \subseteq Addr /\ l \in [DOMAIN l -> AddrEntry]
        /\ IsFiniteSet(DOMAIN l)
    BY ListKnown
  <1>2. Without(l, d) \in [DOMAIN l \ d -> AddrEntry]  BY <1>1 DEF Without
  <1>3. Without(l, d) \in AddrList /\ DOMAIN Without(l, d) = DOMAIN l \ d  BY <1>1, <1>2, ListMade
  <1>4. Cardinality(DOMAIN l \ d) <= Cardinality(DOMAIN l)  BY <1>1, FS_Subset
  <1>5. ASSUME Fresh(l) PROVE Fresh(Without(l, d))  BY <1>1, <1>5 DEF Fresh, Without
  <1> QED  BY <1>3, <1>4, <1>5

\* The list of one address.
LEMMA OneAddress ==
    ASSUME NEW s \in Server, NEW a \in Addr
    PROVE  LET l == [b \in {a} |-> Own(s)]
           IN  l \in AddrList /\ DOMAIN l = {a} /\ Cardinality(DOMAIN l) = 1 /\ Fresh(l)
  <1> DEFINE l == [b \in {a} |-> Own(s)]
  <1>1. l \in [{a} -> AddrEntry]  BY DEF AddrEntry, Own
  <1>2. l \in AddrList /\ DOMAIN l = {a}  BY <1>1, ListMade
  <1>3. Cardinality({a}) = 1  BY FS_Singleton
  <1>4. Fresh(l)  BY DEF Fresh, Own
  <1> QED  BY <1>2, <1>3, <1>4

\* Max and Min of two numbers.
LEMMA MaxIs ==
    ASSUME NEW i \in Int, NEW j \in Int
    PROVE  Max({i, j}) \in {i, j} /\ Max({i, j}) >= i /\ Max({i, j}) >= j
  <1>1. \E x \in {i, j} : \A y \in {i, j} : x >= y  OBVIOUS
  <1> QED  BY <1>1 DEF Max

LEMMA MinIs ==
    ASSUME NEW i \in Int, NEW j \in Int
    PROVE  Min({i, j}) \in {i, j} /\ Min({i, j}) <= i /\ Min({i, j}) <= j
  <1>1. \E x \in {i, j} : \A y \in {i, j} : x =< y  OBVIOUS
  <1> QED  BY <1>1 DEF Min

\* A registration leaves a list that has its address and is not too long.
LEMMA AddIs ==
    ASSUME NEW s \in Server, NEW l \in AddrList, NEW a \in Addr,
           NEW m \in winsdb_addr_list_add(s, l, a)
    PROVE  /\ m \in AddrList
           /\ DOMAIN m # {}
           /\ Cardinality(DOMAIN l) <= MaxAddrs => Cardinality(DOMAIN m) <= MaxAddrs
           /\ Fresh(l) => Fresh(m)
  <1> DEFINE replicas == {b \in DOMAIN l : l[b].owner # s}
             gone == IF a \in DOMAIN l \/ Cardinality(DOMAIN l) < MaxAddrs THEN {{}}
                     ELSE {{b} : b \in IF replicas # {} THEN replicas ELSE DOMAIN l}
  <1>1. PICK g \in gone :
           m = [b \in {a} \cup (DOMAIN l \ g) |-> IF b = a THEN Own(s) ELSE l[b]]
    BY DEF winsdb_addr_list_add
  <1>2. /\ DOMAIN l \subseteq Addr /\ l \in [DOMAIN l -> AddrEntry]
        /\ IsFiniteSet(DOMAIN l) /\ Cardinality(DOMAIN l) \in Nat
    BY ListKnown
  <1>3. m \in [{a} \cup (DOMAIN l \ g) -> AddrEntry]  BY <1>1, <1>2 DEF Own, AddrEntry
  <1>4. m \in AddrList /\ DOMAIN m = {a} \cup (DOMAIN l \ g)  BY <1>2, <1>3, ListMade
  <1>5. ASSUME Fresh(l) PROVE Fresh(m)  BY <1>1, <1>5 DEF Fresh, Own
  <1>6. ASSUME Cardinality(DOMAIN l) <= MaxAddrs
        PROVE  Cardinality({a} \cup (DOMAIN l \ g)) <= MaxAddrs
    <2>1. CASE a \in DOMAIN l
      <3>1. g = {}  BY <1>1, <2>1
      <3>2. {a} \cup (DOMAIN l \ g) = DOMAIN l  BY <2>1, <3>1
      <3> QED  BY <1>6, <3>2
    <2>2. CASE a \notin DOMAIN l /\ Cardinality(DOMAIN l) < MaxAddrs
      <3>1. g = {}  BY <1>1, <2>2
      <3>2. {a} \cup (DOMAIN l \ g) = DOMAIN l \cup {a}  BY <3>1
      <3>3. Cardinality(DOMAIN l \cup {a}) = Cardinality(DOMAIN l) + 1
        BY <1>2, <2>2, FS_AddElement
      <3> QED  BY <1>2, <2>2, <3>2, <3>3, WinsdbAssumption
    <2>3. CASE a \notin DOMAIN l /\ ~(Cardinality(DOMAIN l) < MaxAddrs)
      <3>1. PICK b \in DOMAIN l : g = {b}  BY <1>1, <2>3
      <3>2. IsFiniteSet(DOMAIN l \ {b}) /\ Cardinality(DOMAIN l \ {b}) = Cardinality(DOMAIN l) - 1
        BY <1>2, <3>1, FS_RemoveElement
      <3>3. Cardinality((DOMAIN l \ {b}) \cup {a}) = Cardinality(DOMAIN l \ {b}) + 1
        BY <2>3, <3>2, FS_AddElement
      <3>4. {a} \cup (DOMAIN l \ g) = (DOMAIN l \ {b}) \cup {a}  BY <3>1
      <3>5. Cardinality({a} \cup (DOMAIN l \ g)) = (Cardinality(DOMAIN l) - 1) + 1
        BY <3>2, <3>3, <3>4
      <3> HIDE DEF gone
      <3> QED  BY <1>2, <1>6, <3>5, WinsdbAssumption
    <2> QED  BY <2>1, <2>2, <2>3
  <1> QED  BY <1>4, <1>5, <1>6

\* Two lists in one: all of the first, and no more than a record may have.
LEMMA AddAllIs ==
    ASSUME NEW l \in AddrList, NEW more \in AddrList, NEW m \in AddAll(l, more),
           Cardinality(DOMAIN l) <= MaxAddrs
    PROVE  /\ m \in AddrList
           /\ Cardinality(DOMAIN m) <= MaxAddrs
           /\ Fresh(l) /\ Fresh(more) => Fresh(m)
  <1> DEFINE new == DOMAIN more \ DOMAIN l
             room == MaxAddrs - Cardinality(DOMAIN l)
             kept == {k \in SUBSET new : Cardinality(k) = Min({room, Cardinality(new)})}
  <1>1. PICK k \in kept :
           m = [a \in DOMAIN l \cup k |-> IF a \in DOMAIN more THEN more[a] ELSE l[a]]
    BY DEF AddAll
  <1>2. /\ DOMAIN l \subseteq Addr /\ l \in [DOMAIN l -> AddrEntry]
        /\ IsFiniteSet(DOMAIN l) /\ Cardinality(DOMAIN l) \in Nat
    BY ListKnown
  <1>3. /\ DOMAIN more \subseteq Addr /\ more \in [DOMAIN more -> AddrEntry]
        /\ IsFiniteSet(DOMAIN more)
    BY ListKnown
  <1>4. k \subseteq new  BY <1>1
  <1>5. m \in [DOMAIN l \cup k -> AddrEntry]  BY <1>1, <1>2, <1>3, <1>4
  <1>6. m \in AddrList /\ DOMAIN m = DOMAIN l \cup k  BY <1>2, <1>3, <1>4, <1>5, ListMade
  <1>7. ASSUME Fresh(l), Fresh(more) PROVE Fresh(m)  BY <1>1, <1>4, <1>7 DEF Fresh
  <1>8. Cardinality(DOMAIN l \cup k) <= MaxAddrs
    <2>1. IsFiniteSet(new) /\ IsFiniteSet(k)  BY <1>3, <1>4, FS_Subset
    <2>2. Cardinality(new) \in Nat /\ Cardinality(k) \in Nat  BY <2>1, FS_CardinalityType
    <2>3. Cardinality(k) <= room
      <3>1. Cardinality(k) = Min({room, Cardinality(new)})  BY <1>1
      <3>2. room \in Int  BY <1>2, WinsdbAssumption
      <3>3. Cardinality(new) \in Int  BY <2>2
      <3> HIDE DEF kept, room, new
      <3>4. Min({room, Cardinality(new)}) <= room  BY <3>2, <3>3, MinIs
      <3> QED  BY <3>1, <3>4
    <2>4. DOMAIN l \cap k = {}  BY <1>4
    <2>5. Cardinality(DOMAIN l \cap k) = 0  BY <2>4, FS_EmptySet
    <2>6. Cardinality(DOMAIN l \cup k) =
            Cardinality(DOMAIN l) + Cardinality(k) - Cardinality(DOMAIN l \cap k)
      BY <1>2, <2>1, FS_Union
    <2> QED  BY <1>2, <2>2, <2>3, <2>5, <2>6, WinsdbAssumption
  <1> QED  BY <1>6, <1>7, <1>8

-----------------------------------------------------------------------------
(* Records. *)

\* What a search that finds nothing, or a corrupt record, returns is no record.
LEMMA RecordsAreFound ==
    /\ ~Found(NotFound) /\ ~Found(Corruption) /\ NotFound # Corruption
    /\ NotFound \notin Record
    /\ \A r \in Record : Found(r)
  <1>1. ~Found(NotFound) /\ ~Found(Corruption)  BY DEF Found, NotFound, Corruption
  <1>2. \A r \in Record : Found(r)  BY DEF Found, Record
  <1>3. DOMAIN NotFound = {"found"} /\ DOMAIN Corruption = {"found", "corrupt"}
    BY DEF NotFound, Corruption
  <1>4. NotFound # Corruption  BY <1>3
  <1> QED  BY <1>1, <1>2, <1>4

\* The fields of a record, and what the scenario says of one.
LEMMA RecordKnown ==
    ASSUME NEW r \in Record
    PROVE  /\ r.type \in Type /\ r.state \in {"active", "released", "tombstone"}
           /\ r.owner \in Server /\ r.version \in Nat /\ r.expired \in BOOLEAN
           /\ r.addrs \in AddrList
           /\ DOMAIN r.addrs \subseteq Addr
           /\ IsFiniteSet(DOMAIN r.addrs)
           /\ Cardinality(DOMAIN r.addrs) \in Nat
           /\ DOMAIN r.addrs = {} <=> Cardinality(DOMAIN r.addrs) = 0
  <1>1. /\ r.type \in Type /\ r.state \in {"active", "released", "tombstone"}
        /\ r.owner \in Server /\ r.version \in Nat /\ r.expired \in BOOLEAN
        /\ r.addrs \in AddrList
    BY DEF Record
  <1> QED  BY <1>1, ListKnown

\* Another state, another expire_time, a list with as good addresses: still a
\* record that may be written.
LEMMA MadeAgain ==
    ASSUME NEW x, NEW r \in Made(x), NEW q \in Record, q.type = r.type,
           DOMAIN q.addrs = DOMAIN r.addrs, Fresh(r.addrs) => Fresh(q.addrs)
    PROVE  q \in Made(x)
  BY DEF Made, OfScenario, Storable, Fits

\* What winsdb_message makes of a record can be read again.
LEMMA MessageIs ==
    ASSUME NEW x, NEW r \in Made(x)
    PROVE  /\ winsdb_message(r) \in Made(x)
           /\ Apart(x) => Readable(winsdb_message(r))
           /\ winsdb_message(r).owner = r.owner /\ winsdb_message(r).version = r.version
  <1> DEFINE q == winsdb_message(r)
             n == Cardinality(DOMAIN r.addrs)
  <1>1. r \in Record  BY DEF Made
  <1>2. /\ r.type \in Type /\ r.state \in {"active", "released", "tombstone"}
        /\ n \in Nat /\ (DOMAIN r.addrs = {} <=> n = 0)
    BY <1>1, RecordKnown
  <1>3. /\ q \in Record /\ q.addrs = r.addrs /\ q.owner = r.owner /\ q.version = r.version
        /\ q.type = IF r.type = "unique" /\ n > 1 THEN "mhomed" ELSE r.type
        /\ q.state = IF r.state = "active" /\ DOMAIN r.addrs = {} THEN "released" ELSE r.state
    BY <1>1 DEF winsdb_message, Record, Type
  <1>4. q \in Made(x)  BY <1>2, <1>3 DEF Made, OfScenario, Storable, Fits
  <1>5. ASSUME Apart(x) PROVE Readable(q)
    <2>1. Storable(r)  BY <1>5 DEF Made
    <2>2. q.type \in {"unique", "group"} => n = 1  BY <1>2, <1>3, <2>1 DEF Storable
    <2>3. q.state = "active" => DOMAIN q.addrs # {}  BY <1>3
    <2>4. n <= MaxAddrs  BY DEF Made, Fits
    <2> QED  BY <1>3, <2>2, <2>3, <2>4 DEF Readable
  <1> QED  BY <1>3, <1>4, <1>5

\* A record that keeps its version, and one that is given the next one.
LEMMA StoredIs ==
    ASSUME NEW x, NEW v, NEW r \in Sound(x, v)
    PROVE  winsdb_message(r) \in Stored(x, v)
  <1>1. r \in Made(x) /\ r.version \in 1..v[r.owner]  BY DEF Sound
  <1> QED  BY <1>1, MessageIs DEF Sound, Stored

\* The sets grow with the versions that are given.
LEMMA Grown ==
    ASSUME NEW x, NEW v \in [Server -> Nat], NEW w \in [Server -> Nat],
           \A o \in Server : v[o] <= w[o]
    PROVE  /\ Sound(x, v) \subseteq Sound(x, w)
           /\ Stored(x, v) \subseteq Stored(x, w)
           /\ SoundJob(x, v) \subseteq SoundJob(x, w)
           /\ SoundCycle(x, v) \subseteq SoundCycle(x, w)
           /\ SoundWaiting(x, v) \subseteq SoundWaiting(x, w)
  <1>1. ASSUME NEW r \in Sound(x, v) PROVE r \in Sound(x, w)
    <2>1. r \in Made(x) /\ r.version \in 1..v[r.owner] /\ r.owner \in Server
      BY DEF Sound, Made, Record
    <2>2. v[r.owner] \in Nat /\ w[r.owner] \in Nat /\ v[r.owner] <= w[r.owner]
      BY <2>1
    <2> QED  BY <2>1, <2>2 DEF Sound
  <1>2. Sound(x, v) \subseteq Sound(x, w)  BY <1>1
  <1>3. SoundHost(x, v) \subseteq SoundHost(x, w)  BY <1>2 DEF SoundHost
  <1>4. Stored(x, v) \subseteq Stored(x, w)  BY <1>2 DEF Stored
  <1>5. SoundJob(x, v) \subseteq SoundJob(x, w)  BY <1>2 DEF SoundJob
  <1>6. SoundCycle(x, v) \subseteq SoundCycle(x, w)  BY <1>2 DEF SoundCycle
  <1>7. SoundWaiting(x, v) \subseteq SoundWaiting(x, w)  BY <1>2, <1>3 DEF SoundWaiting
  <1> QED  BY <1>2, <1>4, <1>5, <1>6, <1>7

\* What is read at server s: the stored record, perhaps without the addresses
\* whose time has passed.  Only when that made it a released one may it be
\* unfit to be written back.
LEMMA LookupIs ==
    ASSUME WinsInv, NEW s \in Server, Found(winsdb_lookup(s))
    PROVE  LET r == winsdb_lookup(s)
           IN  /\ Found(rec[s])
               /\ r \in Record
               /\ OfScenario(scenario, r)
               /\ r.version \in 1..maxVersion[r.owner]
               /\ r.owner = rec[s].owner /\ r.version = rec[s].version
               /\ r.state # "released" \/ scenario.bound["expire"] = 0 =>
                    r \in Sound(scenario, maxVersion)
  <1> DEFINE r == winsdb_lookup(s)
             q == rec[s]
             past == {a \in DOMAIN q.addrs : q.addrs[a].age = "past"}
             live == Without(q.addrs, past)
  <1>1. q \in Stored(scenario, maxVersion) \cup {NotFound}  BY DEF WinsInv
  <1>2. Found(q)  BY DEF winsdb_lookup
  <1>3. q \in Stored(scenario, maxVersion)  BY <1>1, <1>2, RecordsAreFound
  <1>4. q \in Sound(scenario, maxVersion) /\ (Apart(scenario) => Readable(q))  BY <1>3 DEF Stored
  <1>5. /\ q \in Made(scenario) /\ q.version \in 1..maxVersion[q.owner]  BY <1>4 DEF Sound
  <1>6. /\ q \in Record /\ OfScenario(scenario, q) /\ (Apart(scenario) => Storable(q))
    BY <1>5 DEF Made
  <1>7. r = winsdb_record(s, q)  BY <1>2 DEF winsdb_lookup
  <1>8. Readable(q)
    <2> SUFFICES ASSUME ~Readable(q) PROVE FALSE  OBVIOUS
    <2>1. r = Corruption  BY <1>7 DEF winsdb_record
    <2> QED  BY <2>1, RecordsAreFound
  <1>9. CASE r = q  BY <1>2, <1>4, <1>5, <1>6, <1>9
  <1>10. CASE r = [q EXCEPT !.state = "released"]
    <2>1. /\ r \in Record /\ r.addrs = q.addrs /\ r.type = q.type /\ r.owner = q.owner
          /\ r.version = q.version
      BY <1>6, <1>10 DEF Record
    <2>2. r \in Made(scenario)  BY <1>5, <2>1, MadeAgain
    <2>3. OfScenario(scenario, r)  BY <2>2 DEF Made
    <2> QED  BY <1>2, <1>5, <2>1, <2>2, <2>3 DEF Sound
  <1>11. CASE r = [q EXCEPT !.addrs = live,
                            !.state = IF DOMAIN live = {} THEN "released" ELSE "active"]
    <2>1. q.addrs \in AddrList /\ Cardinality(DOMAIN q.addrs) \in Nat /\ IsFiniteSet(DOMAIN q.addrs)
      BY <1>6, RecordKnown
    <2>2. /\ live \in AddrList /\ DOMAIN live = DOMAIN q.addrs \ past
          /\ Cardinality(DOMAIN live) <= Cardinality(DOMAIN q.addrs)
          /\ (Fresh(q.addrs) => Fresh(live))
      BY <2>1, WithoutIs
    <2>3. /\ Cardinality(DOMAIN live) \in Nat
          /\ DOMAIN live = {} <=> Cardinality(DOMAIN live) = 0
      BY <2>2, ListKnown
    <2> HIDE DEF live, past
    <2>4. /\ r \in Record /\ r.addrs = live /\ r.type = q.type /\ r.owner = q.owner
          /\ r.version = q.version
          /\ r.state = IF DOMAIN live = {} THEN "released" ELSE "active"
      BY <1>6, <1>11, <2>2 DEF Record
    <2>5. OfScenario(scenario, r)  BY <1>6, <2>2, <2>4 DEF OfScenario
    <2>6. ASSUME r.state # "released" \/ scenario.bound["expire"] = 0, Apart(scenario)
          PROVE  Storable(r)
      <3>1. CASE DOMAIN live # {}
        <4>1. r.type = "group" => Cardinality(DOMAIN live) = 1
          BY <1>8, <2>1, <2>2, <2>3, <2>4, <3>1 DEF Readable
        <4> QED  BY <2>4, <3>1, <4>1 DEF Storable
      <3>2. CASE DOMAIN live = {}
        <4>1. scenario.bound["expire"] = 0  BY <2>4, <2>6, <3>2
        <4>2. Fresh(q.addrs)  BY <1>6, <4>1 DEF OfScenario
        <4>3. past = {}  BY <4>2 DEF Fresh, past
        <4>4. DOMAIN live = DOMAIN q.addrs  BY <2>2, <4>3
        <4> QED  BY <1>6, <2>4, <2>6, <4>4 DEF Storable
      <3> QED  BY <3>1, <3>2
    <2>7. Fits(r)  BY <1>8, <2>1, <2>2, <2>3, <2>4, WinsdbAssumption DEF Readable, Fits
    <2> QED  BY <1>2, <1>5, <2>4, <2>5, <2>6, <2>7 DEF Sound, Made
  <1> QED  BY <1>7, <1>8, <1>9, <1>10, <1>11 DEF winsdb_record

\* Whatever is read has no more addresses than a record may have.
LEMMA LookupFits ==
    ASSUME WinsInv, NEW s \in Server, Found(winsdb_lookup(s))
    PROVE  Fits(winsdb_lookup(s))
  <1> DEFINE q == rec[s]
             past == {a \in DOMAIN q.addrs : q.addrs[a].age = "past"}
             live == Without(q.addrs, past)
  <1>1. Found(q) /\ q \in Record
    BY RecordsAreFound DEF WinsInv, winsdb_lookup, Stored, Sound, Made
  <1>2. Readable(q) /\ winsdb_lookup(s) = winsdb_record(s, q)
    BY <1>1, RecordsAreFound DEF winsdb_lookup, winsdb_record
  <1>3. Cardinality(DOMAIN q.addrs) <= MaxAddrs  BY <1>2 DEF Readable
  <1>4. q.addrs \in AddrList /\ Cardinality(DOMAIN q.addrs) \in Nat  BY <1>1, RecordKnown
  <1>5. live \in AddrList /\ Cardinality(DOMAIN live) <= Cardinality(DOMAIN q.addrs)
    BY <1>4, WithoutIs
  <1>6. Cardinality(DOMAIN live) \in Nat  BY <1>5, ListKnown
  <1>7. winsdb_lookup(s).addrs \in {q.addrs, live}  BY <1>1, <1>2 DEF winsdb_record, Record
  <1> HIDE DEF live
  <1> QED  BY <1>3, <1>4, <1>5, <1>6, <1>7, WinsdbAssumption DEF Fits

\* Nothing found: no record, or a corrupt one.
LEMMA LookupFails ==
    ASSUME WinsInv, NEW s \in Server, ~Found(winsdb_lookup(s))
    PROVE  winsdb_lookup(s) \in {NotFound, Corruption}
  <1> DEFINE q == rec[s]
  <1>1. q \in Stored(scenario, maxVersion) \cup {NotFound}  BY DEF WinsInv
  <1>2. CASE ~Found(q)
    <2>1. q = NotFound  BY <1>1, <1>2, RecordsAreFound DEF Stored, Sound, Made
    <2> QED  BY <1>2, <2>1 DEF winsdb_lookup
  <1>3. CASE Found(q)
    <2>1. q \in Record  BY <1>1, <1>3, RecordsAreFound DEF Stored, Sound, Made
    <2>2. winsdb_lookup(s) = winsdb_record(s, q)  BY <1>3 DEF winsdb_lookup
    <2>3. CASE ~Readable(q)  BY <2>2, <2>3 DEF winsdb_record
    <2>4. CASE Readable(q)
      <3>1. "state" \in DOMAIN winsdb_lookup(s)  BY <2>1, <2>2, <2>4 DEF winsdb_record, Record
      <3> QED  BY <3>1 DEF Found
    <2> QED  BY <2>3, <2>4
  <1> QED  BY <1>2, <1>3

-----------------------------------------------------------------------------
(* Writing to the database. *)

\* The database after a step, and the versions that were given before stay.
Wrote ==
    /\ maxVersion' \in [Server -> Nat]
    /\ \A o \in Server : maxVersion[o] <= maxVersion'[o]
    /\ rec' \in [Server -> Stored(scenario, maxVersion') \cup {NotFound}]

\* Nothing is written.
LEMMA WroteNothing ==
    ASSUME WinsInv, UNCHANGED db
    PROVE  Wrote
  BY DEF WinsInv, Wrote, db

\* The record is deleted (winsdb_delete).
LEMMA WroteDelete ==
    ASSUME WinsInv, NEW s \in Server, winsdb_delete(s)
    PROVE  Wrote
  BY DEF WinsInv, Wrote, winsdb_delete

\* A record is stored as it is.
LEMMA WroteStore ==
    ASSUME WinsInv, NEW s \in Server, NEW r \in Sound(scenario, maxVersion), Store(s, r)
    PROVE  Wrote
  <1>1. winsdb_message(r) \in Stored(scenario, maxVersion)  BY StoredIs
  <1> QED  BY <1>1 DEF WinsInv, Wrote, Store

\* A record is stored with a new version.
LEMMA WroteOwned ==
    ASSUME WinsInv, NEW s \in Server, NEW r \in Made(scenario), StoreOwned(s, r)
    PROVE  Wrote
  <1> DEFINE q == [r EXCEPT !.owner = s, !.version = maxVersion'[s]]
  <1>1. /\ maxVersion \in [Server -> Nat]
        /\ rec \in [Server -> Stored(scenario, maxVersion) \cup {NotFound}]
    BY DEF WinsInv
  <1>2. maxVersion' = [maxVersion EXCEPT ![s] = @ + 1]
    BY DEF StoreOwned
  <1>3. /\ maxVersion' \in [Server -> Nat] /\ \A o \in Server : maxVersion[o] <= maxVersion'[o]
        /\ maxVersion'[s] \in Nat /\ maxVersion'[s] >= 1
    BY <1>1, <1>2
  <1>4. /\ q \in Record /\ q.owner = s /\ q.version = maxVersion'[s] /\ q.type = r.type
        /\ q.addrs = r.addrs
    BY <1>3 DEF Made, Record
  <1>5. q \in Made(scenario)  BY <1>4, MadeAgain
  <1>6. q.version \in 1..maxVersion'[q.owner]  BY <1>3, <1>4
  <1>7. q \in Sound(scenario, maxVersion')  BY <1>5, <1>6 DEF Sound
  <1>8. winsdb_message(q) \in Stored(scenario, maxVersion')  BY <1>7, StoredIs
  <1>9. rec' = [rec EXCEPT ![s] = winsdb_message(q)]  BY DEF StoreOwned
  <1>10. Stored(scenario, maxVersion) \subseteq Stored(scenario, maxVersion')
    BY <1>1, <1>3, Grown
  <1> HIDE DEF q
  <1> QED  BY <1>1, <1>3, <1>8, <1>9, <1>10 DEF Wrote

\* A record is added or modified (winsdb_add, winsdb_modify).
LEMMA WroteModify ==
    ASSUME WinsInv, NEW s \in Server, NEW own \in BOOLEAN, NEW r \in Made(scenario),
           ~own => r \in Sound(scenario, maxVersion),
           winsdb_modify(s, r, own) \/ winsdb_add(s, r, own)
    PROVE  Wrote
  <1>1. UNCHANGED db \/ (own /\ StoreOwned(s, r)) \/ (~own /\ Store(s, r))
    BY DEF winsdb_modify, winsdb_add
  <1> QED  BY <1>1, WroteNothing, WroteStore, WroteOwned

\* What the processes may be about to write, and what the pull cycles may have.
Jobs == SoundJob(scenario, maxVersion)
Tasks == [Server -> [Process -> Jobs \cup {Free}]]
Pulls == [Server -> [Server -> Versions]]
Cycles == [Server -> [Server -> [Slot -> SoundCycle(scenario, maxVersion)]]]

\* A step that writes the database so, and leaves the rest of the invariant true.
LEMMA Kept ==
    ASSUME WinsInv, Wrote, UNCHANGED scenario, task' \in Tasks,
           table' \in [Server -> Versions], pulled' \in Pulls, cycle' \in Cycles,
           waiting' \subseteq SoundWaiting(scenario, maxVersion),
           events' \in [Events -> Nat]
    PROVE  WinsInv'
  <1> DEFINE jobs == SoundJob(scenario, maxVersion')
             cycles == SoundCycle(scenario, maxVersion')
  <1>1. maxVersion \in [Server -> Nat] /\ maxVersion' \in [Server -> Nat]
        /\ \A o \in Server : maxVersion[o] <= maxVersion'[o]
    BY DEF WinsInv, Wrote
  <1>2. /\ Jobs \subseteq jobs
        /\ SoundCycle(scenario, maxVersion) \subseteq cycles
        /\ SoundWaiting(scenario, maxVersion) \subseteq SoundWaiting(scenario, maxVersion')
    BY <1>1, Grown DEF Jobs
  <1>3. scenario' = scenario  OBVIOUS
  <1> HIDE DEF jobs, cycles
  <1>4. task' \in [Server -> [Process -> jobs \cup {Free}]]
    <2>1. ASSUME NEW s \in Server PROVE task'[s] \in [Process -> jobs \cup {Free}]
      BY <1>2 DEF Tasks
    <2> QED  BY <2>1 DEF Tasks
  <1>5. cycle' \in [Server -> [Server -> [Slot -> cycles]]]
    <2>1. ASSUME NEW s \in Server, NEW p \in Server PROVE cycle'[s][p] \in [Slot -> cycles]
      BY <1>2 DEF Cycles
    <2>2. ASSUME NEW s \in Server PROVE cycle'[s] \in [Server -> [Slot -> cycles]]
      BY <2>1 DEF Cycles
    <2> QED  BY <2>2 DEF Cycles
  <1>6. waiting' \subseteq SoundWaiting(scenario, maxVersion')  BY <1>2
  <1>7. /\ scenario' \in Scenarios
        /\ rec' \in [Server -> Stored(scenario, maxVersion') \cup {NotFound}]
    BY DEF WinsInv, Wrote
  <1>8. pulled' \in [Server -> [Server -> Versions]]  BY DEF Pulls
  <1> QED  BY <1>1, <1>3, <1>4, <1>5, <1>6, <1>7, <1>8 DEF WinsInv, jobs, cycles

\* What a step leaves alone stays as the invariant says.
LEMMA Untouched ==
    ASSUME WinsInv
    PROVE  /\ task \in Tasks
           /\ table \in [Server -> Versions] /\ pulled \in Pulls /\ cycle \in Cycles
           /\ waiting \subseteq SoundWaiting(scenario, maxVersion)
           /\ events \in [Events -> Nat]
  BY DEF WinsInv, Tasks, Jobs, Pulls, Cycles

\* What the invariant says of a record that is stored.
LEMMA StoredKnown ==
    ASSUME WinsInv, NEW s \in Server, Found(rec[s])
    PROVE  /\ rec[s] \in Stored(scenario, maxVersion)
           /\ rec[s] \in Sound(scenario, maxVersion)
           /\ rec[s] \in Made(scenario)
           /\ rec[s] \in Record
  <1>1. rec[s] \in Stored(scenario, maxVersion) \cup {NotFound}  BY DEF WinsInv
  <1>2. rec[s] \in Stored(scenario, maxVersion)  BY <1>1, RecordsAreFound
  <1> QED  BY <1>2 DEF Stored, Sound, Made

\* The bound on the expiries, the types, and the counter of a kind of event.
LEMMA ScenarioKnown ==
    ASSUME WinsInv
    PROVE  scenario.types \subseteq Type /\ scenario.bound \in [Events -> Nat]
  <1>1. scenario \in [uses: SUBSET (Addr \X Server),
                      types: {{"sgroup"}} \cup SUBSET {"unique", "mhomed", "group"},
                      bound: [Events -> Nat]]
    BY WinsAssumption DEF WinsInv
  <1> QED  BY <1>1 DEF Type

LEMMA Counted ==
    ASSUME WinsInv, NEW e \in Events, Happens(e)
    PROVE  events' \in [Events -> Nat] /\ scenario.bound[e] # 0
  <1>1. events \in [Events -> Nat] /\ events[e] \in Nat  BY DEF WinsInv
  <1>2. scenario.bound[e] \in Nat  BY ScenarioKnown
  <1> QED  BY <1>1, <1>2 DEF Happens

-----------------------------------------------------------------------------
(* What a process is about to write. *)

\* A write that a handler decides on.
LEMMA JobMade ==
    ASSUME WinsInv, NEW s \in Server, NEW op \in {"add", "renew", "modify", "delete"},
           NEW own \in BOOLEAN, NEW r \in Made(scenario), ~own => r \in Sound(scenario, maxVersion)
    PROVE  NewJob(op, s, r, own) \in Jobs
  <1>1. rec[s] \in Record \cup {NotFound}  BY DEF WinsInv, Stored, Sound, Made
  <1> QED  BY <1>1 DEF NewJob, Jobs, SoundJob

\* A handler goes on with one of its writes.
LEMMA Begun ==
    ASSUME WinsInv, NEW s \in Server, NEW q \in Process, NEW jobs \in SUBSET Jobs, Begin(s, q, jobs)
    PROVE  task' \in Tasks
  <1>1. task \in Tasks  BY Untouched
  <1>2. CASE task' = task  BY <1>1, <1>2
  <1>3. CASE \E j \in jobs : task' = [task EXCEPT ![s][q] = j]
    <2>1. PICK j \in jobs : task' = [task EXCEPT ![s][q] = j]  BY <1>3
    <2>2. j \in Jobs  OBVIOUS
    <2> QED  BY <1>1, <2>1, <2>2 DEF Tasks
  <1> QED  BY <1>2, <1>3 DEF Begin

\* A process writes (NbtdWrites, ApplyWrites, ScavengingWrites).  Whatever has
\* been stored since it looked, it leaves a record that can be read.
LEMMA Written ==
    ASSUME WinsInv, NEW s \in Server, NEW q \in Process, task[s][q] # Free, Write(s, q)
    PROVE  Wrote /\ task' \in Tasks
  <1> DEFINE j == task[s][q]
             next == IF j.op = "renew" THEN [j EXCEPT !.op = "add", !.seen = NotFound] ELSE Free
  <1>1. task \in Tasks  BY Untouched
  <1>2. j \in Jobs  BY <1>1 DEF Tasks
  <1>3. /\ j.op \in {"add", "renew", "modify", "delete"} /\ j.own \in BOOLEAN
        /\ j.rec \in Made(scenario) /\ (~j.own => j.rec \in Sound(scenario, maxVersion))
        /\ [j EXCEPT !.op = "add", !.seen = NotFound] \in Jobs
    BY <1>2 DEF Jobs, SoundJob, Sound
  <1>4. /\ \/ winsdb_add(s, j.rec, j.own) \/ winsdb_modify(s, j.rec, j.own)
           \/ winsdb_delete(s)
        /\ task' = [task EXCEPT ![s][q] = next]
    BY DEF Write
  <1>5. next \in Jobs \cup {Free}  BY <1>3
  <1> HIDE DEF next
  <1>6. task' \in Tasks  BY <1>1, <1>4, <1>5 DEF Tasks
  <1> HIDE DEF j
  <1>7. Wrote  BY <1>3, <1>4, WroteModify, WroteDelete
  <1> QED  BY <1>6, <1>7

-----------------------------------------------------------------------------
(* winsserver.c *)

\* The record of a new registration (wins_register_new).
LEMMA RegistersNew ==
    ASSUME WinsInv, NEW s \in Server, NEW a \in Addr, NEW t \in scenario.types
    PROVE  wins_register_new(s, a, t) \in Jobs /\ Anew(s, a, t) \in Jobs
  <1> DEFINE l == [b \in {a} |-> Own(s)]
             r == [type |-> t, state |-> "active", owner |-> s, version |-> 0,
                   expired |-> FALSE, addrs |-> l]
  <1>1. l \in AddrList /\ DOMAIN l = {a} /\ Cardinality(DOMAIN l) = 1 /\ Fresh(l)  BY OneAddress
  <1>2. t \in Type  BY ScenarioKnown
  <1>3. wins_register_new(s, a, t) = NewJob("add", s, r, TRUE)  BY DEF wins_register_new
  <1> HIDE DEF l
  <1>4. r \in Record /\ r.type = t /\ r.addrs = l  BY <1>1, <1>2 DEF Record
  <1>5. OfScenario(scenario, r)  BY <1>1, <1>4 DEF OfScenario
  <1>6. Storable(r) /\ Fits(r)  BY <1>1, <1>4, WinsdbAssumption DEF Storable, Fits
  <1>7. r \in Made(scenario)  BY <1>4, <1>5, <1>6 DEF Made
  <1> HIDE DEF r
  <1>8. wins_register_new(s, a, t) \in Jobs  BY <1>3, <1>7, JobMade
  <1>9. Anew(s, a, t) \in Jobs  BY <1>8 DEF Anew, Jobs, SoundJob
  <1> QED  BY <1>8, <1>9

\* A record whose list got the address of a registration.
LEMMA Registered ==
    ASSUME NEW x, NEW v, NEW r \in Sound(x, v), r.type # "group", NEW s \in Server, NEW a \in Addr,
           NEW l \in AddrList, Fresh(r.addrs) => Fresh(l),
           Cardinality(DOMAIN l) <= Cardinality(DOMAIN r.addrs),
           NEW m \in winsdb_addr_list_add(s, l, a),
           NEW q \in Record, q.type \in {r.type, "mhomed"}, q.addrs = m,
           q.owner = r.owner, q.version = r.version
    PROVE  q \in Sound(x, v)
  <1>1. r \in Made(x) /\ r.version \in 1..v[r.owner]  BY DEF Sound
  <1>2. r \in Record /\ OfScenario(x, r) /\ Fits(r)  BY <1>1 DEF Made
  <1>3. /\ DOMAIN m # {} /\ (Fresh(l) => Fresh(m))
        /\ Cardinality(DOMAIN l) <= MaxAddrs => Cardinality(DOMAIN m) <= MaxAddrs
    BY AddIs
  <1>4. q.type # "group"  OBVIOUS
  <1>5. OfScenario(x, q)  BY <1>2, <1>3, <1>4 DEF OfScenario
  <1>6. Storable(q) /\ Fits(q)
    <2>1. Cardinality(DOMAIN r.addrs) <= MaxAddrs  BY <1>2 DEF Fits
    <2>2. Cardinality(DOMAIN l) \in Nat /\ Cardinality(DOMAIN r.addrs) \in Nat
      BY <1>2, ListKnown, RecordKnown
    <2>3. Cardinality(DOMAIN m) <= MaxAddrs  BY <1>3, <2>1, <2>2, WinsdbAssumption
    <2> QED  BY <1>3, <1>4, <2>3 DEF Storable, Fits
  <1> QED  BY <1>1, <1>5, <1>6 DEF Sound, Made

\* The same registration again, or one more member of a group.
LEMMA UpdatesTtl ==
    ASSUME WinsInv, NEW s \in Server, NEW r \in Sound(scenario, maxVersion), NEW a \in Addr
    PROVE  /\ wins_update_ttl(s, r, a) \subseteq Jobs
           /\ r.type # "group" => wins_sgroup_merge(s, r, a) \subseteq Jobs
  <1> DEFINE Upd(l) == [r EXCEPT !.expired = FALSE, !.addrs = l]
  <1>1. r \in Made(scenario) /\ r \in Record /\ r.version \in 1..maxVersion[r.owner]
    BY DEF Sound, Made
  <1>2. r.addrs \in AddrList  BY <1>1, RecordKnown
  <1>3. Keep(r.addrs) \in AddrList /\ DOMAIN Keep(r.addrs) = DOMAIN r.addrs
        /\ (Fresh(r.addrs) => Fresh(Keep(r.addrs)))
    BY <1>2, KeepIs
  <1>4. Cardinality(DOMAIN Keep(r.addrs)) \in Nat  BY <1>3, ListKnown
  <1>5. ASSUME NEW l \in AddrList
        PROVE  /\ Upd(l) \in Record /\ Upd(l).type = r.type /\ Upd(l).addrs = l
               /\ Upd(l).owner = r.owner /\ Upd(l).version = r.version
    BY <1>1 DEF Record
  <1>6. ASSUME NEW own \in BOOLEAN, NEW q \in Sound(scenario, maxVersion)
        PROVE  NewJob("modify", s, q, own) \in Jobs
    <2>1. q \in Made(scenario)  BY DEF Sound
    <2> QED  BY <2>1, JobMade
  <1>7. CASE r.type = "group"
    <2> DEFINE q == Upd(Keep(r.addrs))
    <2>1. wins_update_ttl(s, r, a) = {NewJob("modify", s, q, r.owner # s)}
      BY <1>7 DEF wins_update_ttl
    <2>2. /\ q \in Record /\ q.type = r.type /\ q.addrs = Keep(r.addrs) /\ q.owner = r.owner
          /\ q.version = r.version
      BY <1>3, <1>5
    <2> HIDE DEF q, Upd
    <2>3. q \in Made(scenario)  BY <1>1, <1>3, <2>2, MadeAgain
    <2>4. q \in Sound(scenario, maxVersion)  BY <1>1, <2>2, <2>3 DEF Sound
    <2>5. NewJob("modify", s, q, r.owner # s) \in Jobs  BY <1>6, <2>4
    <2> QED  BY <1>7, <2>1, <2>5
  <1>8. CASE r.type # "group"
    <2>1. ASSUME NEW l \in winsdb_addr_list_add(s, Keep(r.addrs), a), NEW own \in BOOLEAN
          PROVE  NewJob("modify", s, Upd(l), own) \in Jobs
      <3>1. l \in AddrList  BY <1>3, AddIs
      <3>2. /\ Upd(l) \in Record /\ Upd(l).type = r.type /\ Upd(l).addrs = l
            /\ Upd(l).owner = r.owner /\ Upd(l).version = r.version
        BY <1>5, <3>1
      <3> HIDE DEF Upd
      <3>3. Upd(l) \in Sound(scenario, maxVersion)  BY <1>3, <1>4, <1>8, <3>2, Registered
      <3> QED  BY <1>6, <3>3
    <2>2. wins_update_ttl(s, r, a) =
            {NewJob("modify", s, Upd(l), r.owner # s) :
               l \in winsdb_addr_list_add(s, Keep(r.addrs), a)}
      BY <1>8 DEF wins_update_ttl
    <2>3. wins_sgroup_merge(s, r, a) =
            {NewJob("modify", s, Upd(l), TRUE) : l \in winsdb_addr_list_add(s, Keep(r.addrs), a)}
      BY DEF wins_sgroup_merge
    <2> HIDE DEF Upd
    <2> QED  BY <2>1, <2>2, <2>3
  <1> QED  BY <1>7, <1>8

\* A question to the host that has the name (wins_register_wack).
LEMMA WackAsked ==
    ASSUME WinsInv, NEW s \in Server, NEW r \in Sound(scenario, maxVersion),
           r.type \in {"unique", "mhomed"}, NEW a \in Addr, NEW t \in scenario.types,
           wins_register_wack(s, r, a, t)
    PROVE  UNCHANGED task /\ waiting' \subseteq SoundWaiting(scenario, maxVersion)
  <1>1. r \in SoundHost(scenario, maxVersion)  BY DEF SoundHost
  <1>2. [op |-> "wack", at |-> s, rec |-> r, addr |-> a, type |-> t]
          \in SoundWaiting(scenario, maxVersion)
    BY <1>1 DEF SoundWaiting
  <1> QED  BY <1>2 DEF WinsInv, wins_register_wack

\* A host registers the name (nbtd_winsserver_register).
LEMMA RegisterKeeps ==
    ASSUME WinsInv, NEW s \in Server, NEW a \in Addr, NEW t \in scenario.types,
           nbtd_winsserver_register(s, a, t)
    PROVE  WinsInv'
  <1> DEFINE r == winsdb_lookup(s)
             wack == Found(r) /\ Active(r) /\ r.type \in {"unique", "mhomed"}
                       /\ (t = "group" \/ a \notin DOMAIN r.addrs)
             jobs == IF r = NotFound THEN {wins_register_new(s, a, t)}
                     ELSE IF r = Corruption \/ (r.type = "group" /\ t # "group") THEN {}
                     ELSE IF ~Active(r) THEN {Anew(s, a, t)}
                     ELSE IF r.type = "sgroup" /\ a \notin DOMAIN r.addrs
                          THEN wins_sgroup_merge(s, r, a)
                     ELSE wins_update_ttl(s, r, a)
  <1>1. events' \in [Events -> Nat]
    BY Counted DEF nbtd_winsserver_register, Events
  <1>2. UNCHANGED <<scenario, db, table, pulled, cycle>>
    BY DEF nbtd_winsserver_register, replication
  <1>3. IF wack THEN wins_register_wack(s, r, a, t)
        ELSE Begin(s, "nbtd", jobs) /\ UNCHANGED waiting
    BY DEF nbtd_winsserver_register
  <1>4. ASSUME Found(r), Active(r) PROVE r \in Sound(scenario, maxVersion)
    BY <1>4, LookupIs DEF Active
  <1>5. Found(r) \/ r \in {NotFound, Corruption}  BY LookupFails
  <1> HIDE DEF r
  <1>6. jobs \in SUBSET Jobs
    <2>1. wins_register_new(s, a, t) \in Jobs /\ Anew(s, a, t) \in Jobs  BY RegistersNew
    <2>2. CASE r = NotFound  BY <2>1, <2>2
    <2>3. CASE r # NotFound /\ (r = Corruption \/ (r.type = "group" /\ t # "group"))  BY <2>3
    <2>4. CASE r # NotFound /\ ~(r = Corruption \/ (r.type = "group" /\ t # "group"))
      <3>1. CASE ~Active(r)  BY <2>1, <2>4, <3>1
      <3>2. CASE Active(r)
        <4>1. r \in Sound(scenario, maxVersion)  BY <1>4, <1>5, <2>4, <3>2
        <4>2. /\ wins_update_ttl(s, r, a) \subseteq Jobs
              /\ r.type # "group" => wins_sgroup_merge(s, r, a) \subseteq Jobs
          BY <4>1, UpdatesTtl
        <4> QED  BY <2>4, <3>2, <4>2
      <3> QED  BY <3>1, <3>2
    <2> QED  BY <2>2, <2>3, <2>4
  <1> HIDE DEF jobs
  <1>7. task' \in Tasks /\ waiting' \subseteq SoundWaiting(scenario, maxVersion)
    <2>1. task \in Tasks /\ waiting \subseteq SoundWaiting(scenario, maxVersion)  BY Untouched
    <2>2. CASE wack
      <3>1. wins_register_wack(s, r, a, t) /\ r \in Sound(scenario, maxVersion)
            /\ r.type \in {"unique", "mhomed"}
        BY <1>3, <1>4, <2>2
      <3> QED  BY <2>1, <3>1, WackAsked
    <2>3. CASE ~wack
      <3>1. Begin(s, "nbtd", jobs) /\ UNCHANGED waiting  BY <1>3, <2>3
      <3>2. task' \in Tasks  BY <1>6, <3>1, Begun DEF Process
      <3> QED  BY <2>1, <3>1, <3>2
    <2> QED  BY <2>2, <2>3
  <1>8. table' \in [Server -> Versions] /\ pulled' \in Pulls /\ cycle' \in Cycles
    BY <1>2, Untouched
  <1> QED  BY <1>1, <1>2, <1>7, <1>8, WroteNothing, Kept

\* What goes with a question.
LEMMA WaitKnown ==
    ASSUME WinsInv, NEW w \in waiting
    PROVE  /\ w.at \in Server /\ w.rec \in Sound(scenario, maxVersion)
           /\ w.op = "wack" =>
                w.addr \in Addr /\ w.type \in scenario.types /\ w.rec.type \in {"unique", "mhomed"}
           /\ w.op = "challenge" =>
                w.replica \in Sound(scenario, maxVersion) /\ w.rec.type \in {"unique", "mhomed"}
           /\ w.op = "verified" => w.answer \in Answer
  <1>1. w \in SoundWaiting(scenario, maxVersion)  BY DEF WinsInv
  <1> QED  BY <1>1 DEF SoundWaiting, SoundHost

\* A question that was answered is gone, and nothing changed but the database and
\* what a process is about to write.
LEMMA AnsweredKeeps ==
    ASSUME WinsInv, NEW w \in waiting, Wrote, waiting' = waiting \ {w}, task' \in Tasks,
           UNCHANGED <<scenario, replication, events>>
    PROVE  WinsInv'
  <1>1. /\ table' \in [Server -> Versions] /\ pulled' \in Pulls /\ cycle' \in Cycles
        /\ waiting' \subseteq SoundWaiting(scenario, maxVersion) /\ events' \in [Events -> Nat]
    BY Untouched DEF replication
  <1> QED  BY <1>1, Kept

\* The host that had the name answers (wack_wins_challenge_handler).
LEMMA WackKeeps ==
    ASSUME WinsInv, NEW w \in waiting, NEW answer, WackAnswered(w, answer)
    PROVE  WinsInv'
  <1> DEFINE s == w.at  r == w.rec  a == w.addr
             jobs == IF answer = Gone \/ (w.type # "group" /\ a \in answer)
                     THEN wins_wack_allow(s, r, a, w.type, answer) ELSE {}
  <1>1. /\ s \in Server /\ r \in Sound(scenario, maxVersion) /\ a \in Addr
        /\ w.type \in scenario.types /\ r.type \in {"unique", "mhomed"}
    BY WaitKnown DEF WackAnswered
  <1>2. r \in Record  BY <1>1 DEF Sound, Made
  <1>3. r.addrs \in AddrList /\ Cardinality(DOMAIN r.addrs) \in Nat  BY <1>2, RecordKnown
  <1>4. ASSUME NEW j \in WackAllows(s, r, a, answer) PROVE j \in Jobs
    <2> DEFINE lost == DOMAIN r.addrs \ answer
               Job2(l) == [r EXCEPT !.expired = FALSE, !.addrs = l,
                                  !.type = IF Cardinality(DOMAIN l) > 1 THEN "mhomed" ELSE @]
    <2>0. PICK k \in SUBSET lost :
             \E l \in winsdb_addr_list_add(s, Keep(Without(r.addrs, lost \ k)), a) :
               j = NewJob("modify", s, Job2(l), TRUE)
      BY <1>4 DEF WackAllows
    <2>1. PICK l \in winsdb_addr_list_add(s, Keep(Without(r.addrs, lost \ k)), a) :
             j = NewJob("modify", s, Job2(l), TRUE)
      BY <2>0
    <2> DEFINE left == Without(r.addrs, lost \ k)
               q == Job2(l)
    <2>2. /\ left \in AddrList /\ Cardinality(DOMAIN left) <= Cardinality(DOMAIN r.addrs)
          /\ (Fresh(r.addrs) => Fresh(left))
      BY <1>3, WithoutIs
    <2> HIDE DEF left
    <2>3. /\ Keep(left) \in AddrList /\ DOMAIN Keep(left) = DOMAIN left
          /\ (Fresh(left) => Fresh(Keep(left)))
      BY <2>2, KeepIs
    <2>4. l \in winsdb_addr_list_add(s, Keep(left), a)  BY <2>1 DEF left
    <2>5. l \in AddrList  BY <1>1, <2>3, <2>4, AddIs
    <2>6. /\ q \in Record /\ q.type \in {r.type, "mhomed"} /\ q.addrs = l /\ q.owner = r.owner
          /\ q.version = r.version
      BY <1>2, <2>5 DEF Record, Type
    <2>7. j = NewJob("modify", s, q, TRUE)  BY <2>1
    <2> HIDE DEF q, lost
    <2>8. r.type # "group"  BY <1>1
    <2>9. Cardinality(DOMAIN Keep(left)) <= Cardinality(DOMAIN r.addrs)  BY <2>2, <2>3
    <2>10. Fresh(r.addrs) => Fresh(Keep(left))  BY <2>2, <2>3
    <2> HIDE DEF s, r, a
    <2>11. q \in Sound(scenario, maxVersion)
      BY <1>1, <2>3, <2>4, <2>6, <2>8, <2>9, <2>10, Registered
    <2>12. q \in Made(scenario)  BY <2>11 DEF Sound
    <2> QED  BY <1>1, <2>7, <2>12, JobMade
  <1>5. Anew(s, a, w.type) \in Jobs  BY <1>1, RegistersNew
  <1>6. jobs \in SUBSET Jobs  BY <1>4, <1>5 DEF wins_wack_allow
  <1>7. /\ Begin(s, "nbtd", jobs) /\ waiting' = waiting \ {w}
        /\ UNCHANGED <<scenario, db, replication, events>>
    BY DEF WackAnswered
  <1> HIDE DEF jobs, s
  <1>8. task' \in Tasks  BY <1>1, <1>6, <1>7, Begun DEF Process
  <1> QED  BY <1>7, <1>8, WroteNothing, AnsweredKeeps

\* A host releases the name (nbtd_winsserver_release).
LEMMA ReleaseKeeps ==
    ASSUME WinsInv, NEW s \in Server, NEW a \in Addr, nbtd_winsserver_release(s, a)
    PROVE  WinsInv'
  <1> DEFINE r == winsdb_lookup(s)
             rest == IF r.type \in {"sgroup", "mhomed"} THEN Without(r.addrs, {a}) ELSE r.addrs
             last == r.type \in {"unique", "group"} \/ DOMAIN rest = {}
             q1 == [r EXCEPT !.addrs = rest]
             q2 == [r EXCEPT !.addrs = Keep(rest), !.expired = FALSE, !.state = "released"]
             q3 == [r EXCEPT !.addrs = Keep(rest), !.expired = FALSE, !.state = "tombstone"]
  <1>1. Found(r) /\ Active(r)  BY DEF nbtd_winsserver_release
  <1>2. r \in Sound(scenario, maxVersion)  BY <1>1, LookupIs DEF Active
  <1>3. r \in Made(scenario) /\ r.version \in 1..maxVersion[r.owner]  BY <1>2 DEF Sound
  <1>4. r \in Record /\ OfScenario(scenario, r) /\ Fits(r) /\ (Apart(scenario) => Storable(r))
    BY <1>3 DEF Made
  <1>5. r.addrs \in AddrList /\ Cardinality(DOMAIN r.addrs) \in Nat  BY <1>4, RecordKnown
  <1>6. /\ events' \in [Events -> Nat] /\ UNCHANGED <<scenario, db, table, pulled, cycle, waiting>>
        /\ \E q \in {q1, q2, q3}, own \in BOOLEAN : Begin(s, "nbtd", {NewJob("modify", s, q, own)})
    <2>1. events' \in [Events -> Nat]  BY Counted DEF nbtd_winsserver_release, Events
    <2>2. CASE ~last
      <3>1. Begin(s, "nbtd", {NewJob("modify", s, q1, FALSE)})
        BY <2>2 DEF nbtd_winsserver_release
      <3> QED  BY <2>1, <3>1 DEF nbtd_winsserver_release, replication
    <2>3. CASE last /\ r.owner = s
      <3>1. Begin(s, "nbtd", {NewJob("modify", s, q2, FALSE)})
        BY <2>3 DEF nbtd_winsserver_release
      <3> QED  BY <2>1, <3>1 DEF nbtd_winsserver_release, replication
    <2>4. CASE last /\ r.owner # s
      <3>1. Begin(s, "nbtd", {NewJob("modify", s, q3, TRUE)})
        BY <2>4 DEF nbtd_winsserver_release
      <3> QED  BY <2>1, <3>1 DEF nbtd_winsserver_release, replication
    <2> QED  BY <2>2, <2>3, <2>4
  <1> HIDE DEF r
  <1>7. /\ rest \in AddrList /\ (Fresh(r.addrs) => Fresh(rest))
        /\ Cardinality(DOMAIN rest) <= Cardinality(DOMAIN r.addrs)
        /\ r.type \in {"unique", "group"} => rest = r.addrs
    <2>1. CASE r.type \in {"sgroup", "mhomed"}
      <3>1. rest = Without(r.addrs, {a}) /\ r.type \notin {"unique", "group"}  BY <2>1
      <3> HIDE DEF rest
      <3> QED  BY <1>5, <3>1, WithoutIs
    <2>2. CASE r.type \notin {"sgroup", "mhomed"}
      <3>1. rest = r.addrs  BY <2>2
      <3> HIDE DEF rest
      <3> QED  BY <1>5, <3>1
    <2> QED  BY <2>1, <2>2
  <1> HIDE DEF rest
  <1>8. /\ Keep(rest) \in AddrList /\ DOMAIN Keep(rest) = DOMAIN rest
        /\ (Fresh(rest) => Fresh(Keep(rest)))
    BY <1>7, KeepIs
  <1>9. Cardinality(DOMAIN rest) \in Nat  BY <1>7, ListKnown
  <1>10. ASSUME NEW q \in Record, q.type = r.type, q.owner = r.owner, q.version = r.version,
                q.addrs \in {rest, Keep(rest)}
         PROVE  q \in Sound(scenario, maxVersion)
    <2>1. DOMAIN q.addrs = DOMAIN rest /\ (Fresh(r.addrs) => Fresh(q.addrs))
      BY <1>7, <1>8, <1>10
    <2>2. OfScenario(scenario, q)  BY <1>4, <1>10, <2>1 DEF OfScenario
    <2>3. ASSUME Apart(scenario) PROVE Storable(q)
      <3>1. Storable(r)  BY <1>4, <2>3
      <3> QED  BY <1>7, <1>10, <2>1, <3>1 DEF Storable
    <2>4. Fits(q)  BY <1>4, <1>5, <1>7, <1>9, <2>1, WinsdbAssumption DEF Fits
    <2> QED  BY <1>3, <1>10, <2>2, <2>3, <2>4 DEF Sound, Made
  <1>11. q1 \in Record /\ q2 \in Record /\ q3 \in Record  BY <1>4, <1>7, <1>8 DEF Record
  <1>12. /\ q1 \in Sound(scenario, maxVersion)
         /\ q2 \in Sound(scenario, maxVersion)
         /\ q3 \in Sound(scenario, maxVersion)
    <2>1. /\ q1.type = r.type /\ q1.owner = r.owner /\ q1.version = r.version /\ q1.addrs = rest
          /\ q2.type = r.type /\ q2.owner = r.owner /\ q2.version = r.version
          /\ q2.addrs = Keep(rest)
          /\ q3.type = r.type /\ q3.owner = r.owner /\ q3.version = r.version
          /\ q3.addrs = Keep(rest)
      BY <1>4 DEF Record
    <2> HIDE DEF q1, q2, q3
    <2> QED  BY <1>10, <1>11, <2>1
  <1> HIDE DEF q1, q2, q3
  <1>13. task' \in Tasks
    <2>1. PICK q \in {q1, q2, q3}, own \in BOOLEAN : Begin(s, "nbtd", {NewJob("modify", s, q, own)})
      BY <1>6
    <2>2. q \in Sound(scenario, maxVersion)  BY <1>12
    <2>3. q \in Made(scenario)  BY <2>2 DEF Sound
    <2>4. NewJob("modify", s, q, own) \in Jobs  BY <2>2, <2>3, JobMade
    <2> QED  BY <2>1, <2>4, Begun DEF Process
  <1>14. /\ table' \in [Server -> Versions] /\ pulled' \in Pulls /\ cycle' \in Cycles
         /\ waiting' \subseteq SoundWaiting(scenario, maxVersion)
    BY <1>6, Untouched
  <1> QED  BY <1>6, <1>13, <1>14, WroteNothing, Kept

\* The write of a registration or a release, or of the scavenging.
LEMMA WritesKeeps ==
    ASSUME WinsInv, NEW s \in Server, NbtdWrites(s) \/ ScavengingWrites(s)
    PROVE  WinsInv'
  <1>1. PICK q \in Process : task[s][q] # Free /\ Write(s, q)
    BY DEF NbtdWrites, ScavengingWrites, Process
  <1>2. Wrote /\ task' \in Tasks  BY <1>1, Written
  <1>3. UNCHANGED <<scenario, replication, waiting, events>>  BY DEF NbtdWrites, ScavengingWrites
  <1>4. /\ table' \in [Server -> Versions] /\ pulled' \in Pulls /\ cycle' \in Cycles
        /\ waiting' \subseteq SoundWaiting(scenario, maxVersion) /\ events' \in [Events -> Nat]
    BY <1>3, Untouched DEF replication
  <1> QED  BY <1>2, <1>3, <1>4, Kept

-----------------------------------------------------------------------------
(* The pull cycles. *)

\* What is known of a cycle.
LEMMA CycleKnown ==
    ASSUME WinsInv, NEW s \in Server, NEW p \in Server, NEW i \in Slot
    PROVE  LET c == cycle[s][p][i]
           IN  /\ c \in SoundCycle(scenario, maxVersion)
               /\ c.stage = "table" => c.table \in Versions
               /\ c.stage = "request" =>
                    c.owner \in Server /\ c.max \in Nat /\ c.owners \in SUBSET Server
               /\ c.stage \in {"reply", "apply"} =>
                    /\ c.owner \in Server /\ c.max \in Nat /\ c.owners \in SUBSET Server
                    /\ c.names \in Sound(scenario, maxVersion) \cup {NotFound}
  <1> DEFINE c == cycle[s][p][i]
  <1>1. c \in SoundCycle(scenario, maxVersion)  BY Untouched DEF Cycles
  <1> HIDE DEF c
  <1> QED  BY <1>1 DEF SoundCycle, Idle, c

\* A cycle goes on.
LEMMA CycleGoesOn ==
    ASSUME WinsInv, NEW s \in Server, NEW p \in Server, NEW i \in Slot,
           NEW c \in SoundCycle(scenario, maxVersion), cycle' = [cycle EXCEPT ![s][p][i] = c]
    PROVE  cycle' \in Cycles
  <1>1. cycle \in Cycles  BY Untouched
  <1>2. [cycle[s][p] EXCEPT ![i] = c] \in [Slot -> SoundCycle(scenario, maxVersion)]
    BY <1>1 DEF Cycles
  <1>3. [cycle[s] EXCEPT ![p] = [cycle[s][p] EXCEPT ![i] = c]]
          \in [Server -> [Slot -> SoundCycle(scenario, maxVersion)]]
    BY <1>1, <1>2 DEF Cycles
  <1> QED  BY <1>1, <1>3 DEF Cycles

\* Only the cycles changed, and what was heard of the partner's table.
LEMMA PulledKeeps ==
    ASSUME WinsInv, UNCHANGED <<scenario, db, task, table, waiting>>,
           events' \in [Events -> Nat], pulled' \in Pulls, cycle' \in Cycles
    PROVE  WinsInv'
  <1>1. /\ Wrote /\ task' \in Tasks /\ table' \in [Server -> Versions]
        /\ waiting' \subseteq SoundWaiting(scenario, maxVersion)
    BY WroteNothing, Untouched
  <1> QED  BY <1>1, Kept

\* The table that a server sends.
LEMMA TableOfIs ==
    ASSUME WinsInv, NEW p \in Server
    PROVE  TableOf(p) \in Versions
  BY DEF WinsInv, TableOf, Versions

\* The next owner, or the end of the cycle.
LEMMA NextOwnerIs ==
    ASSUME NEW x, NEW v, NEW p \in Server, NEW l \in Versions, NEW t \in Versions,
           NEW owners \in SUBSET Server,
           NEW c \in wreplsrv_pull_cycle_next_owner_do_work(p, l, t, owners)
    PROVE  c \in SoundCycle(x, v)
  <1> DEFINE newer == owners \cap Newer(l, t)
             left == {w \in SUBSET owners : newer \subseteq w /\ (p \in w <=> p \in newer)
                                             /\ (p \in newer => w = owners)}
  <1>1. CASE c = Idle  BY <1>1 DEF SoundCycle
  <1>2. CASE c # Idle
    <2>1. PICK o \in IF p \in newer THEN {p} ELSE newer, w \in left :
             c = [stage |-> "request", owner |-> o, min |-> IF l[o] = Absent THEN 1 ELSE l[o] + 1,
                  max |-> t[o], owners |-> w]
      BY <1>2 DEF wreplsrv_pull_cycle_next_owner_do_work
    <2>2. o \in Server /\ t[o] > l[o] /\ w \in SUBSET Server  BY <2>1 DEF Newer
    <2>3. l[o] \in Nat \cup {-1} /\ t[o] \in Nat \cup {-1}  BY <2>2 DEF Versions, Absent
    <2>4. t[o] \in Nat  BY <2>2, <2>3
    <2>5. (IF l[o] = Absent THEN 1 ELSE l[o] + 1) \in Nat  BY <2>3 DEF Absent
    <2> HIDE DEF newer, left
    <2> QED  BY <2>1, <2>2, <2>4, <2>5 DEF SoundCycle
  <1> QED  BY <1>1, <1>2

\* The partner's table is sent (wreplsrv_in_table_query, wreplsrv_in_update).
LEMMA TableSentKeeps ==
    ASSUME WinsInv, NEW s \in Server, NEW p \in Server, NEW i \in Slot, TableSent(s, p, i),
           events' \in [Events -> Nat]
    PROVE  WinsInv'
  <1> DEFINE c == [stage |-> "table", table |-> [TableOf(p) EXCEPT ![s] = Absent]]
  <1>1. TableOf(p) \in Versions  BY TableOfIs
  <1>2. [TableOf(p) EXCEPT ![s] = Absent] \in Versions  BY <1>1 DEF Versions
  <1>3. c \in SoundCycle(scenario, maxVersion)  BY <1>2 DEF SoundCycle
  <1>4. /\ cycle' = [cycle EXCEPT ![s][p][i] = c]
        /\ UNCHANGED <<scenario, db, task, table, pulled, waiting>>
    BY DEF TableSent
  <1> HIDE DEF c
  <1>5. cycle' \in Cycles  BY <1>3, <1>4, CycleGoesOn
  <1>6. pulled' \in Pulls  BY <1>4, Untouched
  <1> QED  BY <1>4, <1>5, <1>6, PulledKeeps

LEMMA QueryOrUpdateKeeps ==
    ASSUME WinsInv, NEW s \in Server, NEW p \in Server,
           wreplsrv_in_table_query(s, p) \/ \E i \in Slot : wreplsrv_in_update(s, p, i)
    PROVE  WinsInv'
  <1>1. CASE wreplsrv_in_table_query(s, p)
    <2>1. events' \in [Events -> Nat]  BY <1>1, Untouched DEF wreplsrv_in_table_query
    <2>2. 0 \in Slot  BY WinsAssumption DEF Slot
    <2> QED  BY <1>1, <2>1, <2>2, TableSentKeeps DEF wreplsrv_in_table_query
  <1>2. ASSUME NEW i \in Slot, wreplsrv_in_update(s, p, i) PROVE WinsInv'
    <2>1. events' \in [Events -> Nat]  BY <1>2, Counted DEF wreplsrv_in_update, Events
    <2> QED  BY <1>2, <2>1, TableSentKeeps DEF wreplsrv_in_update
  <1> QED  BY <1>1, <1>2

\* The table of the partner arrives (wreplsrv_pull_cycle_wait_table_reply).
LEMMA TableReplyKeeps ==
    ASSUME WinsInv, NEW s \in Server, NEW p \in Server, NEW i \in Slot,
           wreplsrv_pull_cycle_wait_table_reply(s, p, i)
    PROVE  WinsInv'
  <1> DEFINE c == cycle[s][p][i]
             t == [o \in Server |-> Max({c.table[o], pulled[s][p][o]})]
             owners == {o \in Server : c.table[o] # Absent}
  <1>1. pulled \in Pulls /\ events \in [Events -> Nat]  BY Untouched
  <1>2. c.table \in Versions  BY CycleKnown DEF wreplsrv_pull_cycle_wait_table_reply
  <1>3. pulled[s][p] \in Versions  BY <1>1 DEF Pulls
  <1>4. ASSUME NEW o \in Server PROVE t[o] \in Nat \cup {Absent}
    <2>1. c.table[o] \in Nat \cup {-1} /\ pulled[s][p][o] \in Nat \cup {-1}
      BY <1>2, <1>3 DEF Versions, Absent
    <2>2. c.table[o] \in Int /\ pulled[s][p][o] \in Int  BY <2>1
    <2>3. Max({c.table[o], pulled[s][p][o]}) \in {c.table[o], pulled[s][p][o]}  BY <2>2, MaxIs
    <2> QED  BY <2>1, <2>3 DEF Absent
  <1>5. t \in Versions  BY <1>4 DEF Versions
  <1>6. PICK next \in wreplsrv_pull_cycle_next_owner_do_work(p, TableOf(s), t, owners) :
           cycle' = [cycle EXCEPT ![s][p][i] = next]
    BY DEF wreplsrv_pull_cycle_wait_table_reply
  <1>7. pulled' = [pulled EXCEPT ![s][p] = t]  BY DEF wreplsrv_pull_cycle_wait_table_reply
  <1> HIDE DEF c, t, owners
  <1>8. owners \in SUBSET Server  BY DEF owners
  <1>9. TableOf(s) \in Versions  BY TableOfIs
  <1>10. next \in SoundCycle(scenario, maxVersion)  BY <1>5, <1>6, <1>8, <1>9, NextOwnerIs
  <1>11. cycle' \in Cycles  BY <1>6, <1>10, CycleGoesOn
  <1>12. pulled' \in Pulls  BY <1>1, <1>5, <1>7 DEF Pulls
  <1> QED  BY <1>1, <1>11, <1>12, PulledKeeps DEF wreplsrv_pull_cycle_wait_table_reply

\* What is sent of a record is one too, with the same addresses.
LEMMA OnWireIs ==
    ASSUME NEW x, NEW v, NEW r \in Sound(x, v)
    PROVE  OnWire(r) \in Sound(x, v)
  <1> DEFINE l == [a \in DOMAIN r.addrs |-> [r.addrs[a] EXCEPT !.owner = r.owner]]
             q == [r EXCEPT !.addrs = l]
  <1>1. r \in Made(x) /\ r \in Record /\ r.version \in 1..v[r.owner]  BY DEF Sound, Made
  <1>2. r.addrs \in AddrList /\ r.owner \in Server  BY <1>1, RecordKnown
  <1>3. DOMAIN r.addrs \in SUBSET Addr /\ r.addrs \in [DOMAIN r.addrs -> AddrEntry]
    BY <1>2, ListKnown
  <1>4. l \in [DOMAIN r.addrs -> AddrEntry]  BY <1>2, <1>3 DEF AddrEntry
  <1>5. Fresh(r.addrs) => Fresh(l)  BY <1>3 DEF Fresh, AddrEntry
  <1> HIDE DEF l
  <1>6. l \in AddrList /\ DOMAIN l = DOMAIN r.addrs  BY <1>3, <1>4, ListMade
  <1>7. /\ q \in Record /\ q.type = r.type /\ q.addrs = l /\ q.owner = r.owner
        /\ q.version = r.version
    BY <1>1, <1>6 DEF Record
  <1>8. OnWire(r) \in {r, q}  BY DEF OnWire, l
  <1> HIDE DEF q
  <1>9. q \in Made(x)  BY <1>1, <1>5, <1>6, <1>7, MadeAgain
  <1> QED  BY <1>1, <1>7, <1>8, <1>9 DEF Sound

\* The partner sends the records of an owner (wreplsrv_in_send_request).
LEMMA SendKeeps ==
    ASSUME WinsInv, NEW s \in Server, NEW p \in Server, NEW i \in Slot,
           wreplsrv_in_send_request(s, p, i)
    PROVE  WinsInv'
  <1> DEFINE c == cycle[s][p][i]
             r == winsdb_lookup(p)
             match == /\ c.min <= TableOf(p)[c.owner]
                      /\ Found(rec[p]) /\ rec[p].owner = c.owner /\ rec[p].state # "released"
                      /\ rec[p].version >= c.min /\ (c.max = 0 \/ rec[p].version <= c.max)
             sent == match /\ Found(r) /\ r.state # "released"
             names == IF sent THEN OnWire(r) ELSE NotFound
             next == IF match /\ r = Corruption THEN Idle
                     ELSE [stage |-> "reply", owner |-> c.owner, max |-> c.max,
                           owners |-> c.owners, names |-> names]
  <1>1. c.owner \in Server /\ c.max \in Nat /\ c.owners \in SUBSET Server
    BY CycleKnown DEF wreplsrv_in_send_request
  <1>2. sent => r \in Sound(scenario, maxVersion)  BY LookupIs
  <1>3. cycle' = [cycle EXCEPT ![s][p][i] = next]  BY DEF wreplsrv_in_send_request
  <1> HIDE DEF c, r, match
  <1>4. names \in Sound(scenario, maxVersion) \cup {NotFound}  BY <1>2, OnWireIs
  <1> HIDE DEF names
  <1>5. next \in SoundCycle(scenario, maxVersion)  BY <1>1, <1>4 DEF SoundCycle
  <1> HIDE DEF next
  <1>6. cycle' \in Cycles  BY <1>3, <1>5, CycleGoesOn
  <1>7. UNCHANGED <<scenario, db, task, table, pulled, waiting, events>>
    BY DEF wreplsrv_in_send_request
  <1>8. pulled' \in Pulls /\ events' \in [Events -> Nat]  BY <1>7, Untouched
  <1> QED  BY <1>6, <1>7, <1>8, PulledKeeps

\* The connection is lost.
LEMMA PullFailsKeeps ==
    ASSUME WinsInv, NEW s \in Server, NEW p \in Server, NEW i \in Slot, PullFails(s, p, i)
    PROVE  WinsInv'
  <1>1. cycle' = [cycle EXCEPT ![s][p][i] = Idle] /\ UNCHANGED <<table, pulled>>
    BY DEF PullFails, Abandoned
  <1>2. cycle' \in Cycles  BY <1>1, CycleGoesOn DEF SoundCycle
  <1>3. events' \in [Events -> Nat]  BY Counted DEF PullFails, Events
  <1>4. pulled' \in Pulls  BY <1>1, Untouched
  <1> QED  BY <1>1, <1>2, <1>3, <1>4, PulledKeeps DEF PullFails

\* What the tables of wrepl_apply_records.c can say, and when.
LEMMA ActionIs ==
    ASSUME NEW s \in Server, NEW r1 \in Record, NEW r2 \in Record
    PROVE  LET act == R_ACTION(s, r1, r2)
           IN  /\ act \in {"replace", "release_demand", "not", "propagate", "challenge",
                           "sgroup_merge"}
               /\ act = "propagate" => Active(r1) \/ (r1.type = "group" /\ r2.type # "group")
               /\ act = "challenge" => Active(r1) /\ r1.type \in {"unique", "mhomed"}
               /\ act = "sgroup_merge" => Active(r1) /\ r1.type = "sgroup" /\ r2.type = "sgroup"
  <1> DEFINE act == R_ACTION(s, r1, r2)
  <1>1. r1.type \in {"unique", "group", "sgroup", "mhomed"}  BY RecordKnown DEF Type
  <1>2. CASE r1.type \in {"unique", "mhomed"}
    <2>1. act \in {replace_unique_owned_vs_X_replica(r1, r2), "replace",
                   replace_unique_replica_vs_X_replica(r1, r2)}
      BY <1>2 DEF R_ACTION, replace_mhomed_owned_vs_X_replica, replace_mhomed_replica_vs_X_replica
    <2>2. replace_unique_replica_vs_X_replica(r1, r2) \in {"replace", "not"}
      BY DEF replace_unique_replica_vs_X_replica
    <2>3. \/ replace_unique_owned_vs_X_replica(r1, r2) \in {"replace", "release_demand"}
          \/ /\ replace_unique_owned_vs_X_replica(r1, r2) \in {"propagate", "challenge"}
             /\ Active(r1)
      BY DEF replace_unique_owned_vs_X_replica
    <2> QED  BY <1>2, <2>1, <2>2, <2>3
  <1>3. CASE r1.type = "group"
    <2>1. act \in {replace_group_owned_vs_X_replica(r1, r2), "replace",
                   replace_group_replica_vs_X_replica(r1, r2)}
      BY <1>3 DEF R_ACTION
    <2>2. replace_group_replica_vs_X_replica(r1, r2) \in {"replace", "not"}
      BY DEF replace_group_replica_vs_X_replica
    <2>3. \/ replace_group_owned_vs_X_replica(r1, r2) = "replace"
          \/ /\ replace_group_owned_vs_X_replica(r1, r2) = "propagate"
             /\ Active(r1) \/ r2.type # "group"
      BY DEF replace_group_owned_vs_X_replica
    <2> QED  BY <1>3, <2>1, <2>2, <2>3
  <1>4. CASE r1.type = "sgroup"
    <2>1. act \in {replace_sgroup_owned_vs_X_replica(r1, r2), "replace",
                   replace_sgroup_replica_vs_X_replica(r1, r2)}
      BY <1>4 DEF R_ACTION
    <2>2. \/ replace_sgroup_replica_vs_X_replica(r1, r2) \in {"replace", "not"}
          \/ /\ replace_sgroup_replica_vs_X_replica(r1, r2) = "sgroup_merge"
             /\ Active(r1) /\ r2.type = "sgroup"
      BY DEF replace_sgroup_replica_vs_X_replica
    <2>3. \/ replace_sgroup_owned_vs_X_replica(r1, r2) \in {"replace", "not"}
          \/ replace_sgroup_owned_vs_X_replica(r1, r2) = "propagate" /\ Active(r1)
          \/ /\ replace_sgroup_owned_vs_X_replica(r1, r2) = "sgroup_merge"
             /\ Active(r1) /\ r2.type = "sgroup"
      BY DEF replace_sgroup_owned_vs_X_replica
    <2> QED  BY <1>4, <2>1, <2>2, <2>3
  <1> QED  BY <1>1, <1>2, <1>3, <1>4

\* A replica that is stored has an expire_time of its own.
LEMMA ReplicaIs ==
    ASSUME NEW x, NEW v, NEW r \in Sound(x, v)
    PROVE  /\ Replica(r) \in Sound(x, v)
           /\ Replica(r).type = r.type /\ Replica(r).owner = r.owner
           /\ Replica(r).version = r.version
  <1> DEFINE q == Replica(r)
  <1>1. r \in Made(x) /\ r \in Record /\ r.version \in 1..v[r.owner]  BY DEF Sound, Made
  <1>2. r.addrs \in AddrList  BY <1>1, RecordKnown
  <1>3. /\ Renew(r.addrs) \in AddrList /\ DOMAIN Renew(r.addrs) = DOMAIN r.addrs
        /\ Fresh(Renew(r.addrs))
    BY <1>2, RenewIs
  <1>4. /\ q \in Record /\ q.type = r.type /\ q.addrs = Renew(r.addrs) /\ q.owner = r.owner
        /\ q.version = r.version
    BY <1>1, <1>3 DEF Replica, Record
  <1> HIDE DEF q
  <1>5. q \in Made(x)  BY <1>1, <1>3, <1>4, MadeAgain
  <1> QED  BY <1>1, <1>4, <1>5 DEF Sound, q

\* A merge with the owner and the version of the replica.
LEMMA MergeIs ==
    ASSUME NEW x, NEW v, NEW r2 \in Sound(x, v), NEW q \in Record, NEW l \in AddrList,
           NEW more \in AddrList, NEW m \in AddAll(l, more), q.addrs = m,
           q.type \in {"sgroup", "mhomed"}, x.types # {"group"},
           q.owner = r2.owner, q.version = r2.version,
           x.bound["expire"] = 0 => Fresh(l) /\ Fresh(more),
           Cardinality(DOMAIN l) <= MaxAddrs
    PROVE  q \in Sound(x, v)
  <1>1. /\ Cardinality(DOMAIN m) <= MaxAddrs /\ (Fresh(l) /\ Fresh(more) => Fresh(m))
    BY AddAllIs
  <1>2. r2.version \in 1..v[r2.owner]  BY DEF Sound
  <1>3. OfScenario(x, q)  BY <1>1 DEF OfScenario
  <1>4. Storable(q) /\ Fits(q)  BY <1>1 DEF Storable, Fits
  <1> QED  BY <1>2, <1>3, <1>4 DEF Sound, Made

\* The merge of two groups.
LEMMA SgroupMergeIs ==
    ASSUME NEW x, NEW v, NEW r1 \in Sound(x, v), NEW r2 \in Sound(x, v),
           r1.type = "sgroup", r2.type = "sgroup", NEW m \in SgroupMerge(r1, r2)
    PROVE  m \in Sound(x, v)
  <1> DEFINE l0 == Without(r1.addrs, Dropped(r1, r2))
             l == Keep(l0)
             more == Renew(r2.addrs)
  <1>1. PICK k \in AddAll(l, more) : m = [Replica(r2) EXCEPT !.addrs = k]  BY DEF SgroupMerge
  <1>2. /\ r1 \in Record /\ r2 \in Record /\ OfScenario(x, r1) /\ OfScenario(x, r2)
        /\ Cardinality(DOMAIN r1.addrs) <= MaxAddrs /\ Cardinality(DOMAIN r2.addrs) <= MaxAddrs
    BY DEF Sound, Made, Fits
  <1>3. r1.addrs \in AddrList /\ r2.addrs \in AddrList /\ Cardinality(DOMAIN r1.addrs) \in Nat
    BY <1>2, RecordKnown
  <1>4. /\ l0 \in AddrList /\ Cardinality(DOMAIN l0) <= Cardinality(DOMAIN r1.addrs)
        /\ (Fresh(r1.addrs) => Fresh(l0))
    BY <1>3, WithoutIs
  <1> HIDE DEF l0
  <1>5. l \in AddrList /\ DOMAIN l = DOMAIN l0 /\ (Fresh(l0) => Fresh(l))  BY <1>4, KeepIs
  <1>6. more \in AddrList /\ Fresh(more)  BY <1>3, RenewIs
  <1> HIDE DEF l, more
  <1>7. Cardinality(DOMAIN l) \in Nat  BY <1>5, ListKnown
  <1>8. Cardinality(DOMAIN l) <= MaxAddrs  BY <1>2, <1>3, <1>4, <1>5, <1>7, WinsdbAssumption
  <1>9. k \in AddrList  BY <1>5, <1>6, <1>8, AddAllIs
  <1>10. /\ Replica(r2) \in Sound(x, v) /\ Replica(r2).type = r2.type
         /\ Replica(r2).owner = r2.owner /\ Replica(r2).version = r2.version
    BY ReplicaIs
  <1>11. Replica(r2) \in Record  BY <1>10 DEF Sound, Made
  <1>12. /\ m \in Record /\ m.addrs = k /\ m.type = "sgroup" /\ m.owner = r2.owner
         /\ m.version = r2.version
    BY <1>1, <1>9, <1>10, <1>11 DEF Record
  <1>13. x.types # {"group"}  BY <1>2 DEF OfScenario
  <1>14. x.bound["expire"] = 0 => Fresh(l) /\ Fresh(more)
    BY <1>2, <1>4, <1>5, <1>6 DEF OfScenario
  <1> QED  BY <1>5, <1>6, <1>8, <1>12, <1>13, <1>14, MergeIs

\* The merge of a host's record with the replica that its answer confirmed.
LEMMA MhomedMergeIs ==
    ASSUME NEW x, NEW v, NEW r1 \in Sound(x, v), NEW r2 \in Sound(x, v),
           r1.type \in {"unique", "mhomed"}, NEW m \in MhomedMerge(r1, r2)
    PROVE  m \in Sound(x, v)
  <1> DEFINE l == Renew(r2.addrs)
             more0 == Without(r1.addrs, DOMAIN r2.addrs)
             more == Keep(more0)
  <1>1. PICK k \in AddAll(l, more) : m = [Replica(r2) EXCEPT !.type = "mhomed", !.addrs = k]
    BY DEF MhomedMerge
  <1>2. /\ r1 \in Record /\ r2 \in Record /\ OfScenario(x, r1) /\ OfScenario(x, r2)
        /\ Cardinality(DOMAIN r1.addrs) <= MaxAddrs /\ Cardinality(DOMAIN r2.addrs) <= MaxAddrs
    BY DEF Sound, Made, Fits
  <1>3. r1.addrs \in AddrList /\ r2.addrs \in AddrList  BY <1>2, RecordKnown
  <1>4. more0 \in AddrList /\ (Fresh(r1.addrs) => Fresh(more0))  BY <1>3, WithoutIs
  <1> HIDE DEF more0
  <1>5. more \in AddrList /\ (Fresh(more0) => Fresh(more))  BY <1>4, KeepIs
  <1>6. l \in AddrList /\ DOMAIN l = DOMAIN r2.addrs /\ Fresh(l)  BY <1>3, RenewIs
  <1> HIDE DEF l, more
  <1>7. Cardinality(DOMAIN l) <= MaxAddrs  BY <1>2, <1>6
  <1>8. k \in AddrList  BY <1>5, <1>6, <1>7, AddAllIs
  <1>9. /\ Replica(r2) \in Sound(x, v)
        /\ Replica(r2).owner = r2.owner /\ Replica(r2).version = r2.version
    BY ReplicaIs
  <1>10. Replica(r2) \in Record  BY <1>9 DEF Sound, Made
  <1>11. /\ m \in Record /\ m.addrs = k /\ m.type = "mhomed" /\ m.owner = r2.owner
         /\ m.version = r2.version
    BY <1>1, <1>8, <1>9, <1>10 DEF Record, Type
  <1>12. x.types # {"group"}  BY <1>2 DEF OfScenario
  <1>13. x.bound["expire"] = 0 => Fresh(l) /\ Fresh(more)
    BY <1>2, <1>4, <1>5, <1>6 DEF OfScenario
  <1> QED  BY <1>5, <1>6, <1>7, <1>11, <1>12, <1>13, MergeIs

\* What a replica makes the server write or ask (wreplsrv_apply_one_record).
LEMMA OneRecordApplied ==
    ASSUME WinsInv, NEW s \in Server, NEW replica \in Sound(scenario, maxVersion)
    PROVE  LET r == winsdb_lookup(s)
           IN  /\ wreplsrv_apply_one_record(s, r, replica) \subseteq Jobs
               /\ Found(r) /\ R_ACTION(s, r, replica) = "challenge" =>
                    [op |-> "challenge", at |-> s, rec |-> r, replica |-> replica]
                      \in SoundWaiting(scenario, maxVersion)
  <1> DEFINE r == winsdb_lookup(s)
             act == IF Found(r) THEN R_ACTION(s, r, replica) ELSE "add"
             jobs == wreplsrv_apply_one_record(s, r, replica)
             w == [op |-> "challenge", at |-> s, rec |-> r, replica |-> replica]
  <1> SUFFICES /\ jobs \subseteq Jobs
               /\ Found(r) /\ R_ACTION(s, r, replica) = "challenge" =>
                    w \in SoundWaiting(scenario, maxVersion)
    OBVIOUS
  <1>1. Replica(replica) \in Sound(scenario, maxVersion)  BY ReplicaIs
  <1>2. replica \in Record /\ OfScenario(scenario, replica)  BY DEF Sound, Made
  <1>3. ASSUME NEW q \in Sound(scenario, maxVersion), NEW own \in BOOLEAN,
               NEW op \in {"add", "modify"}
        PROVE  NewJob(op, s, q, own) \in Jobs
    <2>1. q \in Made(scenario)  BY DEF Sound
    <2> QED  BY <2>1, JobMade
  <1>4. CASE ~Found(r)
    <2>1. act = "add"  BY <1>4
    <2>2. jobs = {NewJob("add", s, Replica(replica), FALSE)}
      BY <2>1 DEF wreplsrv_apply_one_record
    <2>3. NewJob("add", s, Replica(replica), FALSE) \in Jobs  BY <1>1, <1>3
    <2> HIDE DEF r, jobs
    <2> QED  BY <1>4, <2>2, <2>3
  <1>5. CASE Found(r)
    <2>1. /\ r \in Record /\ OfScenario(scenario, r)
          /\ r.state # "released" \/ scenario.bound["expire"] = 0 =>
               r \in Sound(scenario, maxVersion)
      BY <1>5, LookupIs
    <2>2. act = R_ACTION(s, r, replica)  BY <1>5
    <2>3. CASE act \in {"replace", "release_demand", "not"}
      <3>1. jobs \subseteq {NewJob("modify", s, Replica(replica), FALSE)}
        BY <2>3 DEF wreplsrv_apply_one_record
      <3>2. NewJob("modify", s, Replica(replica), FALSE) \in Jobs  BY <1>1, <1>3
      <3> HIDE DEF jobs, r
      <3> QED  BY <2>2, <2>3, <3>1, <3>2
    <2>4. CASE act = "propagate"
      <3>1. jobs = {NewJob("modify", s, r, TRUE)}  BY <2>4 DEF wreplsrv_apply_one_record
      <3>2. Active(r) \/ (r.type = "group" /\ replica.type # "group")
        BY <2>1, <1>2, <2>2, <2>4, ActionIs
      <3>3. Fits(r)  BY <1>5, LookupFits
      <3> HIDE DEF r
      <3>4. r \in Made(scenario)
        <4>1. CASE Active(r)  BY <2>1, <4>1 DEF Active, Sound
        <4>2. CASE r.type = "group" /\ replica.type # "group"
          <5>1. "group" \in scenario.types /\ scenario.types # {"group"}
            BY <1>2, <2>1, <4>2 DEF OfScenario
          <5>2. CASE Apart(scenario)
            <6>1. scenario.bound["expire"] = 0  BY <5>1, <5>2 DEF Apart
            <6> QED  BY <2>1, <6>1 DEF Sound
          <5>3. CASE ~Apart(scenario)  BY <2>1, <3>3, <5>3 DEF Made
          <5> QED  BY <5>2, <5>3
        <4> QED  BY <3>2, <4>1, <4>2
      <3>5. NewJob("modify", s, r, TRUE) \in Jobs  BY <3>4, JobMade
      <3> HIDE DEF jobs
      <3> QED  BY <2>2, <2>4, <3>1, <3>5
    <2>5. CASE act = "challenge"
      <3>1. jobs = {}  BY <2>5 DEF wreplsrv_apply_one_record
      <3>2. Active(r) /\ r.type \in {"unique", "mhomed"}  BY <1>2, <2>1, <2>2, <2>5, ActionIs
      <3> HIDE DEF r
      <3>3. r \in SoundHost(scenario, maxVersion)  BY <2>1, <3>2 DEF Active, SoundHost
      <3>4. w \in SoundWaiting(scenario, maxVersion)  BY <3>3 DEF SoundWaiting
      <3> HIDE DEF jobs, w
      <3> QED  BY <3>1, <3>4
    <2>6. CASE act = "sgroup_merge"
      <3>1. jobs = {NewJob("modify", s, m, become_owner(s, r, replica, m)) :
                      m \in SgroupMerge(r, replica)}
        BY <2>6 DEF wreplsrv_apply_one_record
      <3>2. Active(r) /\ r.type = "sgroup" /\ replica.type = "sgroup"
        BY <1>2, <2>1, <2>2, <2>6, ActionIs
      <3> HIDE DEF r
      <3>3. r \in Sound(scenario, maxVersion)  BY <2>1, <3>2 DEF Active
      <3>4. ASSUME NEW m \in SgroupMerge(r, replica)
            PROVE  NewJob("modify", s, m, become_owner(s, r, replica, m)) \in Jobs
        <4>1. m \in Sound(scenario, maxVersion)  BY <3>2, <3>3, SgroupMergeIs
        <4>2. become_owner(s, r, replica, m) \in BOOLEAN  BY DEF become_owner
        <4> QED  BY <1>3, <4>1, <4>2
      <3> HIDE DEF jobs
      <3>5. jobs \subseteq Jobs  BY <3>1, <3>4
      <3> QED  BY <2>2, <2>6, <3>5
    <2> QED  BY <1>2, <2>1, <2>2, <2>3, <2>4, <2>5, <2>6, ActionIs
  <1> QED  BY <1>4, <1>5

\* The records of an owner are applied, or the cycle is given up.
LEMMA AppliedIs ==
    ASSUME WinsInv, Wrote, NEW s \in Server, NEW p \in Server, NEW i \in Slot,
           cycle[s][p][i].stage \in {"reply", "apply"}, Applied(s, p, i) \/ Abandoned(s, p, i)
    PROVE  table' \in [Server -> Versions] /\ pulled' \in Pulls /\ cycle' \in Cycles
  <1> DEFINE c == cycle[s][p][i]
  <1>1. table \in [Server -> Versions] /\ pulled \in Pulls  BY Untouched
  <1>2. CASE Abandoned(s, p, i)
    <2>1. cycle' = [cycle EXCEPT ![s][p][i] = Idle] /\ UNCHANGED <<table, pulled>>
      BY <1>2 DEF Abandoned
    <2>2. cycle' \in Cycles  BY <2>1, CycleGoesOn DEF SoundCycle
    <2> QED  BY <1>1, <2>1, <2>2
  <1>3. CASE Applied(s, p, i)
    <2>1. c.owner \in Server /\ c.max \in Nat /\ c.owners \in SUBSET Server  BY CycleKnown
    <2>2. /\ table' = wreplsrv_add_table(s, p, c.owner, c.max) /\ UNCHANGED pulled
          /\ \E next \in wreplsrv_pull_cycle_next_owner_do_work(
                           p, TableOf(s)', pulled[s][p], c.owners) :
                cycle' = [cycle EXCEPT ![s][p][i] = next]
      BY <1>3 DEF Applied
    <2>3. PICK next \in wreplsrv_pull_cycle_next_owner_do_work(
                           p, TableOf(s)', pulled[s][p], c.owners) :
                cycle' = [cycle EXCEPT ![s][p][i] = next]
      BY <2>2
    <2> HIDE DEF c
    <2>4. table' \in [Server -> Versions]
      <3>1. table[s][c.owner] \in Nat \cup {-1}  BY <1>1, <2>1 DEF Versions, Absent
      <3>2. table[s][c.owner] \in Int /\ c.max \in Int  BY <2>1, <3>1
      <3>3. Max({table[s][c.owner], c.max}) \in {table[s][c.owner], c.max}  BY <3>2, MaxIs
      <3>4. Max({table[s][c.owner], c.max}) \in Nat \cup {Absent}  BY <2>1, <3>1, <3>3 DEF Absent
      <3> QED  BY <1>1, <2>1, <2>2, <3>4 DEF wreplsrv_add_table, Versions
    <2>5. TableOf(s)' \in Versions
      <3>1. maxVersion' \in [Server -> Nat]  BY DEF Wrote
      <3> QED  BY <2>4, <3>1 DEF TableOf, Versions
    <2>6. pulled[s][p] \in Versions  BY <1>1 DEF Pulls
    <2>7. next \in SoundCycle(scenario, maxVersion)  BY <2>1, <2>3, <2>5, <2>6, NextOwnerIs
    <2>8. cycle' \in Cycles  BY <2>3, <2>7, CycleGoesOn
    <2> QED  BY <1>1, <2>2, <2>4, <2>8
  <1> QED  BY <1>2, <1>3

\* The records of an owner arrive (wreplsrv_apply_records).
LEMMA ApplyKeeps ==
    ASSUME WinsInv, NEW s \in Server, NEW p \in Server, NEW i \in Slot,
           wreplsrv_apply_records(s, p, i)
    PROVE  WinsInv'
  <1> DEFINE c == cycle[s][p][i]
             r == winsdb_lookup(s)
             jobs == IF c.names = NotFound THEN {} ELSE wreplsrv_apply_one_record(s, r, c.names)
             challenge == c.names # NotFound /\ Found(r) /\ R_ACTION(s, r, c.names) = "challenge"
             w == [op |-> "challenge", at |-> s, rec |-> r, replica |-> c.names]
  <1>1. /\ c.owner \in Server /\ c.max \in Nat /\ c.owners \in SUBSET Server
        /\ c.names \in Sound(scenario, maxVersion) \cup {NotFound}
        /\ c \in SoundCycle(scenario, maxVersion) /\ c.stage = "reply"
    BY CycleKnown DEF wreplsrv_apply_records
  <1>2. UNCHANGED <<scenario, db, events>>  BY DEF wreplsrv_apply_records
  <1>3. Wrote  BY <1>2, WroteNothing
  <1>4. /\ task \in Tasks /\ table \in [Server -> Versions] /\ pulled \in Pulls
        /\ waiting \subseteq SoundWaiting(scenario, maxVersion) /\ events' \in [Events -> Nat]
    BY <1>2, Untouched
  <1>5. waiting' \in {waiting, waiting \cup {w}} /\ (waiting' # waiting => challenge)
    BY DEF wreplsrv_apply_records, r_do_challenge
  <1>6. \/ Abandoned(s, p, i) /\ UNCHANGED task
        \/ Begin(s, "wrepl", jobs) /\ Applied(s, p, i)
        \/ /\ Begin(s, "wrepl", jobs)
           /\ cycle' = [cycle EXCEPT ![s][p][i].stage = "apply"] /\ UNCHANGED <<table, pulled>>
    BY DEF wreplsrv_apply_records
  <1>7. jobs \in SUBSET Jobs /\ (challenge => w \in SoundWaiting(scenario, maxVersion))
    <2>1. CASE c.names = NotFound  BY <2>1
    <2>2. CASE c.names # NotFound
      <3>1. c.names \in Sound(scenario, maxVersion)  BY <1>1, <2>2
      <3> HIDE DEF c
      <3> QED  BY <2>2, <3>1, OneRecordApplied
    <2> QED  BY <2>1, <2>2
  <1> HIDE DEF r, jobs, challenge, w
  <1>8. waiting' \subseteq SoundWaiting(scenario, maxVersion)  BY <1>4, <1>5, <1>7
  <1>9. task' \in Tasks  BY <1>4, <1>6, <1>7, Begun DEF Process
  <1>10. table' \in [Server -> Versions] /\ pulled' \in Pulls /\ cycle' \in Cycles
    <2>1. CASE Applied(s, p, i) \/ Abandoned(s, p, i)  BY <1>1, <1>3, <2>1, AppliedIs
    <2>2. CASE cycle' = [cycle EXCEPT ![s][p][i].stage = "apply"] /\ UNCHANGED <<table, pulled>>
      <3> DEFINE d == [c EXCEPT !.stage = "apply"]
      <3>1. cycle' = [cycle EXCEPT ![s][p][i] = d]  BY <2>2
      <3> HIDE DEF c
      <3>2. d \in SoundCycle(scenario, maxVersion)  BY <1>1 DEF SoundCycle, Idle
      <3> HIDE DEF d
      <3>3. cycle' \in Cycles  BY <3>1, <3>2, CycleGoesOn
      <3> QED  BY <1>4, <2>2, <3>3
    <2> QED  BY <1>6, <2>1, <2>2
  <1> QED  BY <1>2, <1>3, <1>4, <1>8, <1>9, <1>10, Kept

\* The record is written, and the cycle goes on (ApplyWrites).
LEMMA ApplyWritesKeeps ==
    ASSUME WinsInv, NEW s \in Server, NEW p \in Server, NEW i \in Slot, ApplyWrites(s, p, i)
    PROVE  WinsInv'
  <1>1. Wrote /\ task' \in Tasks  BY Written DEF ApplyWrites, Process
  <1>2. table' \in [Server -> Versions] /\ pulled' \in Pulls /\ cycle' \in Cycles
    BY <1>1, AppliedIs DEF ApplyWrites
  <1>3. UNCHANGED <<scenario, waiting, events>>  BY DEF ApplyWrites
  <1>4. waiting' \subseteq SoundWaiting(scenario, maxVersion) /\ events' \in [Events -> Nat]
    BY <1>3, Untouched
  <1> QED  BY <1>1, <1>2, <1>3, <1>4, Kept

\* The host that has the name answers, or none does (r_do_challenge_handler).
LEMMA ChallengeKeeps ==
    ASSUME WinsInv, NEW w \in waiting, NEW answer, r_do_challenge_handler(w, answer)
    PROVE  WinsInv'
  <1>1. /\ w.at \in Server /\ w.rec \in Sound(scenario, maxVersion)
        /\ w.replica \in Sound(scenario, maxVersion) /\ w.rec.type \in {"unique", "mhomed"}
    BY WaitKnown DEF r_do_challenge_handler
  <1>2. Replica(w.replica) \in Sound(scenario, maxVersion)  BY <1>1, ReplicaIs
  <1>3. \/ UNCHANGED db \/ winsdb_modify(w.at, Replica(w.replica), FALSE)
        \/ \E m \in MhomedMerge(w.rec, w.replica) : winsdb_modify(w.at, m, FALSE)
    BY DEF r_do_challenge_handler
  <1>4. ASSUME NEW q \in Sound(scenario, maxVersion), winsdb_modify(w.at, q, FALSE)
        PROVE  Wrote
    <2>1. q \in Made(scenario)  BY DEF Sound
    <2> QED  BY <1>1, <1>4, <2>1, WroteModify
  <1>5. ASSUME NEW m \in MhomedMerge(w.rec, w.replica), winsdb_modify(w.at, m, FALSE)
        PROVE  Wrote
    <2>1. m \in Sound(scenario, maxVersion)  BY <1>1, MhomedMergeIs
    <2> QED  BY <1>4, <1>5, <2>1
  <1>6. Wrote  BY <1>2, <1>3, <1>4, <1>5, WroteNothing
  <1>7. task' \in Tasks  BY Untouched DEF r_do_challenge_handler
  <1> QED  BY <1>6, <1>7, AnsweredKeeps DEF r_do_challenge_handler

-----------------------------------------------------------------------------
(* Time, scavenging and restarts. *)

\* A record that has the same addresses, type and state as the stored one takes
\* its place, in a scenario in which time runs out.
LEMMA AgedKeeps ==
    ASSUME WinsInv, NEW s \in Server, Found(rec[s]), NEW l \in AddrList, NEW e \in BOOLEAN,
           DOMAIN l = DOMAIN rec[s].addrs,
           rec' = [rec EXCEPT ![s] = [rec[s] EXCEPT !.expired = e, !.addrs = l]],
           Happens("expire"), UNCHANGED <<scenario, maxVersion, task, replication, waiting>>
    PROVE  WinsInv'
  <1> DEFINE q == [rec[s] EXCEPT !.expired = e, !.addrs = l]
  <1>1. events' \in [Events -> Nat] /\ scenario.bound["expire"] # 0  BY Counted DEF Events
  <1>2. /\ rec[s] \in Stored(scenario, maxVersion) /\ rec[s] \in Sound(scenario, maxVersion)
        /\ rec[s] \in Made(scenario) /\ rec[s] \in Record
    BY StoredKnown
  <1>3. /\ q \in Record /\ q.type = rec[s].type /\ q.state = rec[s].state /\ q.addrs = l
        /\ q.owner = rec[s].owner /\ q.version = rec[s].version
    BY <1>2 DEF Record
  <1>4. rec' = [rec EXCEPT ![s] = q]  OBVIOUS
  <1> HIDE DEF q
  <1>5. q \in Made(scenario)  BY <1>1, <1>2, <1>3 DEF Made, OfScenario, Storable, Fits
  <1>6. q \in Sound(scenario, maxVersion)  BY <1>2, <1>3, <1>5 DEF Sound
  <1>7. Apart(scenario) => Readable(q)  BY <1>2, <1>3 DEF Stored, Readable
  <1>8. q \in Stored(scenario, maxVersion)  BY <1>6, <1>7 DEF Stored
  <1>9. Wrote  BY <1>4, <1>8 DEF WinsInv, Wrote
  <1>10. /\ task' \in Tasks
         /\ table' \in [Server -> Versions] /\ pulled' \in Pulls /\ cycle' \in Cycles
         /\ waiting' \subseteq SoundWaiting(scenario, maxVersion)
    BY Untouched DEF replication
  <1> QED  BY <1>1, <1>9, <1>10, Kept

\* The time of the record passes.
LEMMA RecordExpiresKeeps ==
    ASSUME WinsInv, NEW s \in Server, RecordExpires(s)
    PROVE  WinsInv'
  <1> DEFINE m == rec[s].addrs
             l == [a \in DOMAIN m |-> IF m[a].age = "with" THEN [m[a] EXCEPT !.age = "past"] ELSE m[a]]
  <1>1. Found(rec[s]) /\ rec[s] \in Record  BY StoredKnown DEF RecordExpires
  <1>2. m \in AddrList  BY <1>1, RecordKnown
  <1>3. DOMAIN m \in SUBSET Addr /\ m \in [DOMAIN m -> AddrEntry]  BY <1>2, ListKnown
  <1>4. l \in [DOMAIN m -> AddrEntry]  BY <1>3 DEF AddrEntry
  <1>5. s \in DOMAIN rec  BY DEF WinsInv
  <1>6. rec' = [rec EXCEPT ![s] = [rec[s] EXCEPT !.expired = TRUE, !.addrs = l]]
    BY <1>1, <1>5 DEF RecordExpires, Record
  <1> HIDE DEF l
  <1>7. l \in AddrList /\ DOMAIN l = DOMAIN m  BY <1>3, <1>4, ListMade
  <1> QED  BY <1>1, <1>6, <1>7, AgedKeeps DEF RecordExpires

\* The time of an address passes.
LEMMA AddressExpiresKeeps ==
    ASSUME WinsInv, NEW s \in Server, NEW a \in Addr, AddressExpires(s, a)
    PROVE  WinsInv'
  <1> DEFINE m == rec[s].addrs
             l == [m EXCEPT ![a].age = "past"]
             e == rec[s].expired
  <1>1. Found(rec[s]) /\ rec[s] \in Record  BY StoredKnown DEF AddressExpires
  <1>2. m \in AddrList /\ e \in BOOLEAN  BY <1>1, RecordKnown
  <1>3. DOMAIN m \in SUBSET Addr /\ m \in [DOMAIN m -> AddrEntry]  BY <1>2, ListKnown
  <1>4. l \in [DOMAIN m -> AddrEntry]  BY <1>3 DEF AddrEntry
  <1>5. rec' = [rec EXCEPT ![s] = [rec[s] EXCEPT !.addrs = l]]
    BY <1>1 DEF AddressExpires
  <1> HIDE DEF l
  <1>6. [rec[s] EXCEPT !.addrs = l] = [rec[s] EXCEPT !.expired = e, !.addrs = l]
    BY <1>1 DEF Record
  <1>7. l \in AddrList /\ DOMAIN l = DOMAIN m  BY <1>3, <1>4, ListMade
  <1> HIDE DEF e
  <1> QED  BY <1>1, <1>2, <1>5, <1>6, <1>7, AgedKeeps DEF AddressExpires

\* The record with another state and expire_time.
LEMMA Restated ==
    ASSUME NEW x, NEW v, NEW r \in Sound(x, v), NEW q \in Record, q.type = r.type,
           q.owner = r.owner, q.version = r.version, q.addrs \in {Keep(r.addrs), Renew(r.addrs)}
    PROVE  q \in Sound(x, v)
  <1>1. r \in Made(x) /\ r \in Record /\ r.version \in 1..v[r.owner]  BY DEF Sound, Made
  <1>2. r.addrs \in AddrList  BY <1>1, RecordKnown
  <1>3. DOMAIN q.addrs = DOMAIN r.addrs /\ (Fresh(r.addrs) => Fresh(q.addrs))
    BY <1>2, KeepIs, RenewIs
  <1>4. q \in Made(x)  BY <1>1, <1>3, MadeAgain
  <1> QED  BY <1>1, <1>4 DEF Sound

\* The scavenging (wreplsrv_scavenging_run).
LEMMA ScavengingKeeps ==
    ASSUME WinsInv, NEW s \in Server, NEW d \in BOOLEAN, wreplsrv_scavenging_run(s, d)
    PROVE  WinsInv'
  <1> DEFINE r == [rec[s] EXCEPT !.expired = FALSE, !.addrs = Keep(@)]
             q1 == [r EXCEPT !.state = "released"]
             q2 == [r EXCEPT !.state = "tombstone"]
             verify == rec[s].owner # s /\ Active(rec[s])
             owned == wreplsrv_scavenging_owned_records(s, d)
             replicas == wreplsrv_scavenging_replica_non_active_records(s, d)
  <1>1. /\ Found(rec[s]) /\ rec[s] \in Sound(scenario, maxVersion) /\ rec[s] \in Record
    BY StoredKnown DEF wreplsrv_scavenging_run
  <1>2. events' \in [Events -> Nat] /\ UNCHANGED <<scenario, db, table, pulled, cycle>>
    BY Counted DEF wreplsrv_scavenging_run, replication, Events
  <1>3. rec[s].state \in {"active", "released", "tombstone"} /\ Keep(rec[s].addrs) \in AddrList
    BY <1>1, RecordKnown, KeepIs
  <1>4. /\ r \in Record /\ r.type = rec[s].type /\ r.owner = rec[s].owner
        /\ r.version = rec[s].version /\ r.addrs = Keep(rec[s].addrs)
        /\ q1 \in Record /\ q1.type = rec[s].type /\ q1.owner = rec[s].owner
        /\ q1.version = rec[s].version /\ q1.addrs = Keep(rec[s].addrs)
        /\ q2 \in Record /\ q2.type = rec[s].type /\ q2.owner = rec[s].owner
        /\ q2.version = rec[s].version /\ q2.addrs = Keep(rec[s].addrs)
        /\ r.state = rec[s].state
    BY <1>1, <1>3 DEF Record
  <1>5. \/ /\ verify /\ wreplsrv_scavenging_replica_active_records(s)
        \/ /\ rec[s].owner = s /\ Begin(s, "wrepl", owned) /\ UNCHANGED waiting
        \/ /\ rec[s].state # "active" /\ Begin(s, "wrepl", replicas) /\ UNCHANGED waiting
    BY DEF wreplsrv_scavenging_run, Active
  <1>6. ASSUME NEW q \in {r, q1, q2}, NEW op \in {"modify", "delete"}, NEW own \in BOOLEAN
        PROVE  NewJob(op, s, q, own) \in Jobs
    <2> HIDE DEF r, q1, q2
    <2>1. q \in Sound(scenario, maxVersion)  BY <1>1, <1>4, <1>6, Restated
    <2>2. q \in Made(scenario)  BY <2>1 DEF Sound
    <2> QED  BY <2>1, <2>2, JobMade
  <1>7. owned \in SUBSET {NewJob("modify", s, q1, FALSE), NewJob("modify", s, q2, TRUE),
                          NewJob("delete", s, r, FALSE)}
    BY <1>3, <1>4 DEF wreplsrv_scavenging_owned_records
  <1>8. ASSUME rec[s].state # "active"
        PROVE  replicas \in SUBSET {NewJob("modify", s, q2, FALSE), NewJob("delete", s, r, FALSE)}
    BY <1>3, <1>4, <1>8 DEF wreplsrv_scavenging_replica_non_active_records
  <1> HIDE DEF r, q1, q2, owned, replicas
  <1>9. task' \in Tasks /\ waiting' \subseteq SoundWaiting(scenario, maxVersion)
    <2>1. task \in Tasks /\ waiting \subseteq SoundWaiting(scenario, maxVersion)  BY Untouched
    <2>2. CASE verify /\ wreplsrv_scavenging_replica_active_records(s)
      <3>1. [op |-> "verify", at |-> s, rec |-> rec[s]] \in SoundWaiting(scenario, maxVersion)
        BY <1>1 DEF SoundWaiting
      <3> QED  BY <2>1, <2>2, <3>1 DEF wreplsrv_scavenging_replica_active_records
    <2>3. CASE Begin(s, "wrepl", owned) /\ UNCHANGED waiting
      <3>1. owned \in SUBSET Jobs  BY <1>6, <1>7
      <3> QED  BY <2>1, <2>3, <3>1, Begun DEF Process
    <2>4. CASE rec[s].state # "active" /\ Begin(s, "wrepl", replicas) /\ UNCHANGED waiting
      <3>1. replicas \in SUBSET Jobs  BY <1>6, <1>8, <2>4
      <3> QED  BY <2>1, <2>4, <3>1, Begun DEF Process
    <2> QED  BY <1>5, <2>2, <2>3, <2>4
  <1>10. table' \in [Server -> Versions] /\ pulled' \in Pulls /\ cycle' \in Cycles
    BY <1>2, Untouched
  <1> QED  BY <1>2, <1>9, <1>10, WroteNothing, Kept

\* The server that owns the record answers (nbtd_winsserver_query).
LEMMA QueryKeeps ==
    ASSUME WinsInv, NEW w \in waiting, nbtd_winsserver_query(w)
    PROVE  WinsInv'
  <1> DEFINE r == winsdb_lookup(w.rec.owner)
             answer == IF ~Found(r) THEN Gone
                       ELSE IF r.type = "group" THEN Broadcast
                       ELSE IF ~Active(r) THEN Gone
                       ELSE DOMAIN r.addrs
             v == [op |-> "verified", at |-> w.at, rec |-> w.rec, answer |-> answer]
  <1>1. w.at \in Server /\ w.rec \in Sound(scenario, maxVersion)  BY WaitKnown
  <1>2. w.rec.owner \in Server  BY <1>1, RecordKnown DEF Sound, Made
  <1>3. Found(r) => DOMAIN r.addrs \subseteq Addr  BY <1>2, LookupIs, RecordKnown
  <1>4. waiting' = (waiting \ {w}) \cup {v} /\ UNCHANGED <<scenario, db, task, replication, events>>
    BY DEF nbtd_winsserver_query
  <1> HIDE DEF r
  <1>5. answer \in Answer  BY <1>3 DEF Answer
  <1> HIDE DEF answer
  <1>6. v \in SoundWaiting(scenario, maxVersion)  BY <1>1, <1>5 DEF SoundWaiting
  <1> HIDE DEF v
  <1>7. /\ task' \in Tasks
        /\ table' \in [Server -> Versions] /\ pulled' \in Pulls /\ cycle' \in Cycles
        /\ waiting' \subseteq SoundWaiting(scenario, maxVersion) /\ events' \in [Events -> Nat]
    BY <1>4, <1>6, Untouched DEF replication
  <1> QED  BY <1>4, <1>7, Kept, WroteNothing

\* The answer arrives (verify_handler).
LEMMA VerifyKeeps ==
    ASSUME WinsInv, NEW w \in waiting, verify_handler(w)
    PROVE  WinsInv'
  <1> DEFINE r == [w.rec EXCEPT !.expired = FALSE, !.addrs = Renew(@)]
             q == [r EXCEPT !.state = "tombstone"]
  <1>1. w.at \in Server /\ w.rec \in Sound(scenario, maxVersion)  BY WaitKnown
  <1>2. w.rec \in Record  BY <1>1 DEF Sound, Made
  <1>3. Renew(w.rec.addrs) \in AddrList  BY <1>2, RecordKnown, RenewIs
  <1>4. /\ r \in Record /\ r.type = w.rec.type /\ r.owner = w.rec.owner
        /\ r.version = w.rec.version /\ r.addrs = Renew(w.rec.addrs)
        /\ q \in Record /\ q.type = w.rec.type /\ q.owner = w.rec.owner
        /\ q.version = w.rec.version /\ q.addrs = Renew(w.rec.addrs)
    BY <1>2, <1>3 DEF Record
  <1>5. winsdb_delete(w.at) \/ winsdb_modify(w.at, q, TRUE) \/ winsdb_modify(w.at, r, FALSE)
    BY DEF verify_handler
  <1> HIDE DEF r, q
  <1>6. r \in Sound(scenario, maxVersion) /\ q \in Sound(scenario, maxVersion)
    BY <1>1, <1>4, Restated
  <1>7. r \in Made(scenario) /\ q \in Made(scenario)  BY <1>6 DEF Sound
  <1>8. Wrote  BY <1>1, <1>5, <1>6, <1>7, WroteDelete, WroteModify
  <1>9. task' \in Tasks  BY Untouched DEF verify_handler
  <1> QED  BY <1>8, <1>9, AnsweredKeeps DEF verify_handler

\* No answer arrives.
LEMMA TimeoutKeeps ==
    ASSUME WinsInv, NEW w \in waiting, VerifyTimesOut(w)
    PROVE  WinsInv'
  <1>1. task' \in Tasks  BY Untouched DEF VerifyTimesOut
  <1> QED  BY <1>1, WroteNothing, AnsweredKeeps DEF VerifyTimesOut

\* What a server has when it starts.
LEMMA StartIs ==
    /\ Empty \in Versions /\ NothingPulled \in [Server -> Versions]
    /\ \A x, v : NoCycles \in [Server -> [Slot -> SoundCycle(x, v)]]
    /\ \A x, v : [q \in Process |-> Free] \in [Process -> SoundJob(x, v) \cup {Free}]
  <1>1. Empty \in Versions  BY DEF Empty, Versions
  <1>2. NothingPulled \in [Server -> Versions]  BY <1>1 DEF NothingPulled
  <1>3. \A x, v : Idle \in SoundCycle(x, v)  BY DEF SoundCycle
  <1>4. \A x, v : NoCycles \in [Server -> [Slot -> SoundCycle(x, v)]]  BY <1>3 DEF NoCycles
  <1> QED  BY <1>1, <1>2, <1>4

\* Both processes of a server start again.
LEMMA RestartKeeps ==
    ASSUME WinsInv, NEW s \in Server, Restart(s)
    PROVE  WinsInv'
  <1> DEFINE t == [o \in Server |->
                     IF Found(rec[s]) /\ rec[s].owner = o THEN rec[s].version ELSE Absent]
  <1>1. events' \in [Events -> Nat]  BY Counted DEF Restart, Events
  <1>2. Found(rec[s]) => rec[s].version \in Nat  BY StoredKnown, RecordKnown
  <1>3. t \in Versions  BY <1>2 DEF Versions
  <1>4. /\ task' = [task EXCEPT ![s] = [q \in Process |-> Free]]
        /\ table' = [table EXCEPT ![s] = t]
        /\ pulled' = [pulled EXCEPT ![s] = NothingPulled]
        /\ cycle' = [cycle EXCEPT ![s] = NoCycles]
    BY DEF Restart
  <1> HIDE DEF t
  <1>5. /\ task \in Tasks /\ table \in [Server -> Versions] /\ pulled \in Pulls /\ cycle \in Cycles
        /\ waiting \subseteq SoundWaiting(scenario, maxVersion)
    BY Untouched
  <1>6. task' \in Tasks
    <2>1. [q \in Process |-> Free] \in [Process -> Jobs \cup {Free}]  OBVIOUS
    <2> QED  BY <1>4, <1>5, <2>1 DEF Tasks
  <1>7. table' \in [Server -> Versions]  BY <1>3, <1>4, <1>5
  <1>8. pulled' \in Pulls  BY <1>4, <1>5, StartIs DEF Pulls
  <1>9. cycle' \in Cycles
    <2>1. NoCycles \in [Server -> [Slot -> SoundCycle(scenario, maxVersion)]]  BY StartIs
    <2> QED  BY <1>4, <1>5, <2>1 DEF Cycles
  <1>10. waiting' \subseteq SoundWaiting(scenario, maxVersion)  BY <1>5 DEF Restart
  <1>11. UNCHANGED scenario /\ Wrote  BY WroteNothing DEF Restart
  <1> QED  BY <1>1, <1>6, <1>7, <1>8, <1>9, <1>10, <1>11, Kept

-----------------------------------------------------------------------------
(* The theorems. *)

\* The invariant holds at the start.
LEMMA WinsStart == Init => WinsInv
  <1> SUFFICES ASSUME Init PROVE WinsInv  OBVIOUS
  <1>1. task \in [Server -> [Process -> SoundJob(scenario, maxVersion) \cup {Free}]]
    BY StartIs DEF Init
  <1>2. table \in [Server -> Versions] /\ pulled \in [Server -> [Server -> Versions]]
    BY StartIs DEF Init
  <1>3. cycle \in [Server -> [Server -> [Slot -> SoundCycle(scenario, maxVersion)]]]
    BY StartIs DEF Init
  <1> QED  BY <1>1, <1>2, <1>3 DEF Init, WinsInv

\* Every step keeps it.
LEMMA WinsStep == WinsInv /\ [Next]_vars => WinsInv'
  <1> SUFFICES ASSUME WinsInv, [Next]_vars PROVE WinsInv'  OBVIOUS
  <1>1. CASE UNCHANGED vars  BY <1>1 DEF vars, db, replication, WinsInv
  <1>2. ASSUME NEW s \in Server, NEW a \in Addr, NEW t \in scenario.types,
               nbtd_winsserver_register(s, a, t)
        PROVE  WinsInv'
    BY <1>2, RegisterKeeps
  <1>3. ASSUME NEW s \in Server, NEW a \in Addr,
               nbtd_winsserver_release(s, a) \/ AddressExpires(s, a)
        PROVE  WinsInv'
    BY <1>3, ReleaseKeeps, AddressExpiresKeeps
  <1>4. ASSUME NEW s \in Server,
               \/ NbtdWrites(s) \/ RecordExpires(s) \/ ScavengingWrites(s) \/ Restart(s)
               \/ \E d \in BOOLEAN : wreplsrv_scavenging_run(s, d)
        PROVE  WinsInv'
    BY <1>4, WritesKeeps, RecordExpiresKeeps, RestartKeeps, ScavengingKeeps
  <1>5. ASSUME NEW s \in Server, NEW p \in Server,
               wreplsrv_in_table_query(s, p) \/ \E i \in Slot : wreplsrv_in_update(s, p, i)
        PROVE  WinsInv'
    BY <1>5, QueryOrUpdateKeeps
  <1>6. ASSUME NEW s \in Server, NEW p \in Server, NEW i \in Slot,
               \/ wreplsrv_pull_cycle_wait_table_reply(s, p, i)
               \/ wreplsrv_in_send_request(s, p, i)
               \/ wreplsrv_apply_records(s, p, i)
               \/ ApplyWrites(s, p, i)
               \/ PullFails(s, p, i)
        PROVE  WinsInv'
    BY <1>6, TableReplyKeeps, SendKeeps, ApplyKeeps, ApplyWritesKeeps, PullFailsKeeps
  <1>7. ASSUME NEW w \in waiting,
               \/ \E answer \in {Gone} \cup SUBSET Addr : WackAnswered(w, answer)
               \/ \E answer \in {Gone} \cup SUBSET Addr : r_do_challenge_handler(w, answer)
               \/ nbtd_winsserver_query(w) \/ VerifyTimesOut(w) \/ verify_handler(w)
        PROVE  WinsInv'
    BY <1>7, WackKeeps, ChallengeKeeps, QueryKeeps, TimeoutKeeps, VerifyKeeps
  <1>8. CASE Next  BY <1>2, <1>3, <1>4, <1>5, <1>6, <1>7, <1>8 DEF Next
  <1> QED  BY <1>1, <1>8

\* Whatever hosts register, release and refresh at whichever servers, however their
\* pulls interleave, run beside one another, fail or are cut off by a restart, and
\* whatever nbtd and wrepl write over each other's records: the version of every
\* record that a server holds was given by the owner the record names, for any
\* number of servers and addresses (winsdb.c, winsdb_get_maxVersion and
\* winsdb_set_maxVersion; wrepl_apply_records.c).
THEOREM VersionsAreOwners == Spec => []TypeOK
  <1>1. WinsInv => TypeOK
    <2> SUFFICES ASSUME WinsInv PROVE TypeOK  OBVIOUS
    <2>1. \A x, v : Sound(x, v) \subseteq Record /\ Made(x) \subseteq Record  BY DEF Sound, Made
    <2>2. ASSUME NEW s \in Server
          PROVE  /\ rec[s] = NotFound \/ rec[s] \in Record
                 /\ Found(rec[s]) => rec[s].version \in 1..maxVersion[rec[s].owner]
      <3>1. rec[s] \in Stored(scenario, maxVersion) \cup {NotFound}  BY DEF WinsInv
      <3> QED  BY <3>1, RecordsAreFound DEF Stored, Sound, Made
    <2>3. SoundJob(scenario, maxVersion) \subseteq Job  BY <2>1 DEF SoundJob, Job
    <2>4. ASSUME NEW s \in Server, NEW q \in Process PROVE task[s][q] = Free \/ task[s][q] \in Job
      <3>1. task[s][q] \in SoundJob(scenario, maxVersion) \cup {Free}  BY DEF WinsInv
      <3> QED  BY <2>3, <3>1
    <2>5. SoundCycle(scenario, maxVersion) \subseteq Cycle  BY <2>1 DEF SoundCycle, Cycle
    <2>6. ASSUME NEW s \in Server, NEW p \in Server, NEW i \in Slot PROVE cycle[s][p][i] \in Cycle
      BY <2>5, CycleKnown
    <2>7. \A s, p \in Server : pulled[s][p] \in Versions  BY DEF WinsInv
    <2>8. SoundWaiting(scenario, maxVersion) \subseteq Waiting
      BY <2>1, ScenarioKnown DEF SoundWaiting, SoundHost, Waiting
    <2>9. waiting \subseteq Waiting  BY <2>8 DEF WinsInv
    <2> QED  BY <2>2, <2>4, <2>6, <2>7, <2>9 DEF WinsInv, TypeOK
  <1> QED  BY <1>1, WinsStart, WinsStep, PTL DEF Spec

\* Where a name is not used for a group and for a host at once, or no time runs
\* out, no server stores a record that winsdb_record would refuse as corrupted:
\* neither a merge, a release, an expired address, the answer to a challenge nor a
\* write that another one overtook leaves a unique or group name without its one
\* address, or a list longer than MaxAddrs (winsdb.c, winsdb_record).
THEOREM StoredIsReadable == SeparateNames => (Spec => []AllReadable)
  <1> SUFFICES ASSUME SeparateNames PROVE Spec => []AllReadable  OBVIOUS
  <1>1. WinsInv => AllReadable
    <2> SUFFICES ASSUME WinsInv, NEW s \in Server, Found(rec[s]) PROVE Readable(rec[s])
      BY DEF AllReadable
    <2>1. Apart(scenario)  BY DEF WinsInv, SeparateNames
    <2>2. rec[s] \in Stored(scenario, maxVersion)  BY StoredKnown
    <2> QED  BY <2>1, <2>2 DEF Stored
  <1> QED  BY <1>1, WinsStart, WinsStep, PTL DEF Spec
=============================================================================
