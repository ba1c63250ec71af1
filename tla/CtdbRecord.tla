----------------------------- MODULE CtdbRecord -----------------------------
(***************************************************************************)
(* What a CTDB database promises its clients, as if there were one copy of *)
(* every record: a call of a function takes effect exactly once between    *)
(* its invocation and its return, and a record handle is exclusive: from   *)
(* the fetch to the release nothing but its holder changes the record.     *)
(***************************************************************************)
EXTENDS Naturals

CONSTANTS Client, Key, None

VARIABLES
    value,    \* [Key -> Nat]: number of updates in the record
    holder,   \* [Key -> client with a handle on the record, or None]
    doing,    \* [Client -> what the client is in the middle of]
    seen      \* [Client -> value the handle's fetch returned, or None]

rvars == <<value, holder, doing, seen>>

Doing == {"nothing", "get", "incr", "done", "fetch", "hold"}

RInit ==
    /\ value = [k \in Key |-> 0]
    /\ holder = [k \in Key |-> None]
    /\ doing = [c \in Client |-> "nothing"]
    /\ seen = [c \in Client |-> None]

Invoke(c, op) ==
    /\ doing[c] = "nothing"
    /\ doing' = [doing EXCEPT ![c] = op]
    /\ UNCHANGED <<value, holder, seen>>

\* The call takes effect; its reply may be immediate or come later.
Effect(c, k) ==
    /\ doing[c] \in {"get", "incr"}
    /\ holder[k] = None
    /\ value' = IF doing[c] = "incr" THEN [value EXCEPT ![k] = @ + 1] ELSE value
    /\ \E d \in {"done", "nothing"} : doing' = [doing EXCEPT ![c] = d]
    /\ UNCHANGED <<holder, seen>>

Return(c) ==
    /\ doing[c] = "done"
    /\ doing' = [doing EXCEPT ![c] = "nothing"]
    /\ UNCHANGED <<value, holder, seen>>

Acquire(c, k) ==
    /\ doing[c] = "fetch"
    /\ holder[k] = None
    /\ holder' = [holder EXCEPT ![k] = c]
    /\ doing' = [doing EXCEPT ![c] = "hold"]
    /\ seen' = [seen EXCEPT ![c] = value[k]]
    /\ UNCHANGED value

\* The holder replaces what it saw.
Store(c, k) ==
    /\ holder[k] = c
    /\ value' = [value EXCEPT ![k] = seen[c] + 1]
    /\ UNCHANGED <<holder, doing, seen>>

Release(c, k) ==
    /\ holder[k] = c
    /\ holder' = [holder EXCEPT ![k] = None]
    /\ doing' = [doing EXCEPT ![c] = "nothing"]
    /\ seen' = [seen EXCEPT ![c] = None]
    /\ UNCHANGED value

RNext ==
    \E c \in Client :
        \/ \E op \in {"get", "incr", "fetch"} : Invoke(c, op)
        \/ Return(c)
        \/ \E k \in Key : Effect(c, k) \/ Acquire(c, k) \/ Store(c, k) \/ Release(c, k)

RSpec == RInit /\ [][RNext]_rvars
=============================================================================
