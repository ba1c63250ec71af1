------------------------------- MODULE MCWins -------------------------------
(***************************************************************************)
(* Two WINS servers for TLC, each the one of a host.                       *)
(***************************************************************************)
EXTENDS WinsInv

CONSTANTS s1, s2, a1, a2

OneEach == {<<a1, s1>>, <<a2, s2>>}
BothAt2 == {<<a1, s2>>, <<a2, s2>>}

\* The servers are alike, with their hosts.
Alike == {[x \in {s1, s2, a1, a2} |-> CASE x = s1 -> s2 [] x = s2 -> s1 [] x = a1 -> a2 [] x = a2 -> a1]}

Played(uses, types, register, release, expire, scavenge, update, fail, restart) ==
    [uses |-> uses, types |-> types,
     bound |-> [register |-> register, release |-> release, expire |-> expire,
                scavenge |-> scavenge, update |-> update, fail |-> fail, restart |-> restart]]

\* A logon group (0x1C), of hosts of both servers or of one, a normal group, a
\* host name, and a name that is taken for a group by one host and for its own by
\* the other.
Host == {"unique", "mhomed"}
Mixed ==
    {Played(BothAt2, {"sgroup"}, 3, 0, 0, 0, 1, 0, 0),
     Played(OneEach, {"sgroup"}, 2, 0, 0, 0, 1, 0, 0),
     Played(OneEach, {"sgroup"}, 3, 0, 0, 0, 0, 0, 1),
     Played(OneEach, {"sgroup"}, 2, 0, 0, 0, 0, 1, 1),
     Played(OneEach, {"sgroup"}, 2, 0, 1, 1, 0, 0, 0),
     Played(OneEach, {"sgroup"}, 1, 1, 2, 2, 0, 0, 0),
     Played(OneEach, {"group"}, 2, 1, 1, 1, 0, 0, 0),
     Played(OneEach, {"group"}, 1, 1, 2, 2, 0, 0, 1),
     Played(OneEach, Host, 2, 0, 1, 1, 0, 0, 0),
     Played(OneEach, Host, 1, 1, 2, 2, 0, 0, 0),
     Played(OneEach, Host, 2, 1, 0, 0, 0, 0, 0),
     Played(OneEach, Host \cup {"group"}, 2, 0, 0, 0, 0, 0, 1),
     Played(OneEach, Host \cup {"group"}, 3, 0, 0, 0, 0, 0, 0)}
=============================================================================
