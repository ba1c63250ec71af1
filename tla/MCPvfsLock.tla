----------------------------- MODULE MCPvfsLock -----------------------------
(***************************************************************************)
(* A file that two processes lock, for TLC.                                *)
(***************************************************************************)
EXTENDS PvfsLockInv

CONSTANTS s1, s2, h1, h2, h3

\* h1 and h2 are opened by one process, h3 by another.
Servers == [h \in Handle |-> IF h = h3 THEN s2 ELSE s1]

R(p, s, n) == [pid |-> p, start |-> s, size |-> n]
A == R(1, 0, 2)
B == R(1, 1, 2)
C == R(1, 2, 2)

In(h, shared, timed, us, ls) ==
    [handle |-> h, shared |-> shared, timed |-> timed, ulocks |-> us, locks |-> ls]

\* h1 sends requests for two ranges at once.
Multi == {In(h1, FALSE, TRUE, <<>>, <<A, C>>), In(h1, FALSE, FALSE, <<>>, <<C, A>>)}
Single(h) == {In(h, s, TRUE, <<>>, <<B>>) : s \in BOOLEAN}
             \cup {In(h, s, FALSE, <<>>, <<A>>) : s \in BOOLEAN}
Unlocks(h) == {In(h, FALSE, FALSE, <<B>>, <<>>), In(h, FALSE, TRUE, <<A>>, <<B>>)}

\* Exclusive locks that wait, on overlapping and on other ranges.
WaitInputs == {In(h, FALSE, TRUE, <<>>, <<l>>) : h \in {h1, h2, h3}, l \in {A, C}}

MixedInputs == Multi \cup UNION {Single(h) \cup Unlocks(h) : h \in {h2, h3}}
=============================================================================
