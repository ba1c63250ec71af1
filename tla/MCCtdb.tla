------------------------------- MODULE MCCtdb -------------------------------
(***************************************************************************)
(* Small clusters for TLC: three nodes, of which L is the location master  *)
(* of every record, and up to three clients.                               *)
(***************************************************************************)
EXTENDS CtdbInv

CONSTANTS L, A, B, c1, c2, c3, k1

\* The dmaster of every record in the initial state.
LmasterL == [k \in Key |-> L]
FirstL == [k \in Key |-> L]
FirstA == [k \in Key |-> A]

\* Where clients run: apart from the lmaster.
NodesABA == [c \in Client |-> IF c = c2 THEN B ELSE A]

\* What clients use and do.
WantAll == [c \in Client |-> Key]
AllOps == [c \in Client |-> StartOp]
Updates == [c \in Client |-> {"fetch", "incr"}]
=============================================================================
