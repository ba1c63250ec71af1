----------------------------- MODULE MCPvfsOpen -----------------------------
(***************************************************************************)
(* One name, opened and deleted through two processes, for TLC.            *)
(***************************************************************************)
EXTENDS PvfsOpenInv

CONSTANTS s1, s2, i1, i2

\* Requests 1 and 2 go to one process, 3 and 4 to the other.
Servers == [r \in Request |-> IF r <= 2 THEN s1 ELSE s2]

In(access, share, disp, delete) ==
    [access |-> access, share |-> share, disp |-> disp, delete |-> delete, async |-> TRUE]

Delete == [In({}, {}, "unlink", FALSE) EXCEPT !.async = FALSE]

\* The first process does all that deletes; opens of the second do not share
\* the right to delete.
Deleters == {In({"R", "D"}, Right, "open_if", TRUE), In({"D"}, Right, "open", FALSE),
             In({"R"}, Right, "open", FALSE), In({"W"}, {}, "create", FALSE), Delete}
Others == {In({"R"}, {"R"}, "open", FALSE), In({"W"}, {"R", "W"}, "open_if", FALSE),
           [In({"R", "W"}, {}, "open", FALSE) EXCEPT !.async = FALSE]}
TwoKinds == [r \in Request |-> IF Servers[r] = s1 THEN Deleters ELSE Others]

\* These are clients of which the theorems on deletes speak.
ASSUME SeparateDeleters == Inputs = TwoKinds => OneDeleter(s1)

\* Opens that share everything, in both processes.
Sharing == [r \in Request |-> {In({"D"}, Right, "open", FALSE)}]
=============================================================================
