------------------------------- MODULE MCIrpc -------------------------------
(***************************************************************************)
(* Three processes of one node, one of them busy, for TLC.                 *)
(***************************************************************************)
EXTENDS IrpcInv

CONSTANTS p1, p2, p3

\* The first process calls both others and pings the third, which is busy.
ToServers == {<<p1, p2>>, <<p1, p3>>}
ToBusy == {<<p1, p3>>}
=============================================================================
