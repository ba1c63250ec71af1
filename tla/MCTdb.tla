------------------------------- MODULE MCTdb -------------------------------
(***************************************************************************)
(* Small databases for TLC.                                                *)
(***************************************************************************)
EXTENDS TdbCrashInv

CONSTANTS a, pad

\* Everywhere but between the writing of the head of a new recovery area and the
\* first sync, where the head may point to padding.
OutsideNew == Pc

\* A kill loses no write, but nobody syncs what was written last: neither the end
\* of a commit nor that of a recovery, when power cuts follow.
OutsideEnds == Pc \ {"closed", "sync4", "rsync2"}

\* The file may not be armed when others have it open.
OutsideLive == (Pc \cup {"newarea"}) \ ({"closed"} \cup Live)
=============================================================================
