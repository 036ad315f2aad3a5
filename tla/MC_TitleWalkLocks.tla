------------------------- MODULE MC_TitleWalkLocks -------------------------
(* Two operators and two background walks, so that queues and successors     *)
(* occur; the theorems cover any number of titles.                           *)
EXTENDS TitleWalkLocks
=============================================================================
