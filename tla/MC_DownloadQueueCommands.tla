----------------------- MODULE MC_DownloadQueueCommands -----------------------
(* Small instances of DownloadQueueCommands.                                *)
EXTENDS DownloadQueueCommands, TLC

CONSTANTS d1, d2, k1, k2

Symmetry == Permutations(Ids \ (Orphans \cup Protected)) \cup Permutations(Items)
===============================================================================
