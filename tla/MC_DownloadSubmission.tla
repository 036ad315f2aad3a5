------------------------ MODULE MC_DownloadSubmission ------------------------
(* Small instances of DownloadSubmission.                                    *)
EXTENDS DownloadSubmission, TLC

CONSTANTS r1, r2

Grab(r) == [rel |-> r, extra |-> FALSE, policy |-> "Abort"]
Swap(r) == [rel |-> r, extra |-> FALSE, policy |-> "ReplaceEarly"]
Extra(r) == [rel |-> r, extra |-> TRUE, policy |-> "Abort"]

MC_GrabOrSwap == {Grab(r1), Swap(r2)}
MC_GrabSame == {Grab(r1)}
MC_GrabOrExtra == {Grab(r1), Extra(r1)}

Symmetry == UNION {Permutations(S) : S \in {Submitters, Ids, Jobs, Titles}}
=============================================================================
