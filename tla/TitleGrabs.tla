------------------------------ MODULE TitleGrabs ------------------------------
(***************************************************************************)
(* What the submission of downloads promises about the scope of a title.  A *)
(* standard grab holds its title's scope from when its intent is stored     *)
(* until its job stops running or it is given up.  It takes the scope once, *)
(* for one title, and only if no other grab holds it, unless what it was    *)
(* decided on was incomplete.                                               *)
(***************************************************************************)
CONSTANTS Titles, Ids, None

VARIABLES
    scope,   \* download id -> the title whose scope it holds, or None
    used,    \* the download ids that have been some title's
    unsure   \* the downloads grabbed or dropped on incomplete evidence

vars == <<scope, used, unsure>>

Holders(t) == {i \in Ids : scope[i] = t}

Init == /\ scope = [i \in Ids |-> None]
        /\ used = {}
        /\ unsure = {}

\* A download takes the scope of title t, under an id that was never used.
Take(i, t) ==
    /\ i \notin used
    /\ Holders(t) = {} \/ i \in unsure'
    /\ scope' = [scope EXCEPT ![i] = t]
    /\ used' = used \cup {i}
    /\ unsure' \in {unsure, unsure \cup {i}}

\* The downloads in S hold nothing any more.  Downloads that hold no scope, for
\* an extra purpose or of somebody else's job, come to belong to titles.
Leave(S) ==
    /\ scope' = [i \in Ids |-> IF i \in S THEN None ELSE scope[i]]
    /\ used \subseteq used' /\ used' \subseteq Ids
    /\ unsure \subseteq unsure' /\ unsure' \subseteq Ids

Next == \/ \E i \in Ids, t \in Titles : Take(i, t)
        \/ \E S \in SUBSET Ids : Leave(S)

Spec == Init /\ [][Next]_vars
=============================================================================
