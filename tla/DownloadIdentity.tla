--------------------------- MODULE DownloadIdentity ---------------------------
(***************************************************************************)
(* What the download registry promises about identities, whoever calls it:  *)
(* an item of a download client belongs to at most one download, a download *)
(* holds at most one item, an item changes hands only when its holder is    *)
(* finished with or has been moved to another free item, and a download     *)
(* that is over never holds anything again.                                 *)
(***************************************************************************)
CONSTANTS Ids, Items, None

VARIABLES
    life,    \* download id -> "unknown", "live" or "over"
    holder   \* item -> the download it belongs to, or None

vars == <<life, holder>>

Lives == {"unknown", "live", "over"}

Holds(i) == \E k \in Items : holder[k] = i

\* The items of downloads S become free.
Freed(S) == [k \in Items |-> IF holder[k] \in S THEN None ELSE holder[k]]

Init == /\ life \in [Ids -> {"unknown", "live"}]
        /\ holder = [k \in Items |-> None]

\* A download becomes known before any client holds a job of it.
Know(i) ==
    /\ life[i] = "unknown"
    /\ life' = [life EXCEPT ![i] = "live"]
    /\ UNCHANGED holder

\* ... and is forgotten again if it never held one.
Forget(i) ==
    /\ life[i] = "live" /\ ~Holds(i)
    /\ life' = [life EXCEPT ![i] = "unknown"]
    /\ UNCHANGED holder

\* A free item is taken, once the downloads in S are finished with.
Take(S, i, k) ==
    /\ i \notin S /\ life[i] # "over" /\ ~Holds(i)
    /\ Freed(S)[k] = None
    /\ life' = [o \in Ids |-> IF o = i THEN "live" ELSE IF o \in S THEN "over" ELSE life[o]]
    /\ holder' = [Freed(S) EXCEPT ![k] = i]

\* A download moves from the item it holds to one that is free.
Move(i, k) ==
    /\ life[i] = "live" /\ Holds(i) /\ holder[k] = None
    /\ holder' = [Freed({i}) EXCEPT ![k] = i]
    /\ UNCHANGED life

\* The downloads in S are finished with.
Finish(S) ==
    /\ life' = [i \in Ids |-> IF i \in S THEN "over" ELSE life[i]]
    /\ holder' = Freed(S)

Next == \/ \E S \in SUBSET Ids : Finish(S)
        \/ \E i \in Ids : Know(i) \/ Forget(i)
        \/ \E i \in Ids, k \in Items : Move(i, k)
        \/ \E S \in SUBSET Ids, i \in Ids, k \in Items : Take(S, i, k)

Spec == Init /\ [][Next]_vars
=============================================================================
