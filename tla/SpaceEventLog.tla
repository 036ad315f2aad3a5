---------------------------- MODULE SpaceEventLog ----------------------------
(***************************************************************************)
(* What the rest of the system may rely on about disk-space incidents: the  *)
(* log of ImportSpaceBlocked and ImportSpaceRestored events.  An incident   *)
(* opens with one Blocked event and is named after it; it ends at most once,*)
(* with a Restored event when a check passed, or without one when the       *)
(* imports that waited are gone; a destination has one incident at a time.  *)
(***************************************************************************)
EXTENDS Naturals, Sequences

CONSTANT Dests

VARIABLES
    events,   \* the log; incidents are numbered by their Blocked event
    open      \* destination -> its open incident, or 0

vars == <<events, open>>

Event(inc, recovered) == [inc |-> inc, recovered |-> recovered]

Init == /\ events = <<>>
        /\ open = [d \in Dests |-> 0]

\* The incidents of destinations D end without a word.
Silenced(D) == [d \in Dests |-> IF d \in D THEN 0 ELSE open[d]]

Retire(D) ==
    /\ open' = Silenced(D)
    /\ UNCHANGED events

\* A new incident; one transaction may also end others.
Block(D, d) ==
    /\ Silenced(D)[d] = 0
    /\ open' = [Silenced(D) EXCEPT ![d] = Len(events) + 1]
    /\ events' = Append(events, Event(Len(events) + 1, FALSE))

Restore(d) ==
    /\ open[d] # 0
    /\ open' = Silenced({d})
    /\ events' = Append(events, Event(open[d], TRUE))

Next == \/ \E D \in SUBSET Dests : Retire(D) \/ \E d \in Dests : Block(D, d)
        \/ \E d \in Dests : Restore(d)

Spec == Init /\ [][Next]_vars
=============================================================================
