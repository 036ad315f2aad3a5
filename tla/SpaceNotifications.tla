-------------------------- MODULE SpaceNotifications --------------------------
(***************************************************************************)
(* The durable delivery of disk-space events.  A dispatcher reads the event *)
(* log past its offset, sends each event to the subscribed targets one by   *)
(* one, keeps a receipt for every target that took it, and moves the offset *)
(* on.  An event some target refused is tried again in the next pass, up to *)
(* a number of attempts or an age, and is then abandoned so that it does not*)
(* hold back the events behind it.  The process may stop, or the store may  *)
(* fail, between any two steps of a pass.                                   *)
(*                                                                          *)
(* The log is the abstract one of SpaceEventLog, which ImportSpace is shown *)
(* to implement.                                                            *)
(***************************************************************************)
EXTENDS Naturals, Sequences

CONSTANTS
    Dests,
    Targets,      \* enabled targets subscribed to the events
    BatchLimit,   \* events one pass reads
    MaxAttempts,  \* SPACE_NOTIFICATION_MAX_ATTEMPTS
    MaxEvents,    \* events ever logged
    MaxStops,     \* how often the process stops or a receipt cannot be written
    None

ASSUME TargetsAssumption == None \notin Targets
ASSUME BoundsAssumption ==
    /\ BatchLimit \in Nat \ {0} /\ MaxAttempts \in Nat \ {0}
    /\ MaxEvents \in Nat /\ MaxStops \in Nat

VARIABLES
    events, open,  \* the log
    offset,        \* the subscriber's offset
    receipts,      \* <<event, target>> pairs
    attempts,      \* event -> failed passes
    aged,          \* the last event that is more than a day old
    got,           \* <<event, target>> -> how often the target was sent it
    lost,          \* history: ... -> how often it was sent it and no receipt written
    pass,          \* the dispatcher's pass
    stops

Log == INSTANCE SpaceEventLog

logvars == <<events, open>>
vars == <<events, open, offset, receipts, attempts, aged, got, lost, pass, stops>>

Events == 1 .. MaxEvents
Min(a, b) == IF a < b THEN a ELSE b

\* at: the event in hand; last: the last one that was listed; sent: the target
\* that took it and has no receipt yet.
Idle == [pc |-> "idle", at |-> 0, last |-> 0, todo |-> {}, sent |-> None, failed |-> FALSE]
Passes == [pc : {"idle", "send", "record", "advance"}, at : Nat, last : Nat,
           todo : SUBSET Targets, sent : Targets \cup {None}, failed : BOOLEAN]

TypeOK ==
    /\ events \in Seq([inc : Nat, recovered : BOOLEAN])
    /\ open \in [Dests -> Nat]
    /\ offset \in Nat
    /\ receipts \subseteq Events \X Targets
    /\ attempts \in [Events -> Nat]
    /\ aged \in Nat
    /\ got \in [Events \X Targets -> Nat]
    /\ lost \in [Events \X Targets -> Nat]
    /\ pass \in Passes
    /\ stops \in Nat

Init ==
    /\ Log!Init
    /\ offset = 0 /\ receipts = {} /\ aged = 0 /\ stops = 0
    /\ attempts = [n \in Events |-> 0]
    /\ got = [p \in Events \X Targets |-> 0]
    /\ lost = [p \in Events \X Targets |-> 0]
    /\ pass = Idle

-----------------------------------------------------------------------------

Publish ==
    /\ Len(events) < MaxEvents
    /\ Log!Next
    /\ UNCHANGED <<offset, receipts, attempts, aged, got, lost, pass, stops>>

\* A day has passed since the next event.
Age ==
    /\ aged < Len(events)
    /\ aged' = aged + 1
    /\ UNCHANGED <<events, open, offset, receipts, attempts, got, lost, pass, stops>>

TakeUp(n, last) == [Idle EXCEPT !.pc = "send", !.at = n, !.last = last, !.todo = Targets]

\* The offset is read, then the events past it.
Begin ==
    /\ pass.pc = "idle" /\ offset < Len(events)
    /\ pass' = TakeUp(offset + 1, Min(Len(events), offset + BatchLimit))
    /\ UNCHANGED <<events, open, offset, receipts, attempts, aged, got, lost, stops>>

HasReceipt(t) == <<pass.at, t>> \in receipts

Skip(t) ==
    /\ pass.pc = "send" /\ pass.sent = None /\ t \in pass.todo /\ HasReceipt(t)
    /\ pass' = [pass EXCEPT !.todo = pass.todo \ {t}]
    /\ UNCHANGED <<events, open, offset, receipts, attempts, aged, got, lost, stops>>

\* The target takes the notification ...
Send(t) ==
    /\ pass.pc = "send" /\ pass.sent = None /\ t \in pass.todo /\ ~HasReceipt(t)
    /\ pass' = [pass EXCEPT !.todo = pass.todo \ {t}, !.sent = t]
    /\ got' = [got EXCEPT ![<<pass.at, t>>] = got[<<pass.at, t>>] + 1]
    /\ UNCHANGED <<events, open, offset, receipts, attempts, aged, lost, stops>>

\* The target that took it is left without a receipt.
Unconfirmed == IF pass.sent = None THEN lost
               ELSE [lost EXCEPT ![<<pass.at, pass.sent>>] = lost[<<pass.at, pass.sent>>] + 1]

\* Mutant: no receipt for a target behind one that refused.
ReceiptUnlessFailed ==
    /\ pass.sent # None
    /\ receipts' = IF pass.failed THEN receipts ELSE receipts \cup {<<pass.at, pass.sent>>}
    /\ pass' = [pass EXCEPT !.sent = None]
    /\ UNCHANGED <<events, open, offset, attempts, aged, got, lost, stops>>

Receipt ==
    /\ pass.sent # None
    /\ receipts' = receipts \cup {<<pass.at, pass.sent>>}
    /\ pass' = [pass EXCEPT !.sent = None]
    /\ UNCHANGED <<events, open, offset, attempts, aged, got, lost, stops>>

\* ... and if that cannot be written down, the attempt has failed there and then,
ReceiptFails ==
    /\ pass.sent # None /\ stops < MaxStops
    /\ stops' = stops + 1 /\ lost' = Unconfirmed
    /\ pass' = [pass EXCEPT !.sent = None, !.todo = {}, !.failed = TRUE]
    /\ UNCHANGED <<events, open, offset, receipts, attempts, aged, got>>

\* as it has when a receipt cannot be read, or the subscriptions or the provider
\* are not to be had.
Abort ==
    /\ pass.pc = "send" /\ pass.sent = None
    /\ pass' = [pass EXCEPT !.todo = {}, !.failed = TRUE]
    /\ UNCHANGED <<events, open, offset, receipts, attempts, aged, got, lost, stops>>

\* The target refuses it, or its configuration cannot be resolved.
Refuse(t) ==
    /\ pass.pc = "send" /\ pass.sent = None /\ t \in pass.todo /\ ~HasReceipt(t)
    /\ pass' = [pass EXCEPT !.todo = pass.todo \ {t}, !.failed = TRUE]
    /\ UNCHANGED <<events, open, offset, receipts, attempts, aged, got, lost, stops>>

\* Mutant: a refusal is not remembered.
TriedAdvances ==
    /\ pass.pc = "send" /\ pass.sent = None /\ pass.todo = {}
    /\ pass' = [pass EXCEPT !.pc = "advance"]
    /\ UNCHANGED <<events, open, offset, receipts, attempts, aged, got, lost, stops>>

\* Every target has been tried.
Tried ==
    /\ pass.pc = "send" /\ pass.sent = None /\ pass.todo = {}
    /\ pass' = [pass EXCEPT !.pc = IF pass.failed THEN "record" ELSE "advance"]
    /\ UNCHANGED <<events, open, offset, receipts, attempts, aged, got, lost, stops>>

\* Is a failed event given up after its k-th attempt?
GivesUp(n, k) == k >= MaxAttempts \/ n <= aged

\* Mutant: the pass goes on with the next event and comes back to this one later.
RecordSkips ==
    LET k == attempts[pass.at] + 1
    IN  /\ pass.pc = "record"
        /\ attempts' = [attempts EXCEPT ![pass.at] = k]
        /\ pass' = IF pass.at < pass.last THEN TakeUp(pass.at + 1, pass.last) ELSE Idle
        /\ UNCHANGED <<events, open, offset, receipts, aged, got, lost, stops>>

\* Mutant: the count of attempts is not kept.
RecordUncounted ==
    /\ pass.pc = "record"
    /\ pass' = IF GivesUp(pass.at, attempts[pass.at] + 1) THEN [pass EXCEPT !.pc = "advance"] ELSE Idle
    /\ UNCHANGED <<events, open, offset, receipts, attempts, aged, got, lost, stops>>

\* A failed attempt is counted; the pass ends unless the event is given up.
Record ==
    LET k == attempts[pass.at] + 1
    IN  /\ pass.pc = "record"
        /\ attempts' = [attempts EXCEPT ![pass.at] = k]
        /\ pass' = IF GivesUp(pass.at, k) THEN [pass EXCEPT !.pc = "advance"] ELSE Idle
        /\ UNCHANGED <<events, open, offset, receipts, aged, got, lost, stops>>

Advance ==
    /\ pass.pc = "advance"
    /\ offset' = pass.at
    /\ pass' = IF pass.at < pass.last THEN TakeUp(pass.at + 1, pass.last) ELSE Idle
    /\ UNCHANGED <<events, open, receipts, attempts, aged, got, lost, stops>>

\* The process stops, or a statement of the pass fails and ends it.
Stop ==
    /\ pass.pc # "idle" /\ stops < MaxStops
    /\ stops' = stops + 1 /\ lost' = Unconfirmed
    /\ pass' = Idle
    /\ UNCHANGED <<events, open, offset, receipts, attempts, aged, got>>

Step == \/ Begin \/ Receipt \/ Abort \/ Tried \/ Record \/ Advance
        \/ \E t \in Targets : Skip(t) \/ Send(t) \/ Refuse(t)

Next == Publish \/ Age \/ Step \/ ReceiptFails \/ Stop

Spec == Init /\ [][Next]_vars

\* The dispatcher polls at every event and every 30 seconds.  Nothing says that
\* a target ever takes anything.
FairSpec == Spec /\ WF_vars(Step)

-----------------------------------------------------------------------------
(* Properties                                                               *)

GivenUp(n) == attempts[n] >= MaxAttempts \/ (n <= aged /\ attempts[n] > 0)

\* The offset never passes an event that is neither with every target nor given
\* up, wherever the process stops: a restart loses no alert.
NothingIsLost ==
    \A n \in Events : n <= offset => GivenUp(n) \/ \A t \in Targets : <<n, t>> \in receipts

\* What the pass in hand has already done.
PassAgrees ==
    pass.pc # "idle" =>
       /\ pass.at = offset + 1 /\ pass.at <= pass.last /\ pass.last <= Len(events)
       /\ pass.sent # None => pass.pc = "send" /\ pass.sent \notin pass.todo
                              /\ got[<<pass.at, pass.sent>>] > 0
                              /\ ~HasReceipt(pass.sent)
       /\ pass.failed \/ \A t \in Targets : t \in pass.todo \cup {pass.sent} \/ HasReceipt(t)
       /\ pass.pc = "record" => pass.failed
       /\ pass.pc \in {"record", "advance"} => pass.todo = {} /\ pass.sent = None
       /\ pass.pc = "advance" /\ pass.failed => GivenUp(pass.at)

\* Between passes nothing is under way.
PassSendsOnly == pass.sent # None => pass.pc = "send"

\* A receipt is kept only for what a target was really sent.
ReceiptsAreTrue == \A p \in receipts : got[p] > 0

IInv == /\ TypeOK /\ offset <= Len(events) /\ aged <= Len(events) /\ Len(events) <= MaxEvents
        /\ NothingIsLost /\ PassAgrees /\ PassSendsOnly /\ ReceiptsAreTrue

\* Every sending is accounted for: its receipt is kept, it is still in hand, or
\* the process stopped, or the store failed, between the sending and the receipt.
\* So whatever the other targets do, and however often the event is tried again,
\* a target hears of it twice only if a receipt was lost in that window, and once
\* more for each.
InFlight(p) == pass.sent # None /\ p = <<pass.at, pass.sent>>
RepeatsAreLostReceipts ==
    \A p \in Events \X Targets :
       got[p] = lost[p] + IF p \in receipts \/ InFlight(p) THEN 1 ELSE 0

\* A target is sent an event only when it has had every earlier one, or that one
\* was given up: nobody hears of a recovery before the alert.
InOrder ==
    [][\A n \in Events, t \in Targets :
          got'[<<n, t>>] > got[<<n, t>>] =>
             \A m \in 1 .. n - 1 : <<m, t>> \in receipts \/ GivenUp(m)]_vars

\* "one broken channel cannot hold back every later one": every event is passed
\* sooner or later, even if a target never takes anything again.
EveryEventPasses == \A n \in Events : n <= Len(events) ~> n <= offset
=============================================================================
