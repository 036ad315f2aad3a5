--------------------------- MODULE LifecycleClaims ---------------------------
(***************************************************************************)
(* Title leases.  An approved request takes out a lease on its title; the   *)
(* lease is dormant until the title's first import starts its clock, and    *)
(* then runs for the days that were granted.  The import hook starts clocks;*)
(* the maintenance job catches up on what the hook missed, expires leases   *)
(* that have run out and releases those of deleted titles; administrators   *)
(* extend, convert and release leases; requesters and reviewers cancel and  *)
(* dismiss requests.  All of them work on rows another may have changed     *)
(* since it read them, and the hook and the releases are best effort.       *)
(*                                                                          *)
(* A claim is named after its request.  Time is counted in days from 1; a   *)
(* claim's start and end are 0 while they are not set.                      *)
(***************************************************************************)
EXTENDS Naturals, FiniteSets

CONSTANTS
    Requests,     \* request ids, which are numbers: they break ties of age
    Closable,     \* requests that may be cancelled or dismissed
    Titles,
    Durations,    \* lease days a request may be granted
    SweepLimit,   \* dormant claims one maintenance pass looks at
    OrphanLimit,  \* orphans one maintenance pass releases
    MaxTime,      \* the last day
    None

ASSUME RequestsAssumption == Requests \subseteq Nat /\ Closable \subseteq Requests
ASSUME TitlesAssumption == None \notin Titles
ASSUME DurationsAssumption == Durations \subseteq Nat \ {0}
ASSUME LimitsAssumption == SweepLimit \in Nat /\ OrphanLimit \in Nat /\ MaxTime \in Nat

VARIABLES
    now,
    req,        \* request -> its status
    closing,    \* request -> how far its cancellation or dismissal has got
    claim,      \* request -> its lease
    title,      \* title -> "absent", "here" or "gone"
    file,       \* title -> the day of its first import, or 0
    starting,   \* activations that were read and not written yet
    sweep       \* the maintenance pass

vars == <<now, req, closing, claim, title, file, starting, sweep>>

Max(a, b) == IF a > b THEN a ELSE b

NoClaim == [state |-> "none", title |-> None, days |-> 0, start |-> 0, end |-> 0, born |-> 0]
IdleSweep == [pc |-> "idle", at |-> 0, todo |-> {}]

Live == {"dormant", "active"}
Over == {"expired", "released", "converted"}

Statuses == {"pending", "approved", "rejected", "cancelled"}
Claims == [state : {"none"} \cup Live \cup Over, title : Titles \cup {None}, days : Nat,
           start : Nat, end : Nat, born : Nat]
\* A claim as somebody read it.
Reads == [r : Requests, title : Titles, end : Nat]
Activations == [r : Requests, start : Nat, end : Nat, by : {"hook", "sweep"}]

TypeOK ==
    /\ now \in Nat
    /\ req \in [Requests -> Statuses]
    /\ closing \in [Requests -> {"no", "read", "resolved"}]
    /\ claim \in [Requests -> Claims]
    /\ title \in [Titles -> {"absent", "here", "gone"}]
    /\ file \in [Titles -> Nat]
    /\ starting \subseteq Activations
    /\ sweep \in [pc : {"idle", "expire", "list", "start"}, at : Nat, todo : SUBSET Reads]

\* Some titles are in the catalogue without having been requested.
Init ==
    /\ now = 1
    /\ req = [r \in Requests |-> "pending"]
    /\ closing = [r \in Requests |-> "no"]
    /\ claim = [r \in Requests |-> NoClaim]
    /\ title \in [Titles -> {"absent", "here"}]
    /\ file = [t \in Titles |-> 0]
    /\ starting = {}
    /\ sweep = IdleSweep

-----------------------------------------------------------------------------
(* The claim store                                                          *)

IsLive(r) == claim[r].state \in Live

\* Every release, conversion and expiry is one conditional UPDATE.
SetState(R, s) == [r \in Requests |-> IF r \in R THEN [claim[r] EXCEPT !.state = s] ELSE claim[r]]

\* Mutant: whatever the claim has come to, it is released.
AnyOf(R) == {r \in R : claim[r].state # "none"}

LiveOf(R) == {r \in R : IsLive(r)}
OfTitle(t) == {r \in Requests : claim[r].title = t}

\* Mutant: a lease is not due on the day it ends.
DueAfter(d) == {r \in Requests : claim[r].state = "active" /\ claim[r].end # 0 /\ claim[r].end < d}

DueAt(d) == {r \in Requests : claim[r].state = "active" /\ claim[r].end # 0 /\ claim[r].end <= d}

\* Mutant: only leases whose clock is running are orphans.
RunningOrphans == {r \in Requests : claim[r].state = "active" /\ title[claim[r].title] # "here"}

Orphans == {r \in Requests : IsLive(r) /\ title[claim[r].title] # "here"}
Dormant == {r \in Requests : claim[r].state = "dormant"}

\* ORDER BY created_at, id
Older(a, b) == claim[a].born < claim[b].born \/ (claim[a].born = claim[b].born /\ a < b)
Oldest(R, n) == {r \in R : Cardinality({o \in R : Older(o, r)}) < n}

\* Mutant: an extension replaces the granted days.
ExpiryAsExtended(r, e, start) == IF e # 0 THEN e ELSE start + claim[r].days

\* claim_expiry, of a claim that was read with end e.
ClaimExpiry(r, e, start) == Max(e, start + claim[r].days)

\* Mutant: the row's own end is not looked at again.
EndAsRead(r, e) == e

\* The end an activation leaves behind.
ActivatedEnd(r, e) == Max(claim[r].end, e)

\* Mutant: any live claim is activated.
CanActivateLive(r) == IsLive(r)

CanActivate(r) == claim[r].state = "dormant"

\* Mutant: a request without a lease can be extended too.
CanExtendAny(r, e) == e > claim[r].end

CanExtend(r, e) == IsLive(r) /\ e > claim[r].end

-----------------------------------------------------------------------------
(* Requests                                                                 *)

\* Approving a request resolves the pending requests that overlap with it, and
\* commits the title and their leases in the same transaction.  A request that is
\* granted no days gets no lease.
Approve(R, t, days) ==
    /\ R # {} /\ \A r \in R : req[r] = "pending"
    /\ title[t] # "gone"
    /\ title' = [title EXCEPT ![t] = "here"]
    /\ req' = [r \in Requests |-> IF r \in R THEN "approved" ELSE req[r]]
    /\ claim' = [r \in Requests |-> IF r \in R /\ days[r] > 0 THEN [NoClaim EXCEPT
                    !.state = "dormant", !.title = t, !.days = days[r], !.born = now] ELSE claim[r]]
    /\ UNCHANGED <<now, closing, file, starting, sweep>>

\* cancel and dismiss: the request is read as pending, ...
ReadPending(r) ==
    /\ req[r] = "pending" /\ closing[r] = "no"
    /\ closing' = [closing EXCEPT ![r] = "read"]
    /\ UNCHANGED <<now, req, claim, title, file, starting, sweep>>

\* ... resolved if it still is, a dismissed one together with those that overlap
\* with it, a cancelled one alone, ...
ResolvePending(r, R, s) ==
    /\ closing[r] = "read" /\ r \in R /\ (s = "cancelled" => R = {r})
    /\ closing' = [closing EXCEPT ![r] = "resolved"]
    /\ req' = [o \in Requests |-> IF o \in R /\ req[o] = "pending" THEN s ELSE req[o]]
    /\ UNCHANGED <<now, claim, title, file, starting, sweep>>

\* ... and whatever it holds is released.
ReleaseRequest(r) ==
    /\ closing[r] = "resolved"
    /\ closing' = [closing EXCEPT ![r] = "no"]
    /\ claim' = SetState(LiveOf({r}), "released")
    /\ UNCHANGED <<now, req, title, file, starting, sweep>>

\* A dismissed request is put back into the queue; a cancelled one is not.
Reopen(r) ==
    /\ req[r] = "rejected"
    /\ req' = [req EXCEPT ![r] = "pending"]
    /\ UNCHANGED <<now, closing, claim, title, file, starting, sweep>>

-----------------------------------------------------------------------------
(* Titles                                                                   *)

\* The first import of a title completes.
Import(t) ==
    /\ title[t] = "here" /\ file[t] = 0
    /\ file' = [file EXCEPT ![t] = now]
    /\ UNCHANGED <<now, req, closing, claim, title, starting, sweep>>

\* The hook of an import, the first or a later one: it reads the title's dormant
\* claims, to start their clocks now.  At most one hook is under way at a time.
RunHook(t) ==
    /\ file[t] # 0 /\ \A a \in starting : a.by = "sweep"
    /\ starting' = starting \cup
         {[r |-> r, start |-> now, end |-> ClaimExpiry(r, claim[r].end, now), by |-> "hook"] :
             r \in OfTitle(t) \cap Dormant}
    /\ UNCHANGED <<now, req, closing, claim, title, file, sweep>>

\* The rows of the title go first, its claims afterwards.
DeleteTitle(t) ==
    /\ title[t] = "here"
    /\ title' = [title EXCEPT ![t] = "gone"]
    /\ file' = [file EXCEPT ![t] = 0]
    /\ UNCHANGED <<now, req, closing, claim, starting, sweep>>

\* ... unless that fails, or the process stops first.
ReleaseTitle(t) ==
    /\ title[t] = "gone" /\ OfTitle(t) # {}
    /\ claim' = SetState(LiveOf(OfTitle(t)), "released")
    /\ UNCHANGED <<now, req, closing, title, file, starting, sweep>>

\* Title s is merged into title d: files and claims move over.
Merge(s, d) ==
    /\ s # d /\ title[s] = "here" /\ title[d] = "here"
    /\ title' = [title EXCEPT ![s] = "gone"]
    /\ file' = [file EXCEPT ![s] = 0, ![d] = IF file[s] # 0 /\ (file[d] = 0 \/ file[s] < file[d])
                                             THEN file[s] ELSE file[d]]
    /\ claim' = [r \in Requests |-> IF r \in OfTitle(s) THEN [claim[r] EXCEPT !.title = d]
                                                        ELSE claim[r]]
    /\ UNCHANGED <<now, req, closing, starting, sweep>>

\* A release or an activation fails, or the process stops before it.
Lose ==
    /\ \/ \E a \in starting : starting' = starting \ {a} /\ UNCHANGED closing
       \/ \E r \in Requests : /\ closing[r] = "resolved"
                              /\ closing' = [closing EXCEPT ![r] = "no"]
                              /\ UNCHANGED starting
    /\ UNCHANGED <<now, req, claim, title, file, sweep>>

-----------------------------------------------------------------------------
(* Claims                                                                   *)

Activate(a) ==
    /\ a \in starting
    /\ starting' = starting \ {a}
    /\ claim' = IF CanActivate(a.r)
                THEN [claim EXCEPT ![a.r] = [claim[a.r] EXCEPT !.state = "active",
                        !.start = a.start, !.end = ActivatedEnd(a.r, a.end)]]
                ELSE claim
    /\ UNCHANGED <<now, req, closing, title, file, sweep>>

Extend(r, e) ==
    /\ e > now /\ CanExtend(r, e)
    /\ claim' = [claim EXCEPT ![r].end = e]
    /\ UNCHANGED <<now, req, closing, title, file, starting, sweep>>

ConvertToPermanent(r) ==
    /\ IsLive(r)
    /\ claim' = SetState({r}, "converted")
    /\ UNCHANGED <<now, req, closing, title, file, starting, sweep>>

ReleaseClaim(r) ==
    /\ IsLive(r)
    /\ claim' = SetState({r}, "released")
    /\ UNCHANGED <<now, req, closing, title, file, starting, sweep>>

-----------------------------------------------------------------------------
(* The maintenance pass                                                     *)

SweepOrphans ==
    /\ sweep.pc = "idle"
    /\ sweep' = [sweep EXCEPT !.pc = "expire", !.at = now]
    /\ claim' = SetState(Oldest(Orphans, OrphanLimit), "released")
    /\ UNCHANGED <<now, req, closing, title, file, starting>>

SweepExpire ==
    /\ sweep.pc = "expire"
    /\ sweep' = [sweep EXCEPT !.pc = "list"]
    /\ claim' = SetState(DueAt(sweep.at), "expired")
    /\ UNCHANGED <<now, req, closing, title, file, starting>>

SweepList ==
    /\ sweep.pc = "list"
    /\ sweep' = [sweep EXCEPT !.pc = "start",
                   !.todo = {[r |-> r, title |-> claim[r].title, end |-> claim[r].end] :
                               r \in Oldest(Dormant, SweepLimit)}]
    /\ UNCHANGED <<now, req, closing, claim, title, file, starting>>

\* A statement of the pass fails.  The pass goes on with the next one, and ends if
\* it was the listing.
SweepFails ==
    /\ \/ sweep.pc = "idle" /\ sweep' = [sweep EXCEPT !.pc = "expire", !.at = now]
       \/ sweep.pc = "expire" /\ sweep' = [sweep EXCEPT !.pc = "list"]
       \/ sweep.pc = "list" /\ sweep' = IdleSweep
    /\ UNCHANGED <<now, req, closing, claim, title, file, starting>>

\* Mutant: dormant claims are left to the hook.
SweepReadNothing(c) ==
    /\ sweep.pc = "start" /\ c \in sweep.todo
    /\ sweep' = [sweep EXCEPT !.todo = sweep.todo \ {c}]
    /\ UNCHANGED <<now, req, closing, claim, title, file, starting>>

\* The next claim of the list: its clock started when its title was imported.  A
\* title without a file is waiting, not late.
SweepRead(c) ==
    /\ sweep.pc = "start" /\ c \in sweep.todo
    /\ \A o \in sweep.todo : ~Older(o.r, c.r)
    /\ \A a \in starting : a.by = "hook"
    /\ sweep' = [sweep EXCEPT !.todo = sweep.todo \ {c}]
    /\ starting' = starting \cup
         {[r |-> c.r, start |-> d, end |-> ClaimExpiry(c.r, c.end, d), by |-> "sweep"] :
             d \in {file[c.title]} \ {0}}
    /\ UNCHANGED <<now, req, closing, claim, title, file>>

SweepEnd ==
    /\ sweep.pc = "start" /\ sweep.todo = {} /\ \A a \in starting : a.by = "hook"
    /\ sweep' = IdleSweep
    /\ UNCHANGED <<now, req, closing, claim, title, file, starting>>

Tick ==
    /\ now < MaxTime
    /\ now' = now + 1
    /\ UNCHANGED <<req, closing, claim, title, file, starting, sweep>>

Next ==
    \/ \E R \in SUBSET Requests, t \in Titles, days \in [Requests -> Durations \cup {0}] :
           Approve(R, t, days)
    \/ \E r \in Closable : ReadPending(r)
    \/ \E r \in Requests : \/ \E R \in SUBSET Requests, s \in {"rejected", "cancelled"} :
                                  ResolvePending(r, R, s)
                           \/ ReleaseRequest(r) \/ Reopen(r)
                           \/ ConvertToPermanent(r) \/ ReleaseClaim(r)
                           \/ \E e \in 1 .. MaxTime + 1 : Extend(r, e)
    \/ \E t \in Titles : \/ Import(t) \/ RunHook(t) \/ DeleteTitle(t) \/ ReleaseTitle(t)
                         \/ \E d \in Titles : Merge(t, d)
    \/ \E a \in starting : Activate(a)
    \/ Lose
    \/ SweepOrphans \/ SweepExpire \/ SweepList \/ SweepFails \/ SweepEnd
    \/ \E c \in sweep.todo : SweepRead(c)
    \/ Tick

Spec == Init /\ [][Next]_vars

\* The maintenance job runs again and again, and no statement of it fails for
\* ever.  Nothing else is promised: neither a hook nor a release need ever run.
FairSpec ==
    /\ Spec
    /\ SF_vars(SweepOrphans) /\ SF_vars(SweepExpire) /\ SF_vars(SweepList)
    /\ WF_vars(\E c \in sweep.todo : SweepRead(c)) /\ WF_vars(SweepEnd)
    /\ \A r \in Requests : SF_vars(\E a \in starting : a.r = r /\ a.by = "sweep" /\ Activate(a))

-----------------------------------------------------------------------------
(* Properties                                                               *)

\* A lease runs for the days that were granted, counted from its start: it has a
\* start and an end once it is running, lasts at least that long, and is expired
\* only when its end has passed.
LeaseLastsAsGranted ==
    \A r \in Requests :
       /\ claim[r].start # 0 => claim[r].end >= claim[r].start + claim[r].days
       /\ claim[r].state \in {"active", "expired"} => claim[r].start # 0
       /\ claim[r].state = "expired" => claim[r].end <= now

\* An activation in flight gives the days that were granted.
ActivationsFit ==
    \A a \in starting : a.start # 0 /\ a.end >= a.start + claim[a.r].days

\* What is read and not yet used belongs to a lease that exists, and a lease keeps
\* its title and its days from the approval on.
OnlyApprovedHold ==
    \A r \in Requests :
       /\ claim[r].state = "none" => /\ claim[r] = NoClaim
                                     /\ \A a \in starting : a.r # r
                                     /\ \A c \in sweep.todo : c.r # r
       /\ claim[r].state # "none" => req[r] = "approved" /\ claim[r].title # None
       /\ claim[r].state = "dormant" => claim[r].start = 0

SweepClock == now >= 1 /\ sweep.at <= now

IInv == TypeOK /\ LeaseLastsAsGranted /\ ActivationsFit /\ OnlyApprovedHold /\ SweepClock

\* The clock of a lease starts once: a second import of the title, or a sweep
\* that read the claim before the hook started it, does not start it again.
ClockStartsOnce ==
    [][\A r \in Requests : claim[r].start # 0 => claim'[r].start = claim[r].start]_vars

\* An administrator's extension is never lost, whichever activation read the
\* claim before it was granted.
ExtensionIsKept == [][\A r \in Requests : claim'[r].end >= claim[r].end]_vars

\* A lease that is over never holds a title again, and the way it ended stays on
\* record.
OverIsFinal ==
    [][\A r \in Requests : claim[r].state \in Over => claim'[r].state = claim[r].state]_vars

\* A lease whose title has arrived gets its clock started, even if the hook was
\* missed, once it is among the dormant leases a pass looks at.
Arrived(r) == claim[r].state = "dormant" /\ file[claim[r].title] # 0
InSight(r) == Arrived(r) /\ r \in Oldest(Dormant, SweepLimit)
LeaseStarts == \A r \in Requests : InSight(r) ~> ~InSight(r)

\* The comment on the limit says more: "Anything past the bound is picked up by the
\* next pass, and the claims are read oldest-first, so the backlog drains in the
\* order it formed".  Leases whose titles have not arrived are not started, keep
\* their places at the head, and hide those behind them.
BacklogDrains == \A r \in Requests : Arrived(r) ~> ~Arrived(r)

\* A lease that has run out expires, unless it is extended first.
RunOut(r) == claim[r].state = "active" /\ claim[r].end <= now
LeaseExpires == \A r \in Requests : RunOut(r) ~> ~RunOut(r)

\* A lease on a title that was deleted is released, even if the deletion could
\* not do it, the process stopped before it, and passes fail.
Orphaned(r) == IsLive(r) /\ title[claim[r].title] # "here"
OrphansReleased == \A r \in Requests : Orphaned(r) ~> ~Orphaned(r)

\* Cancelling or dismissing a request withdraws what that request holds, and a
\* request that is approved in the meantime keeps its lease ("a request that
\* never reached approval has no claim, and the repository answers zero").
DismissalSparesApproved ==
    [][\A r \in Requests : closing'[r] # closing[r] /\ req[r] = "approved" /\ IsLive(r)
          => claim'[r].state = claim[r].state]_vars
=============================================================================
