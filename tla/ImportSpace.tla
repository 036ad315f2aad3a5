----------------------------- MODULE ImportSpace -----------------------------
(***************************************************************************)
(* Imports that wait for disk space.  Every import check reports what it    *)
(* measured; files that do not fit become members of the incident of their  *)
(* destination, which opens with the first and closes with the last of      *)
(* them.  Reports are best effort: they pass a read-only gate, then one     *)
(* transaction under the incident lock, and any of them may be lost.  The   *)
(* downloads the files belong to end, are ignored and are retried meanwhile,*)
(* and a client may hand the item id of an ended download to another.       *)
(*                                                                          *)
(* The lock serialises incident transactions only: the binding is read in   *)
(* one statement and the membership written in a later one, so a download   *)
(* can change in between (on PostgreSQL; SQLite's single writer forbids it).*)
(***************************************************************************)
EXTENDS Naturals, Sequences, FiniteSets

CONSTANTS
    Files,        \* source files of imports
    Jobs,         \* job keys: a job of a download client, or a manual import
    JobOf,        \* file -> the job it is imported from
    Dests,        \* destination volumes
    Ids,          \* download ids
    MaxInFlight,  \* reports in flight at a time
    MaxEvents,    \* incident events ever logged
    None

ASSUME JobsAssumption == JobOf \in [Files -> Jobs]
ASSUME NoneAssumption == None \notin Ids \cup Dests \cup Jobs
ASSUME BoundsAssumption == MaxInFlight \in Nat /\ MaxEvents \in Nat

VARIABLES
    dl,        \* download id -> the job it is or was bound to, and how it stands
    mem,       \* import_space_members
    incident,  \* import_space_incidents: destination -> incident, or 0
    events,    \* the incident events of the domain event log
    pending    \* reports past the gate, and retirements before or past it

vars == <<dl, mem, incident, events, pending>>

NoMember == [dest |-> None, id |-> None, old |-> FALSE]
Unbound == [job |-> None, st |-> "none"]

\* A member's id is None for a manual or unbound job.
Members == [dest : Dests \cup {None}, id : Ids \cup {None}, old : BOOLEAN]
\* "ignored": bound, and the tracked state is ignored.
Bindings == {Unbound} \cup [job : Jobs, st : {"active", "ignored", "ended"}]
Reports == [phase : {"observed", "decided"}, file : Files, dest : Dests,
            blocked : BOOLEAN, id : Ids \cup {None}, got : Ids \cup {None}]
Retirements == [phase : {"retired"}, job : Jobs, id : Ids]

TypeOK ==
    /\ dl \in [Ids -> Bindings]
    /\ mem \in [Files -> Members]
    /\ incident \in [Dests -> Nat]
    /\ events \in Seq([inc : Nat, recovered : BOOLEAN])
    /\ pending \subseteq Reports \cup Retirements

Init == /\ dl = [i \in Ids |-> Unbound]
        /\ mem = [f \in Files |-> NoMember]
        /\ incident = [d \in Dests |-> 0]
        /\ events = <<>>
        /\ pending = {}

-----------------------------------------------------------------------------
(* The store's operators                                                    *)

IsMember(f) == mem[f].dest # None
MembersAt(d) == {f \in Files : mem[f].dest = d}

\* Mutant: every member of the job goes, whichever download it waits for.
RetireWholeJob(job, i) == {f \in Files : IsMember(f) /\ JobOf[f] = job}

\* Members of a job that were recorded for download i.
RetireJob(job, i) == {f \in Files : IsMember(f) /\ JobOf[f] = job /\ mem[f].id = i}

\* clear_member, for every file of S: the last member takes the incident along.
Without(S) == [f \in Files |-> IF f \in S THEN NoMember ELSE mem[f]]

\* Mutant: the incident goes with any of its members.
ClosedEarly(S) == [d \in Dests |-> IF MembersAt(d) \cap S # {} THEN 0 ELSE incident[d]]

Closed(S) == [d \in Dests |-> IF MembersAt(d) # {} /\ MembersAt(d) \subseteq S
                              THEN 0 ELSE incident[d]]

Clear(S) ==
    /\ mem' = Without(S)
    /\ incident' = Closed(S)
    /\ UNCHANGED events

BoundTo(job) == {i \in Ids : dl[i].job = job /\ dl[i].st # "none"}
HeldBy(job) == {i \in BoundTo(job) : dl[i].st # "ended"}

\* active_download_id: the download a report speaks for; the empty set if that
\* download is positively retired.  An expected id of None expects nothing.  A
\* manual import is a job that no download is ever bound to.
ActiveDownloadId(job, expected) ==
    IF BoundTo(job) = {} THEN IF expected = None THEN {None} ELSE {}
    ELSE {i \in HeldBy(job) : dl[i].st # "ignored" /\ expected \in {None, i}}

\* update_may_change: would the transaction find anything to do?
MayChangeObserved(f, blocked) ==
    blocked \/ \E g \in Files : IsMember(g) /\ (g = f \/ JobOf[g] = JobOf[f])
MayChangeRetired(job, i) == RetireJob(job, i) # {}

\* Mutant: a file that is still blocked is overwritten, never cleared first.
ReplacedIfPassing(u) == {f \in {u.file} : IsMember(f) /\ ~u.blocked}

\* Members a report replaces or clears.
Replaced(u) ==
    {f \in {u.file} : IsMember(f) /\ (mem[f].dest # u.dest \/ ~u.blocked \/ mem[f].id # u.got)}

\* Mutant: every blocked file opens an incident.
AlwaysOpening(u) == TRUE

Opening(u) == Closed(Replaced(u))[u.dest] = 0

\* Mutant: any import of the file will do.
PassedAnyDownload(u) == mem[u.file].dest = u.dest

\* The very import that waited there has passed, and was the last to wait.
Passed(u) == mem[u.file].dest = u.dest /\ mem[u.file].id = u.got

\* Mutant: recovery is announced while others still wait.
RecoveredAtOnce(u) == Passed(u)

Recovered(u) == Passed(u) /\ Closed(Replaced(u))[u.dest] = 0

Event(inc, recovered) == [inc |-> inc, recovered |-> recovered]

-----------------------------------------------------------------------------
(* Downloads                                                                *)

LockFree == \A u \in pending : u.phase # "decided"
CanReport == Cardinality(pending) < MaxInFlight /\ Len(events) + Cardinality(pending) < MaxEvents

Bind(i, job) ==
    /\ dl[i].st = "none" /\ HeldBy(job) = {}
    /\ dl' = [dl EXCEPT ![i] = [job |-> job, st |-> "active"]]
    /\ UNCHANGED <<mem, incident, events, pending>>

End(i) ==
    /\ dl[i].st \in {"active", "ignored"}
    /\ dl' = [dl EXCEPT ![i].st = "ended"]
    /\ UNCHANGED <<mem, incident, events, pending>>

\* finalize ignored, also of a download that is ignored already: the tracked
\* state is written first, the observer is told afterwards.
Ignore(i) ==
    /\ dl[i].st # "none"
    /\ dl' = [dl EXCEPT ![i].st = IF dl[i].st = "active" THEN "ignored" ELSE dl[i].st]
    /\ pending' = pending \cup
         {u \in {[phase |-> "retired", job |-> dl[i].job, id |-> i]} : CanReport}
    /\ UNCHANGED <<mem, incident, events>>

\* An explicit retry takes an ignored download up again.
Retry(i) ==
    /\ dl[i].st = "ignored"
    /\ dl' = [dl EXCEPT ![i].st = "active"]
    /\ UNCHANGED <<mem, incident, events, pending>>

-----------------------------------------------------------------------------
(* Reports                                                                  *)

\* The import check of file f measures destination d.  The download id was
\* resolved when the import began: any download of the job, or none.
Check(f, d, blocked, expected) ==
    /\ CanReport
    /\ expected # None => expected \in BoundTo(JobOf[f])
    /\ MayChangeObserved(f, blocked)
    /\ pending' = pending \cup {[phase |-> "observed", file |-> f, dest |-> d,
                                 blocked |-> blocked, id |-> expected, got |-> None]}
    /\ UNCHANGED <<dl, mem, incident, events>>

\* The transaction takes the lock and reads the binding ...
Decide(u) ==
    /\ u.phase = "observed" /\ LockFree
    /\ \E got \in ActiveDownloadId(JobOf[u.file], u.id) :
          pending' = (pending \ {u}) \cup {[u EXCEPT !.phase = "decided", !.got = got]}
    /\ UNCHANGED <<dl, mem, incident, events>>

\* ... and finds the download retired: its members go, silently.
ObserveRetired(u) ==
    /\ u.phase = "observed" /\ LockFree
    /\ ActiveDownloadId(JobOf[u.file], u.id) = {}
    /\ Clear(RetireJob(JobOf[u.file], u.id))
    /\ pending' = pending \ {u}
    /\ UNCHANGED dl

\* A retirement passes the gate as late as it likes, and clears what is there then.
Retired(u) ==
    /\ u.phase = "retired" /\ LockFree
    /\ MayChangeRetired(u.job, u.id)
    /\ Clear(RetireJob(u.job, u.id))
    /\ pending' = pending \ {u}
    /\ UNCHANGED dl

\* A file that does not fit joins the incident of its destination, or opens it.
CommitBlocked(u) ==
    /\ u.phase = "decided" /\ u.blocked
    /\ mem' = [Without(Replaced(u)) EXCEPT
                 ![u.file] = [dest |-> u.dest, id |-> u.got, old |-> FALSE]]
    /\ incident' = IF Opening(u) THEN [Closed(Replaced(u)) EXCEPT ![u.dest] = Len(events) + 1]
                                 ELSE Closed(Replaced(u))
    /\ events' = IF Opening(u) THEN Append(events, Event(Len(events) + 1, FALSE)) ELSE events
    /\ pending' = pending \ {u}
    /\ UNCHANGED dl

\* A file that fits leaves; the last one out announces the recovery.
CommitPassing(u) ==
    /\ u.phase = "decided" /\ ~u.blocked
    /\ mem' = Without(Replaced(u))
    /\ incident' = Closed(Replaced(u))
    /\ events' = IF Recovered(u) THEN Append(events, Event(incident[u.dest], TRUE)) ELSE events
    /\ pending' = pending \ {u}
    /\ UNCHANGED dl

\* A retirement finds nothing at the gate, a statement fails and the transaction is
\* rolled back, or the process stops.
Drop(u) ==
    /\ pending' = pending \ {u}
    /\ UNCHANGED <<dl, mem, incident, events>>

-----------------------------------------------------------------------------
(* Reconciliation                                                           *)

\* Mutant: only members without a download age out.
CandidatesUnbound == {f \in Files : IsMember(f) /\ mem[f].id = None /\ mem[f].old}

\* Members nobody else will retire: their download ended or is ignored, or
\* they have none and were not seen for a week.
Candidates ==
    {f \in Files : IsMember(f) /\ IF mem[f].id # None
                                  THEN dl[mem[f].id].st # "active"
                                  ELSE mem[f].old}

Reconcile ==
    /\ LockFree /\ Candidates # {}
    /\ Clear(Candidates)
    /\ UNCHANGED <<dl, pending>>

\* A week passes without a fresh observation of an import without a download.
Age(f) ==
    /\ IsMember(f) /\ mem[f].id = None /\ ~mem[f].old
    /\ mem' = [mem EXCEPT ![f].old = TRUE]
    /\ UNCHANGED <<dl, incident, events, pending>>

Next == \/ \E i \in Ids : End(i) \/ Ignore(i) \/ Retry(i) \/ \E job \in Jobs : Bind(i, job)
        \/ \E f \in Files, d \in Dests, blocked \in BOOLEAN, e \in Ids \cup {None} :
               Check(f, d, blocked, e)
        \/ \E u \in pending : \/ Decide(u) \/ ObserveRetired(u) \/ Retired(u)
                              \/ CommitBlocked(u) \/ CommitPassing(u) \/ Drop(u)
        \/ Reconcile
        \/ \E f \in Files : Age(f)

Spec == Init /\ [][Next]_vars

\* A transaction that holds the lock ends; the reconciliation, which runs every
\* 30 seconds, gets the lock in its turn.
FairSpec == /\ Spec
            /\ WF_vars(\E u \in pending : CommitBlocked(u) \/ CommitPassing(u) \/
                                          (u.phase = "decided" /\ Drop(u)))
            /\ SF_vars(Reconcile)

-----------------------------------------------------------------------------
(* Properties                                                               *)

\* A destination has an open incident exactly while some import waits for it:
\* neither a report that moves a file to another volume, nor a retirement that
\* empties a destination, leaves an incident without members or the reverse.
IncidentIffMembers == \A d \in Dests : incident[d] # 0 <=> MembersAt(d) # {}

\* What a member is kept for exists: its download was bound to its file's job, and
\* is the one the report named.
MembersAreBound ==
    /\ \A f \in Files : mem[f].id # None => mem[f].id \in BoundTo(JobOf[f])
    /\ \A u \in pending : u.phase = "decided" =>
          /\ u.got # None => u.got \in BoundTo(JobOf[u.file])
          /\ u.id # None => u.got = u.id

IInv == TypeOK /\ IncidentIffMembers /\ MembersAreBound

\* A report that names a download leaves the imports of another, live download
\* of the same client item alone, however late it is applied.
SparesOtherDownloads ==
    [][\A u \in pending : u \notin pending' /\ u.id # None =>
          \A f \in Files : mem[f].id \notin {None, u.id} /\ mem'[f].dest = None /\ IsMember(f)
                => dl[mem[f].id].st # "active"]_vars

\* Imports that fail together raise one alert: a Blocked event opens an incident
\* nobody but its own file waits under.
OneAlertPerIncident ==
    [][Len(events') > Len(events) /\ ~events'[Len(events')].recovered =>
          \E u \in pending \ pending', d \in Dests :
             /\ incident'[d] = Len(events')
             /\ \A f \in Files : mem'[f].dest = d => f = u.file]_vars

\* Recovery is never fabricated: a Restored event names the incident that was
\* open, leaves nobody waiting for the destination, and comes from a passing
\* report of an import that did wait there.
RecoveryIsObserved ==
    [][Len(events') > Len(events) /\ events'[Len(events')].recovered =>
          \E u \in pending \ pending' :
             /\ ~u.blocked /\ IsMember(u.file) /\ mem[u.file].dest = u.dest
             /\ u.id # None => mem[u.file].id = u.id
             /\ events'[Len(events')].inc = incident[u.dest]
             /\ \A f \in Files : mem'[f].dest # u.dest]_vars

\* A member whose download is over goes away, even if the report of its end was
\* lost or overtaken by the observation that made it.
WaitsForNothing(f) == mem[f].id # None /\ dl[mem[f].id].st # "active"
DeadMembersCleared == \A f \in Files : WaitsForNothing(f) ~> ~WaitsForNothing(f)

\* The incident events are a log of incidents as their readers understand it.
Log == INSTANCE SpaceEventLog WITH open <- incident
ImplementsLog == Log!Spec
=============================================================================
