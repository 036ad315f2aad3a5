-------------------------- MODULE ImportSpace_proofs --------------------------
(***************************************************************************)
(* Proofs about disk-space incidents: the inductive invariant IInv, and that*)
(* every step of the store is a step of the event log SpaceEventLog.  Both  *)
(* rest on what clearing members does to the incidents (ClearedIncidents)   *)
(* and on which members a report replaces (ReplacedFacts).                  *)
(***************************************************************************)
EXTENDS ImportSpace, TLAPS

\* Destinations that lose their last member with S.
Emptied(S) == {d \in Dests : MembersAt(d) # {} /\ MembersAt(d) \subseteq S}

-----------------------------------------------------------------------------
(* Members and incidents                                                    *)

LEMMA ClosedIsSilenced ==
  ASSUME NEW S PROVE Closed(S) = Log!Silenced(Emptied(S))
BY DEF Closed, Log!Silenced, Emptied

LEMMA NoMemberFacts ==
  NoMember \in Members /\ NoMember.dest = None /\ NoMember.id = None
BY DEF NoMember, Members

LEMMA WithoutFacts ==
  ASSUME TypeOK, NEW S
  PROVE  /\ Without(S) \in [Files -> Members]
         /\ \A f \in Files : Without(S)[f] = IF f \in S THEN NoMember ELSE mem[f]
BY NoMemberFacts DEF Without, TypeOK

LEMMA ClosedFacts ==
  ASSUME TypeOK, NEW S
  PROVE  /\ Closed(S) \in [Dests -> Nat]
         /\ \A d \in Dests : Closed(S)[d] = IF d \in Emptied(S) THEN 0 ELSE incident[d]
BY DEF Closed, TypeOK, Emptied

\* Clearing members and the incidents they leave empty keeps both in step.
LEMMA ClearedIncidents ==
  ASSUME TypeOK, IncidentIffMembers, NEW S, NEW d \in Dests
  PROVE  Closed(S)[d] # 0 <=> {f \in Files : Without(S)[f].dest = d} # {}
<1>1. d # None
  BY NoneAssumption
<1>2. {f \in Files : Without(S)[f].dest = d} = MembersAt(d) \ S
  BY <1>1, WithoutFacts, NoMemberFacts DEF MembersAt
<1>3. incident[d] # 0 <=> MembersAt(d) # {}
  BY DEF IncidentIffMembers
<1>. QED
  BY <1>2, <1>3, ClosedFacts DEF Emptied

LEMMA ReportFields ==
  ASSUME TypeOK, NEW u \in pending, u.phase # "retired"
  PROVE  /\ u \in Reports /\ u.file \in Files /\ u.dest \in Dests /\ u.blocked \in BOOLEAN
         /\ u.got \in Ids \cup {None} /\ u.id \in Ids \cup {None}
BY DEF TypeOK, Reports, Retirements

\* Bindings are never undone, and a download keeps its job.
BindingsGrow == \A job \in Jobs : BoundTo(job) \subseteq BoundTo(job)'

LEMMA BoundStay ==
  ASSUME IInv, BindingsGrow, mem' = mem, dl' \in [Ids -> Bindings],
         \A u \in pending' : u.phase = "decided" => u \in pending
  PROVE  MembersAreBound'
<1>1. ASSUME NEW f \in Files, mem'[f].id # None PROVE mem'[f].id \in BoundTo(JobOf[f])'
  BY <1>1, JobsAssumption DEF IInv, MembersAreBound, BindingsGrow
<1>2. ASSUME NEW u \in pending', u.phase = "decided"
      PROVE  /\ u.got # None => u.got \in BoundTo(JobOf[u.file])'
             /\ u.id # None => u.got = u.id
  <2>1. u \in pending /\ u.file \in Files
    BY <1>2, ReportFields DEF IInv
  <2>2. /\ u.got # None => u.got \in BoundTo(JobOf[u.file])
        /\ u.id # None => u.got = u.id
    BY <1>2, <2>1 DEF IInv, MembersAreBound
  <2>. QED
    BY <2>1, <2>2, JobsAssumption DEF BindingsGrow
<1>. QED
  BY <1>1, <1>2 DEF MembersAreBound

\* Clearing members of S.
LEMMA ClearStep ==
  ASSUME IInv, NEW S, Clear(S), dl' = dl, pending' \subseteq pending
  PROVE  IInv' /\ Log!Next
<1>0. TypeOK /\ IncidentIffMembers
  BY DEF IInv
<1>1. TypeOK'
  BY <1>0, WithoutFacts, ClosedFacts DEF Clear, TypeOK
<1>2. IncidentIffMembers'
  BY <1>0, ClearedIncidents DEF Clear, IncidentIffMembers, MembersAt
<1>3. MembersAreBound'
  <2>1. ASSUME NEW f \in Files, mem'[f].id # None PROVE mem'[f].id \in BoundTo(JobOf[f])
    <3>1. mem'[f] = mem[f]
      BY <1>0, <2>1, WithoutFacts, NoMemberFacts DEF Clear
    <3>. QED
      BY <2>1, <3>1 DEF IInv, MembersAreBound
  <2>. QED
    BY <2>1 DEF IInv, MembersAreBound, BoundTo
<1>4. Log!Retire(Emptied(S))
  BY ClosedIsSilenced DEF Clear, Log!Retire
<1>5. Emptied(S) \in SUBSET Dests
  BY DEF Emptied
<1>. QED
  BY <1>1, <1>2, <1>3, <1>4, <1>5 DEF IInv, Log!Next

-----------------------------------------------------------------------------
(* Steps                                                                    *)

LogStep == Log!Next \/ UNCHANGED <<events, incident>>
Alerts == Len(events') > Len(events) /\ ~events'[Len(events')].recovered
Recoveries == Len(events') > Len(events) /\ events'[Len(events')].recovered

\* What a step that logs an event has to show for it.
AlertIsFirst ==
    Alerts => \E u \in pending \ pending', d \in Dests :
                 /\ incident'[d] = Len(events')
                 /\ \A f \in Files : mem'[f].dest = d => f = u.file
RecoveryIsLast ==
    Recoveries => \E u \in pending \ pending' :
                 /\ ~u.blocked /\ IsMember(u.file) /\ mem[u.file].dest = u.dest
                 /\ u.id # None => mem[u.file].id = u.id
                 /\ events'[Len(events')].inc = incident[u.dest]
                 /\ \A f \in Files : mem'[f].dest # u.dest

Sound == IInv' /\ LogStep /\ AlertIsFirst /\ RecoveryIsLast

LEMMA NoEvent ==
  ASSUME IInv, events' = events PROVE AlertIsFirst /\ RecoveryIsLast
<1>1. Len(events) \in Nat
  BY DEF IInv, TypeOK
<1>. QED
  BY <1>1 DEF AlertIsFirst, RecoveryIsLast, Alerts, Recoveries

\* A step that touches neither members nor incidents.
LEMMA Elsewhere ==
  ASSUME IInv, TypeOK', MembersAreBound', UNCHANGED <<mem, incident, events>>
  PROVE  Sound
<1>1. IncidentIffMembers'
  BY DEF IInv, IncidentIffMembers, MembersAt
<1>. QED
  BY <1>1, NoEvent DEF IInv, Sound, LogStep

LEMMA Cleared ==
  ASSUME IInv, NEW S, Clear(S), dl' = dl, pending' \subseteq pending
  PROVE  Sound
BY ClearStep, NoEvent DEF Sound, LogStep, Clear

\* Bindings, ends, retries and ignored downloads.
LEMMA DownloadStep ==
  ASSUME IInv, NEW i \in Ids, (\E job \in Jobs : Bind(i, job)) \/ End(i) \/ Ignore(i) \/ Retry(i)
  PROVE  Sound
<1>0. TypeOK
  BY DEF IInv
<1>1. dl[i] \in Bindings
  BY <1>0 DEF TypeOK
<1>2. dl' \in [Ids -> Bindings] /\ BindingsGrow
  <2>1. CASE \E job \in Jobs : Bind(i, job)
    BY <1>0, <2>1, NoneAssumption DEF Bind, TypeOK, Bindings, Unbound, BindingsGrow, BoundTo
  <2>2. CASE End(i)
    BY <1>0, <2>2 DEF End, TypeOK, Bindings, Unbound, BindingsGrow, BoundTo
  <2>3. CASE Ignore(i)
    BY <1>0, <2>3 DEF Ignore, TypeOK, Bindings, Unbound, BindingsGrow, BoundTo
  <2>4. CASE Retry(i)
    BY <1>0, <2>4 DEF Retry, TypeOK, Bindings, Unbound, BindingsGrow, BoundTo
  <2>. QED
    BY <2>1, <2>2, <2>3, <2>4
<1>3. /\ pending' \subseteq Reports \cup Retirements
      /\ \A u \in pending' : u.phase = "decided" => u \in pending
  <2>1. CASE Ignore(i)
    <3>. DEFINE n == [phase |-> "retired", job |-> dl[i].job, id |-> i]
    <3>1. pending' \subseteq pending \cup {n}
      BY <2>1 DEF Ignore
    <3>2. CASE pending' \subseteq pending
      BY <1>0, <3>2 DEF TypeOK
    <3>3. CASE n \in pending' /\ n \notin pending
      <4>1. dl[i].st # "none"
        BY <2>1 DEF Ignore
      <4>2. n.job \in Jobs
        BY <1>1, <4>1 DEF Bindings, Unbound
      <4>3. n \in Retirements
        BY <4>2 DEF Retirements
      <4>. QED
        BY <1>0, <3>1, <4>3 DEF TypeOK
    <3>. QED
      BY <3>1, <3>2, <3>3
  <2>2. CASE ~Ignore(i)
    BY <1>0, <2>2 DEF Bind, End, Retry, TypeOK
  <2>. QED
    BY <2>1, <2>2
<1>4. UNCHANGED <<mem, incident, events>>
  BY DEF Bind, End, Ignore, Retry
<1>5. TypeOK'
  BY <1>0, <1>2, <1>3, <1>4 DEF TypeOK
<1>6. MembersAreBound'
  BY <1>2, <1>3, <1>4, BoundStay
<1>. QED
  BY <1>4, <1>5, <1>6, Elsewhere

LEMMA CheckStep ==
  ASSUME IInv, NEW f \in Files, NEW d \in Dests, NEW blocked \in BOOLEAN, NEW e \in Ids \cup {None},
         Check(f, d, blocked, e)
  PROVE  Sound
<1>. DEFINE n == [phase |-> "observed", file |-> f, dest |-> d,
                  blocked |-> blocked, id |-> e, got |-> None]
<1>1. n \in Reports
  BY DEF Reports
<1>2. n.phase # "decided"
  OBVIOUS
<1>3. pending' = pending \cup {n} /\ UNCHANGED <<dl, mem, incident, events>>
  BY DEF Check
<1>. HIDE DEF n
<1>4. TypeOK'
  BY <1>1, <1>3 DEF IInv, TypeOK
<1>5. MembersAreBound'
  BY <1>2, <1>3 DEF IInv, MembersAreBound, BoundTo
<1>. QED
  BY <1>3, <1>4, <1>5, Elsewhere

LEMMA DropStep ==
  ASSUME IInv, NEW u \in pending, Drop(u)
  PROVE  Sound
<1>1. TypeOK'
  BY DEF Drop, IInv, TypeOK
<1>2. MembersAreBound'
  BY DEF Drop, IInv, MembersAreBound, BoundTo
<1>. QED
  BY <1>1, <1>2, Elsewhere DEF Drop

LEMMA AgeStep ==
  ASSUME IInv, NEW f \in Files, Age(f)
  PROVE  Sound
<1>0. mem \in [Files -> Members]
  BY DEF IInv, TypeOK
<1>1. /\ mem' \in [Files -> Members]
      /\ \A g \in Files : mem'[g].dest = mem[g].dest /\ mem'[g].id = mem[g].id
  BY <1>0 DEF Age, Members
<1>2. TypeOK'
  BY <1>1 DEF Age, IInv, TypeOK
<1>3. IncidentIffMembers'
  BY <1>1 DEF Age, IInv, IncidentIffMembers, MembersAt
<1>4. MembersAreBound'
  BY <1>1 DEF Age, IInv, MembersAreBound, BoundTo
<1>. QED
  BY <1>2, <1>3, <1>4, NoEvent DEF Age, IInv, Sound, LogStep

\* The binding that is read is one of the job's, and the one that was named.
LEMMA ReadBinding ==
  ASSUME NEW job, NEW e \in Ids \cup {None}, NEW g \in ActiveDownloadId(job, e)
  PROVE  /\ g \in Ids \cup {None}
         /\ g # None => g \in BoundTo(job)
         /\ e # None => g = e
BY DEF ActiveDownloadId, BoundTo, HeldBy

LEMMA DecideStep ==
  ASSUME IInv, NEW u \in pending, Decide(u)
  PROVE  Sound
<1>1. PICK g \in ActiveDownloadId(JobOf[u.file], u.id) :
         pending' = (pending \ {u}) \cup {[u EXCEPT !.phase = "decided", !.got = g]}
  BY DEF Decide
<1>2. u \in Reports /\ u.id \in Ids \cup {None}
  BY ReportFields DEF IInv, Decide
<1>. DEFINE n == [u EXCEPT !.phase = "decided", !.got = g]
<1>3. /\ g \in Ids \cup {None}
      /\ g # None => g \in BoundTo(JobOf[u.file])
      /\ u.id # None => g = u.id
  BY <1>2, ReadBinding
<1>4. n \in Reports /\ n.got = g /\ n.file = u.file /\ n.id = u.id
  BY <1>2, <1>3 DEF Reports
<1>5. pending' = (pending \ {u}) \cup {n} /\ UNCHANGED <<dl, mem, incident, events>>
  BY <1>1 DEF Decide
<1>. HIDE DEF n
<1>6. TypeOK'
  BY <1>4, <1>5 DEF IInv, TypeOK
<1>7. MembersAreBound'
  BY <1>3, <1>4, <1>5 DEF IInv, MembersAreBound, BoundTo
<1>. QED
  BY <1>5, <1>6, <1>7, Elsewhere

\* A report touches no member but its own file, and leaves that one in place only
\* if it waits for the report's destination.
LEMMA ReplacedFacts ==
  ASSUME NEW u, u.blocked \in BOOLEAN
  PROVE  /\ Replaced(u) \subseteq {u.file}
         /\ u.file \notin Replaced(u) => mem[u.file].dest \in {None, u.dest}
         /\ ~u.blocked /\ IsMember(u.file) => u.file \in Replaced(u)
BY DEF Replaced, IsMember

\* A log entry that is appended is the last one.
LEMMA Appended ==
  ASSUME TypeOK, NEW e \in [inc : Nat, recovered : BOOLEAN], events' = Append(events, e)
  PROVE  /\ events' \in Seq([inc : Nat, recovered : BOOLEAN])
         /\ Len(events') = Len(events) + 1
         /\ events'[Len(events')] = e
BY DEF TypeOK

\* The commit of a file that does not fit.
LEMMA CommitBlockedStep ==
  ASSUME IInv, NEW u \in pending, CommitBlocked(u)
  PROVE  Sound
<1>. DEFINE R == Replaced(u)
            W == Without(R)
            C == Closed(R)
            n == [dest |-> u.dest, id |-> u.got, old |-> FALSE]
<1>0. TypeOK /\ IncidentIffMembers /\ MembersAreBound /\ u.phase = "decided" /\ Len(events) \in Nat
  BY DEF IInv, CommitBlocked, TypeOK
<1>1. /\ u.file \in Files /\ u.dest \in Dests /\ u.blocked \in BOOLEAN
      /\ u.got \in Ids \cup {None} /\ u.dest # None
  BY <1>0, ReportFields, NoneAssumption
<1>2. n \in Members /\ n.dest = u.dest /\ n.id = u.got
  BY <1>1 DEF Members
<1>3. /\ mem' = [W EXCEPT ![u.file] = n]
      /\ incident' = IF C[u.dest] = 0 THEN [C EXCEPT ![u.dest] = Len(events) + 1] ELSE C
      /\ events' = IF C[u.dest] = 0 THEN Append(events, Event(Len(events) + 1, FALSE)) ELSE events
      /\ pending' = pending \ {u} /\ dl' = dl
  BY DEF CommitBlocked, Opening
<1>4. /\ W \in [Files -> Members]
      /\ \A f \in Files : W[f] = IF f \in R THEN NoMember ELSE mem[f]
  BY <1>0, WithoutFacts
<1>5. /\ C \in [Dests -> Nat]
      /\ C = Log!Silenced(Emptied(R)) /\ Emptied(R) \in SUBSET Dests
  BY <1>0, ClosedFacts, ClosedIsSilenced DEF Emptied
<1>6. \A d \in Dests : C[d] # 0 <=> {f \in Files : W[f].dest = d} # {}
  BY <1>0, ClearedIncidents
<1>7. W[u.file].dest \in {None, u.dest}
  BY <1>1, <1>4, ReplacedFacts, NoMemberFacts
<1>8. Event(Len(events) + 1, FALSE) \in [inc : Nat, recovered : BOOLEAN]
      /\ Event(Len(events) + 1, FALSE).recovered = FALSE
  BY <1>0 DEF Event
<1>9. Log!Event(Len(events) + 1, FALSE) = Event(Len(events) + 1, FALSE)
  BY DEF Log!Event, Event
<1>. HIDE DEF R, W, C, n
<1>10. /\ mem' \in [Files -> Members]
       /\ \A f \in Files : mem'[f] = IF f = u.file THEN n ELSE W[f]
  BY <1>1, <1>2, <1>3, <1>4
<1>11. /\ incident' \in [Dests -> Nat]
       /\ \A d \in Dests : d # u.dest => incident'[d] = C[d]
       /\ incident'[u.dest] # 0
       /\ C[u.dest] = 0 => incident'[u.dest] = Len(events) + 1
  BY <1>0, <1>1, <1>3, <1>5
<1>12. events' \in Seq([inc : Nat, recovered : BOOLEAN])
  BY <1>0, <1>3, <1>8, Appended DEF TypeOK
<1>13. TypeOK'
  BY <1>0, <1>3, <1>10, <1>11, <1>12 DEF TypeOK
<1>14. ASSUME NEW d \in Dests PROVE incident'[d] # 0 <=> {f \in Files : mem'[f].dest = d} # {}
  <2>1. d # None
    BY NoneAssumption
  <2>2. CASE d = u.dest
    BY <1>1, <1>2, <1>10, <1>11, <2>2
  <2>3. CASE d # u.dest
    <3>1. {f \in Files : mem'[f].dest = d} = {f \in Files : W[f].dest = d}
      BY <1>1, <1>2, <1>7, <1>10, <2>1, <2>3
    <3>. QED
      BY <1>6, <1>11, <2>3, <3>1
  <2>. QED
    BY <2>2, <2>3
<1>15. IncidentIffMembers'
  BY <1>14 DEF IncidentIffMembers, MembersAt
<1>16. MembersAreBound'
  <2>1. ASSUME NEW f \in Files, mem'[f].id # None PROVE mem'[f].id \in BoundTo(JobOf[f])
    <3>1. CASE f = u.file
      BY <1>0, <1>2, <1>10, <2>1, <3>1 DEF MembersAreBound
    <3>2. CASE f # u.file
      <4>1. mem'[f] = mem[f]
        BY <1>4, <1>10, <2>1, <3>2, NoMemberFacts
      <4>. QED
        BY <1>0, <2>1, <4>1 DEF MembersAreBound
    <3>. QED
      BY <3>1, <3>2
  <2>. QED
    BY <1>0, <1>3, <2>1 DEF MembersAreBound, BoundTo
<1>17. CASE C[u.dest] = 0
  <2>1. Log!Block(Emptied(R), u.dest)
    BY <1>3, <1>5, <1>9, <1>17 DEF Log!Block
  <2>2. LogStep
    BY <1>1, <1>5, <2>1 DEF LogStep, Log!Next
  <2>3. Len(events') = Len(events) + 1 /\ events'[Len(events')].recovered = FALSE
    BY <1>0, <1>3, <1>8, <1>17, Appended
  <2>4. \A f \in Files : mem'[f].dest = u.dest => f = u.file
    BY <1>1, <1>6, <1>10, <1>17
  <2>5. u \in pending \ pending'
    BY <1>3
  <2>6. AlertIsFirst
    BY <1>1, <1>11, <1>17, <2>3, <2>4, <2>5 DEF AlertIsFirst
  <2>7. RecoveryIsLast
    BY <2>3 DEF RecoveryIsLast, Recoveries
  <2>. QED
    BY <1>13, <1>15, <1>16, <2>2, <2>6, <2>7 DEF Sound, IInv
<1>18. CASE C[u.dest] # 0
  <2>1. Log!Retire(Emptied(R))
    BY <1>3, <1>5, <1>18 DEF Log!Retire
  <2>2. LogStep
    BY <1>5, <2>1 DEF LogStep, Log!Next
  <2>. QED
    BY <1>3, <1>13, <1>15, <1>16, <1>18, <2>2, NoEvent DEF Sound, IInv
<1>. QED
  BY <1>17, <1>18

\* The commit of a file that fits.
LEMMA CommitPassingStep ==
  ASSUME IInv, NEW u \in pending, CommitPassing(u)
  PROVE  Sound
<1>. DEFINE R == Replaced(u)
            W == Without(R)
            C == Closed(R)
            e == Event(incident[u.dest], TRUE)
<1>0. TypeOK /\ IncidentIffMembers /\ MembersAreBound /\ u.phase = "decided" /\ Len(events) \in Nat
  BY DEF IInv, CommitPassing, TypeOK
<1>1. u.file \in Files /\ u.dest \in Dests /\ u.dest # None /\ ~u.blocked /\ u.blocked \in BOOLEAN
  BY <1>0, ReportFields, NoneAssumption DEF CommitPassing
<1>2. /\ mem' = W /\ incident' = C /\ pending' = pending \ {u} /\ dl' = dl
      /\ events' = IF Recovered(u) THEN Append(events, e) ELSE events
  BY DEF CommitPassing
<1>3. /\ W \in [Files -> Members]
      /\ \A f \in Files : W[f] = IF f \in R THEN NoMember ELSE mem[f]
  BY <1>0, WithoutFacts
<1>4. /\ C \in [Dests -> Nat]
      /\ C = Log!Silenced(Emptied(R)) /\ Emptied(R) \in SUBSET Dests
  BY <1>0, ClosedFacts, ClosedIsSilenced DEF Emptied
<1>5. \A d \in Dests : C[d] # 0 <=> {f \in Files : W[f].dest = d} # {}
  BY <1>0, ClearedIncidents
<1>6. e \in [inc : Nat, recovered : BOOLEAN] /\ e.recovered = TRUE /\ e.inc = incident[u.dest]
  BY <1>0, <1>1 DEF Event, TypeOK
<1>7. Log!Event(incident[u.dest], TRUE) = e
  BY DEF Log!Event, Event
<1>8. R \subseteq {u.file}
  BY <1>1, ReplacedFacts
<1>9. Recovered(u) => C[u.dest] = 0 /\ mem[u.file].dest = u.dest /\ mem[u.file].id = u.got
  BY DEF Recovered, Passed
<1>. HIDE DEF W, C, e
<1>10. events' \in Seq([inc : Nat, recovered : BOOLEAN])
  BY <1>0, <1>2, <1>6, Appended DEF TypeOK
<1>11. TypeOK'
  BY <1>0, <1>2, <1>3, <1>4, <1>10 DEF TypeOK
<1>12. IncidentIffMembers'
  BY <1>2, <1>5 DEF IncidentIffMembers, MembersAt
<1>13. MembersAreBound'
  <2>1. ASSUME NEW f \in Files, mem'[f].id # None PROVE mem'[f].id \in BoundTo(JobOf[f])
    <3>1. mem'[f] = mem[f]
      BY <1>2, <1>3, <2>1, NoMemberFacts
    <3>. QED
      BY <1>0, <2>1, <3>1 DEF MembersAreBound
  <2>. QED
    BY <1>0, <1>2, <2>1 DEF MembersAreBound, BoundTo
<1>14. CASE Recovered(u)
  <2>1. incident[u.dest] # 0
    BY <1>0, <1>1, <1>9, <1>14 DEF IncidentIffMembers, MembersAt
  <2>2. Emptied(R) = {u.dest}
    <3>1. u.dest \in Emptied(R)
      BY <1>1, <1>4, <1>9, <1>14, <2>1 DEF Log!Silenced
    <3>2. ASSUME NEW d \in Emptied(R) PROVE d = u.dest
      <4>1. MembersAt(d) # {} /\ MembersAt(d) \subseteq {u.file}
        BY <1>8 DEF Emptied
      <4>2. mem[u.file].dest = d
        BY <4>1 DEF MembersAt
      <4>. QED
        BY <1>9, <1>14, <4>2
    <3>. QED
      BY <3>1, <3>2
  <2>3. Log!Restore(u.dest)
    BY <1>2, <1>4, <1>7, <1>14, <2>1, <2>2 DEF Log!Restore
  <2>4. LogStep
    BY <1>1, <2>3 DEF LogStep, Log!Next
  <2>5. Len(events') = Len(events) + 1 /\ events'[Len(events')] = e
    BY <1>0, <1>2, <1>6, <1>14, Appended
  <2>6. AlertIsFirst
    BY <1>6, <2>5 DEF AlertIsFirst, Alerts
  <2>7. \A f \in Files : mem'[f].dest # u.dest
    BY <1>1, <1>2, <1>5, <1>9, <1>14
  <2>8. u.id # None => mem[u.file].id = u.id
    BY <1>0, <1>9, <1>14 DEF MembersAreBound
  <2>9. IsMember(u.file) /\ mem[u.file].dest = u.dest
    BY <1>1, <1>9, <1>14 DEF IsMember
  <2>10. u \in pending \ pending'
    BY <1>2
  <2>11. events'[Len(events')].inc = incident[u.dest]
    BY <1>6, <2>5
  <2>12. RecoveryIsLast
    BY <1>1, <2>7, <2>8, <2>9, <2>10, <2>11 DEF RecoveryIsLast
  <2>. QED
    BY <1>11, <1>12, <1>13, <2>4, <2>6, <2>12 DEF Sound, IInv
<1>15. CASE ~Recovered(u)
  <2>1. Log!Retire(Emptied(R))
    BY <1>2, <1>4, <1>15 DEF Log!Retire
  <2>2. LogStep
    BY <1>4, <2>1 DEF LogStep, Log!Next
  <2>. QED
    BY <1>2, <1>11, <1>12, <1>13, <1>15, <2>2, NoEvent DEF Sound, IInv
<1>. QED
  BY <1>14, <1>15

-----------------------------------------------------------------------------
(* Late reports and the other downloads of the item                         *)

Decided == {u \in pending : u.phase = "decided"}

\* The lock is held by one report.  When it has read the binding of its job, the
\* job's other downloads are ended, and stay so until it commits.
OneHeld == \A job \in Jobs : \A i, j \in HeldBy(job) : i = j
OneDecided == \A u, v \in Decided : u = v
OthersEnded ==
    \A u \in Decided : u.got # None =>
       \A f \in Files : JobOf[f] = JobOf[u.file] /\ mem[f].id \notin {None, u.got}
                        => dl[mem[f].id].st = "ended"
ReadersAgree == OneHeld /\ OneDecided /\ OthersEnded

\* A step that does not take the lock, writes no membership and ends downloads
\* for good.
LEMMA ReadersStay ==
  ASSUME IInv, ReadersAgree, OneHeld', Decided' \subseteq Decided,
         \A f \in Files : mem'[f].id \in {None, mem[f].id},
         \A i \in Ids : dl[i].st = "ended" => dl'[i].st = "ended"
  PROVE  ReadersAgree'
<1>1. \A f \in Files : mem[f].id \in Ids \cup {None}
  BY DEF IInv, TypeOK, Members
<1>2. OneDecided'
  BY DEF ReadersAgree, OneDecided
<1>3. OthersEnded'
  BY <1>1 DEF ReadersAgree, OthersEnded
<1>. QED
  BY <1>2, <1>3 DEF ReadersAgree

LEMMA SameHeld ==
  ASSUME ReadersAgree, dl' = dl PROVE OneHeld'
BY DEF ReadersAgree, OneHeld, HeldBy, BoundTo

LEMMA ReadersDownloadStep ==
  ASSUME IInv, ReadersAgree, NEW i \in Ids,
         (\E job \in Jobs : Bind(i, job)) \/ End(i) \/ Ignore(i) \/ Retry(i)
  PROVE  ReadersAgree'
<1>0. dl \in [Ids -> Bindings] /\ dl[i] \in Bindings
  BY DEF IInv, TypeOK
<1>1. \A j \in Ids \ {i} : dl'[j] = dl[j]
  BY <1>0 DEF Bind, End, Ignore, Retry
<1>2. \A j \in Ids : dl[j].st = "ended" => dl'[j].st = "ended"
  <2>1. dl[i].st = "ended" => dl'[i].st = "ended"
    BY <1>0 DEF Bind, End, Ignore, Retry, Bindings, Unbound
  <2>. QED
    BY <1>1, <2>1
<1>3. OneHeld'
  <2>1. CASE \E job \in Jobs : Bind(i, job)
    <3>1. PICK job \in Jobs : Bind(i, job)
      BY <2>1
    <3>2. HeldBy(job) = {} /\ dl'[i].job = job
      BY <1>0, <3>1 DEF Bind
    <3>3. \A o \in Jobs : HeldBy(o)' \subseteq (IF o = job THEN {i} ELSE HeldBy(o))
      BY <1>1, <3>2 DEF HeldBy, BoundTo
    <3>. QED
      BY <3>3 DEF ReadersAgree, OneHeld
  <2>2. CASE End(i) \/ Ignore(i) \/ Retry(i)
    <3>1. dl'[i].job = dl[i].job
      BY <1>0, <2>2 DEF End, Ignore, Retry, Bindings, Unbound
    <3>2. dl'[i].st \notin {"none", "ended"} => dl[i].st \notin {"none", "ended"}
      BY <1>0, <2>2 DEF End, Ignore, Retry, Bindings, Unbound
    <3>3. \A o \in Jobs : HeldBy(o)' \subseteq HeldBy(o)
      BY <1>1, <3>1, <3>2 DEF HeldBy, BoundTo
    <3>. QED
      BY <3>3 DEF ReadersAgree, OneHeld
  <2>. QED
    BY <2>1, <2>2
<1>4. Decided' \subseteq Decided
  BY DEF Bind, End, Ignore, Retry, Decided
<1>5. mem' = mem
  BY DEF Bind, End, Ignore, Retry
<1>. QED
  BY <1>2, <1>3, <1>4, <1>5, ReadersStay

LEMMA ReadersDecideStep ==
  ASSUME IInv, ReadersAgree, NEW u \in pending, Decide(u)
  PROVE  ReadersAgree'
<1>1. PICK g \in ActiveDownloadId(JobOf[u.file], u.id) :
         pending' = (pending \ {u}) \cup {[u EXCEPT !.phase = "decided", !.got = g]}
  BY DEF Decide
<1>. DEFINE n == [u EXCEPT !.phase = "decided", !.got = g]
<1>2. u \in Reports /\ u.file \in Files
  BY ReportFields DEF IInv, Decide
<1>3. n.file = u.file /\ n.got = g
  BY <1>2 DEF Reports
<1>4. pending' = (pending \ {u}) \cup {n} /\ UNCHANGED <<dl, mem>>
  BY <1>1 DEF Decide
<1>. HIDE DEF n
<1>5. Decided' \subseteq {n}
  BY <1>4 DEF Decide, LockFree, Decided
<1>6. OneHeld' /\ OneDecided'
  BY <1>4, <1>5, SameHeld DEF OneDecided
<1>7. ASSUME g # None, NEW f \in Files, JobOf[f] = JobOf[u.file], mem[f].id \notin {None, g}
      PROVE  dl[mem[f].id].st = "ended"
  <2>1. JobOf[u.file] \in Jobs
    BY <1>2, JobsAssumption
  <2>2. g \in HeldBy(JobOf[u.file])
    BY <1>7 DEF ActiveDownloadId
  <2>3. mem[f].id \in BoundTo(JobOf[u.file])
    BY <1>7 DEF IInv, MembersAreBound
  <2>4. mem[f].id \notin HeldBy(JobOf[u.file])
    BY <1>7, <2>1, <2>2 DEF ReadersAgree, OneHeld
  <2>. QED
    BY <2>3, <2>4 DEF HeldBy
<1>8. OthersEnded'
  BY <1>3, <1>4, <1>5, <1>7 DEF OthersEnded
<1>. QED
  BY <1>6, <1>8 DEF ReadersAgree

\* A step of the holder of the lock leaves nobody with it.
LEMMA ReadersCommitStep ==
  ASSUME IInv, ReadersAgree, NEW u \in pending, u.phase = "decided",
         pending' = pending \ {u}, dl' = dl
  PROVE  ReadersAgree'
<1>1. Decided' = {}
  BY DEF ReadersAgree, OneDecided, Decided
<1>. QED
  BY <1>1, SameHeld DEF ReadersAgree, OneDecided, OthersEnded

\* A report, when it is applied, takes no place from a live download that it does
\* not name.
Spares ==
    \A u \in pending : u \notin pending' /\ u.id # None =>
       \A f \in Files : mem[f].id \notin {None, u.id} /\ mem'[f].dest = None /\ IsMember(f)
             => dl[mem[f].id].st # "active"

LEMMA ClearSpares ==
  ASSUME IInv, NEW u \in pending, pending' = pending \ {u}, NEW job,
         Clear(RetireJob(job, u.id))
  PROVE  Spares
<1>1. \A f \in Files : mem'[f] # mem[f] => mem[f].id = u.id
  BY WithoutFacts DEF IInv, Clear, RetireJob
<1>. QED
  BY <1>1 DEF Spares, IsMember

LEMMA CommitSpares ==
  ASSUME IInv, ReadersAgree, NEW u \in pending, CommitBlocked(u) \/ CommitPassing(u)
  PROVE  Spares
<1>0. /\ TypeOK /\ u.phase = "decided" /\ pending' = pending \ {u} /\ u \in Decided
      /\ u.id # None => u.got = u.id
  BY DEF IInv, CommitBlocked, CommitPassing, MembersAreBound, Decided
<1>1. u.file \in Files /\ u.blocked \in BOOLEAN /\ u.dest # None
  BY <1>0, ReportFields, NoneAssumption
<1>2. ASSUME NEW f \in Files, f # u.file PROVE mem'[f] = mem[f]
  <2>1. f \notin Replaced(u)
    BY <1>1, <1>2, ReplacedFacts
  <2>. DEFINE w == Without(Replaced(u))
  <2>2. w \in [Files -> Members] /\ w[f] = mem[f]
    BY <1>0, <2>1, WithoutFacts
  <2>3. CASE CommitBlocked(u)
    <3>1. mem' = [w EXCEPT ![u.file] = [dest |-> u.dest, id |-> u.got, old |-> FALSE]]
      BY <2>3 DEF CommitBlocked
    <3>. HIDE DEF w
    <3>. QED
      BY <1>2, <2>2, <3>1
  <2>4. CASE CommitPassing(u)
    <3>1. mem' = w
      BY <2>4 DEF CommitPassing
    <3>. HIDE DEF w
    <3>. QED
      BY <2>2, <3>1
  <2>. QED
    BY <2>3, <2>4
<1>3. ASSUME u.id # None, mem[u.file].id \notin {None, u.id}
      PROVE  dl[mem[u.file].id].st = "ended"
  BY <1>0, <1>1, <1>3 DEF ReadersAgree, OthersEnded
<1>. QED
  BY <1>0, <1>2, <1>3 DEF Spares, IsMember

LEMMA QuietSpares ==
  ASSUME mem' = mem PROVE Spares
BY DEF Spares, IsMember

LEMMA LateReportsSpare ==
  ASSUME IInv, ReadersAgree, [Next]_vars
  PROVE  ReadersAgree' /\ Spares
<1>1. ASSUME dl' = dl, mem' = mem, Decided' \subseteq Decided PROVE ReadersAgree' /\ Spares
  BY <1>1, SameHeld, ReadersStay, QuietSpares
<1>2. CASE UNCHANGED vars
  BY <1>1, <1>2 DEF vars, Decided
<1>3. CASE \E i \in Ids : End(i) \/ Ignore(i) \/ Retry(i) \/ \E job \in Jobs : Bind(i, job)
  <2>1. mem' = mem
    BY <1>3 DEF End, Ignore, Retry, Bind
  <2>. QED
    BY <1>3, <2>1, ReadersDownloadStep, QuietSpares
<1>4. CASE \E f \in Files, d \in Dests, blocked \in BOOLEAN, e \in Ids \cup {None} :
               Check(f, d, blocked, e)
  BY <1>1, <1>4 DEF Check, Decided
<1>5. CASE \E u \in pending : Decide(u)
  <2>1. mem' = mem
    BY <1>5 DEF Decide
  <2>. QED
    BY <1>5, <2>1, ReadersDecideStep, QuietSpares
<1>6. ASSUME NEW u \in pending, ObserveRetired(u) \/ Retired(u) PROVE ReadersAgree' /\ Spares
  <2>1. PICK job : Clear(RetireJob(job, u.id))
    BY <1>6 DEF ObserveRetired, Retired
  <2>2. pending' = pending \ {u} /\ dl' = dl
    BY <1>6 DEF ObserveRetired, Retired
  <2>3. \A f \in Files : mem'[f].id \in {None, mem[f].id}
    BY <2>1, WithoutFacts, NoMemberFacts DEF IInv, Clear
  <2>4. ReadersAgree'
    BY <2>2, <2>3, SameHeld, ReadersStay DEF Decided
  <2>. QED
    BY <2>1, <2>2, <2>4, ClearSpares
<1>7. ASSUME NEW u \in pending, CommitBlocked(u) \/ CommitPassing(u) PROVE ReadersAgree' /\ Spares
  <2>1. u.phase = "decided" /\ pending' = pending \ {u} /\ dl' = dl
    BY <1>7 DEF CommitBlocked, CommitPassing
  <2>. QED
    BY <1>7, <2>1, ReadersCommitStep, CommitSpares
<1>8. CASE \E u \in pending : Drop(u)
  BY <1>1, <1>8 DEF Drop, Decided
<1>9. CASE Reconcile
  <2>1. \A f \in Files : mem'[f].id \in {None, mem[f].id}
    BY <1>9, WithoutFacts, NoMemberFacts DEF Reconcile, IInv, Clear
  <2>2. pending' = pending /\ dl' = dl
    BY <1>9 DEF Reconcile
  <2>3. ReadersAgree'
    BY <2>1, <2>2, SameHeld, ReadersStay DEF Decided
  <2>. QED
    BY <2>2, <2>3 DEF Spares
<1>10. CASE \E f \in Files : Age(f)
  <2>1. PICK f \in Files : Age(f)
    BY <1>10
  <2>2. mem \in [Files -> Members] /\ mem[f] \in Members
    BY DEF IInv, TypeOK
  <2>3. \A g \in Files : mem'[g].id = mem[g].id
    BY <2>1, <2>2 DEF Age, Members
  <2>4. pending' = pending /\ dl' = dl
    BY <2>1 DEF Age
  <2>5. ReadersAgree'
    BY <2>3, <2>4, SameHeld, ReadersStay DEF Decided
  <2>. QED
    BY <2>4, <2>5 DEF Spares
<1>. QED
  BY <1>2, <1>3, <1>4, <1>5, <1>6, <1>7, <1>8, <1>9, <1>10 DEF Next

-----------------------------------------------------------------------------
(* The theorems                                                             *)

LEMMA Initial == Init => IInv /\ Log!Init
<1>1. Unbound \in Bindings
  BY DEF Unbound, Bindings
<1>2. ASSUME Init PROVE IInv
  <2>1. TypeOK
    BY <1>1, <1>2, NoMemberFacts DEF Init, TypeOK
  <2>2. IncidentIffMembers
    BY <1>2, NoMemberFacts, NoneAssumption DEF Init, IncidentIffMembers, MembersAt
  <2>3. MembersAreBound
    BY <1>2, NoMemberFacts DEF Init, MembersAreBound
  <2>. QED
    BY <2>1, <2>2, <2>3 DEF IInv
<1>. QED
  BY <1>2 DEF Init, Log!Init

LEMMA Inductive == IInv /\ [Next]_vars => Sound
<1>. SUFFICES ASSUME IInv, [Next]_vars PROVE Sound
  OBVIOUS
<1>1. CASE UNCHANGED vars
  <2>1. TypeOK' /\ MembersAreBound'
    BY <1>1 DEF vars, IInv, TypeOK, MembersAreBound, BoundTo
  <2>. QED
    BY <1>1, <2>1, Elsewhere DEF vars
<1>2. CASE \E i \in Ids : End(i) \/ Ignore(i) \/ Retry(i) \/ \E job \in Jobs : Bind(i, job)
  BY <1>2, DownloadStep
<1>3. CASE \E f \in Files, d \in Dests, blocked \in BOOLEAN, e \in Ids \cup {None} :
               Check(f, d, blocked, e)
  BY <1>3, CheckStep
<1>4. CASE \E u \in pending : Decide(u)
  BY <1>4, DecideStep
<1>5. CASE \E u \in pending : ObserveRetired(u)
  BY <1>5, Cleared DEF ObserveRetired
<1>6. CASE \E u \in pending : Retired(u)
  BY <1>6, Cleared DEF Retired
<1>7. CASE \E u \in pending : CommitBlocked(u)
  BY <1>7, CommitBlockedStep
<1>8. CASE \E u \in pending : CommitPassing(u)
  BY <1>8, CommitPassingStep
<1>9. CASE \E u \in pending : Drop(u)
  BY <1>9, DropStep
<1>10. CASE Reconcile
  BY <1>10, Cleared DEF Reconcile
<1>11. CASE \E f \in Files : Age(f)
  BY <1>11, AgeStep
<1>. QED
  BY <1>1, <1>2, <1>3, <1>4, <1>5, <1>6, <1>7, <1>8, <1>9, <1>10, <1>11 DEF Next

\* The inductive invariant: a destination has an incident exactly while an import
\* waits for it, and members belong to downloads that were bound to their job.
THEOREM InvariantHolds == Spec => []IInv
<1>1. IInv /\ [Next]_vars => IInv'
  BY Inductive DEF Sound
<1>. QED
  BY Initial, <1>1, PTL DEF Spec

\* The store implements the event log its readers rely on.
THEOREM LogTheorem == Spec => ImplementsLog
<1>1. IInv /\ [Next]_vars => [Log!Next]_(Log!vars)
  BY Inductive DEF Sound, LogStep, Log!vars
<1>. QED
  BY Initial, InvariantHolds, <1>1, PTL DEF Spec, ImplementsLog, Log!Spec

\* A Blocked event is logged for the first import that waits, and no other.
THEOREM AlertTheorem == Spec => OneAlertPerIncident
<1>1. IInv /\ [Next]_vars =>
        [Len(events') > Len(events) /\ ~events'[Len(events')].recovered =>
          \E u \in pending \ pending', d \in Dests :
             /\ incident'[d] = Len(events')
             /\ \A f \in Files : mem'[f].dest = d => f = u.file]_vars
  BY Inductive DEF Sound, AlertIsFirst, Alerts
<1>. QED
  BY InvariantHolds, <1>1, PTL DEF Spec, OneAlertPerIncident

\* A Restored event is logged when the last import that waited has passed its
\* own check, and no other.
THEOREM RecoveryTheorem == Spec => RecoveryIsObserved
<1>1. IInv /\ [Next]_vars =>
        [Len(events') > Len(events) /\ events'[Len(events')].recovered =>
          \E u \in pending \ pending' :
             /\ ~u.blocked /\ IsMember(u.file) /\ mem[u.file].dest = u.dest
             /\ u.id # None => mem[u.file].id = u.id
             /\ events'[Len(events')].inc = incident[u.dest]
             /\ \A f \in Files : mem'[f].dest # u.dest]_vars
  BY Inductive DEF Sound, RecoveryIsLast, Recoveries
<1>. QED
  BY InvariantHolds, <1>1, PTL DEF Spec, RecoveryIsObserved

\* A report that names a download takes no place from another, live download of
\* the same item, although the binding it acts on was read in an earlier
\* statement of its transaction.
THEOREM SparesTheorem == Spec => SparesOtherDownloads
<1>1. Init => ReadersAgree
  BY DEF Init, Unbound, ReadersAgree, OneHeld, HeldBy, BoundTo, OneDecided, OthersEnded, Decided
<1>2. IInv /\ ReadersAgree /\ [Next]_vars => ReadersAgree'
  BY LateReportsSpare
<1>3. Spec => []ReadersAgree
  BY <1>1, <1>2, InvariantHolds, PTL DEF Spec
<1>4. IInv /\ ReadersAgree /\ [Next]_vars =>
        [\A u \in pending : u \notin pending' /\ u.id # None =>
          \A f \in Files : mem[f].id \notin {None, u.id} /\ mem'[f].dest = None /\ IsMember(f)
                => dl[mem[f].id].st # "active"]_vars
  BY LateReportsSpare DEF Spares
<1>. QED
  BY <1>3, <1>4, InvariantHolds, PTL DEF Spec, SparesOtherDownloads
=============================================================================
