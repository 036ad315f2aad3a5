---------------------- MODULE DownloadSubmission_proofs ----------------------
(***************************************************************************)
(* Proofs about DownloadSubmission, for any titles, callers, requests,      *)
(* download ids and client jobs.                                            *)
(***************************************************************************)
EXTENDS DownloadSubmission, TLAPS

-----------------------------------------------------------------------------
(* What the records and the store's operations are made of.                 *)

\* The locals of a caller that runs no attempt are well formed.
LEMMA IdleTyped == Idle \in Attempts /\ NoListing \in Listings
  BY DEF Idle, Attempts, NoListing, Listings, NoPurpose, Answers, OnClient

\* No download id in use is a well-formed row.
LEMMA NoRowTyped == NoRow \in Rows
  BY DEF NoRow, Rows, NoPurpose

\* What a request is for is a purpose.
LEMMA PurposeTyped ==
    ASSUME NEW n \in Intents
    PROVE  [rel |-> n.rel, extra |-> n.extra] \in Purposes
  BY DEF Purposes

\* The release of a purpose is a release, or None.
LEMMA ReleaseTyped ==
    ASSUME NEW f \in Purposes \cup {NoPurpose}
    PROVE  f.rel \in Releases \cup {None}
  <1>1. CASE f = NoPurpose
    BY <1>1 DEF NoPurpose
  <1>2. CASE f \in Purposes
    <2>1. PICK n \in Intents : f = [rel |-> n.rel, extra |-> n.extra]
      BY <1>2 DEF Purposes
    <2> QED BY <2>1 DEF Releases
  <1> QED BY <1>1, <1>2

\* A listing of the client is well formed.
LEMMA ListingTyped ==
    ASSUME TypeOK, NEW l, Listed(l)
    PROVE  l \in Listings
  <1>1. [j \in Jobs |-> IF job[j].st \in OnClient THEN job[j].st ELSE "absent"]
           \in [Jobs -> OnClient \cup {"absent"}]
    OBVIOUS
  <1>2. Listing \in Listings
    BY <1>1 DEF Listing, Listings
  <1> QED BY <1>2, IdleTyped DEF Listed

\* An intent is recorded as a well-formed row, which binds nothing.
LEMMA RecordPendingTyped ==
    ASSUME row \in [Ids -> Rows], NEW i \in Ids, NEW t \in Titles,
           NEW f \in Purposes \cup {NoPurpose}
    PROVE  /\ RecordPending(row, i, t, f) \in [Ids -> Rows]
           /\ \A o \in Ids : RecordPending(row, i, t, f)[o].bind = "bound"
                                => RecordPending(row, i, t, f)[o] = row[o]
  BY DEF RecordPending, Rows, NoRow, NoPurpose

\* Withdrawing an intent binds nothing.
LEMMA WithdrawTyped ==
    ASSUME row \in [Ids -> Rows], NEW i \in Ids
    PROVE  /\ Withdraw(row, i) \in [Ids -> Rows]
           /\ \A o \in Ids : Withdraw(row, i)[o].bind = "bound"
                                => Withdraw(row, i)[o] = row[o]
  BY ZenonT(60) DEF Withdraw, Rows

\* Deleting the submissions of a job binds nothing.
LEMMA DeleteTyped ==
    ASSUME row \in [Ids -> Rows], NEW j
    PROVE  /\ DeleteByItem(j) \in [Ids -> Rows]
           /\ \A o \in Ids : DeleteByItem(j)[o].bind = "bound"
                => row[o].bind = "bound" /\ DeleteByItem(j)[o].item = row[o].item
  BY ZenonT(60) DEF DeleteByItem, Rows, Bound

\* An acceptance binds one download to its job, and leaves no other bound to it.
LEMMA RecordAcceptedTyped ==
    ASSUME row \in [Ids -> Rows], NEW i \in Ids, NEW j \in Jobs \cup {None},
           NEW t \in Titles, NEW f \in Purposes \cup {NoPurpose}
    PROVE  /\ RecordAccepted(i, j, t, f) \in [Ids -> Rows]
           /\ RecordAccepted(i, j, t, f)[i].item = j
           /\ \A o \in Ids \ {i} : RecordAccepted(i, j, t, f)[o].bind = "bound"
                => /\ row[o].bind = "bound"
                   /\ RecordAccepted(i, j, t, f)[o].item = row[o].item
                   /\ row[o].item # j
  <1> DEFINE r == RecordAccepted(i, j, t, f)
  <1>1. /\ r[i] = [bind |-> "bound", sub |-> TRUE, title |-> t, item |-> j,
                   for |-> f, done |-> row[i].done]
        /\ \A o \in Ids : o # i => r[o] = IF o \in Bound(j)
                                          THEN [row[o] EXCEPT !.bind = "ended"]
                                          ELSE row[o]
        /\ r = [o \in Ids |-> r[o]]
    BY DEF RecordAccepted
  <1> HIDE DEF r
  <1>2. r[i] \in Rows /\ r[i].item = j
    BY <1>1 DEF Rows
  <1>3. ASSUME NEW o \in Ids, o # i
        PROVE  /\ r[o] \in Rows
               /\ r[o].bind = "bound" => /\ row[o].bind = "bound"
                                         /\ r[o].item = row[o].item
                                         /\ row[o].item # j
    <2>1. CASE o \in Bound(j)
      BY <1>1, <1>3, <2>1 DEF Rows
    <2>2. CASE o \notin Bound(j)
      BY <1>1, <1>3, <2>2 DEF Rows, Bound
    <2> QED BY <2>1, <2>2
  <1>4. r \in [Ids -> Rows]
    BY <1>1, <1>2, <1>3
  <1> QED BY <1>2, <1>3, <1>4 DEF r

-----------------------------------------------------------------------------
(* Who is attempting what: the part of the invariant about pc, the titles of  *)
(* the attempts and the claims.                                             *)

Discipline == AttemptsAreAbout /\ OneAttemptPerTitle /\ ClaimFencesTitle

\* No attempt changes its title, or its id for anything but another id.
SameAttempts == \A o \in Submitters : /\ att'[o].title = att[o].title
                                      /\ att[o].id \in Ids => att'[o].id \in Ids

\* An attempt that moves on past the claims, with nothing claimed, stays alone
\* on its title and behind no claim.
LEMMA StepOn ==
    ASSUME CoreInv, NEW s \in Submitters, NEW p \in Steps,
           pc[s] # "idle", claim[att[s].title] = None,
           p # "idle", pc' = [pc EXCEPT ![s] = p], SameAttempts,
           claim' = claim
    PROVE  Discipline'
  <1> USE DEF CoreInv, TypeOK, SameAttempts
  <1>1. \A o \in Submitters : pc'[o] # "idle" => pc[o] # "idle"
    OBVIOUS
  <1>2. \A o \in Submitters : pc'[o] \notin {"idle", "claims"} =>
            o = s \/ pc[o] \notin {"idle", "claims"}
    OBVIOUS
  <1>3. AttemptsAreAbout'
    BY <1>1 DEF AttemptsAreAbout
  <1>4. OneAttemptPerTitle'
    BY <1>1 DEF OneAttemptPerTitle
  <1>5. ClaimFencesTitle'
    BY <1>2 DEF ClaimFencesTitle
  <1> QED BY <1>3, <1>4, <1>5 DEF Discipline

\* An attempt that returns may leave a claim on its title: nobody else is on it.
LEMMA Return ==
    ASSUME CoreInv, NEW s \in Submitters, pc[s] # "idle",
           pc' = [pc EXCEPT ![s] = "idle"],
           \A o \in Submitters \ {s} : /\ att'[o].title = att[o].title
                                       /\ att'[o].id = att[o].id,
           \A t \in Titles \ {att[s].title} : claim'[t] = claim[t]
    PROVE  Discipline'
  <1> USE DEF CoreInv, TypeOK
  <1>1. \A o \in Submitters : pc'[o] # "idle" => pc[o] # "idle" /\ o # s /\ pc'[o] = pc[o]
    OBVIOUS
  <1>2. \A o \in Submitters : pc'[o] # "idle" => att[o].title \in Titles \ {att[s].title}
    BY <1>1 DEF AttemptsAreAbout, OneAttemptPerTitle
  <1>3. AttemptsAreAbout'
    BY <1>1 DEF AttemptsAreAbout
  <1>4. OneAttemptPerTitle'
    BY <1>1 DEF OneAttemptPerTitle
  <1>5. ClaimFencesTitle'
    BY <1>1, <1>2 DEF ClaimFencesTitle
  <1> QED BY <1>3, <1>4, <1>5 DEF Discipline

\* What is done beside the attempts leaves them as they are.
LEMMA Beside ==
    ASSUME CoreInv, pc' = pc, claim' = claim, SameAttempts
    PROVE  Discipline'
  <1> USE DEF CoreInv, TypeOK, SameAttempts
  <1>1. AttemptsAreAbout'
    BY DEF AttemptsAreAbout
  <1>2. OneAttemptPerTitle'
    BY DEF OneAttemptPerTitle
  <1>3. ClaimFencesTitle'
    BY DEF ClaimFencesTitle
  <1> QED BY <1>1, <1>2, <1>3 DEF Discipline

-----------------------------------------------------------------------------
(* Who owns which job.                                                      *)

\* A step that binds no download to a job leaves at most one per job.
LEMMA BindsNothing ==
    ASSUME OneDownloadPerJob,
           \A i \in Ids : row'[i].bind = "bound" =>
                row[i].bind = "bound" /\ row'[i].item = row[i].item
    PROVE  OneDownloadPerJob'
  BY DEF OneDownloadPerJob, Bound

\* A step that binds one download to a job nobody else keeps leaves it alone.
LEMMA BindsOne ==
    ASSUME OneDownloadPerJob, NEW i \in Ids,
           \A o \in Ids \ {i} : row'[o].bind = "bound" =>
                /\ row[o].bind = "bound" /\ row'[o].item = row[o].item
                /\ row[o].item # row'[i].item
    PROVE  OneDownloadPerJob'
  BY DEF OneDownloadPerJob, Bound

-----------------------------------------------------------------------------
(* Well-formed attempts.                                                    *)

\* The invariant holds again once its four parts do.
LEMMA Together ==
    ASSUME TypeOK', Discipline', OneDownloadPerJob'
    PROVE  CoreInv'
  BY DEF CoreInv, Discipline

\* Returning gives up the attempt's locals.
LEMMA ForgetTyped ==
    ASSUME att \in [Submitters -> Attempts], NEW s \in Submitters
    PROVE  /\ Forget(att, s) \in [Submitters -> Attempts]
           /\ \A o \in Submitters \ {s} : Forget(att, s)[o] = att[o]
  BY IdleTyped DEF Forget

\* Invalidating the listing touches only the freshness of what is being read.
LEMMA InvalidateTyped ==
    ASSUME NEW a \in [Submitters -> Attempts], Invalidate(a)
    PROVE  /\ shared' = None
           /\ att' \in [Submitters -> Attempts]
           /\ \A o \in Submitters : att'[o].title = a[o].title /\ att'[o].id = a[o].id
  BY ZenonT(60) DEF Invalidate, Attempts

\* An attempt that returns with nothing but its locals changed.
LEMMA ReturnOnly ==
    ASSUME CoreInv, NEW s \in Submitters, pc[s] # "idle",
           Finish(s), att' = Forget(att, s),
           UNCHANGED <<cache, shared, claim, row, minted, job, blind>>
    PROVE  CoreInv'
  <1>1. att' \in [Submitters -> Attempts] /\ \A o \in Submitters \ {s} : att'[o] = att[o]
    BY ForgetTyped DEF CoreInv, TypeOK
  <1>2. Discipline'
    BY <1>1, Return DEF Finish
  <1>3. OneDownloadPerJob'
    BY BindsNothing DEF CoreInv
  <1>4. TypeOK'
    BY <1>1 DEF CoreInv, TypeOK, Finish, Steps
  <1> QED BY <1>2, <1>3, <1>4, Together

\* The locals of a running attempt.
LEMMA Locals ==
    ASSUME CoreInv, NEW s \in Submitters
    PROVE  /\ att[s] \in Attempts
           /\ pc[s] # "idle" => att[s].title \in Titles /\ att[s].id \in Ids
           /\ att[s].for \in Purposes \cup {NoPurpose}
           /\ att[s].item \in Jobs \cup {None}
           /\ att[s].listing \in Listings
           /\ att[s].subs \subseteq Ids /\ att[s].accepted \subseteq Ids
           /\ pc[s] \notin {"idle", "claims"} => claim[att[s].title] = None
  BY DEF CoreInv, TypeOK, AttemptsAreAbout, ClaimFencesTitle, Attempts

\* An attempt past the claims has an undisputed title.
LEMMA Undisputed ==
    ASSUME CoreInv, NEW s \in Submitters, PastClaims(s)
    PROVE  pc[s] # "idle" /\ claim[att[s].title] = None
  BY Locals DEF PastClaims

\* A caller begins only on a title nobody else is on.
LEMMA BeginCoreInv ==
    ASSUME CoreInv, NEW s \in Submitters, NEW t \in Titles, NEW i \in Ids,
           NEW n \in Intents, Begin(s, t, i, n)
    PROVE  CoreInv'
  <1> DEFINE a == [Idle EXCEPT !.title = t, !.id = i,
                               !.for = [rel |-> n.rel, extra |-> n.extra],
                               !.policy = n.policy]
  <1>1. a \in Attempts /\ a.title = t /\ a.id = i
    BY IdleTyped, PurposeTyped, IntentsAssumption DEF Idle, Attempts
  <1> HIDE DEF a
  <1>2. /\ pc' = [pc EXCEPT ![s] = "claims"] /\ att' = [att EXCEPT ![s] = a]
        /\ minted' = minted \cup {i} /\ pc[s] = "idle" /\ ~Locked(t)
        /\ UNCHANGED <<cache, shared, claim, row, job, blind>>
    BY DEF Begin, Goto, a
  <1>3. TypeOK'
    BY <1>1, <1>2 DEF CoreInv, TypeOK, Steps
  <1>4. /\ pc'[s] = "claims" /\ att'[s] = a
        /\ \A o \in Submitters \ {s} : pc'[o] = pc[o] /\ att'[o] = att[o]
    BY <1>2 DEF CoreInv, TypeOK
  <1>5. AttemptsAreAbout'
    BY <1>1, <1>4 DEF CoreInv, AttemptsAreAbout
  <1>6. OneAttemptPerTitle'
    BY <1>1, <1>2, <1>4 DEF CoreInv, OneAttemptPerTitle, Locked
  <1>7. ClaimFencesTitle'
    BY <1>2, <1>4 DEF CoreInv, ClaimFencesTitle
  <1>8. OneDownloadPerJob'
    BY <1>2, BindsNothing DEF CoreInv
  <1> QED BY <1>3, <1>5, <1>6, <1>7, <1>8 DEF CoreInv

\* An ambiguous claim refuses the attempt, and may become a durable intent.
LEMMA RefuseAmbiguousCoreInv ==
    ASSUME CoreInv, NEW s \in Submitters, RefuseAmbiguous(s)
    PROVE  CoreInv'
  <1> DEFINE t == att[s].title
             c == claim[t]
  <1>1. /\ pc[s] = "claims" /\ c # None /\ Finish(s) /\ att' = Forget(att, s)
        /\ UNCHANGED <<cache, shared, minted, job, blind>>
        /\ \/ /\ row' = RecordPending(row, c.id, t, c.for)
              /\ claim' = [claim EXCEPT ![t] = None]
           \/ UNCHANGED <<row, claim>>
    BY DEF RefuseAmbiguous
  <1>2. /\ t \in Titles
        /\ c.id \in Ids /\ c.for \in Purposes \cup {NoPurpose}
    BY <1>1, Locals DEF CoreInv, TypeOK, Claims
  <1> HIDE DEF t, c
  <1>3. /\ att' \in [Submitters -> Attempts]
        /\ \A o \in Submitters \ {s} : att'[o] = att[o]
    BY <1>1, ForgetTyped DEF CoreInv, TypeOK
  <1>4. /\ row' \in [Ids -> Rows]
        /\ \A i \in Ids : row'[i].bind = "bound" =>
                row[i].bind = "bound" /\ row'[i].item = row[i].item
    BY <1>1, <1>2, RecordPendingTyped DEF CoreInv, TypeOK
  <1>5. TypeOK'
    BY <1>1, <1>2, <1>3, <1>4 DEF CoreInv, TypeOK, Finish, Steps
  <1>6. Discipline'
    <2>1. \A u \in Titles \ {att[s].title} : claim'[u] = claim[u]
      BY <1>1 DEF CoreInv, TypeOK, t
    <2> QED BY <1>1, <1>3, <2>1, Return DEF Finish
  <1>7. OneDownloadPerJob'
    BY <1>4, BindsNothing DEF CoreInv
  <1> QED BY <1>5, <1>6, <1>7, Together

\* Recording an acceptance keeps one download per job.
LEMMA Accepts ==
    ASSUME CoreInv, NEW i \in Ids, NEW j \in Jobs \cup {None}, NEW t \in Titles,
           NEW f \in Purposes \cup {NoPurpose}, row' = RecordAccepted(i, j, t, f)
    PROVE  row' \in [Ids -> Rows] /\ OneDownloadPerJob'
  <1>1. row \in [Ids -> Rows] /\ OneDownloadPerJob
    BY DEF CoreInv, TypeOK
  <1>2. /\ row' \in [Ids -> Rows] /\ row'[i].item = j
        /\ \A o \in Ids \ {i} : row'[o].bind = "bound" =>
                /\ row[o].bind = "bound" /\ row'[o].item = row[o].item
                /\ row[o].item # j
    BY <1>1, RecordAcceptedTyped
  <1> QED BY <1>1, <1>2, BindsOne

\* An accepted claim is recorded again, resolved to another download, or kept.
LEMMA RecoverAcceptedCoreInv ==
    ASSUME CoreInv, NEW s \in Submitters, RecoverAccepted(s)
    PROVE  CoreInv'
  <1> DEFINE t == att[s].title
             c == claim[t]
  <1>1. /\ pc[s] = "claims" /\ c # None
        /\ UNCHANGED <<cache, shared, minted, job, blind>>
        /\ \/ Finish(s) /\ att' = Forget(att, s) /\ UNCHANGED <<claim, row>>
           \/ /\ row' = RecordAccepted(c.id, c.item, t, c.for)
              /\ claim' = [claim EXCEPT ![t] = None]
              /\ \/ Finish(s) /\ att' = Forget(att, s)
                 \/ Goto(s, "state") /\ UNCHANGED att
           \/ /\ row' = Withdraw(row, c.id)
              /\ \E o \in Ids :
                    \/ claim' = [claim EXCEPT ![t] = None]
                    \/ claim' = [claim EXCEPT ![t] = Ambiguous(o, t, NoPurpose, FALSE)]
              /\ Finish(s) /\ att' = Forget(att, s)
    BY DEF RecoverAccepted, Bound
  <1>2. /\ t \in Titles /\ c \in Claims
        /\ c.id \in Ids /\ c.for \in Purposes \cup {NoPurpose}
        /\ c.item \in Jobs \cup {None}
    BY <1>1, Locals DEF CoreInv, TypeOK, Claims
  <1>3. \A o \in Ids : Ambiguous(o, t, NoPurpose, FALSE) \in Claims
    BY DEF Ambiguous, Claims
  <1>4. claim' \in [Titles -> Claims \cup {None}]
        /\ \A u \in Titles \ {att[s].title} : claim'[u] = claim[u]
    BY <1>1, <1>3 DEF CoreInv, TypeOK
  <1> HIDE DEF c
  <1>5. row' \in [Ids -> Rows] /\ OneDownloadPerJob'
    <2>1. CASE row' = row
      BY <2>1, BindsNothing DEF CoreInv, TypeOK
    <2>2. CASE row' = RecordAccepted(c.id, c.item, t, c.for)
      BY <1>2, <2>2, Accepts
    <2>3. CASE row' = Withdraw(row, c.id)
      <3>1. /\ row' \in [Ids -> Rows]
            /\ \A o \in Ids : row'[o].bind = "bound" => row'[o] = row[o]
        BY <1>2, <2>3, WithdrawTyped DEF CoreInv, TypeOK
      <3> QED BY <3>1, BindsNothing DEF CoreInv
    <2> QED BY <1>1, <2>1, <2>2, <2>3
  <1>6. CASE Finish(s) /\ att' = Forget(att, s)
    <2>1. /\ att' \in [Submitters -> Attempts]
          /\ \A o \in Submitters \ {s} : att'[o] = att[o]
      BY <1>6, ForgetTyped DEF CoreInv, TypeOK
    <2>2. TypeOK'
      BY <1>1, <1>4, <1>5, <1>6, <2>1 DEF CoreInv, TypeOK, Finish, Steps
    <2>3. Discipline'
      BY <1>1, <1>4, <1>6, <2>1, Return DEF Finish
    <2> QED BY <1>5, <2>2, <2>3, Together
  <1>7. CASE /\ Goto(s, "state") /\ UNCHANGED att
             /\ claim' = [claim EXCEPT ![t] = None]
    <2>1. TypeOK'
      BY <1>1, <1>4, <1>5, <1>7 DEF CoreInv, TypeOK, Goto, Steps
    <2>2. /\ pc'[s] = "state"
          /\ \A o \in Submitters \ {s} : pc'[o] = pc[o]
          /\ claim'[t] = None
      BY <1>2, <1>7 DEF CoreInv, TypeOK, Goto
    <2>3. AttemptsAreAbout'
      BY <1>1, <1>7, <2>2 DEF CoreInv, AttemptsAreAbout
    <2>4. OneAttemptPerTitle'
      BY <1>1, <1>7, <2>2 DEF CoreInv, OneAttemptPerTitle
    <2>5. ClaimFencesTitle'
      BY <1>1, <1>4, <1>7, <2>2 DEF CoreInv, ClaimFencesTitle, AttemptsAreAbout
    <2> QED BY <1>5, <2>1, <2>3, <2>4, <2>5 DEF CoreInv
  <1> QED BY <1>1, <1>6, <1>7

\* An attempt past the claims that goes on, whatever else it changes by the rules.
LEMMA MoveOnWith ==
    ASSUME CoreInv, NEW s \in Submitters, pc[s] # "idle", claim[att[s].title] = None,
           NEW p \in Steps \ {"idle"}, Goto(s, p),
           NEW a \in Attempts, att' = [att EXCEPT ![s] = a],
           a.title = att[s].title, a.id \in Ids,
           cache' \in [Titles -> TitleStates \cup {None}],
           shared' \in Listings \cup {None},
           row' \in [Ids -> Rows], OneDownloadPerJob',
           job' \in [Jobs -> [st : JobStates, tok : Ids \cup {None},
                              rel : Releases \cup {None}]],
           UNCHANGED <<claim, minted>>, blind' \subseteq Ids
    PROVE  CoreInv'
  <1>1. TypeOK'
    BY DEF CoreInv, TypeOK, Goto
  <1>2. SameAttempts
    BY DEF CoreInv, TypeOK, SameAttempts
  <1>3. Discipline'
    BY <1>2, StepOn DEF Goto
  <1> QED BY <1>1, <1>3, Together

\* An attempt past the claims that changes only its locals and, perhaps, the
\* cached state of its title or the cached listing.
LEMMA MoveOn ==
    ASSUME CoreInv, NEW s \in Submitters, pc[s] # "idle", claim[att[s].title] = None,
           NEW p \in Steps \ {"idle"}, Goto(s, p),
           NEW a \in Attempts, att' = [att EXCEPT ![s] = a],
           a.title = att[s].title, a.id = att[s].id,
           cache' \in [Titles -> TitleStates \cup {None}],
           shared' \in Listings \cup {None},
           UNCHANGED <<claim, row, minted, job, blind>>
    PROVE  CoreInv'
  <1>1. OneDownloadPerJob'
    BY BindsNothing DEF CoreInv
  <1> QED BY <1>1, MoveOnWith, Locals DEF CoreInv, TypeOK

\* An attempt that returns, whatever else it changes by the rules.
LEMMA ReturnWith ==
    ASSUME CoreInv, NEW s \in Submitters, pc[s] # "idle", Finish(s),
           att' \in [Submitters -> Attempts],
           \A o \in Submitters \ {s} : /\ att'[o].title = att[o].title
                                       /\ att'[o].id = att[o].id,
           claim' \in [Titles -> Claims \cup {None}],
           \A t \in Titles \ {att[s].title} : claim'[t] = claim[t],
           cache' \in [Titles -> TitleStates \cup {None}],
           shared' \in Listings \cup {None},
           row' \in [Ids -> Rows], OneDownloadPerJob',
           UNCHANGED <<minted, job>>, blind' \subseteq Ids
    PROVE  CoreInv'
  <1>1. TypeOK'
    BY DEF CoreInv, TypeOK, Finish, Steps
  <1>2. Discipline'
    BY Return DEF Finish
  <1> QED BY <1>1, <1>2, Together

\* The attempt goes on with the cached title state.
LEMMA UseCachedStateCoreInv ==
    ASSUME CoreInv, NEW s \in Submitters, UseCachedState(s)
    PROVE  CoreInv'
  <1> DEFINE t == att[s].title
             a == [att[s] EXCEPT !.subs = cache[t].subs, !.accepted = cache[t].accepted,
                                 !.blind = Misses(t, cache[t].subs)]
  <1>1. /\ pc[s] # "idle" /\ claim[t] = None /\ cache[t] # None
        /\ Goto(s, "snapshot") /\ UNCHANGED <<cache, shared, claim, row, minted, job, blind>>
        /\ att' = [att EXCEPT ![s] = a]
    BY Undisputed DEF UseCachedState
  <1>2. cache[t] \in TitleStates
    BY <1>1, Locals DEF CoreInv, TypeOK
  <1>3. Misses(t, cache[t].subs) \in BOOLEAN
    BY DEF Misses
  <1>4. a \in Attempts /\ a.title = att[s].title /\ a.id = att[s].id
    BY <1>2, <1>3, Locals DEF Attempts, TitleStates
  <1> HIDE DEF a
  <1> QED BY <1>1, <1>4, MoveOn DEF CoreInv, TypeOK, Steps

\* The attempt goes on with the title state it loads.
LEMMA LoadStateCoreInv ==
    ASSUME CoreInv, NEW s \in Submitters, LoadState(s)
    PROVE  CoreInv'
  <1> DEFINE t == att[s].title
             a == [att[s] EXCEPT !.subs = ListForTitle(t)]
  <1>1. /\ pc[s] # "idle" /\ claim[t] = None
        /\ Goto(s, "snapshot") /\ UNCHANGED <<shared, claim, row, minted, job, blind>>
        /\ att' = [att EXCEPT ![s] = a]
        /\ cache' = [cache EXCEPT ![t] = [subs |-> ListForTitle(t), accepted |-> {}]]
    BY Undisputed DEF LoadState
  <1>2. ListForTitle(t) \subseteq Ids
    BY DEF ListForTitle
  <1>3. cache' \in [Titles -> TitleStates \cup {None}]
    BY <1>1, <1>2 DEF CoreInv, TypeOK, TitleStates
  <1>4. a \in Attempts /\ a.title = att[s].title /\ a.id = att[s].id
    BY <1>2, Locals DEF Attempts
  <1> HIDE DEF a
  <1> QED BY <1>1, <1>3, <1>4, MoveOn DEF CoreInv, TypeOK, Steps

\* The attempt goes on with the shared listing, or needs none.
LEMMA UseSnapshotCoreInv ==
    ASSUME CoreInv, NEW s \in Submitters, UseSnapshot(s)
    PROVE  CoreInv'
  <1>1. /\ pc[s] = "snapshot" /\ claim[att[s].title] = None /\ Goto(s, "decide")
        /\ UNCHANGED <<cache, shared, claim, row, minted, job, blind>>
    BY Locals DEF UseSnapshot
  <1>2. PICK a : a \in {att[s], [att[s] EXCEPT !.listing = shared]} /\ a \in Attempts
                 /\ a.title = att[s].title /\ a.id = att[s].id
                 /\ att' = [att EXCEPT ![s] = a]
    <2>1. CASE UNCHANGED att
      BY <2>1, Locals DEF CoreInv, TypeOK
    <2>2. CASE shared # None /\ att' = [att EXCEPT ![s].listing = shared]
      BY <2>2, Locals DEF CoreInv, TypeOK, Attempts
    <2> QED BY <2>1, <2>2 DEF UseSnapshot
  <1> QED BY <1>1, <1>2, MoveOn DEF CoreInv, TypeOK, Steps

\* The attempt reads the client's queue.
LEMMA FetchCoreInv ==
    ASSUME CoreInv, NEW s \in Submitters, Fetch(s)
    PROVE  CoreInv'
  <1>1. PICK l \in {Listing, NoListing} :
            Listed(l) /\ att' = [att EXCEPT ![s].listing = l, ![s].fresh = TRUE]
    BY DEF Fetch
  <1> DEFINE a == [att[s] EXCEPT !.listing = l, !.fresh = TRUE]
  <1>2. a \in Attempts /\ a.title = att[s].title /\ a.id = att[s].id
    BY <1>1, Locals, ListingTyped DEF Attempts, CoreInv
  <1>3. att' = [att EXCEPT ![s] = a]
    BY <1>1
  <1>4. /\ pc[s] = "snapshot" /\ claim[att[s].title] = None /\ Goto(s, "fetching")
        /\ UNCHANGED <<cache, shared, claim, row, minted, job, blind>>
    BY Locals DEF Fetch
  <1> HIDE DEF a
  <1> QED BY <1>2, <1>3, <1>4, MoveOn DEF CoreInv, TypeOK, Steps

\* The listing is stored, or read again because the generation moved on.
LEMMA StoreSnapshotCoreInv ==
    ASSUME CoreInv, NEW s \in Submitters, StoreSnapshot(s)
    PROVE  CoreInv'
  <1>1. /\ pc[s] = "fetching" /\ claim[att[s].title] = None
        /\ UNCHANGED <<cache, claim, row, minted, job, blind>>
    BY Locals DEF StoreSnapshot
  <1>2. CASE shared' = att[s].listing /\ Goto(s, "decide") /\ UNCHANGED att
    <2>1. att' = [att EXCEPT ![s] = att[s]]
      BY <1>2 DEF CoreInv, TypeOK
    <2> QED BY <1>1, <1>2, <2>1, MoveOn, Locals DEF CoreInv, TypeOK, Steps
  <1>3. CASE /\ \E l \in {Listing, NoListing} :
                  /\ Listed(l)
                  /\ att' = [att EXCEPT ![s].listing = l, ![s].fresh = TRUE]
             /\ UNCHANGED <<pc, shared>>
    <2>1. PICK l \in {Listing, NoListing} :
            Listed(l) /\ att' = [att EXCEPT ![s].listing = l, ![s].fresh = TRUE]
      BY <1>3
    <2> DEFINE a == [att[s] EXCEPT !.listing = l, !.fresh = TRUE]
    <2>2. a \in Attempts /\ a.title = att[s].title /\ a.id = att[s].id
      BY <2>1, Locals, ListingTyped DEF Attempts, CoreInv
    <2>3. att' = [att EXCEPT ![s] = a]
      BY <2>1
    <2>4. Goto(s, "fetching")
      BY <1>1, <1>3 DEF Goto, CoreInv, TypeOK
    <2> HIDE DEF a
    <2> QED BY <1>1, <1>3, <2>2, <2>3, <2>4, MoveOn DEF CoreInv, TypeOK, Steps
  <1> QED BY <1>2, <1>3 DEF StoreSnapshot

\* A dead submission of the same request is deleted.
LEMMA ReplaceExistingCoreInv ==
    ASSUME CoreInv, NEW s \in Submitters, ReplaceExisting(s)
    PROVE  CoreInv'
  <1> DEFINE t == att[s].title
  <1>1. /\ pc[s] = "decide" /\ claim[t] = None /\ Goto(s, "conflicts")
        /\ UNCHANGED <<shared, claim, minted, job>>
    BY Locals DEF ReplaceExisting
  <1>2. PICK i \in Existing(s) :
            /\ row' = DeleteByItem(row[i].item)
            /\ att' = [att EXCEPT ![s].subs = @ \ {i}, ![s].accepted = @ \ {i}]
            /\ blind' = IF att[s].listing.full THEN blind ELSE blind \cup {i}
            /\ cache' = [cache EXCEPT ![t] = [subs |-> att[s].subs \ {i},
                                              accepted |-> att[s].accepted \ {i}]]
    BY DEF ReplaceExisting
  <1>3. i \in Ids
    BY Locals DEF Existing
  <1> DEFINE a == [att[s] EXCEPT !.subs = @ \ {i}, !.accepted = @ \ {i}]
  <1>4. a \in Attempts /\ a.title = att[s].title /\ a.id = att[s].id
    BY Locals DEF Attempts
  <1>5. att' = [att EXCEPT ![s] = a]
    BY <1>2
  <1> HIDE DEF a
  <1>6. cache' \in [Titles -> TitleStates \cup {None}]
    BY <1>2, Locals DEF CoreInv, TypeOK, TitleStates
  <1>7. /\ row' \in [Ids -> Rows]
        /\ \A o \in Ids : row'[o].bind = "bound" =>
                row[o].bind = "bound" /\ row'[o].item = row[o].item
    BY <1>2, DeleteTyped DEF CoreInv, TypeOK
  <1>8. OneDownloadPerJob'
    BY <1>7, BindsNothing DEF CoreInv
  <1>9. blind' \subseteq Ids /\ att[s].id \in Ids
    BY <1>1, <1>2, <1>3, Locals DEF CoreInv, TypeOK
  <1> QED BY <1>1, <1>4, <1>5, <1>6, <1>7, <1>8, <1>9, MoveOnWith DEF CoreInv, TypeOK, Steps

\* Nothing is in the attempt's way.
LEMMA NoConflictCoreInv ==
    ASSUME CoreInv, NEW s \in Submitters, NoConflict(s)
    PROVE  CoreInv'
  <1> DEFINE b == att[s].blind \/ (att[s].subs # {} /\ ~att[s].listing.full)
             a == [att[s] EXCEPT !.blind = b, !.listing = NoListing, !.fresh = FALSE]
  <1>1. /\ pc[s] \in {"decide", "conflicts"} /\ claim[att[s].title] = None
        /\ Goto(s, "prepare")
        /\ UNCHANGED <<cache, shared, claim, row, minted, job, blind>>
    BY Locals DEF NoConflict, PastExisting
  <1>2. att' = [att EXCEPT ![s] = a]
    BY DEF NoConflict
  <1>3. b \in BOOLEAN
    OBVIOUS
  <1> HIDE DEF b
  <1>4. a \in Attempts /\ a.title = att[s].title /\ a.id = att[s].id
    BY <1>3, Locals, IdleTyped DEF Attempts
  <1> HIDE DEF a
  <1> QED BY <1>1, <1>2, <1>4, MoveOn DEF CoreInv, TypeOK, Steps

\* A step of an attempt that refuses it, or ends it on an error, and changes
\* nothing else.
LEMMA EndsCoreInv ==
    ASSUME CoreInv, NEW s \in Submitters,
           \/ FailLoad(s) \/ RefuseUnresolved(s) \/ FailFetch(s) \/ AcceptExisting(s)
           \/ RefuseBlocked(s) \/ RefuseConflict(s) \/ FailPrepare(s)
    PROVE  CoreInv'
  <1>1. /\ Finish(s) /\ att' = Forget(att, s)
        /\ UNCHANGED <<cache, shared, claim, row, minted, job, blind>>
    BY DEF FailLoad, RefuseUnresolved, FailFetch, AcceptExisting, RefuseBlocked,
           RefuseConflict, FailPrepare
  <1>2. pc[s] # "idle"
    BY DEF FailLoad, RefuseUnresolved, FailFetch, AcceptExisting, RefuseBlocked,
           RefuseConflict, FailPrepare, PastClaims, PastExisting
  <1> QED BY <1>1, <1>2, ReturnOnly

\* A conflict's job is dropped by the client, or the attempt ends.
LEMMA RemoveFromClientCoreInv ==
    ASSUME CoreInv, NEW s \in Submitters, RemoveFromClient(s)
    PROVE  CoreInv'
  <1>1. /\ pc[s] \notin {"idle", "claims"} /\ claim[att[s].title] = None
        /\ UNCHANGED <<cache, shared, claim, row, minted, blind>>
    BY Locals DEF RemoveFromClient, PastExisting
  <1>2. CASE Finish(s) /\ att' = Forget(att, s) /\ UNCHANGED job
    BY <1>1, <1>2, ReturnOnly
  <1>3. CASE \E i \in Conflicts(s) :
                /\ att' = [att EXCEPT ![s].item = row[i].item]
                /\ job' = [job EXCEPT ![row[i].item].st =
                              IF @ \in OnClient THEN "removed" ELSE @]
                /\ Goto(s, "replaced")
    <2>1. PICK i \in Conflicts(s) :
                /\ att' = [att EXCEPT ![s].item = row[i].item]
                /\ job' = [job EXCEPT ![row[i].item].st =
                              IF @ \in OnClient THEN "removed" ELSE @]
                /\ Goto(s, "replaced")
      BY <1>3
    <2>2. i \in Ids
      BY Locals DEF Conflicts
    <2>3. row[i].item \in Jobs \cup {None}
      BY <2>2 DEF CoreInv, TypeOK, Rows
    <2> DEFINE a == [att[s] EXCEPT !.item = row[i].item]
    <2>4. a \in Attempts /\ a.title = att[s].title /\ a.id = att[s].id
      BY <2>3, Locals DEF Attempts
    <2>5. att' = [att EXCEPT ![s] = a]
      BY <2>1
    <2> HIDE DEF a
    <2>6. job' \in [Jobs -> [st : JobStates, tok : Ids \cup {None},
                             rel : Releases \cup {None}]]
      BY <2>1, ZenonT(60) DEF CoreInv, TypeOK, JobStates
    <2>7. att[s].id \in Ids /\ OneDownloadPerJob'
      BY <1>1, Locals, BindsNothing DEF CoreInv
    <2> QED BY <1>1, <2>1, <2>4, <2>5, <2>6, <2>7, MoveOnWith DEF CoreInv, TypeOK, Steps
  <1> QED BY <1>2, <1>3 DEF RemoveFromClient

\* The row of the job just removed is deleted.
LEMMA DeleteReplacedCoreInv ==
    ASSUME CoreInv, NEW s \in Submitters, DeleteReplaced(s)
    PROVE  CoreInv'
  <1> DEFINE t == att[s].title
             after == DeleteByItem(att[s].item)
             left == {i \in Ids : after[i].sub /\ after[i].title = t /\ after[i].item # None}
             kept == att[s].subs \ {i \in att[s].subs : row[i].item = att[s].item}
             a == [att[s] EXCEPT !.subs = left, !.accepted = {}, !.item = None,
                                 !.listing = NoListing, !.fresh = FALSE]
             b == [att[s] EXCEPT !.subs = kept, !.item = None]
  <1>1. /\ pc[s] = "replaced" /\ claim[t] = None /\ row' = after
        /\ UNCHANGED <<cache, shared, claim, minted, job, blind>>
        /\ \/ att' = [att EXCEPT ![s] = a] /\ Goto(s, "prepare")
           \/ att' = [att EXCEPT ![s] = b] /\ Goto(s, "replacing")
    BY Locals DEF DeleteReplaced
  <1>2. /\ row' \in [Ids -> Rows]
        /\ \A o \in Ids : row'[o].bind = "bound" =>
                row[o].bind = "bound" /\ row'[o].item = row[o].item
    BY <1>1, DeleteTyped DEF CoreInv, TypeOK
  <1>3. OneDownloadPerJob'
    BY <1>2, BindsNothing DEF CoreInv
  <1>4. left \subseteq Ids /\ kept \subseteq Ids /\ att[s].id \in Ids
    BY <1>1, Locals
  <1> HIDE DEF left, kept
  <1>5. /\ a \in Attempts /\ a.title = att[s].title /\ a.id = att[s].id
        /\ b \in Attempts /\ b.title = att[s].title /\ b.id = att[s].id
    BY <1>4, Locals, IdleTyped DEF Attempts
  <1> HIDE DEF a, b
  <1>6. CASE att' = [att EXCEPT ![s] = a] /\ Goto(s, "prepare")
    BY <1>1, <1>2, <1>3, <1>4, <1>5, <1>6, MoveOnWith DEF CoreInv, TypeOK, Steps
  <1>7. CASE att' = [att EXCEPT ![s] = b] /\ Goto(s, "replacing")
    BY <1>1, <1>2, <1>3, <1>4, <1>5, <1>7, MoveOnWith DEF CoreInv, TypeOK, Steps
  <1> QED BY <1>1, <1>6, <1>7

\* A returning attempt that changes, besides its locals, at most the rows, the
\* claim on its title and the cached state.
LEMMA EndWith ==
    ASSUME CoreInv, NEW s \in Submitters, pc[s] # "idle", Finish(s),
           att' = Forget(att, s),
           claim' \in [Titles -> Claims \cup {None}],
           \A t \in Titles \ {att[s].title} : claim'[t] = claim[t],
           cache' \in [Titles -> TitleStates \cup {None}],
           row' \in [Ids -> Rows], OneDownloadPerJob',
           UNCHANGED <<shared, minted, job>>, blind' \subseteq Ids
    PROVE  CoreInv'
  <1>1. /\ att' \in [Submitters -> Attempts]
        /\ \A o \in Submitters \ {s} : att'[o] = att[o]
    BY ForgetTyped DEF CoreInv, TypeOK
  <1> QED BY <1>1, ReturnWith DEF CoreInv, TypeOK

\* The attempt ends in the middle of a replacement.
LEMMA FailReplaceCoreInv ==
    ASSUME CoreInv, NEW s \in Submitters, FailReplace(s)
    PROVE  CoreInv'
  <1>1. /\ pc[s] \in {"replaced", "decide"} /\ Finish(s) /\ att' = Forget(att, s)
        /\ UNCHANGED <<cache, shared, claim, minted, job, blind>>
        /\ row' = row \/ row' = DeleteByItem(att[s].item)
    BY DEF FailReplace
  <1>2. /\ row' \in [Ids -> Rows]
        /\ \A o \in Ids : row'[o].bind = "bound" =>
                row[o].bind = "bound" /\ row'[o].item = row[o].item
    BY <1>1, DeleteTyped DEF CoreInv, TypeOK
  <1>3. OneDownloadPerJob'
    BY <1>2, BindsNothing DEF CoreInv
  <1> QED BY <1>1, <1>2, <1>3, EndWith DEF CoreInv, TypeOK

\* A store step that records an intent or withdraws one binds nothing.
LEMMA PendingTyped ==
    ASSUME CoreInv, NEW i \in Ids, NEW t \in Titles, NEW f \in Purposes \cup {NoPurpose},
           row' = row \/ row' = RecordPending(row, i, t, f) \/ row' = Withdraw(row, i)
    PROVE  row' \in [Ids -> Rows] /\ OneDownloadPerJob'
  <1>1. /\ row' \in [Ids -> Rows]
        /\ \A o \in Ids : row'[o].bind = "bound" =>
                row[o].bind = "bound" /\ row'[o].item = row[o].item
    BY RecordPendingTyped, WithdrawTyped DEF CoreInv, TypeOK
  <1> QED BY <1>1, BindsNothing DEF CoreInv

\* The intent is durable before the request leaves.
LEMMA RecordIntentCoreInv ==
    ASSUME CoreInv, NEW s \in Submitters, RecordIntent(s)
    PROVE  CoreInv'
  <1>1. /\ pc[s] = "prepare" /\ claim[att[s].title] = None
        /\ UNCHANGED <<cache, shared, claim, minted, job>>
        /\ row' = RecordPending(row, att[s].id, att[s].title, att[s].for)
        /\ att[s].title \in Titles /\ att[s].id \in Ids
    BY Locals DEF RecordIntent
  <1>2. row' \in [Ids -> Rows] /\ OneDownloadPerJob'
    BY <1>1, PendingTyped, Locals
  <1>3. blind' \subseteq Ids
    BY <1>1 DEF RecordIntent, CoreInv, TypeOK
  <1>4. CASE Finish(s) /\ att' = Forget(att, s)
    BY <1>1, <1>2, <1>3, <1>4, EndWith DEF CoreInv, TypeOK
  <1>5. CASE Goto(s, "submitting") /\ UNCHANGED att
    <2>1. att' = [att EXCEPT ![s] = att[s]] /\ att[s] \in Attempts
      BY <1>5 DEF CoreInv, TypeOK
    <2> QED BY <1>1, <1>2, <1>3, <1>5, <2>1, MoveOnWith DEF CoreInv, TypeOK, Steps
  <1> QED BY <1>4, <1>5 DEF RecordIntent

\* The client's answer changes the attempt's answer and item, and nothing else
\* of its locals.
LEMMA AnswerTyped ==
    ASSUME CoreInv, NEW s \in Submitters, NEW r \in Answers, NEW j \in Jobs \cup {None}
    PROVE  /\ [att[s] EXCEPT !.answer = r, !.item = j] \in Attempts
           /\ [att[s] EXCEPT !.answer = r, !.item = j].title = att[s].title
           /\ [att[s] EXCEPT !.answer = r, !.item = j].id = att[s].id
  BY Locals DEF Attempts

\* An answered attempt keeps the invariant, whatever the client has done.
LEMMA Answered ==
    ASSUME CoreInv, NEW s \in Submitters, pc[s] = "submitting", Goto(s, "answered"),
           NEW r \in Answers, NEW j \in Jobs \cup {None},
           att' = [att EXCEPT ![s] = [att[s] EXCEPT !.answer = r, !.item = j]],
           job' \in [Jobs -> [st : JobStates, tok : Ids \cup {None},
                              rel : Releases \cup {None}]],
           UNCHANGED <<cache, shared, claim, row, minted, blind>>
    PROVE  CoreInv'
  <1> DEFINE a == [att[s] EXCEPT !.answer = r, !.item = j]
  <1>1. a \in Attempts /\ a.title = att[s].title /\ a.id = att[s].id
    BY AnswerTyped
  <1>2. att' = [att EXCEPT ![s] = a]
    OBVIOUS
  <1> HIDE DEF a
  <1>3. att[s].id \in Ids /\ claim[att[s].title] = None /\ OneDownloadPerJob'
    BY Locals, BindsNothing DEF CoreInv
  <1> QED BY <1>1, <1>2, <1>3, MoveOnWith DEF CoreInv, TypeOK, Steps

\* An answer that names no item leaves the attempt's item as it was.
LEMMA AnsweredWithoutItem ==
    ASSUME CoreInv, NEW s \in Submitters, pc[s] = "submitting", Goto(s, "answered"),
           NEW r \in Answers, att' = [att EXCEPT ![s].answer = r],
           job' \in [Jobs -> [st : JobStates, tok : Ids \cup {None},
                              rel : Releases \cup {None}]],
           UNCHANGED <<cache, shared, claim, row, minted, blind>>
    PROVE  CoreInv'
  <1> DEFINE a == [att[s] EXCEPT !.answer = r]
  <1>1. a \in Attempts /\ a.title = att[s].title /\ a.id = att[s].id
    BY Locals DEF Attempts
  <1>2. att' = [att EXCEPT ![s] = a]
    OBVIOUS
  <1> HIDE DEF a
  <1>3. att[s].id \in Ids /\ claim[att[s].title] = None /\ OneDownloadPerJob'
    BY Locals, BindsNothing DEF CoreInv
  <1> QED BY <1>1, <1>2, <1>3, MoveOnWith DEF CoreInv, TypeOK, Steps

\* The client takes the release.
LEMMA ClientTakesCoreInv ==
    ASSUME CoreInv, NEW s \in Submitters, ClientTakes(s)
    PROVE  CoreInv'
  <1>1. /\ pc[s] = "submitting" /\ Goto(s, "answered")
        /\ UNCHANGED <<cache, shared, claim, row, minted, blind>>
    BY DEF ClientTakes
  <1>2. PICK j \in Jobs :
          /\ job' = [job EXCEPT ![j] = [st |-> "queued", tok |-> att[s].id,
                                        rel |-> att[s].for.rel]]
          /\ \/ att' = [att EXCEPT ![s].answer = "ok", ![s].item = j]
             \/ att' = [att EXCEPT ![s].answer = "ambiguous"]
    BY DEF ClientTakes
  <1>3. att[s].for.rel \in Releases \cup {None} /\ att[s].id \in Ids
    BY <1>1, Locals, ReleaseTyped
  <1>4. job' \in [Jobs -> [st : JobStates, tok : Ids \cup {None},
                           rel : Releases \cup {None}]]
    BY <1>2, <1>3 DEF CoreInv, TypeOK, JobStates, OnClient
  <1>5. CASE att' = [att EXCEPT ![s].answer = "ok", ![s].item = j]
    <2>1. att' = [att EXCEPT ![s] = [att[s] EXCEPT !.answer = "ok", !.item = j]]
      BY <1>5
    <2>2. "ok" \in Answers
      BY DEF Answers
    <2> QED BY <1>1, <1>4, <2>1, <2>2, Answered
  <1>6. CASE att' = [att EXCEPT ![s].answer = "ambiguous"]
    <2>1. "ambiguous" \in Answers
      BY DEF Answers
    <2> QED BY <1>1, <1>4, <1>6, <2>1, AnsweredWithoutItem
  <1> QED BY <1>2, <1>5, <1>6

\* The client already holds the release.
LEMMA ClientHoldsCoreInv ==
    ASSUME CoreInv, NEW s \in Submitters, ClientHolds(s)
    PROVE  CoreInv'
  <1>1. /\ pc[s] = "submitting" /\ Goto(s, "answered")
        /\ UNCHANGED <<cache, shared, claim, row, minted, job, blind>>
    BY DEF ClientHolds
  <1>2. PICK j \in Jobs :
          \/ att' = [att EXCEPT ![s].answer = "ok", ![s].item = j]
          \/ att' = [att EXCEPT ![s].answer = "other"]
    BY DEF ClientHolds
  <1>3. CASE att' = [att EXCEPT ![s].answer = "ok", ![s].item = j]
    <2>1. att' = [att EXCEPT ![s] = [att[s] EXCEPT !.answer = "ok", !.item = j]]
      BY <1>3
    <2>2. "ok" \in Answers
      BY DEF Answers
    <2> QED BY <1>1, <2>1, <2>2, Answered DEF CoreInv, TypeOK
  <1>4. CASE att' = [att EXCEPT ![s].answer = "other"]
    <2>1. "other" \in Answers
      BY DEF Answers
    <2> QED BY <1>1, <1>4, <2>1, AnsweredWithoutItem DEF CoreInv, TypeOK
  <1> QED BY <1>2, <1>3, <1>4

\* The client refuses, or does nothing and its answer is lost.
LEMMA ClientDeclinesCoreInv ==
    ASSUME CoreInv, NEW s \in Submitters, ClientDeclines(s)
    PROVE  CoreInv'
  <1>1. /\ pc[s] = "submitting" /\ Goto(s, "answered")
        /\ UNCHANGED <<cache, shared, claim, row, minted, job, blind>>
    BY DEF ClientDeclines
  <1>2. PICK r \in {"refused", "ambiguous"} : att' = [att EXCEPT ![s].answer = r]
    BY DEF ClientDeclines
  <1>3. r \in Answers
    BY DEF Answers
  <1> QED BY <1>1, <1>2, <1>3, AnsweredWithoutItem DEF CoreInv, TypeOK

\* A returning attempt that also invalidates the listing.
LEMMA EndInvalidating ==
    ASSUME CoreInv, NEW s \in Submitters, pc[s] # "idle", Finish(s),
           Invalidate(Forget(att, s)),
           claim' \in [Titles -> Claims \cup {None}],
           \A t \in Titles \ {att[s].title} : claim'[t] = claim[t],
           row' \in [Ids -> Rows], OneDownloadPerJob',
           UNCHANGED <<cache, minted, job, blind>>
    PROVE  CoreInv'
  <1> DEFINE f == Forget(att, s)
  <1>1. f \in [Submitters -> Attempts] /\ \A o \in Submitters \ {s} : f[o] = att[o]
    BY ForgetTyped DEF CoreInv, TypeOK
  <1>2. Invalidate(f)
    OBVIOUS
  <1> HIDE DEF f
  <1>3. /\ shared' = None /\ att' \in [Submitters -> Attempts]
        /\ \A o \in Submitters : att'[o].title = f[o].title /\ att'[o].id = f[o].id
    BY <1>1, <1>2, InvalidateTyped
  <1>4. \A o \in Submitters \ {s} : att'[o].title = att[o].title /\ att'[o].id = att[o].id
    BY <1>1, <1>3
  <1> QED BY <1>3, <1>4, ReturnWith DEF CoreInv, TypeOK

\* An unresolved answer.
LEMMA AmbiguityCoreInv ==
    ASSUME CoreInv, NEW s \in Submitters, Ambiguity(s)
    PROVE  CoreInv'
  <1> DEFINE C(known) == Ambiguous(att[s].id, att[s].title, att[s].for, known)
  <1>1. /\ pc[s] = "answered" /\ Finish(s) /\ Invalidate(Forget(att, s))
        /\ UNCHANGED <<cache, minted, job, blind>>
        /\ \/ row' = RecordPending(row, att[s].id, att[s].title, att[s].for)
              /\ UNCHANGED claim
           \/ /\ \E known \in BOOLEAN :
                    claim' = [claim EXCEPT ![att[s].title] = C(known)]
              /\ UNCHANGED row
    BY DEF Ambiguity
  <1>2. /\ att[s].title \in Titles /\ att[s].id \in Ids
        /\ att[s].for \in Purposes \cup {NoPurpose}
    BY <1>1, Locals
  <1>3. row' \in [Ids -> Rows] /\ OneDownloadPerJob'
    BY <1>1, <1>2, PendingTyped
  <1>4. \A known \in BOOLEAN : C(known) \in Claims
    BY <1>2 DEF Ambiguous, Claims
  <1> HIDE DEF C
  <1>5. /\ claim' \in [Titles -> Claims \cup {None}]
        /\ \A t \in Titles \ {att[s].title} : claim'[t] = claim[t]
    BY <1>1, <1>4 DEF CoreInv, TypeOK
  <1> QED BY <1>1, <1>3, <1>5, EndInvalidating

\* A refused request.
LEMMA RefusalCoreInv ==
    ASSUME CoreInv, NEW s \in Submitters, Refusal(s)
    PROVE  CoreInv'
  <1>1. /\ pc[s] = "answered" /\ Finish(s) /\ Invalidate(Forget(att, s))
        /\ UNCHANGED <<cache, claim, minted, job, blind>>
        /\ row' = row \/ row' = Withdraw(row, att[s].id)
    BY DEF Refusal
  <1>2. /\ att[s].title \in Titles /\ att[s].id \in Ids
        /\ att[s].for \in Purposes \cup {NoPurpose}
    BY <1>1, Locals
  <1>3. row' \in [Ids -> Rows] /\ OneDownloadPerJob'
    BY <1>1, <1>2, PendingTyped
  <1> QED BY <1>1, <1>3, EndInvalidating DEF CoreInv, TypeOK

\* An accepted request.
LEMMA AcceptanceCoreInv ==
    ASSUME CoreInv, NEW s \in Submitters, Acceptance(s)
    PROVE  CoreInv'
  <1>1. /\ pc[s] = "answered" /\ claim[att[s].title] = None /\ Goto(s, "recording")
        /\ Invalidate(att)
        /\ UNCHANGED <<cache, claim, row, minted, job, blind>>
    BY Locals DEF Acceptance
  <1>2. /\ shared' = None /\ att' \in [Submitters -> Attempts]
        /\ \A o \in Submitters : att'[o].title = att[o].title /\ att'[o].id = att[o].id
    BY <1>1, InvalidateTyped DEF CoreInv, TypeOK
  <1>3. SameAttempts
    BY <1>2 DEF SameAttempts
  <1>4. Discipline'
    BY <1>1, <1>3, StepOn DEF Goto, Steps
  <1>5. TypeOK'
    BY <1>1, <1>2 DEF CoreInv, TypeOK, Goto, Steps
  <1>6. OneDownloadPerJob'
    BY <1>1, BindsNothing DEF CoreInv
  <1> QED BY <1>4, <1>5, <1>6, Together

\* Remembering a submission keeps the cached title states well formed.
LEMMA RememberTyped ==
    ASSUME CoreInv, NEW s \in Submitters, NEW i \in Ids
    PROVE  Remember(s, i) \in [Titles -> TitleStates \cup {None}]
  BY Locals DEF Remember, CoreInv, TypeOK, TitleStates

\* A claim left on an attempt's title touches no other title.
LEMMA ClaimTyped ==
    ASSUME CoreInv, NEW t, NEW c \in Claims \cup {None}, claim' = [claim EXCEPT ![t] = c]
    PROVE  /\ claim' \in [Titles -> Claims \cup {None}]
           /\ \A u \in Titles \ {t} : claim'[u] = claim[u]
  BY DEF CoreInv, TypeOK

\* The acceptance is recorded.
LEMMA RecordCoreInv ==
    ASSUME CoreInv, NEW s \in Submitters, Record(s)
    PROVE  CoreInv'
  <1>1. /\ pc[s] = "recording" /\ Finish(s) /\ att' = Forget(att, s)
        /\ row' = RecordAccepted(att[s].id, att[s].item, att[s].title, att[s].for)
        /\ cache' = Remember(s, att[s].id)
        /\ UNCHANGED <<shared, claim, minted, job, blind>>
    BY DEF Record
  <1>2. /\ att[s].title \in Titles /\ att[s].id \in Ids
        /\ att[s].for \in Purposes \cup {NoPurpose} /\ att[s].item \in Jobs \cup {None}
    BY <1>1, Locals
  <1>3. row' \in [Ids -> Rows] /\ OneDownloadPerJob'
    BY <1>1, <1>2, Accepts
  <1>4. cache' \in [Titles -> TitleStates \cup {None}]
    BY <1>1, <1>2, RememberTyped
  <1> QED BY <1>1, <1>3, <1>4, EndWith DEF CoreInv, TypeOK

\* The acceptance cannot be recorded: a claim is left behind.
LEMMA FailRecordCoreInv ==
    ASSUME CoreInv, NEW s \in Submitters, FailRecord(s)
    PROVE  CoreInv'
  <1> DEFINE c == [kind |-> "accepted", id |-> att[s].id, item |-> att[s].item,
                   for |-> att[s].for, known |-> TRUE]
  <1>1. /\ pc[s] = "recording" /\ Finish(s) /\ att' = Forget(att, s)
        /\ claim' = [claim EXCEPT ![att[s].title] = c]
        /\ UNCHANGED <<cache, shared, row, minted, job, blind>>
    BY DEF FailRecord
  <1>2. c \in Claims
    BY <1>1, Locals DEF Claims
  <1> HIDE DEF c
  <1>3. /\ claim' \in [Titles -> Claims \cup {None}]
        /\ \A u \in Titles \ {att[s].title} : claim'[u] = claim[u]
    BY <1>1, <1>2, ClaimTyped
  <1>4. OneDownloadPerJob'
    BY <1>1, BindsNothing DEF CoreInv
  <1> QED BY <1>1, <1>3, <1>4, EndWith DEF CoreInv, TypeOK

\* The job is another download's.
LEMMA RecordAdoptsCoreInv ==
    ASSUME CoreInv, NEW s \in Submitters, RecordAdopts(s)
    PROVE  CoreInv'
  <1>1. /\ pc[s] = "recording" /\ claim[att[s].title] = None /\ Goto(s, "adopting")
        /\ row' = Withdraw(row, att[s].id)
        /\ UNCHANGED <<cache, shared, claim, minted, job, blind>>
    BY Locals DEF RecordAdopts
  <1>2. PICK o \in Ids : att' = [att EXCEPT ![s].id = o]
    BY DEF RecordAdopts, Bound
  <1> DEFINE a == [att[s] EXCEPT !.id = o]
  <1>3. a \in Attempts /\ a.title = att[s].title /\ a.id \in Ids
    BY Locals DEF Attempts
  <1>4. att' = [att EXCEPT ![s] = a]
    BY <1>2
  <1> HIDE DEF a
  <1>5. /\ att[s].title \in Titles /\ att[s].id \in Ids
        /\ att[s].for \in Purposes \cup {NoPurpose}
    BY <1>1, Locals
  <1>6. row' \in [Ids -> Rows] /\ OneDownloadPerJob'
    BY <1>1, <1>5, PendingTyped
  <1> QED BY <1>1, <1>3, <1>4, <1>6, MoveOnWith DEF CoreInv, TypeOK, Steps

\* A download the job resolved to is adopted, rejected, fenced or to be claimed.
LEMMA AdoptCoreInv ==
    ASSUME CoreInv, NEW s \in Submitters, Adopt(s)
    PROVE  CoreInv'
  <1> DEFINE t == att[s].title
             o == att[s].id
             c == Ambiguous(o, t, NoPurpose, FALSE)
  <1>1. /\ pc[s] = "adopting" /\ claim[t] = None /\ t \in Titles /\ o \in Ids
        /\ UNCHANGED <<shared, row, minted, job, blind>>
    BY Locals DEF Adopt
  <1>2. c \in Claims
    BY <1>1 DEF Ambiguous, Claims
  <1>3. OneDownloadPerJob'
    BY <1>1, BindsNothing DEF CoreInv
  <1> HIDE DEF c
  <1>4. CASE /\ Finish(s) /\ att' = Forget(att, s)
             /\ claim' = claim \/ claim' = [claim EXCEPT ![t] = c]
             /\ cache' = cache \/ cache' = Remember(s, o)
    <2>1. /\ claim' \in [Titles -> Claims \cup {None}]
          /\ \A u \in Titles \ {att[s].title} : claim'[u] = claim[u]
      BY <1>2, <1>4, ClaimTyped DEF CoreInv, TypeOK
    <2>2. cache' \in [Titles -> TitleStates \cup {None}]
      BY <1>1, <1>4, RememberTyped DEF CoreInv, TypeOK
    <2> QED BY <1>1, <1>3, <1>4, <2>1, <2>2, EndWith DEF CoreInv, TypeOK
  <1>5. CASE Goto(s, "claiming") /\ UNCHANGED <<att, cache, claim>>
    <2>1. att' = [att EXCEPT ![s] = att[s]] /\ att[s] \in Attempts
      BY <1>5 DEF CoreInv, TypeOK
    <2> QED BY <1>1, <1>5, <2>1, MoveOn DEF CoreInv, TypeOK, Steps
  <1> QED BY <1>4, <1>5 DEF Adopt, c

\* A tracker's stub becomes the title's submission, a claim, or a third
\* download's.
LEMMA ClaimStubCoreInv ==
    ASSUME CoreInv, NEW s \in Submitters, ClaimStub(s)
    PROVE  CoreInv'
  <1> DEFINE t == att[s].title
             o == att[s].id
             j == att[s].item
             c == [kind |-> "accepted", id |-> o, item |-> j,
                   for |-> att[s].for, known |-> TRUE]
  <1>1. /\ pc[s] = "claiming" /\ Finish(s) /\ att' = Forget(att, s)
        /\ UNCHANGED <<shared, minted, job, blind>>
    BY DEF ClaimStub
  <1>2. /\ t \in Titles /\ o \in Ids /\ j \in Jobs \cup {None}
        /\ att[s].for \in Purposes \cup {NoPurpose}
    BY <1>1, Locals
  <1>3. c \in Claims
    BY <1>2 DEF Claims
  <1> HIDE DEF c
  <1>4. row' \in [Ids -> Rows] /\ OneDownloadPerJob'
    <2>1. \/ row' = RecordAccepted(o, j, t, att[s].for)
          \/ row' = row \/ row' = Withdraw(row, o)
      BY DEF ClaimStub
    <2> QED BY <1>2, <2>1, Accepts, PendingTyped
  <1>5. cache' \in [Titles -> TitleStates \cup {None}]
    <2>1. cache' = cache \/ cache' = Remember(s, o)
      BY DEF ClaimStub
    <2> QED BY <1>2, <2>1, RememberTyped DEF CoreInv, TypeOK
  <1>6. /\ claim' \in [Titles -> Claims \cup {None}]
        /\ \A u \in Titles \ {att[s].title} : claim'[u] = claim[u]
    <2>1. CASE UNCHANGED claim
      BY <2>1 DEF CoreInv, TypeOK
    <2>2. CASE claim' = [claim EXCEPT ![t] = c]
      BY <1>3, <2>2, ClaimTyped
    <2>3. CASE \E r \in Ids : claim' = [claim EXCEPT ![t] = IF row[r].sub THEN @
                                           ELSE Ambiguous(r, t, NoPurpose, FALSE)]
      <3>1. PICK r \in Ids : claim' = [claim EXCEPT ![t] =
                                 IF row[r].sub THEN claim[t]
                                 ELSE Ambiguous(r, t, NoPurpose, FALSE)]
        BY <2>3
      <3>2. Ambiguous(r, t, NoPurpose, FALSE) \in Claims
        BY DEF Ambiguous, Claims
      <3> QED BY <1>2, <3>1, <3>2 DEF CoreInv, TypeOK
    <2> QED BY <2>1, <2>2, <2>3 DEF ClaimStub, c, Bound
  <1> QED BY <1>1, <1>4, <1>5, <1>6, EndWith DEF CoreInv, TypeOK

-----------------------------------------------------------------------------
(* What the others do.                                                      *)

\* A step beside the attempts that keeps the store's promise keeps the rest.
LEMMA BesideWith ==
    ASSUME CoreInv, UNCHANGED <<pc, claim>>,
           att' \in [Submitters -> Attempts],
           \A o \in Submitters : att'[o].title = att[o].title /\ att'[o].id = att[o].id,
           cache' \in [Titles -> TitleStates \cup {None}],
           shared' \in Listings \cup {None},
           row' \in [Ids -> Rows], OneDownloadPerJob', minted' \subseteq Ids,
           job' \in [Jobs -> [st : JobStates, tok : Ids \cup {None},
                              rel : Releases \cup {None}]],
           UNCHANGED blind
    PROVE  CoreInv'
  <1>1. TypeOK'
    BY DEF CoreInv, TypeOK
  <1>2. SameAttempts
    BY DEF SameAttempts
  <1>3. Discipline'
    BY <1>2, Beside
  <1> QED BY <1>1, <1>3, Together

\* What the client does by itself.
LEMMA ClientCoreInv ==
    ASSUME CoreInv, NEW j \in Jobs,
           \/ \E r \in Releases : ForeignJob(j, r)
           \/ \E st \in JobStates : Progress(j, st)
    PROVE  CoreInv'
  <1>1. UNCHANGED <<pc, att, cache, shared, claim, row, minted, blind>>
    BY DEF ForeignJob, Progress, memory
  <1>2. job' \in [Jobs -> [st : JobStates, tok : Ids \cup {None},
                           rel : Releases \cup {None}]]
    <2>1. CASE \E r \in Releases : ForeignJob(j, r)
      BY <2>1 DEF CoreInv, TypeOK, ForeignJob, JobStates, OnClient
    <2>2. CASE \E st \in JobStates : Progress(j, st)
      <3>1. PICK st \in JobStates : job' = [job EXCEPT ![j].st = st]
        BY <2>2 DEF Progress
      <3> QED BY <3>1 DEF CoreInv, TypeOK
    <2> QED BY <2>1, <2>2
  <1>3. OneDownloadPerJob'
    BY <1>1, BindsNothing DEF CoreInv
  <1> QED BY <1>1, <1>2, <1>3, BesideWith DEF CoreInv, TypeOK

\* An intent is bound to a job no download is bound to.
LEMMA BindIntent ==
    ASSUME CoreInv, NEW j \in Jobs, NEW i \in Ids, Bound(j) = {},
           row' = [row EXCEPT ![i].bind = "bound", ![i].item = j],
           cache' \in [Titles -> TitleStates \cup {None}],
           UNCHANGED <<pc, att, shared, claim, minted, job, blind>>
    PROVE  CoreInv'
  <1> DEFINE r == [row[i] EXCEPT !.bind = "bound", !.item = j]
  <1>0. r \in Rows /\ r.item = j
    BY DEF CoreInv, TypeOK, Rows
  <1>1. row' = [row EXCEPT ![i] = r]
    OBVIOUS
  <1> HIDE DEF r
  <1>2. /\ row' \in [Ids -> Rows] /\ row'[i].item = j
        /\ \A o \in Ids \ {i} : row'[o] = row[o]
    BY <1>0, <1>1 DEF CoreInv, TypeOK
  <1>3. \A o \in Ids \ {i} : row'[o].bind = "bound" =>
                /\ row[o].bind = "bound" /\ row'[o].item = row[o].item
                /\ row[o].item # row'[i].item
    BY <1>2 DEF Bound
  <1>4. OneDownloadPerJob'
    BY <1>3, BindsOne DEF CoreInv
  <1> QED BY <1>2, <1>4, BesideWith DEF CoreInv, TypeOK

\* The observer binds an intent by its token.
LEMMA ObserveIntentCoreInv ==
    ASSUME CoreInv, NEW j \in Jobs, ObserveIntent(j)
    PROVE  CoreInv'
  <1>1. job[j].tok \in Ids
    BY DEF ObserveIntent, CoreInv, TypeOK
  <1>2. UNCHANGED <<pc, att, cache, shared, claim, minted, job, blind>>
    BY DEF ObserveIntent, memory
  <1> QED BY <1>1, <1>2, BindIntent DEF ObserveIntent, CoreInv, TypeOK

\* The observer binds an intent by its name.
LEMMA ObserveByNameCoreInv ==
    ASSUME CoreInv, NEW j \in Jobs, ObserveByName(j)
    PROVE  CoreInv'
  <1>1. PICK i \in Ids : row' = [row EXCEPT ![i].bind = "bound", ![i].item = j]
    BY DEF ObserveByName
  <1>2. UNCHANGED <<pc, att, cache, shared, claim, minted, job, blind>>
    BY DEF ObserveByName, memory
  <1> QED BY <1>1, <1>2, BindIntent DEF ObserveByName, CoreInv, TypeOK

\* The observer gives a foreign job a download of its own.
LEMMA ObserveForeignCoreInv ==
    ASSUME CoreInv, NEW j \in Jobs, NEW i \in Ids, ObserveForeign(j, i)
    PROVE  CoreInv'
  <1> DEFINE r == [NoRow EXCEPT !.bind = "bound", !.item = j]
  <1>1. r \in Rows /\ r.item = j
    BY NoRowTyped DEF NoRow, Rows
  <1> HIDE DEF r
  <1>2. /\ row' = [row EXCEPT ![i] = r] /\ minted' = minted \cup {i}
        /\ UNCHANGED <<memory, job, blind>> /\ \A o \in Ids : row[o].item # j
    BY DEF ObserveForeign, r
  <1>3. row' \in [Ids -> Rows] /\ row'[i] = r /\ \A o \in Ids \ {i} : row'[o] = row[o]
    BY <1>1, <1>2 DEF CoreInv, TypeOK
  <1>4. OneDownloadPerJob'
    BY <1>1, <1>2, <1>3, BindsOne DEF CoreInv
  <1> QED BY <1>2, <1>3, <1>4, BesideWith DEF CoreInv, TypeOK, memory

\* The tracker records a stub.
LEMMA RecordStubCoreInv ==
    ASSUME CoreInv, NEW i \in Ids, RecordStub(i)
    PROVE  CoreInv'
  <1>1. row' = [row EXCEPT ![i].sub = TRUE] /\ UNCHANGED <<memory, minted, job, blind>>
    BY DEF RecordStub
  <1>2. /\ row' \in [Ids -> Rows]
        /\ \A o \in Ids : row'[o].bind = row[o].bind /\ row'[o].item = row[o].item
    BY <1>1, ZenonT(60) DEF CoreInv, TypeOK, Rows
  <1>3. OneDownloadPerJob'
    BY <1>2, BindsNothing DEF CoreInv
  <1> QED BY <1>1, <1>2, <1>3, BesideWith DEF CoreInv, TypeOK, memory

\* A download settles.
LEMMA SettleCoreInv ==
    ASSUME CoreInv, NEW i \in Ids, Settle(i)
    PROVE  CoreInv'
  <1>1. /\ row' = [row EXCEPT ![i].done = TRUE] /\ Invalidate(att)
        /\ cache' = [cache EXCEPT ![row[i].title] = None]
        /\ UNCHANGED <<pc, claim, minted, job, blind>>
    BY DEF Settle
  <1>2. /\ row' \in [Ids -> Rows]
        /\ \A o \in Ids : row'[o].bind = row[o].bind /\ row'[o].item = row[o].item
    BY <1>1, ZenonT(60) DEF CoreInv, TypeOK, Rows
  <1>3. OneDownloadPerJob'
    BY <1>2, BindsNothing DEF CoreInv
  <1>4. /\ shared' = None /\ att' \in [Submitters -> Attempts]
        /\ \A o \in Submitters : att'[o].title = att[o].title /\ att'[o].id = att[o].id
    BY <1>1, InvalidateTyped DEF CoreInv, TypeOK
  <1>5. cache' \in [Titles -> TitleStates \cup {None}]
    BY <1>1 DEF CoreInv, TypeOK
  <1> QED BY <1>1, <1>2, <1>3, <1>4, <1>5, BesideWith DEF CoreInv, TypeOK

\* A binding ends.
LEMMA EndTyped ==
    ASSUME CoreInv, NEW i \in Ids, row' = [row EXCEPT ![i].bind = "ended"]
    PROVE  row' \in [Ids -> Rows] /\ OneDownloadPerJob'
  <1>1. /\ row' \in [Ids -> Rows]
        /\ \A o \in Ids : row'[o].item = row[o].item
        /\ \A o \in Ids : row'[o].bind = "bound" => row[o].bind = "bound"
    BY DEF CoreInv, TypeOK, Rows
  <1> QED BY <1>1, BindsNothing DEF CoreInv

\* The job of a bound download is no longer listed.
LEMMA RecordMissingCoreInv ==
    ASSUME CoreInv, NEW i \in Ids, RecordMissing(i)
    PROVE  CoreInv'
  <1>1. UNCHANGED <<pc, claim, minted, job, blind>>
    BY DEF RecordMissing
  <1>2. CASE row' = [row EXCEPT ![i].bind = "ended"] /\ UNCHANGED <<att, cache, shared>>
    BY <1>1, <1>2, EndTyped, BesideWith DEF CoreInv, TypeOK
  <1>3. CASE /\ cache' = [cache EXCEPT ![row[i].title] = Disown(@, i)]
             /\ Invalidate(att) /\ UNCHANGED row
    <2>1. /\ shared' = None /\ att' \in [Submitters -> Attempts]
          /\ \A o \in Submitters : att'[o].title = att[o].title /\ att'[o].id = att[o].id
      BY <1>3, InvalidateTyped DEF CoreInv, TypeOK
    <2>2. \A c \in TitleStates \cup {None} : Disown(c, i) \in TitleStates \cup {None}
      BY DEF TitleStates, Disown
    <2>3. cache' \in [Titles -> TitleStates \cup {None}]
      BY <1>3, <2>2 DEF CoreInv, TypeOK
    <2>4. OneDownloadPerJob'
      BY <1>3, BindsNothing DEF CoreInv
    <2> QED BY <1>1, <1>3, <2>1, <2>3, <2>4, BesideWith DEF CoreInv, TypeOK
  <1> QED BY <1>2, <1>3 DEF RecordMissing

\* An unconfirmed intent is released.
LEMMA ReleaseUnconfirmedCoreInv ==
    ASSUME CoreInv, NEW i \in Ids, ReleaseUnconfirmed(i)
    PROVE  CoreInv'
  <1>1. /\ row' = [row EXCEPT ![i].bind = "ended"]
        /\ cache' = [cache EXCEPT ![row[i].title] = None]
        /\ UNCHANGED <<pc, att, shared, claim, minted, job, blind>>
    BY DEF ReleaseUnconfirmed
  <1>2. cache' \in [Titles -> TitleStates \cup {None}]
    BY <1>1 DEF CoreInv, TypeOK
  <1> QED BY <1>1, <1>2, EndTyped, BesideWith DEF CoreInv, TypeOK

\* The background walk primes a title.
LEMMA PrimeTitleStateCoreInv ==
    ASSUME CoreInv, NEW t \in Titles, PrimeTitleState(t)
    PROVE  CoreInv'
  <1>1. UNCHANGED <<pc, att, shared, claim, row, minted, job, blind>>
    BY DEF PrimeTitleState
  <1>2. ListForTitle(t) \subseteq Ids
    BY DEF ListForTitle
  <1>3. cache' \in [Titles -> TitleStates \cup {None}]
    BY <1>2 DEF PrimeTitleState, CoreInv, TypeOK, TitleStates
  <1>4. OneDownloadPerJob'
    BY <1>1, BindsNothing DEF CoreInv
  <1> QED BY <1>1, <1>3, <1>4, BesideWith DEF CoreInv, TypeOK

\* It primes it without an intent that is bound between its two reads.
LEMMA PrimeMissingCoreInv ==
    ASSUME CoreInv, NEW t \in Titles, NEW i \in Ids, NEW j \in Jobs, PrimeMissing(t, i, j)
    PROVE  CoreInv'
  <1>1. ListForTitle(t) \subseteq Ids
    BY DEF ListForTitle
  <1>2. cache' \in [Titles -> TitleStates \cup {None}]
    BY <1>1 DEF PrimeMissing, CoreInv, TypeOK, TitleStates
  <1> QED BY <1>2, BindIntent DEF PrimeMissing

\* After a restart nobody is attempting anything, and nothing is claimed.
LEMMA RestartCoreInv ==
    ASSUME CoreInv, Restart
    PROVE  CoreInv'
  <1>1. TypeOK'
    BY IdleTyped DEF Restart, CoreInv, TypeOK, Steps
  <1>2. \A s \in Submitters : pc'[s] = "idle"
    BY DEF Restart
  <1>3. Discipline'
    BY <1>2 DEF Discipline, AttemptsAreAbout, OneAttemptPerTitle, ClaimFencesTitle
  <1>4. OneDownloadPerJob'
    BY BindsNothing DEF Restart, CoreInv
  <1> QED BY <1>1, <1>3, <1>4, Together

-----------------------------------------------------------------------------
(* The theorems.                                                            *)

\* The invariant holds when the process starts for the first time.
LEMMA InitCoreInv == Init => CoreInv
  <1> SUFFICES ASSUME Init PROVE CoreInv
    OBVIOUS
  <1>1. NoJob \in [st : JobStates, tok : Ids \cup {None}, rel : Releases \cup {None}]
    BY DEF NoJob, JobStates
  <1>2. TypeOK
    BY <1>1, IdleTyped, NoRowTyped DEF Init, TypeOK, Steps
  <1>3. \A s \in Submitters : pc[s] = "idle"
    BY DEF Init
  <1>4. AttemptsAreAbout /\ OneAttemptPerTitle /\ ClaimFencesTitle
    BY <1>3 DEF AttemptsAreAbout, OneAttemptPerTitle, ClaimFencesTitle
  <1>5. OneDownloadPerJob
    BY DEF Init, OneDownloadPerJob, Bound, NoRow
  <1> QED BY <1>2, <1>4, <1>5 DEF CoreInv

\* Every step of an attempt keeps the invariant.
LEMMA AttemptCoreInv ==
    ASSUME CoreInv, NEW s \in Submitters, Attempt(s)
    PROVE  CoreInv'
  <1>1. CASE \E t \in Titles, i \in Ids, n \in Intents : Begin(s, t, i, n)
    BY <1>1, BeginCoreInv
  <1>2. CASE \/ FailLoad(s) \/ RefuseUnresolved(s) \/ FailFetch(s) \/ AcceptExisting(s)
             \/ RefuseBlocked(s) \/ RefuseConflict(s) \/ FailPrepare(s)
    BY <1>2, EndsCoreInv
  <1>3. CASE RefuseAmbiguous(s) \/ RecoverAccepted(s)
    BY <1>3, RefuseAmbiguousCoreInv, RecoverAcceptedCoreInv
  <1>4. CASE UseCachedState(s) \/ LoadState(s) \/ UseSnapshot(s) \/ Fetch(s)
             \/ StoreSnapshot(s)
    BY <1>4, UseCachedStateCoreInv, LoadStateCoreInv, UseSnapshotCoreInv, FetchCoreInv,
       StoreSnapshotCoreInv
  <1>5. CASE ReplaceExisting(s) \/ NoConflict(s) \/ RemoveFromClient(s)
             \/ DeleteReplaced(s) \/ FailReplace(s) \/ RecordIntent(s)
    BY <1>5, ReplaceExistingCoreInv, NoConflictCoreInv, RemoveFromClientCoreInv,
       DeleteReplacedCoreInv, FailReplaceCoreInv, RecordIntentCoreInv
  <1>6. CASE ClientTakes(s) \/ ClientHolds(s) \/ ClientDeclines(s) \/ Ambiguity(s)
             \/ Refusal(s) \/ Acceptance(s)
    BY <1>6, ClientTakesCoreInv, ClientHoldsCoreInv, ClientDeclinesCoreInv, AmbiguityCoreInv,
       RefusalCoreInv, AcceptanceCoreInv
  <1>7. CASE Record(s) \/ FailRecord(s) \/ RecordAdopts(s) \/ Adopt(s) \/ ClaimStub(s)
    BY <1>7, RecordCoreInv, FailRecordCoreInv, RecordAdoptsCoreInv, AdoptCoreInv, ClaimStubCoreInv
  <1> QED BY <1>1, <1>2, <1>3, <1>4, <1>5, <1>6, <1>7 DEF Attempt

\* Every step of the client, the observer, the tracker and the walk keeps it.
LEMMA OthersCoreInv ==
    ASSUME CoreInv, Others
    PROVE  CoreInv'
  <1>1. CASE \E j \in Jobs : \/ \E r \in Releases : ForeignJob(j, r)
                             \/ \E st \in JobStates : Progress(j, st)
    BY <1>1, ClientCoreInv
  <1>2. CASE \E j \in Jobs : \/ ObserveIntent(j) \/ ObserveByName(j)
                             \/ \E i \in Ids : ObserveForeign(j, i)
    BY <1>2, ObserveIntentCoreInv, ObserveByNameCoreInv, ObserveForeignCoreInv
  <1>3. CASE \E i \in Ids : \/ RecordStub(i) \/ Settle(i) \/ RecordMissing(i)
                            \/ ReleaseUnconfirmed(i)
    BY <1>3, RecordStubCoreInv, SettleCoreInv, RecordMissingCoreInv, ReleaseUnconfirmedCoreInv
  <1>4. CASE \E t \in Titles : \/ PrimeTitleState(t)
                               \/ \E i \in Ids, j \in Jobs : PrimeMissing(t, i, j)
    BY <1>4, PrimeTitleStateCoreInv, PrimeMissingCoreInv
  <1> QED BY <1>1, <1>2, <1>3, <1>4 DEF Others

\* A step that changes nothing keeps the invariant.
LEMMA StutterCoreInv ==
    ASSUME CoreInv, UNCHANGED vars
    PROVE  CoreInv'
  <1>1. UNCHANGED <<pc, att, cache, shared, claim, row, minted, job, blind>>
    BY DEF vars
  <1>2. OneDownloadPerJob'
    BY <1>1, BindsNothing DEF CoreInv
  <1> QED BY <1>1, <1>2, BesideWith DEF CoreInv, TypeOK

\* The invariant holds always: whatever the callers, the client, the observer,
\* the tracker and the walk do, in whatever order, and wherever the process
\* stops.
THEOREM CoreInvHolds == Spec => []CoreInv
  <1>1. Init => CoreInv
    BY InitCoreInv
  <1>2. CoreInv /\ [Next]_vars => CoreInv'
    BY AttemptCoreInv, OthersCoreInv, RestartCoreInv, StutterCoreInv DEF Next
  <1> QED BY <1>1, <1>2, PTL DEF Spec

\* While a claim on a title is uncertain, nobody is deciding or submitting for
\* that title (uncertain_titles, submit_canonical_download).
THEOREM ClaimFencesTitleHolds == Spec => []ClaimFencesTitle
  <1>1. CoreInv => ClaimFencesTitle
    BY DEF CoreInv
  <1> QED BY <1>1, CoreInvHolds, PTL

\* A client job is bound to at most one download, whichever of the observer, an
\* acceptance and an adoption comes first (claim_or_create_binding).
THEOREM OneDownloadPerJobHolds == Spec => []OneDownloadPerJob
  <1>1. CoreInv => OneDownloadPerJob
    BY DEF CoreInv
  <1> QED BY <1>1, CoreInvHolds, PTL

=============================================================================
