----------------------- MODULE DownloadTracking_proofs -----------------------
(***************************************************************************)
(* Proof that no running grab is lost by DownloadSubmission: the inductive  *)
(* invariant TrackInv, and JobIsTracked and CachedListingCoversGrabs from   *)
(* it.                                                                      *)
(*                                                                          *)
(* The actions are many and each part of TrackInv reads several variables,  *)
(* so the proof goes through a summary, Moves, of what a step may do to a   *)
(* row, a job, an attempt, a claim, a title state and the listings.  Every  *)
(* action is shown to be such a step, and every part of TrackInv to survive *)
(* it.                                                                      *)
(***************************************************************************)
EXTENDS DownloadSubmission_proofs

-----------------------------------------------------------------------------
(* What a step may do.                                                      *)

EarlySteps == {"claims", "state", "snapshot", "fetching", "decide",
               "conflicts", "replacing", "replaced", "prepare"}

\* A step writes the row of i for title t: an attempt that is to return, to
\* adopt, or to submit, under its own id; one that claims a stub; or whoever
\* settles the title's claim.
Writes(i, t) ==
    \/ \E s \in Submitters :
          /\ att[s].id = i /\ att[s].title = t
          /\ \/ Own(s) /\ pc'[s] \in {"idle", "adopting"}
             \/ pc[s] = "prepare" /\ pc'[s] = "submitting"
             \/ pc[s] = "claiming"
    \/ /\ t \in Titles /\ claim[t] # None
       /\ claim[t].known /\ claim[t].id = i

SameRow(i) == /\ row'[i].bind = row[i].bind /\ row'[i].item = row[i].item
              /\ row'[i].title = row[i].title

\* The intent of i is stored.
Intended(i) == /\ row[i].bind = "none" /\ row'[i].bind = "unbound"
               /\ row'[i].sub /\ row'[i].item = None
               /\ row'[i].title \in Titles /\ Writes(i, row'[i].title)

\* The intent of i is withdrawn: another download has its job, if it has one.
Withdrawn(i) == /\ row[i].bind = "unbound" /\ row'[i].bind = "none"
                /\ row'[i].item = row[i].item /\ row'[i].title = row[i].title
                /\ \E t \in Titles : Writes(i, t)
                /\ \A j \in Jobs : job[j].tok = i =>
                      \E o \in Ids : o \in Bound(j) /\ row'[o] = row[o]

\* An acceptance of i is recorded.
Recorded(i) == /\ row'[i].bind = "bound" /\ Exists(row'[i].item)
               /\ TakenUp(row'[i].item)
               /\ row'[i].title \in Titles /\ Writes(i, row'[i].title)
               /\ \/ row[i].item = row'[i].item
                  \/ row[i].item = None /\ OnlyJob(i, row'[i].item)

\* The job of i is another download's now.
Superseded(i) == /\ row[i].bind = "bound" /\ row'[i].bind = "ended"
                 /\ row'[i].item = row[i].item /\ row'[i].title = row[i].title
                 /\ \E o \in Ids : row'[o].bind = "bound" /\ row'[o].item = row[i].item

\* The submissions of the job of i are deleted: the job is over, or somebody
\* else's, or the deletion is blind.
Deleted(i) == /\ row[i].item # None
              /\ row'[i].bind \in {row[i].bind, "ended"}
              /\ row'[i].item = row[i].item /\ row'[i].title = row[i].title
              /\ \/ job[row[i].item].st \notin Blocking
                 \/ job[row[i].item].tok = None
                 \/ \E b \in blind' \cap Ids : row[b].item = row[i].item

\* The observer binds the intent i to a job with its token, or with none.
Observed(i) == /\ row[i].bind = "unbound" /\ row'[i].bind = "bound"
               /\ row'[i].title = row[i].title
               /\ Exists(row'[i].item)
               /\ job[row'[i].item].tok \in {i, None}

\* The binding of i ends, or its intent is released.
Ended(i) == /\ row'[i].bind = "ended"
            /\ row'[i].item = row[i].item /\ row'[i].title = row[i].title
            /\ \/ row[i].bind = "bound" /\ job[row[i].item].st \notin Blocking
               \/ /\ row[i].bind = "unbound"
                  /\ \A s \in Submitters : pc[s] # "idle" => att[s].id # i
                  /\ \A j \in Jobs : job[j].tok = i => job[j].st \notin Blocking

\* A new download for somebody else's job.
Discovered(i) == /\ i \notin minted /\ i \in minted'
                 /\ row'[i].bind = "bound" /\ row'[i].title = None
                 /\ Exists(row'[i].item) /\ job[row'[i].item].tok = None

\* A stub is recorded, or the download settles.
Flagged(i) == SameRow(i) /\ (row[i].sub => row'[i].sub)

RowMove(i) == \/ Flagged(i) \/ Intended(i) \/ Withdrawn(i) \/ Recorded(i)
              \/ Superseded(i) \/ Deleted(i) \/ Observed(i) \/ Ended(i)
              \/ Discovered(i)
RowMoves == \A i \in Ids : RowMove(i)

\* The client takes the request of s as job j.
Took(s, j) == /\ pc[s] = "submitting" /\ pc'[s] = "answered"
              /\ job[j].st = "absent" /\ job'[j].st # "absent"
              /\ job'[j].tok = att[s].id
              /\ \A k \in Jobs \ {j} : job'[k] = job[k]
              /\ att'[s].id = att[s].id /\ att'[s].answer # "refused"
              /\ att'[s].answer = "ok" => att'[s].item = j
              /\ UNCHANGED <<row, cache, claim, shared>>
              /\ \A o \in Submitters \ {s} : pc'[o] = pc[o] /\ att'[o] = att[o]

\* A job that exists goes on existing, under its token, and runs no more once
\* it has stopped; only a submit makes a job with a token.
JobMoves ==
    /\ \A j \in Jobs : job[j].st # "absent" =>
          /\ job'[j].st # "absent" /\ job'[j].tok = job[j].tok
          /\ job[j].st \notin Blocking => job'[j].st \notin Blocking
    /\ \/ \A j \in Jobs : job'[j].tok = job[j].tok
       \/ \E s \in Submitters, j \in Jobs : Took(s, j)

SameAttempt(s) == /\ att'[s].title = att[s].title /\ att'[s].id = att[s].id
                  /\ att'[s].subs = att[s].subs /\ att'[s].item = att[s].item

Rests(s) == /\ pc'[s] = pc[s] /\ SameAttempt(s)
            /\ att'[s].answer = att[s].answer /\ att'[s].listing = att[s].listing
            /\ att'[s].fresh => att[s].fresh

Begins(s) == /\ pc[s] = "idle" /\ pc'[s] = "claims"
             /\ att'[s].id \in Ids \ minted /\ att'[s].id \in minted'
             /\ att'[s].subs = {}
             /\ UNCHANGED <<row, job, claim, cache>>

\* An attempt works towards its intent.
Works(s) ==
    /\ Early(s) /\ pc'[s] \in EarlySteps
    /\ att'[s].title = att[s].title /\ att'[s].id = att[s].id
    /\ \A i \in att'[s].subs :
          \/ i \in att[s].subs
          \/ cache[att[s].title] # None /\ i \in cache[att[s].title].subs
          \/ row[i].title = att[s].title /\ row[i].item # None
    /\ pc'[s] = "replaced" =>
          Exists(att'[s].item) /\ job'[att'[s].item].st \notin Blocking
    /\ pc'[s] = "fetching" /\ att'[s].fresh =>
          Listed(att'[s].listing) /\ UNCHANGED <<job>>
    /\ pc'[s] = "decide" =>
          /\ UNCHANGED <<row, job>> /\ att'[s].subs = att[s].subs
          /\ \/ att[s].subs = {}
             \/ shared # None /\ att'[s].listing = shared
             \/ /\ pc[s] = "fetching" /\ att[s].fresh
                /\ att'[s].listing = att[s].listing

Intends(s) == /\ pc[s] = "prepare" /\ pc'[s] = "submitting" /\ SameAttempt(s)
              /\ Intended(att[s].id) /\ row'[att[s].id].title = att[s].title
              /\ UNCHANGED <<job>>

Sends(s) == /\ pc[s] = "submitting" /\ pc'[s] = "answered"
            /\ att'[s].title = att[s].title /\ att'[s].id = att[s].id
            /\ att'[s].subs = att[s].subs
            /\ att'[s].answer = "ok" =>
                  /\ att'[s].item \in Jobs /\ job'[att'[s].item].st # "absent"
                  /\ \A k \in Jobs : job'[k].tok = att[s].id => k = att'[s].item
            /\ att'[s].answer = "refused" => UNCHANGED <<job>>

IsAccepted(s) == /\ pc[s] = "answered" /\ pc'[s] = "recording"
                 /\ att[s].answer = "ok" /\ SameAttempt(s)

TurnsToAdopt(s) == /\ pc[s] = "recording" /\ pc'[s] = "adopting"
                   /\ att'[s].title = att[s].title /\ att'[s].item = att[s].item
                   /\ att'[s].subs = att[s].subs
                   /\ att'[s].id \in Ids /\ row[att'[s].id].item = att[s].item

TurnsToClaim(s) == /\ pc[s] = "adopting" /\ pc'[s] = "claiming" /\ SameAttempt(s)
                   /\ row[att[s].id].title = None

AttMove(s) == \/ pc'[s] = "idle" \/ Rests(s) \/ Begins(s) \/ Works(s)
              \/ Intends(s) \/ Sends(s) \/ IsAccepted(s) \/ TurnsToAdopt(s)
              \/ TurnsToClaim(s)
\* At most one attempt begins.
AttMoves == /\ \A s \in Submitters : AttMove(s)
            /\ \A s, o \in Submitters : Begins(s) /\ Begins(o) => s = o

\* A claim is cleared, becomes a fence, or is left by an attempt that returns.
ClaimMove(t) ==
    \/ claim'[t] = claim[t]
    \/ claim'[t] = None
    \/ claim'[t].kind = "ambiguous" /\ ~claim'[t].known
    \/ \E s \in Submitters :
          /\ att[s].title = t /\ pc'[s] = "idle" /\ claim'[t].id = att[s].id
          /\ Own(s) \/ pc[s] = "claiming"
          /\ \/ claim'[t].kind = "ambiguous"
             \/ /\ pc[s] \in {"recording", "claiming"}
                /\ claim'[t].kind = "accepted" /\ claim'[t].known
                /\ claim'[t].item = att[s].item
ClaimMoves == \A t \in Titles : ClaimMove(t)

\* A title state is dropped, or knows what it or an attempt on the title knew,
\* what the store has of the title, or what has just been recorded for it.
CacheMoves ==
    \A t \in Titles : cache'[t] # None => \A i \in cache'[t].subs :
        \/ cache[t] # None /\ i \in cache[t].subs
        \/ \E s \in Submitters :
              pc[s] # "idle" /\ att[s].title = t /\ i \in att[s].subs
        \/ row[i].title = t /\ row[i].item # None
        \/ /\ i \in Ids /\ row'[i].item # None
           /\ \E s \in Submitters :
                 /\ att[s].title = t /\ i = att[s].id /\ pc'[s] = "idle"
                 /\ pc[s] \in {"recording", "claiming"}

\* No listing read before this step can be used after it.
Dropped == shared' = None /\ \A s \in Submitters : pc'[s] = "fetching" => ~att'[s].fresh

\* Whoever has its answer drops them all.
ListingMoves ==
    /\ \/ shared' \in {None, shared}
       \/ \E s \in Submitters : /\ pc[s] = "fetching" /\ att[s].fresh
                                /\ shared' = att[s].listing
    /\ \/ Dropped
       \/ \A s \in Submitters : pc[s] = "answered" =>
              pc'[s] = "answered" /\ att'[s].id = att[s].id

Grows == minted \subseteq minted' /\ blind \subseteq blind'

Moves == /\ RowMoves /\ JobMoves /\ AttMoves /\ ClaimMoves /\ CacheMoves
         /\ ListingMoves /\ Grows /\ CoreInv'

-----------------------------------------------------------------------------
(* The invariant survives such a step: rows, jobs and claims.               *)

\* The job a download names is its job for good.
LEMMA ItemsStick ==
    ASSUME TrackInv, Moves, NEW i \in Ids
    PROVE  /\ row[i].item # None => row'[i].item = row[i].item
           /\ row[i].item = None /\ row'[i].item # None =>
                 Recorded(i) \/ Observed(i) \/ Discovered(i)
  <1>1. row[i].bind \in {"none", "unbound"} => row[i].item = None
    BY DEF TrackInv, ItemMeansBound
  <1>2. i \notin minted => row[i].bind = "none"
    BY DEF TrackInv, NewIdsAreBlank
  <1>3. RowMove(i)
    BY DEF Moves, RowMoves
  <1> QED BY <1>1, <1>2, <1>3 DEF RowMove, Flagged, SameRow, Intended, Withdrawn,
          Recorded, Superseded, Deleted, Observed, Ended, Discovered

\* A job that exists goes on existing, under its token.
LEMMA JobsStick ==
    ASSUME TrackInv, Moves, NEW j, Exists(j)
    PROVE  /\ j \in Jobs /\ job'[j].st # "absent" /\ job'[j].tok = job[j].tok
           /\ job[j].st \notin Blocking => job'[j].st \notin Blocking
  BY DEF Moves, JobMoves, Exists

\* The rows that change which an attempt goes on owning are the observer's doing.
LEMMA OwnRowKept ==
    ASSUME TrackInv, Moves, NEW s \in Submitters, Own(s),
           pc'[s] \notin {"idle", "adopting"},
           ~(pc[s] = "prepare" /\ pc'[s] = "submitting")
    PROVE  LET i == att[s].id IN
           /\ row'[i].title = row[i].title
           /\ row[i].bind = "none" => row'[i].bind = "none"
           /\ row[i].sub /\ row[i].bind = "unbound" =>
                 \/ row'[i].sub /\ row'[i].bind = "unbound"
                 \/ Exists(row'[i].item) /\ job[row'[i].item].tok \in {i, None}
  <1> DEFINE i == att[s].id
  <1>1. i \in Ids /\ pc[s] # "idle" /\ i \in minted
    BY DEF TrackInv, CoreInv, AttemptsAreAbout, Own, OwnIdIsOwn
  <1>2. \A o \in Submitters : /\ Own(o) /\ att[o].id = i => o = s
                              /\ pc[o] = "claiming" => att[o].id # i
    BY DEF TrackInv, OwnIdIsOwn
  <1>3. \A t \in Titles : claim[t] # None /\ claim[t].known => claim[t].id # i
    BY DEF TrackInv, OwnIdIsOwn
  <1>4. \A t : ~Writes(i, t)
    BY <1>2, <1>3 DEF Writes, Own
  <1>5. row[i].bind \in {"none", "unbound"} => row[i].item = None
    BY <1>1 DEF TrackInv, ItemMeansBound
  <1>6. RowMove(i)
    BY <1>1 DEF Moves, RowMoves
  <1> HIDE DEF i
  <1>7. CASE Flagged(i)
    BY <1>7 DEF Flagged, SameRow, i
  <1>8. CASE Superseded(i) \/ Deleted(i)
    BY <1>5, <1>8 DEF Superseded, Deleted, i
  <1>9. CASE Observed(i)
    BY <1>9 DEF Observed, i
  <1>10. CASE Ended(i)
    BY <1>1, <1>10 DEF Ended, i
  <1>11. CASE Discovered(i)
    BY <1>1, <1>11 DEF Discovered
  <1>12. ~Intended(i) /\ ~Withdrawn(i) /\ ~Recorded(i)
    BY <1>4 DEF Intended, Withdrawn, Recorded
  <1> QED BY <1>6, <1>7, <1>8, <1>9, <1>10, <1>11, <1>12 DEF RowMove

\* A download that was never bound names no job.
LEMMA ItemMeansBoundKept ==
    ASSUME TrackInv, Moves
    PROVE  ItemMeansBound'
  <1> SUFFICES ASSUME NEW i \in Ids
               PROVE  row'[i].bind \in {"none", "unbound"} => row'[i].item = None
    BY DEF ItemMeansBound
  <1>1. row[i].bind \in {"none", "unbound"} => row[i].item = None
    BY DEF TrackInv, ItemMeansBound
  <1>2. RowMove(i)
    BY DEF Moves, RowMoves
  <1> QED BY <1>1, <1>2 DEF RowMove, Flagged, SameRow, Intended, Withdrawn,
          Recorded, Superseded, Deleted, Observed, Ended, Discovered

\* Whoever writes a row writes one of an id in use.
LEMMA WritersUseIds ==
    ASSUME TrackInv, NEW i, NEW t, Writes(i, t), t \in Titles
    PROVE  i \in minted
  <1>1. \A s \in Submitters : Own(s) => att[s].id \in minted
    BY DEF TrackInv, OwnIdIsOwn
  <1>2. ASSUME NEW s \in Submitters, pc[s] = "claiming"
        PROVE  att[s].id \in minted
    <2>1. row[att[s].id].item = att[s].item /\ att[s].item \in Jobs /\ att[s].id \in Ids
      BY <1>2 DEF TrackInv, AttemptsAgree, ItemsExist, HasItem, Exists, CoreInv, AttemptsAreAbout
    <2>2. row[att[s].id].item # None
      BY <2>1, NoneAssumption
    <2>3. row[att[s].id].bind # "none"
      BY <2>1, <2>2 DEF TrackInv, ItemMeansBound
    <2> QED BY <2>1, <2>3 DEF TrackInv, NewIdsAreBlank
  <1>3. claim[t] # None /\ claim[t].known => claim[t].id \in minted
    BY DEF TrackInv, NewIdsAreBlank
  <1> QED BY <1>1, <1>2, <1>3 DEF Writes, Own

\* A new id is on no row, on no job and in no claim.
LEMMA NewIdsAreBlankKept ==
    ASSUME TrackInv, Moves
    PROVE  NewIdsAreBlank'
  <1>0. minted \subseteq minted'
    BY DEF Moves, Grows
  <1>1. ASSUME NEW i \in Ids, i \notin minted'
        PROVE  row'[i].bind = "none" /\ row'[i].title = None
    <2>1. i \notin minted
      BY <1>0, <1>1
    <2>2. row[i].bind = "none" /\ row[i].title = None /\ row[i].item = None
      BY <2>1 DEF TrackInv, NewIdsAreBlank, ItemMeansBound
    <2>3. \A t \in Titles : ~Writes(i, t)
      BY <2>1, WritersUseIds
    <2>4. RowMove(i)
      BY DEF Moves, RowMoves
    <2> QED BY <1>1, <2>2, <2>3, <2>4 DEF RowMove, Flagged, SameRow, Intended,
            Withdrawn, Recorded, Superseded, Deleted, Observed, Ended, Discovered
  <1>2. ASSUME NEW j \in Jobs
        PROVE  job'[j].tok \in minted' \cup {None}
    <2>1. job[j].tok \in minted \cup {None}
      BY DEF TrackInv, NewIdsAreBlank
    <2>2. \A s \in Submitters : pc[s] = "submitting" => att[s].id \in minted
      BY DEF TrackInv, OwnIdIsOwn, Own
    <2>3. ASSUME NEW s \in Submitters, NEW k \in Jobs, Took(s, k)
          PROVE  job'[j].tok \in minted' \cup {None}
      BY <1>0, <2>1, <2>2, <2>3 DEF Took
    <2> QED BY <1>0, <2>1, <2>3 DEF Moves, JobMoves
  <1>3. ASSUME NEW t \in Titles, claim'[t] # None, claim'[t].known
        PROVE  claim'[t].id \in minted'
    <2>1. \A s \in Submitters :
            (Own(s) \/ pc[s] = "claiming") /\ pc'[s] = "idle" => Writes(att[s].id, att[s].title)
      BY DEF Writes
    <2>2. \A s \in Submitters : Own(s) \/ pc[s] = "claiming" => att[s].title \in Titles
      BY DEF TrackInv, CoreInv, AttemptsAreAbout, Own
    <2>3. \A s \in Submitters : (Own(s) \/ pc[s] = "claiming") /\ pc'[s] = "idle"
                => att[s].id \in minted
      BY <2>1, <2>2, WritersUseIds
    <2>4. claim[t] # None /\ claim[t].known => claim[t].id \in minted
      BY DEF TrackInv, NewIdsAreBlank
    <2>5. ClaimMove(t)
      BY DEF Moves, ClaimMoves
    <2> QED BY <1>0, <1>3, <2>3, <2>4, <2>5 DEF ClaimMove
  <1> QED BY <1>1, <1>2, <1>3 DEF NewIdsAreBlank

\* A token is on one job.
LEMMA OneJobPerTokenKept ==
    ASSUME TrackInv, Moves
    PROVE  OneJobPerToken'
  <1> SUFFICES ASSUME NEW i \in Ids, NEW j \in Jobs, NEW k \in Jobs,
                      job'[j].tok = i, job'[k].tok = i
               PROVE  j = k
    BY DEF OneJobPerToken
  <1>1. job[j].tok = i /\ job[k].tok = i => j = k
    BY DEF TrackInv, OneJobPerToken
  <1>2. ASSUME NEW s \in Submitters, NEW l \in Jobs, Took(s, l)
        PROVE  j = k
    <2>1. \A m \in Jobs : job[m].tok # att[s].id
      BY <1>2, NoneAssumption DEF Took, TrackInv, OwnIdProgress, OnlyJob
    <2> QED BY <1>1, <1>2, <2>1 DEF Took
  <1> QED BY <1>1, <1>2 DEF Moves, JobMoves

\* Jobs that are named exist.
LEMMA ItemsExistKept ==
    ASSUME TrackInv, Moves
    PROVE  ItemsExist'
  <1>1. ASSUME NEW j \in Jobs, job'[j].st = "absent"
        PROVE  job'[j].tok = None
    <2>1. job[j].st = "absent" /\ job[j].tok = None
      BY <1>1 DEF Moves, JobMoves, TrackInv, ItemsExist
    <2>2. ASSUME NEW s \in Submitters, NEW l \in Jobs, Took(s, l)
          PROVE  job'[j].tok = None
      BY <1>1, <2>1, <2>2 DEF Took
    <2> QED BY <2>1, <2>2 DEF Moves, JobMoves
  <1>2. ASSUME NEW i \in Ids, row'[i].item # None
        PROVE  Exists(row[i].item)'
    <2>1. row[i].item # None => Exists(row[i].item)
      BY DEF TrackInv, ItemsExist
    <2>2. Exists(row'[i].item)
      BY <1>2, <2>1, ItemsStick DEF Recorded, Observed, Discovered
    <2> QED BY <2>2, JobsStick DEF Exists
  <1>3. ASSUME NEW s \in Submitters, HasItem(s)'
        PROVE  Exists(att[s].item)'
    <2>1. HasItem(s) => Exists(att[s].item)
      BY DEF TrackInv, ItemsExist
    <2>2. HasItem(s) /\ att'[s].item = att[s].item => Exists(att[s].item)'
      BY <2>1, JobsStick DEF Exists
    <2>3. AttMove(s)
      BY DEF Moves, AttMoves
    <2>4. CASE Works(s)
      <3>1. Exists(att'[s].item)
        BY <1>3, <2>4 DEF Works, HasItem, EarlySteps
      <3> QED BY <3>1, JobsStick DEF Exists
    <2>5. CASE Sends(s)
      BY <1>3, <2>5 DEF Sends, HasItem, Exists
    <2> QED BY <1>3, <2>2, <2>3, <2>4, <2>5 DEF AttMove, Rests, Begins, Intends,
            IsAccepted, TurnsToAdopt, TurnsToClaim, SameAttempt, HasItem
  <1>4. ASSUME NEW t \in Titles, claim'[t] # None, claim'[t].kind = "accepted"
        PROVE  Exists(claim[t].item)'
    <2>1. ClaimMove(t)
      BY DEF Moves, ClaimMoves
    <2>2. claim[t] # None /\ claim[t].kind = "accepted" => Exists(claim[t].item)
      BY DEF TrackInv, ItemsExist
    <2>3. \A s \in Submitters : pc[s] \in {"recording", "claiming"} => Exists(att[s].item)
      BY DEF TrackInv, ItemsExist, HasItem
    <2>4. Exists(claim'[t].item)
      BY <1>4, <2>1, <2>2, <2>3 DEF ClaimMove
    <2> QED BY <2>4, JobsStick DEF Exists
  <1> QED BY <1>1, <1>2, <1>3, <1>4 DEF ItemsExist

\* An acceptance kept in memory goes on being about its job.
LEMMA AcceptedClaimsKept ==
    ASSUME TrackInv, Moves
    PROVE  AcceptedClaims'
  <1> SUFFICES ASSUME NEW t \in Titles, claim'[t] # None, claim'[t].kind = "accepted"
               PROVE  /\ claim'[t].known
                      /\ \/ \A k \in Jobs : job'[k].tok = claim'[t].id => k = claim'[t].item
                         \/ row'[claim'[t].id].item = claim'[t].item
    BY DEF AcceptedClaims, OnlyJob
  <1> DEFINE Held(i, j) == (\A k \in Jobs : job[k].tok = i => k = j) \/ row[i].item = j
             After(i, j) == (\A k \in Jobs : job'[k].tok = i => k = j) \/ row'[i].item = j
  <1>1. ASSUME NEW i \in Ids, NEW j \in Jobs, Held(i, j),
               \A s \in Submitters : pc[s] = "submitting" => att[s].id # i
        PROVE  After(i, j)
    <2>1. row[i].item = j => row'[i].item = j
      BY ItemsStick, NoneAssumption
    <2>2. ASSUME NEW s \in Submitters, NEW l \in Jobs, Took(s, l), NEW k \in Jobs,
                 job'[k].tok = i
          PROVE  job[k].tok = i
      BY <1>1, <2>2 DEF Took
    <2>3. \A k \in Jobs : job'[k].tok = i => job[k].tok = i
      BY <2>2 DEF Moves, JobMoves
    <2> QED BY <1>1, <2>1, <2>3
  <1>2. ClaimMove(t)
    BY DEF Moves, ClaimMoves
  <1>3. CASE claim'[t] = claim[t]
    <2>1. /\ claim[t].known /\ Held(claim[t].id, claim[t].item)
          /\ claim[t].item \in Jobs
      BY <1>3 DEF TrackInv, AcceptedClaims, ItemsExist, Exists, OnlyJob
    <2>2. claim[t].id \in Ids
      BY <1>3 DEF TrackInv, CoreInv, TypeOK, Claims
    <2>3. \A s \in Submitters : pc[s] = "submitting" => att[s].id # claim[t].id
      BY <1>3, <2>1 DEF TrackInv, OwnIdIsOwn, Own
    <2> HIDE DEF Held, After
    <2>4. After(claim[t].id, claim[t].item)
      BY <1>1, <2>1, <2>2, <2>3
    <2> QED BY <1>3, <2>1, <2>4 DEF After
  <1>4. ASSUME NEW s \in Submitters,
               claim'[t].id = att[s].id, pc[s] \in {"recording", "claiming"},
               claim'[t].known, claim'[t].item = att[s].item
        PROVE  After(claim'[t].id, claim'[t].item)
    <2>1. att[s].id \in Ids /\ att[s].item \in Jobs
      BY <1>4 DEF TrackInv, CoreInv, AttemptsAreAbout, ItemsExist, HasItem, Exists
    <2>2. Held(att[s].id, att[s].item)
      BY <1>4 DEF TrackInv, OwnIdProgress, OnlyJob, HasItem, AttemptsAgree
    <2>3. \A o \in Submitters : pc[o] = "submitting" => att[o].id # att[s].id
      BY <1>4 DEF TrackInv, OwnIdIsOwn, Own
    <2> HIDE DEF Held, After
    <2>4. After(att[s].id, att[s].item)
      BY <1>1, <2>1, <2>2, <2>3
    <2> QED BY <1>4, <2>4
  <1> HIDE DEF Held, After
  <1>5. claim'[t].known /\ After(claim'[t].id, claim'[t].item)
    <2>1. CASE claim'[t] = claim[t]
      BY <1>3, <2>1 DEF After
    <2> QED BY <1>2, <1>4, <2>1 DEF ClaimMove
  <1> QED BY <1>5 DEF After

-----------------------------------------------------------------------------
(* The invariant survives such a step: the attempts.                        *)

\* What an attempt has adopted is a download of its job, under an id in use.
LEMMA AdoptedInUse ==
    ASSUME TrackInv, NEW s \in Submitters, pc[s] \in {"adopting", "claiming"}
    PROVE  /\ att[s].id \in minted /\ att[s].id \in Ids
           /\ row[att[s].id].item = att[s].item /\ Exists(att[s].item)
           /\ att[s].item # None
           /\ row[att[s].id].bind \notin {"none", "unbound"}
  <1>1. /\ row[att[s].id].item = att[s].item /\ Exists(att[s].item)
        /\ att[s].id \in Ids
    BY DEF TrackInv, AttemptsAgree, ItemsExist, HasItem, CoreInv, AttemptsAreAbout
  <1>2. att[s].item # None
    BY <1>1, NoneAssumption DEF Exists
  <1>3. row[att[s].id].bind \notin {"none", "unbound"}
    BY <1>1, <1>2 DEF TrackInv, ItemMeansBound
  <1> QED BY <1>1, <1>2, <1>3 DEF TrackInv, NewIdsAreBlank

\* A new id is on no row, and no title state knows it.
LEMMA NewIdUnknown ==
    ASSUME TrackInv, NEW i \in Ids \ minted
    PROVE  /\ row[i].bind = "none" /\ row[i].title = None /\ row[i].item = None
           /\ \A j \in Jobs : job[j].tok # i
           /\ \A s \in Submitters : pc[s] # "idle" => i \notin att[s].subs
           /\ \A t \in Titles : cache[t] # None => i \notin cache[t].subs
  <1>1. row[i].bind = "none" /\ row[i].title = None /\ row[i].item = None
    BY DEF TrackInv, NewIdsAreBlank, ItemMeansBound
  <1>2. \A j \in Jobs : job[j].tok # i
    BY NoneAssumption DEF TrackInv, NewIdsAreBlank
  <1> QED BY <1>1, <1>2 DEF TrackInv, AttemptsAgree

\* An attempt under its own id has just begun, or was one before.
LEMMA OwnAfter ==
    ASSUME Moves, NEW s \in Submitters, Own(s)'
    PROVE  \/ Begins(s)
           \/ Own(s) /\ att'[s].id = att[s].id /\ att'[s].title = att[s].title
  <1>1. AttMove(s) /\ pc'[s] \notin {"idle", "adopting", "claiming"}
    BY DEF Moves, AttMoves, Own
  <1> QED BY <1>1 DEF AttMove, Rests, Works, Intends, Sends, IsAccepted, TurnsToAdopt,
          TurnsToClaim, SameAttempt, Own, Early

\* What an attempt knows of its title it knew, or has from the cache or the store.
LEMMA SubsAfter ==
    ASSUME Moves, NEW s \in Submitters, pc'[s] # "idle", NEW i \in att'[s].subs
    PROVE  /\ pc[s] # "idle" /\ att'[s].title = att[s].title
           /\ \/ i \in att[s].subs
              \/ cache[att[s].title] # None /\ i \in cache[att[s].title].subs
              \/ row[i].title = att[s].title /\ row[i].item # None
  <1>1. AttMove(s)
    BY DEF Moves, AttMoves
  <1> QED BY <1>1 DEF AttMove, Rests, Begins, Works, Intends, Sends, IsAccepted,
          TurnsToAdopt, TurnsToClaim, SameAttempt, Early

\* A row of a title, with a job, under an attempt's own id is of its title.
LEMMA OwnRowTitle ==
    ASSUME TrackInv, NEW s \in Submitters, Own(s), row[att[s].id].item # None
    PROVE  row[att[s].id].title = att[s].title
  <1>1. att[s].id \in Ids
    BY DEF TrackInv, CoreInv, AttemptsAreAbout, Own
  <1>2. ~Early(s)
    BY <1>1 DEF TrackInv, OwnIdProgress, ItemMeansBound
  <1>3. pc[s] \in Steps
    BY DEF TrackInv, CoreInv, TypeOK
  <1>4. pc[s] \in {"submitting", "answered", "recording"}
    BY <1>2, <1>3 DEF Own, Early, Steps
  <1> QED BY <1>4 DEF TrackInv, OwnIdProgress

\* Nobody else comes to write the rows of an attempt's own id.
LEMMA OwnIdIsOwnKept ==
    ASSUME TrackInv, Moves
    PROVE  OwnIdIsOwn'
  <1> SUFFICES ASSUME NEW s \in Submitters, Own(s)'
               PROVE
        /\ att'[s].id \in minted'
        /\ \A o \in Submitters :
              /\ Own(o)' /\ att'[o].id = att'[s].id => o = s
              /\ pc'[o] = "claiming" => att'[o].id # att'[s].id
              /\ pc'[o] # "idle" /\ att'[s].id \in att'[o].subs =>
                    att'[o].title = att'[s].title
        /\ \A t \in Titles :
              /\ claim'[t] # None /\ claim'[t].known => claim'[t].id # att'[s].id
              /\ cache'[t] # None /\ att'[s].id \in cache'[t].subs => t = att'[s].title
    BY DEF OwnIdIsOwn
  <1>1. \/ Begins(s)
        \/ Own(s) /\ att'[s].id = att[s].id /\ att'[s].title = att[s].title
    BY OwnAfter
  <1>2. minted \subseteq minted'
    BY DEF Moves, Grows
  <1>3. pc'[s] \notin {"idle", "adopting", "claiming"}
    BY DEF Own
  <1>4. \A o \in Submitters : Own(o) => att[o].id \in minted
    BY DEF TrackInv, OwnIdIsOwn
  <1>5. CASE Begins(s)
    <2> DEFINE i == att'[s].id
    <2>1. /\ i \in Ids \ minted /\ i \in minted'
          /\ UNCHANGED <<row, job, claim, cache>>
      BY <1>5 DEF Begins
    <2> HIDE DEF i
    <2>2. /\ row[i].item = None
          /\ \A o \in Submitters : pc[o] # "idle" => i \notin att[o].subs
          /\ \A t \in Titles : cache[t] # None => i \notin cache[t].subs
      BY <2>1, NewIdUnknown
    <2>3. ASSUME NEW o \in Submitters
          PROVE  /\ Own(o)' /\ att'[o].id = i => o = s
                 /\ pc'[o] = "claiming" => att'[o].id # i
                 /\ pc'[o] # "idle" => i \notin att'[o].subs
      <3>1. Own(o)' /\ att'[o].id = i => o = s
        BY <1>4, <1>5, <2>1, OwnAfter DEF Moves, AttMoves
      <3>2. pc'[o] = "claiming" => pc[o] \in {"adopting", "claiming"} /\ att'[o].id = att[o].id
        BY DEF Moves, AttMoves, AttMove, Rests, Begins, Works, EarlySteps, Intends,
           Sends, IsAccepted, TurnsToAdopt, TurnsToClaim, SameAttempt
      <3>3. pc'[o] = "claiming" => att'[o].id # i
        BY <2>1, <3>2, AdoptedInUse
      <3>4. ASSUME pc'[o] # "idle", i \in att'[o].subs
            PROVE  FALSE
        <4>1. /\ pc[o] # "idle"
              /\ \/ i \in att[o].subs
                 \/ cache[att[o].title] # None /\ i \in cache[att[o].title].subs
                 \/ row[i].title = att[o].title /\ row[i].item # None
          BY <3>4, SubsAfter
        <4>2. att[o].title \in Titles
          BY <4>1 DEF TrackInv, CoreInv, AttemptsAreAbout
        <4> QED BY <2>2, <4>1, <4>2
      <3> QED BY <3>1, <3>3, <3>4
    <2>4. ASSUME NEW t \in Titles
          PROVE  /\ claim'[t] # None /\ claim'[t].known => claim'[t].id # i
                 /\ cache'[t] # None => i \notin cache'[t].subs
      BY <2>1, <2>2 DEF TrackInv, NewIdsAreBlank
    <2> QED BY <2>1, <2>3, <2>4 DEF i
  <1>6. CASE Own(s) /\ att'[s].id = att[s].id /\ att'[s].title = att[s].title
    <2> DEFINE i == att[s].id
    <2>0. /\ i \in Ids /\ i \in minted /\ pc[s] # "idle" /\ att[s].title \in Titles
          /\ att'[s].id = i
      BY <1>4, <1>6 DEF TrackInv, CoreInv, AttemptsAreAbout, Own
    <2>1. \A o \in Submitters : /\ Own(o) /\ att[o].id = i => o = s
                                /\ pc[o] = "claiming" => att[o].id # i
                                /\ pc[o] # "idle" /\ i \in att[o].subs =>
                                      att[o].title = att[s].title
      BY <1>6 DEF TrackInv, OwnIdIsOwn
    <2>2. \A t \in Titles :
              /\ claim[t] # None /\ claim[t].known => claim[t].id # i
              /\ cache[t] # None /\ i \in cache[t].subs => t = att[s].title
      BY <1>6 DEF TrackInv, OwnIdIsOwn
    <2>3. row[i].item # None => row[i].title = att[s].title
      BY <1>6, OwnRowTitle
    <2> HIDE DEF i
    <2>4. ASSUME NEW o \in Submitters
          PROVE  /\ Own(o)' /\ att'[o].id = i => o = s
                 /\ pc'[o] = "claiming" => att'[o].id # i
                 /\ pc'[o] # "idle" /\ i \in att'[o].subs => att'[o].title = att[s].title
      <3>1. Own(o)' /\ att'[o].id = i => o = s
        BY <2>0, <2>1, OwnAfter DEF Begins
      <3>2. ASSUME pc'[o] = "claiming"
            PROVE  att'[o].id # i
        <4>1. \/ pc[o] = "claiming" /\ att'[o].id = att[o].id
              \/ TurnsToClaim(o)
          BY <3>2 DEF Moves, AttMoves, AttMove, Rests, Begins, Works, EarlySteps, Intends,
             Sends, IsAccepted, TurnsToAdopt, SameAttempt
        <4>2. CASE TurnsToClaim(o)
          <5>1. row[att[o].id].item # None /\ row[att[o].id].title = None /\ att'[o].id = att[o].id
            BY <4>2, AdoptedInUse DEF TurnsToClaim, SameAttempt
          <5> QED BY <2>0, <2>3, <5>1, NoneAssumption
        <4> QED BY <2>1, <4>1, <4>2
      <3>3. ASSUME pc'[o] # "idle", i \in att'[o].subs
            PROVE  att'[o].title = att[s].title
        <4>1. /\ pc[o] # "idle" /\ att'[o].title = att[o].title
              /\ \/ i \in att[o].subs
                 \/ cache[att[o].title] # None /\ i \in cache[att[o].title].subs
                 \/ row[i].title = att[o].title /\ row[i].item # None
          BY <3>3, SubsAfter
        <4>2. att[o].title \in Titles
          BY <4>1 DEF TrackInv, CoreInv, AttemptsAreAbout
        <4> QED BY <2>1, <2>2, <2>3, <4>1, <4>2
      <3> QED BY <3>1, <3>2, <3>3
    <2>5. ASSUME NEW o \in Submitters, att[o].id = i, Own(o) \/ pc[o] = "claiming"
          PROVE  pc'[o] # "idle"
      BY <1>3, <2>1, <2>5
    <2>6. ASSUME NEW t \in Titles, claim'[t] # None, claim'[t].known
          PROVE  claim'[t].id # i
      <3>1. ClaimMove(t)
        BY DEF Moves, ClaimMoves
      <3> QED BY <2>2, <2>5, <2>6, <3>1 DEF ClaimMove
    <2>7. ASSUME NEW t \in Titles, cache'[t] # None, i \in cache'[t].subs
          PROVE  t = att[s].title
      <3>1. \/ cache[t] # None /\ i \in cache[t].subs
            \/ \E o \in Submitters :
                  pc[o] # "idle" /\ att[o].title = t /\ i \in att[o].subs
            \/ row[i].title = t /\ row[i].item # None
            \/ \E o \in Submitters :
                  /\ i = att[o].id /\ pc'[o] = "idle"
                  /\ pc[o] \in {"recording", "claiming"}
        BY <2>7 DEF Moves, CacheMoves
      <3> QED BY <2>1, <2>2, <2>3, <2>5, <3>1 DEF Own
    <2> QED BY <1>2, <1>6, <2>0, <2>4, <2>6, <2>7
  <1> QED BY <1>1, <1>5, <1>6

\* No job gets the token of an attempt that does not send.
LEMMA NoNewJob ==
    ASSUME TrackInv, Moves, NEW s \in Submitters, Own(s), pc[s] # "submitting",
           NEW k \in Jobs, job'[k].tok = att[s].id
    PROVE  job[k].tok = att[s].id
  <1>1. ASSUME NEW o \in Submitters, NEW l \in Jobs, Took(o, l)
        PROVE  job[k].tok = att[s].id
    <2>1. att[o].id # att[s].id
      BY <1>1 DEF Took, TrackInv, OwnIdIsOwn, Own
    <2> QED BY <1>1, <2>1 DEF Took
  <1> QED BY <1>1 DEF Moves, JobMoves

\* The same, for one that is still sending after the step.
LEMMA NoNewJobYet ==
    ASSUME TrackInv, Moves, NEW s \in Submitters, pc[s] = "submitting",
           pc'[s] = "submitting", NEW k \in Jobs, job'[k].tok = att[s].id
    PROVE  job[k].tok = att[s].id
  <1>1. ASSUME NEW o \in Submitters, NEW l \in Jobs, Took(o, l)
        PROVE  job[k].tok = att[s].id
    <2>1. att[o].id # att[s].id
      BY <1>1 DEF Took, TrackInv, OwnIdIsOwn, Own
    <2> QED BY <1>1, <2>1 DEF Took
  <1> QED BY <1>1 DEF Moves, JobMoves

\* How far an attempt is goes on showing in the store and in the client.
LEMMA OwnIdProgressKept ==
    ASSUME TrackInv, Moves
    PROVE  OwnIdProgress'
  <1> SUFFICES ASSUME NEW s \in Submitters
               PROVE
        /\ Early(s)' => /\ row'[att'[s].id].bind = "none" /\ row'[att'[s].id].title = None
                        /\ \A k \in Jobs : job'[k].tok # att'[s].id
        /\ pc'[s] \in {"submitting", "answered", "recording"} =>
              row'[att'[s].id].title = att'[s].title
        /\ pc'[s] = "submitting" =>
              /\ \A k \in Jobs : job'[k].tok # att'[s].id
              /\ \/ row'[att'[s].id].sub /\ row'[att'[s].id].bind = "unbound"
                 \/ BoundAstray(att[s].id)'
        /\ pc'[s] = "answered" /\ att'[s].answer = "refused" =>
              \A k \in Jobs : job'[k].tok # att'[s].id
        /\ pc'[s] \in {"answered", "recording"} /\ HasItem(s)' =>
              \A k \in Jobs : job'[k].tok = att'[s].id => k = att'[s].item
    BY DEF OwnIdProgress, OnlyJob
  <1>0. AttMove(s)
    BY DEF Moves, AttMoves
  <1>1. /\ Early(s) => /\ row[att[s].id].bind = "none" /\ row[att[s].id].title = None
                       /\ \A k \in Jobs : job[k].tok # att[s].id
        /\ pc[s] \in {"submitting", "answered", "recording"} =>
              row[att[s].id].title = att[s].title
        /\ pc[s] = "submitting" =>
              /\ \A k \in Jobs : job[k].tok # att[s].id
              /\ \/ row[att[s].id].sub /\ row[att[s].id].bind = "unbound"
                 \/ BoundAstray(att[s].id)
        /\ pc[s] = "answered" /\ att[s].answer = "refused" =>
              \A k \in Jobs : job[k].tok # att[s].id
        /\ pc[s] \in {"answered", "recording"} /\ HasItem(s) =>
              \A k \in Jobs : job[k].tok = att[s].id => k = att[s].item
    <2>1. None \notin Jobs
      BY NoneAssumption
    <2> QED BY <2>1 DEF TrackInv, OwnIdProgress, OnlyJob
  <1>2. CASE pc'[s] \in {"idle", "adopting", "claiming"}
    BY <1>2 DEF Early, HasItem
  <1>3. CASE Begins(s)
    <2>1. /\ att'[s].id \in Ids \ minted /\ pc'[s] = "claims"
          /\ UNCHANGED <<row, job>>
      BY <1>3 DEF Begins
    <2> QED BY <2>1, NewIdUnknown DEF Early
  <1>4. CASE Early(s) /\ Early(s)' /\ att'[s].id = att[s].id
    <2>1. Own(s) /\ pc[s] # "submitting" /\ pc'[s] \notin {"idle", "adopting", "submitting"}
      BY <1>4 DEF Early, Own
    <2>2. row'[att[s].id].bind = "none" /\ row'[att[s].id].title = None
      BY <1>1, <1>4, <2>1, OwnRowKept
    <2>3. \A k \in Jobs : job'[k].tok # att[s].id
      BY <1>1, <1>4, <2>1, NoNewJob
    <2> QED BY <1>4, <2>2, <2>3 DEF Early, HasItem
  <1>5. CASE Intends(s)
    BY <1>1, <1>5 DEF Intends, Intended, SameAttempt, Early, HasItem
  <1>6. CASE Rests(s) /\ pc[s] = "submitting"
    <2>1. /\ pc'[s] = "submitting" /\ att'[s].id = att[s].id /\ att'[s].title = att[s].title
          /\ Own(s)
      BY <1>6 DEF Rests, SameAttempt, Own
    <2>2. att[s].id \in Ids
      BY <2>1 DEF TrackInv, CoreInv, AttemptsAreAbout, Own
    <2>3. \A k \in Jobs : job'[k].tok # att[s].id
      BY <1>1, <1>6, <2>1, NoNewJobYet
    <2>4. /\ row'[att[s].id].title = row[att[s].id].title
          /\ row[att[s].id].sub /\ row[att[s].id].bind = "unbound" =>
                 \/ row'[att[s].id].sub /\ row'[att[s].id].bind = "unbound"
                 \/ Exists(row'[att[s].id].item) /\ job[row'[att[s].id].item].tok \in {att[s].id, None}
      BY <1>6, <2>1, OwnRowKept
    <2>5. ASSUME Exists(row'[att[s].id].item), job[row'[att[s].id].item].tok \in {att[s].id, None}
          PROVE  BoundAstray(att[s].id)'
      <3>1. job[row'[att[s].id].item].tok = None
        BY <1>1, <1>6, <2>5 DEF Exists
      <3>2. job'[row'[att[s].id].item].tok = None /\ row'[att[s].id].item \in Jobs
        BY <2>5, <3>1, JobsStick
      <3> QED BY <2>1, <3>2, NoneAssumption DEF BoundAstray
    <2>6. ASSUME BoundAstray(att[s].id)
          PROVE  BoundAstray(att[s].id)'
      <3>1. row[att[s].id].item # None /\ job[row[att[s].id].item].tok = None
        BY <2>6 DEF BoundAstray
      <3>2. Exists(row[att[s].id].item) /\ row'[att[s].id].item = row[att[s].id].item
        BY <2>2, <3>1, ItemsStick DEF TrackInv, ItemsExist
      <3>3. job'[row[att[s].id].item].tok = None
        BY <3>1, <3>2, JobsStick
      <3> QED BY <2>1, <3>1, <3>2, <3>3 DEF BoundAstray
    <2> QED BY <1>1, <1>6, <2>1, <2>3, <2>4, <2>5, <2>6 DEF Early, HasItem
  <1>7. CASE Sends(s)
    <2>1. /\ pc[s] = "submitting" /\ pc'[s] = "answered" /\ att'[s].id = att[s].id
          /\ att'[s].title = att[s].title /\ Own(s)
      BY <1>7 DEF Sends, Own
    <2>2. row'[att[s].id].title = row[att[s].id].title
      BY <2>1, OwnRowKept
    <2> QED BY <1>1, <1>7, <2>1, <2>2 DEF Sends, Early, HasItem
  <1>8. CASE \/ Rests(s) /\ pc[s] \in {"answered", "recording"}
             \/ IsAccepted(s)
    <2>1. /\ pc[s] \in {"answered", "recording"} /\ pc'[s] \in {"answered", "recording"}
          /\ SameAttempt(s) /\ Own(s)
          /\ HasItem(s)' => HasItem(s)
          /\ pc'[s] = "answered" => pc[s] = "answered" /\ att'[s].answer = att[s].answer
      BY <1>8 DEF Rests, IsAccepted, SameAttempt, Own, HasItem
    <2>2. row'[att[s].id].title = row[att[s].id].title
      BY <2>1, OwnRowKept
    <2>3. \A k \in Jobs : job'[k].tok = att[s].id => job[k].tok = att[s].id
      BY <2>1, NoNewJob
    <2> QED BY <1>1, <2>1, <2>2, <2>3 DEF SameAttempt, Early
  <1>9. pc[s] \in Steps
    BY DEF TrackInv, CoreInv, TypeOK
  <1>10. CASE Works(s) \/ (Rests(s) /\ Early(s))
    BY <1>4, <1>10 DEF Works, Rests, SameAttempt, Early, EarlySteps
  <1>11. CASE Rests(s)
    BY <1>2, <1>6, <1>8, <1>9, <1>10, <1>11 DEF Steps, Early, Rests
  <1> QED BY <1>0, <1>2, <1>3, <1>5, <1>7, <1>8, <1>10, <1>11 DEF AttMove,
          TurnsToAdopt, TurnsToClaim

\* Adoptions, title states and replacements go on agreeing with the store.
LEMMA AttemptsAgreeKept ==
    ASSUME TrackInv, Moves
    PROVE  AttemptsAgree'
  <1>1. ASSUME NEW s \in Submitters, pc'[s] \in {"adopting", "claiming"}
        PROVE  row'[att'[s].id].item = att'[s].item
    <2>1. \/ TurnsToAdopt(s)
          \/ pc[s] \in {"adopting", "claiming"} /\ SameAttempt(s)
      BY <1>1 DEF Moves, AttMoves, AttMove, Rests, Begins, Works, EarlySteps, Intends,
         Sends, IsAccepted, TurnsToClaim
    <2>2. CASE TurnsToAdopt(s)
      <3>1. Exists(att[s].item)
        BY <2>2 DEF TurnsToAdopt, TrackInv, ItemsExist, HasItem
      <3> QED BY <2>2, <3>1, ItemsStick, NoneAssumption DEF TurnsToAdopt, Exists
    <2>3. CASE pc[s] \in {"adopting", "claiming"} /\ SameAttempt(s)
      BY <2>3, AdoptedInUse, ItemsStick DEF SameAttempt
    <2> QED BY <2>1, <2>2, <2>3
  <1>2. ASSUME NEW s \in Submitters, pc'[s] # "idle", NEW i \in att'[s].subs
        PROVE  row'[i].item # None
    <2>1. i \in Ids
      BY <1>2 DEF Moves, CoreInv, TypeOK, Attempts
    <2>2. /\ pc[s] # "idle"
          /\ \/ i \in att[s].subs
             \/ cache[att[s].title] # None /\ i \in cache[att[s].title].subs
             \/ row[i].title = att[s].title /\ row[i].item # None
      BY <1>2, SubsAfter
    <2>3. att[s].title \in Titles
      BY <2>2 DEF TrackInv, CoreInv, AttemptsAreAbout
    <2>4. row[i].item # None
      BY <2>2, <2>3 DEF TrackInv, AttemptsAgree
    <2> QED BY <2>1, <2>4, ItemsStick
  <1>3. ASSUME NEW s \in Submitters, pc'[s] = "replaced"
        PROVE  job'[att'[s].item].st \notin Blocking
    <2>1. Works(s) \/ (pc[s] = "replaced" /\ SameAttempt(s))
      BY <1>3 DEF Moves, AttMoves, AttMove, Rests, Begins, Intends, Sends, IsAccepted,
         TurnsToAdopt, TurnsToClaim
    <2>2. CASE Works(s)
      BY <1>3, <2>2 DEF Works
    <2>3. CASE pc[s] = "replaced" /\ SameAttempt(s)
      <3>1. Exists(att[s].item) /\ job[att[s].item].st \notin Blocking
        BY <2>3 DEF TrackInv, ItemsExist, HasItem, AttemptsAgree
      <3> QED BY <2>3, <3>1, JobsStick DEF SameAttempt
    <2> QED BY <2>1, <2>2, <2>3
  <1>4. ASSUME NEW t \in Titles, cache'[t] # None, NEW i \in cache'[t].subs
        PROVE  row'[i].item # None
    <2>1. i \in Ids
      BY <1>4 DEF Moves, CoreInv, TypeOK, TitleStates
    <2>2. row[i].item # None \/ row'[i].item # None
      BY <1>4 DEF Moves, CacheMoves, TrackInv, AttemptsAgree
    <2> QED BY <2>1, <2>2, ItemsStick
  <1> QED BY <1>1, <1>2, <1>3, <1>4 DEF AttemptsAgree

-----------------------------------------------------------------------------
(* The invariant survives such a step: the listings.                        *)

\* TakenUp and Covers in the state after the step.
TakenUpNext(j) ==
    \/ \E i \in Ids : i # job'[j].tok /\ row'[i].item = j
    \/ \E s \in Submitters : pc'[s] \in {"recording", "adopting", "claiming"}
                               /\ att'[s].item = j
    \/ \E t \in Titles : /\ claim'[t] # None /\ claim'[t].kind = "accepted"
                         /\ claim'[t].item = j

CoversNext(l) ==
    l.full => \A j \in Jobs :
        \/ job'[j].st \notin Blocking \/ job'[j].tok = None
        \/ l.at[j] \in OnClient \ {"failed"}
        \/ /\ \E s \in Submitters : pc'[s] = "answered" /\ att'[s].id = job'[j].tok
           /\ ~TakenUpNext(j)

\* Nobody takes up a job unmet but by an answer, which drops the listings.
LEMMA StaysUnmet ==
    ASSUME TrackInv, Moves, ~Dropped, NEW j \in Jobs, Exists(j), job[j].tok # None,
           TakenUpNext(j)
    PROVE  TakenUp(j)
  <1>0. job'[j].tok = job[j].tok
    BY JobsStick
  <1>1. ASSUME NEW i \in Ids, i # job[j].tok, row'[i].item = j
        PROVE  TakenUp(j)
    <2>1. j # None
      BY NoneAssumption
    <2>2. row[i].item = j \/ Recorded(i) \/ Observed(i) \/ Discovered(i)
      BY <1>1, <2>1, ItemsStick
    <2>3. CASE row[i].item = j
      BY <1>1, <2>3 DEF TakenUp
    <2> QED BY <1>1, <2>2, <2>3 DEF Recorded, Observed, Discovered
  <1>2. ASSUME NEW s \in Submitters, pc'[s] \in {"recording", "adopting", "claiming"},
               att'[s].item = j
        PROVE  TakenUp(j)
    <2>1. pc[s] # "answered"
      BY <1>2 DEF Moves, ListingMoves
    <2>2. AttMove(s)
      BY DEF Moves, AttMoves
    <2>3. pc[s] \in {"recording", "adopting", "claiming"} /\ att[s].item = j
      BY <1>2, <2>1, <2>2 DEF AttMove, Rests, Begins, Works, EarlySteps, Intends,
         Sends, IsAccepted, TurnsToAdopt, TurnsToClaim, SameAttempt
    <2> QED BY <2>3 DEF TakenUp
  <1>3. ASSUME NEW t \in Titles, claim'[t] # None, claim'[t].kind = "accepted",
               claim'[t].item = j
        PROVE  TakenUp(j)
    <2>1. ClaimMove(t)
      BY DEF Moves, ClaimMoves
    <2>2. CASE claim'[t] = claim[t]
      BY <1>3, <2>2 DEF TakenUp
    <2>3. ASSUME NEW s \in Submitters, pc[s] \in {"recording", "claiming"},
                 claim'[t].item = att[s].item
          PROVE  TakenUp(j)
      BY <1>3, <2>3 DEF TakenUp
    <2> QED BY <1>3, <2>1, <2>2, <2>3 DEF ClaimMove
  <1> QED BY <1>0, <1>1, <1>2, <1>3 DEF TakenUpNext

\* A job that has just been made is met by nobody but its submit.
LEMMA NewJobUnmet ==
    ASSUME TrackInv, NEW s \in Submitters, NEW j \in Jobs, Took(s, j)
    PROVE  ~TakenUpNext(j)
  <1>1. ~Exists(j) /\ j # None
    BY NoneAssumption DEF Took, Exists
  <1>2. \A i \in Ids : row'[i].item # j
    BY <1>1 DEF Took, TrackInv, ItemsExist
  <1>3. \A o \in Submitters : pc'[o] \in {"recording", "adopting", "claiming"} =>
            att'[o].item # j
    BY <1>1 DEF Took, TrackInv, ItemsExist, HasItem
  <1>4. \A t \in Titles : claim'[t] # None /\ claim'[t].kind = "accepted" =>
            claim'[t].item # j
    BY <1>1 DEF Took, TrackInv, ItemsExist
  <1> QED BY <1>2, <1>3, <1>4 DEF TakenUpNext

\* A listing that is not dropped goes on covering the running jobs.
LEMMA CoversKept ==
    ASSUME TrackInv, Moves, ~Dropped, NEW l, Covers(l)
    PROVE  CoversNext(l)
  <1> SUFFICES ASSUME l.full, NEW j \in Jobs, job'[j].st \in Blocking, job'[j].tok # None,
                      l.at[j] \notin OnClient \ {"failed"}
               PROVE  /\ \E s \in Submitters : pc'[s] = "answered" /\ att'[s].id = job'[j].tok
                      /\ ~TakenUpNext(j)
    BY DEF CoversNext
  <1>1. CASE job[j].st = "absent"
    <2>1. job[j].tok = None
      BY <1>1 DEF TrackInv, ItemsExist
    <2>2. PICK s \in Submitters, k \in Jobs : Took(s, k)
      BY <2>1 DEF Moves, JobMoves
    <2>3. k = j
      BY <2>1, <2>2 DEF Took
    <2>4. Took(s, j)
      BY <2>2, <2>3
    <2> QED BY <2>4, NewJobUnmet DEF Took
  <1>2. CASE job[j].st # "absent"
    <2>1. Exists(j)
      BY <1>2 DEF Exists
    <2>2. job'[j].tok = job[j].tok /\ job[j].st \in Blocking
      BY <2>1, JobsStick
    <2>3. PICK s \in Submitters : pc[s] = "answered" /\ att[s].id = job[j].tok /\ ~TakenUp(j)
      BY <2>2 DEF Covers
    <2>4. pc'[s] = "answered" /\ att'[s].id = att[s].id
      BY <2>3 DEF Moves, ListingMoves
    <2>5. ~TakenUpNext(j)
      BY <2>1, <2>2, <2>3, StaysUnmet
    <2> QED BY <2>2, <2>3, <2>4, <2>5
  <1> QED BY <1>1, <1>2

\* What the client has just listed covers the running jobs.
LEMMA ListedCovers ==
    ASSUME NEW l, Listed(l), UNCHANGED <<job>>
    PROVE  CoversNext(l)
  <1>1. CASE l = NoListing
    BY <1>1 DEF CoversNext, NoListing
  <1>2. CASE l = Listing
    <2>1. \A j \in Jobs : job[j].st \in Blocking => l.at[j] \in OnClient \ {"failed"}
      BY <1>2 DEF Listing, Blocking, OnClient
    <2> QED BY <2>1 DEF CoversNext
  <1> QED BY <1>1, <1>2 DEF Listed

\* The listings that are, or may become, reusable go on covering the jobs.
LEMMA ListingsCoverKept ==
    ASSUME TrackInv, Moves
    PROVE  ListingsCover'
  <1> SUFFICES /\ shared' # None => CoversNext(shared')
               /\ \A s \in Submitters : pc'[s] = "fetching" /\ att'[s].fresh =>
                      CoversNext(att'[s].listing)
    BY DEF ListingsCover, Covers, CoversNext, TakenUp, TakenUpNext
  <1>1. CASE Dropped
    BY <1>1 DEF Dropped
  <1>2. CASE ~Dropped
    <2>1. ASSUME shared' # None
          PROVE  CoversNext(shared')
      <3>1. PICK l : shared' = l /\ Covers(l)
        BY <2>1 DEF Moves, ListingMoves, TrackInv, ListingsCover
      <3> QED BY <1>2, <3>1, CoversKept
    <2>2. ASSUME NEW s \in Submitters, pc'[s] = "fetching", att'[s].fresh
          PROVE  CoversNext(att'[s].listing)
      <3>1. \/ Works(s)
            \/ pc[s] = "fetching" /\ att[s].fresh /\ att'[s].listing = att[s].listing
        BY <2>2 DEF Moves, AttMoves, AttMove, Rests, Begins, Intends, Sends, IsAccepted,
           TurnsToAdopt, TurnsToClaim
      <3>2. CASE Works(s)
        BY <2>2, <3>2, ListedCovers DEF Works
      <3>3. CASE pc[s] = "fetching" /\ att[s].fresh /\ att'[s].listing = att[s].listing
        <4>1. Covers(att[s].listing)
          BY <3>3 DEF TrackInv, ListingsCover
        <4> QED BY <1>2, <3>3, <4>1, CoversKept
      <3> QED BY <3>1, <3>2, <3>3
    <2> QED BY <2>1, <2>2
  <1> QED BY <1>1, <1>2

\* A job of the title state that a reusable listing does not have is not running:
\* its submit would be an attempt on the same title.
LEMMA EvidenceOf ==
    ASSUME TrackInv, NEW s \in Submitters, Early(s), NEW l, Covers(l), l.full,
           NEW i \in att[s].subs
    PROVE  \/ job[row[i].item].st \notin Blocking \/ job[row[i].item].tok = None
           \/ l.at[row[i].item] \in OnClient \ {"failed"}
  <1> DEFINE j == row[i].item
  <1>1. pc[s] # "idle" /\ i \in Ids
    BY DEF Early, TrackInv, CoreInv, TypeOK, Attempts
  <1>2. j # None /\ Exists(j)
    BY <1>1 DEF TrackInv, AttemptsAgree, ItemsExist
  <1>3. j \in Jobs
    BY <1>2 DEF Exists
  <1>4. ASSUME NEW o \in Submitters, pc[o] = "answered", att[o].id = job[j].tok, ~TakenUp(j)
        PROVE  FALSE
    <2>1. i = job[j].tok
      BY <1>1, <1>4 DEF TakenUp
    <2>2. att[s].title = att[o].title
      BY <1>1, <1>4, <2>1 DEF TrackInv, OwnIdIsOwn, Own
    <2>3. s = o
      BY <1>1, <1>4, <2>2 DEF TrackInv, CoreInv, OneAttemptPerTitle
    <2> QED BY <1>4, <2>3 DEF Early
  <1> HIDE DEF j
  <1>5. \/ job[j].st \notin Blocking \/ job[j].tok = None
        \/ l.at[j] \in OnClient \ {"failed"}
    BY <1>3, <1>4 DEF Covers
  <1> QED BY <1>5 DEF j

\* An attempt goes on deciding on evidence.
LEMMA DecidesOnEvidenceKept ==
    ASSUME TrackInv, Moves
    PROVE  DecidesOnEvidence'
  <1> SUFFICES ASSUME NEW s \in Submitters, pc'[s] = "decide", att'[s].listing.full,
                      NEW i \in att'[s].subs
               PROVE  \/ job'[row'[i].item].st \notin Blocking
                      \/ job'[row'[i].item].tok = None
                      \/ att'[s].listing.at[row'[i].item] \in OnClient \ {"failed"}
    BY DEF DecidesOnEvidence, Seen
  <1>1. Works(s) \/ (pc[s] = "decide" /\ Rests(s))
    BY DEF Moves, AttMoves, AttMove, Rests, Begins, Intends, Sends, IsAccepted,
       TurnsToAdopt, TurnsToClaim
  <1>2. CASE Works(s)
    <2>1. /\ Early(s) /\ UNCHANGED <<row, job>> /\ att'[s].subs = att[s].subs
          /\ \/ att[s].subs = {}
             \/ shared # None /\ att'[s].listing = shared
             \/ /\ pc[s] = "fetching" /\ att[s].fresh
                /\ att'[s].listing = att[s].listing
      BY <1>2 DEF Works
    <2>2. Covers(att'[s].listing)
      BY <2>1 DEF TrackInv, ListingsCover
    <2>3. \/ job[row[i].item].st \notin Blocking \/ job[row[i].item].tok = None
          \/ att'[s].listing.at[row[i].item] \in OnClient \ {"failed"}
      BY <2>1, <2>2, EvidenceOf
    <2> QED BY <2>1, <2>3
  <1>3. CASE pc[s] = "decide" /\ Rests(s)
    <2>1. /\ att'[s].subs = att[s].subs /\ att'[s].listing = att[s].listing
      BY <1>3 DEF Rests, SameAttempt
    <2>2. i \in Ids
      BY DEF Moves, CoreInv, TypeOK, Attempts
    <2>3. row[i].item # None /\ Exists(row[i].item) /\ row'[i].item = row[i].item
      BY <1>3, <2>1, <2>2, ItemsStick DEF TrackInv, AttemptsAgree, ItemsExist
    <2>4. /\ job'[row[i].item].tok = job[row[i].item].tok
          /\ job[row[i].item].st \notin Blocking => job'[row[i].item].st \notin Blocking
      BY <2>3, JobsStick
    <2>5. \/ job[row[i].item].st \notin Blocking \/ job[row[i].item].tok = None
          \/ att[s].listing.at[row[i].item] \in OnClient \ {"failed"}
      BY <1>3, <2>1 DEF TrackInv, DecidesOnEvidence, Seen
    <2> QED BY <2>1, <2>3, <2>4, <2>5
  <1> QED BY <1>1, <1>2, <1>3

-----------------------------------------------------------------------------
(* The invariant survives such a step: no running grab is lost.             *)

\* A download bound to a running job goes on being, or hands it to another, or
\* was deleted blindly.
LEMMA BoundStays ==
    ASSUME TrackInv, Moves, NEW j \in Jobs, job[j].st \in Blocking, job[j].tok # None,
           NEW o \in Bound(j)
    PROVE  \/ \E i \in Ids : row'[i].bind = "bound" /\ row'[i].item = j
           \/ \E i \in blind' \cap Ids : row[i].item = j
  <1>1. o \in Ids /\ row[o].bind = "bound" /\ row[o].item = j
    BY DEF Bound
  <1>2. j # None
    BY NoneAssumption
  <1>3. o \in minted
    BY <1>1 DEF TrackInv, NewIdsAreBlank
  <1>4. row'[o].item = j
    BY <1>1, <1>2, ItemsStick
  <1>5. RowMove(o)
    BY <1>1 DEF Moves, RowMoves
  <1>6. CASE row'[o].bind = "bound"
    BY <1>1, <1>4, <1>6
  <1>7. CASE Superseded(o)
    BY <1>1, <1>7 DEF Superseded
  <1>8. CASE Deleted(o) /\ row'[o].bind # "bound"
    BY <1>1, <1>8 DEF Deleted
  <1>9. ~Intended(o) /\ ~Withdrawn(o) /\ ~Ended(o) /\ ~Discovered(o) /\ ~Observed(o)
    BY <1>1, <1>3 DEF Intended, Withdrawn, Ended, Discovered, Observed
  <1>10. Flagged(o) \/ Recorded(o) => row'[o].bind = "bound"
    BY <1>1 DEF Flagged, SameRow, Recorded
  <1> QED BY <1>5, <1>6, <1>7, <1>8, <1>9, <1>10 DEF RowMove

\* An intent that waits for its running job goes on waiting, is bound to it or
\* astray, or leaves it to the download that has it.
LEMMA IntentStays ==
    ASSUME TrackInv, Moves, NEW j \in Jobs, job[j].st \in Blocking,
           NEW i \in Ids, job[j].tok = i, row[i].sub, row[i].bind = "unbound"
    PROVE  \/ row'[i].sub /\ row'[i].bind = "unbound"
           \/ \E o \in Ids : row'[o].bind = "bound" /\ row'[o].item = j
           \/ BoundAstray(i)'
  <1>1. i \in minted /\ row[i].item = None
    BY NoneAssumption DEF TrackInv, NewIdsAreBlank, ItemMeansBound
  <1>2. RowMove(i)
    BY DEF Moves, RowMoves
  <1>3. CASE Flagged(i)
    BY <1>3 DEF Flagged, SameRow
  <1>4. CASE Withdrawn(i)
    BY <1>4 DEF Withdrawn, Bound
  <1>5. CASE Recorded(i)
    <2>1. row'[i].bind = "bound" /\ Exists(row'[i].item)
      BY <1>5 DEF Recorded
    <2>2. OnlyJob(i, row'[i].item)
      BY <1>1, <1>5, <2>1, NoneAssumption DEF Recorded, Exists
    <2> QED BY <2>1, <2>2 DEF OnlyJob
  <1>6. CASE Observed(i)
    <2>1. /\ row'[i].bind = "bound" /\ Exists(row'[i].item)
          /\ job[row'[i].item].tok \in {i, None}
      BY <1>6 DEF Observed
    <2>2. CASE job[row'[i].item].tok = i
      <3>1. row'[i].item = j
        BY <2>1, <2>2 DEF TrackInv, OneJobPerToken, Exists
      <3> QED BY <2>1, <3>1
    <2>3. CASE job[row'[i].item].tok = None
      <3>1. job'[row'[i].item].tok = None /\ row'[i].item \in Jobs
        BY <2>1, <2>3, JobsStick
      <3> QED BY <3>1, NoneAssumption DEF BoundAstray
    <2> QED BY <2>1, <2>2, <2>3
  <1>7. ~Intended(i) /\ ~Superseded(i) /\ ~Deleted(i) /\ ~Ended(i) /\ ~Discovered(i)
    BY <1>1 DEF Intended, Superseded, Deleted, Ended, Discovered
  <1> QED BY <1>2, <1>3, <1>4, <1>5, <1>6, <1>7 DEF RowMove

\* A running job of ours goes on resolving to a download.
LEMMA JobIsTrackedKept ==
    ASSUME TrackInv, Moves
    PROVE  JobIsTracked'
  <1> SUFFICES ASSUME NEW j \in Jobs, job'[j].st \in Blocking, job'[j].tok # None
               PROVE  \/ row'[job'[j].tok].sub /\ row'[job'[j].tok].bind = "unbound"
                      \/ \E o \in Ids : row'[o].bind = "bound" /\ row'[o].item = j
                      \/ \E i \in blind' : row'[i].item = j
                      \/ BoundAstray(job[j].tok)'
    BY DEF JobIsTracked, Bound
  <1>0. blind \subseteq blind' /\ blind' \subseteq Ids /\ j # None
    BY NoneAssumption DEF Moves, Grows, CoreInv, TypeOK
  <1>1. CASE job[j].st = "absent"
    <2>1. job[j].tok = None
      BY <1>1 DEF TrackInv, ItemsExist
    <2>2. PICK s \in Submitters, k \in Jobs : Took(s, k)
      BY <2>1 DEF Moves, JobMoves
    <2>3. k = j
      BY <2>1, <2>2 DEF Took
    <2>4. /\ pc[s] = "submitting" /\ job'[j].tok = att[s].id /\ row' = row
      BY <2>2, <2>3 DEF Took
    <2>5. att[s].id \in Ids
      BY <2>4 DEF TrackInv, CoreInv, AttemptsAreAbout
    <2>6. (row[att[s].id].sub /\ row[att[s].id].bind = "unbound") \/ BoundAstray(att[s].id)
      BY <2>4 DEF TrackInv, OwnIdProgress
    <2>7. ASSUME BoundAstray(att[s].id)
          PROVE  BoundAstray(job[j].tok)'
      <3>1. row[att[s].id].item # None /\ job[row[att[s].id].item].tok = None
        BY <2>7 DEF BoundAstray
      <3>2. Exists(row[att[s].id].item)
        BY <2>5, <3>1 DEF TrackInv, ItemsExist
      <3>3. job'[row[att[s].id].item].tok = None
        BY <3>1, <3>2, JobsStick
      <3> QED BY <2>4, <3>1, <3>3 DEF BoundAstray
    <2> QED BY <2>4, <2>6, <2>7
  <1>2. CASE job[j].st # "absent"
    <2>1. Exists(j)
      BY <1>2 DEF Exists
    <2>2. job'[j].tok = job[j].tok /\ job[j].st \in Blocking
      BY <2>1, JobsStick
    <2> DEFINE i == job[j].tok
    <2>3. i \in Ids
      BY <2>2 DEF TrackInv, CoreInv, TypeOK
    <2>4. \/ row[i].sub /\ row[i].bind = "unbound"
          \/ Bound(j) # {}
          \/ \E b \in blind : row[b].item = j
          \/ BoundAstray(i)
      BY <2>2 DEF TrackInv, JobIsTracked
    <2> HIDE DEF i
    <2>5. CASE row[i].sub /\ row[i].bind = "unbound"
      <3>1. \/ row'[i].sub /\ row'[i].bind = "unbound"
            \/ \E o \in Ids : row'[o].bind = "bound" /\ row'[o].item = j
            \/ row'[i].item # None /\ job'[row'[i].item].tok = None
        BY <2>2, <2>3, <2>5, IntentStays DEF i, BoundAstray
      <3> QED BY <2>2, <3>1 DEF i, BoundAstray
    <2>6. CASE Bound(j) # {}
      <3>1. \/ \E o \in Ids : row'[o].bind = "bound" /\ row'[o].item = j
            \/ \E b \in blind' \cap Ids : row[b].item = j
        BY <2>2, <2>6, BoundStays
      <3> QED BY <1>0, <3>1, ItemsStick
    <2>7. CASE \E b \in blind : row[b].item = j
      BY <1>0, <2>7, ItemsStick
    <2>8. CASE BoundAstray(i)
      <3>1. row[i].item # None /\ job[row[i].item].tok = None
        BY <2>8 DEF BoundAstray
      <3>2. Exists(row[i].item) /\ row'[i].item = row[i].item
        BY <2>3, <3>1, ItemsStick DEF TrackInv, ItemsExist
      <3>3. job'[row[i].item].tok = None
        BY <3>1, <3>2, JobsStick
      <3> QED BY <2>2, <3>1, <3>2, <3>3 DEF i, BoundAstray
    <2> QED BY <2>4, <2>5, <2>6, <2>7, <2>8
  <1> QED BY <1>1, <1>2

\* The invariant survives every such step.
LEMMA MovesKeepTrackInv ==
    ASSUME TrackInv, Moves
    PROVE  TrackInv'
  BY ItemMeansBoundKept, NewIdsAreBlankKept, ItemsExistKept, OneJobPerTokenKept,
     OwnIdIsOwnKept, OwnIdProgressKept, AcceptedClaimsKept, AttemptsAgreeKept,
     ListingsCoverKept, DecidesOnEvidenceKept, JobIsTrackedKept DEF TrackInv, Moves

-----------------------------------------------------------------------------
(* What the operations of the store, the client and the guard table do.     *)

\* Rows, jobs, claims and title states that stay the same.
LEMMA Quiet ==
    /\ UNCHANGED <<row>> => RowMoves
    /\ UNCHANGED <<job>> => JobMoves
    /\ UNCHANGED <<claim>> => ClaimMoves
    /\ UNCHANGED <<cache>> => CacheMoves
    /\ UNCHANGED <<shared>> => shared' \in {None, shared}
    /\ UNCHANGED <<minted, blind>> => Grows
  BY DEF RowMoves, RowMove, Flagged, SameRow, JobMoves, ClaimMoves, ClaimMove,
     CacheMoves, Grows

\* An intent is stored under an id its writer may write.
LEMMA PendingMoves ==
    ASSUME TrackInv, NEW i \in Ids, NEW t \in Titles, NEW f,
           row' = RecordPending(row, i, t, f), Writes(i, t)
    PROVE  RowMoves
  <1>1. ASSUME NEW o \in Ids, o # i \/ row[i].bind # "none"
        PROVE  row'[o] = row[o]
    BY <1>1 DEF RecordPending, TrackInv, CoreInv, TypeOK
  <1>2. ASSUME row[i].bind = "none"
        PROVE  Intended(i) /\ row'[i].title = t
    <2>1. row'[i] = [NoRow EXCEPT !.bind = "unbound", !.sub = TRUE, !.title = t, !.for = f]
      BY <1>2 DEF RecordPending, TrackInv, CoreInv, TypeOK
    <2>2. /\ row'[i].bind = "unbound" /\ row'[i].sub /\ row'[i].title = t
          /\ row'[i].item = None
      BY <2>1 DEF NoRow
    <2> QED BY <1>2, <2>2 DEF Intended
  <1> QED BY <1>1, <1>2 DEF RowMoves, RowMove, Flagged, SameRow

\* An intent is withdrawn whose job, if it has one, is another download's.
LEMMA WithdrawMoves ==
    ASSUME TrackInv, NEW i \in Ids, NEW t \in Titles,
           row' = Withdraw(row, i), Writes(i, t),
           row[i].bind = "unbound" => \A j \in Jobs : job[j].tok = i => Bound(j) # {}
    PROVE  RowMoves
  <1>0. row \in [Ids -> Rows]
    BY DEF TrackInv, CoreInv, TypeOK
  <1>1. ASSUME NEW o \in Ids, o # i \/ row[i].bind # "unbound"
        PROVE  row'[o] = row[o]
    BY <1>0, <1>1 DEF Withdraw
  <1>2. ASSUME row[i].bind = "unbound"
        PROVE  Withdrawn(i)
    <2>1. /\ row'[i].bind = "none" /\ row'[i].item = row[i].item
          /\ row'[i].title = row[i].title
      BY <1>0, <1>2 DEF Withdraw, Rows
    <2>2. \A j \in Jobs : job[j].tok = i =>
              \E o \in Ids : o \in Bound(j) /\ row'[o] = row[o]
      BY <1>1, <1>2 DEF Bound
    <2> QED BY <1>2, <2>1, <2>2 DEF Withdrawn
  <1> QED BY <1>1, <1>2 DEF RowMoves, RowMove, Flagged, SameRow

\* An acceptance is recorded of a job that is this download's or carries its id.
LEMMA AcceptMoves ==
    ASSUME TrackInv, NEW i \in Ids, NEW j \in Jobs, NEW t \in Titles,
           NEW f \in Purposes \cup {NoPurpose},
           row' = RecordAccepted(i, j, t, f), CanBind(i, j), Writes(i, t),
           Exists(j), TakenUp(j), OnlyJob(i, j) \/ row[i].item = j
    PROVE  RowMoves /\ row'[i].item = j
  <1>1. /\ row'[i].bind = "bound" /\ row'[i].title = t /\ row'[i].item = j
        /\ \A o \in Ids : o # i => row'[o] = IF o \in Bound(j)
                                             THEN [row[o] EXCEPT !.bind = "ended"]
                                             ELSE row[o]
    BY DEF RecordAccepted
  <1>2. j # None
    BY NoneAssumption
  <1>3. row[i].item = j \/ (row[i].item = None /\ OnlyJob(i, j))
    BY DEF CanBind, TrackInv, ItemMeansBound
  <1>4. Recorded(i)
    BY <1>1, <1>3 DEF Recorded
  <1>5. ASSUME NEW o \in Ids, o # i, o \in Bound(j)
        PROVE  Superseded(o)
    <2>1. row[o].bind = "bound" /\ row[o].item = j /\ row[o] \in Rows
      BY <1>5 DEF Bound, TrackInv, CoreInv, TypeOK
    <2>2. /\ row'[o].bind = "ended" /\ row'[o].item = row[o].item
          /\ row'[o].title = row[o].title
      BY <1>1, <1>5, <2>1 DEF Rows
    <2> QED BY <1>1, <2>1, <2>2 DEF Superseded
  <1>6. ASSUME NEW o \in Ids, o # i, o \notin Bound(j)
        PROVE  row'[o] = row[o]
    BY <1>1, <1>6
  <1> QED BY <1>1, <1>4, <1>5, <1>6 DEF RowMoves, RowMove, Flagged, SameRow

\* The submissions of a job are deleted that is over, not ours, or not seen.
LEMMA DeleteMoves ==
    ASSUME TrackInv, NEW j \in Jobs, row' = DeleteByItem(j),
           \/ job[j].st \notin Blocking \/ job[j].tok = None
           \/ \E b \in blind' \cap Ids : row[b].item = j
    PROVE  RowMoves /\ \A i \in Ids : /\ row'[i].title = row[i].title
                                      /\ row'[i].item = row[i].item
  <1>1. ASSUME NEW i \in Ids
        PROVE  /\ row'[i].title = row[i].title /\ row'[i].item = row[i].item
               /\ row'[i].bind = IF i \in Bound(j) THEN "ended" ELSE row[i].bind
               /\ row'[i].sub <=> (row[i].sub /\ row[i].item # j)
    <2>1. row[i] \in Rows
      BY DEF TrackInv, CoreInv, TypeOK
    <2>2. row'[i] = [row[i] EXCEPT !.bind = IF i \in Bound(j) THEN "ended" ELSE @,
                                   !.sub = @ /\ row[i].item # j]
      BY DEF DeleteByItem
    <2> QED BY <2>1, <2>2, ZenonT(60) DEF Rows
  <1>2. j # None
    BY NoneAssumption
  <1>3. ASSUME NEW i \in Ids
        PROVE  RowMove(i)
    <2>1. CASE row[i].item = j
      BY <1>1, <1>2, <2>1 DEF RowMove, Deleted
    <2>2. CASE row[i].item # j
      BY <1>1, <2>2 DEF RowMove, Flagged, SameRow, Bound
    <2> QED BY <2>1, <2>2
  <1> QED BY <1>1, <1>3 DEF RowMoves

\* An attempt that remembers a download it recorded, or one of its title.
LEMMA RememberMoves ==
    ASSUME TrackInv, NEW s \in Submitters, pc[s] # "idle", NEW i \in Ids,
           cache' = Remember(s, i),
           \/ row[i].title = att[s].title /\ row[i].item # None
           \/ /\ row'[i].item # None /\ i = att[s].id /\ pc'[s] = "idle"
              /\ pc[s] \in {"recording", "claiming"}
    PROVE  CacheMoves
  <1>1. att[s].title \in Titles /\ cache \in [Titles -> TitleStates \cup {None}]
    BY DEF TrackInv, CoreInv, AttemptsAreAbout, TypeOK
  <1>2. cache'[att[s].title].subs = att[s].subs \cup {i}
    BY <1>1 DEF Remember
  <1>3. \A t \in Titles \ {att[s].title} : cache'[t] = cache[t]
    BY <1>1 DEF Remember
  <1> QED BY <1>1, <1>2, <1>3 DEF CacheMoves

\* The other attempts rest while one of them moves.
OthersRest(s) ==
    \A o \in Submitters \ {s} :
        /\ SameAttempt(o) /\ att'[o].answer = att[o].answer
        /\ att'[o].listing = att[o].listing /\ (att'[o].fresh => att[o].fresh)

\* The listing may be dropped, or one that is fresh stored.
SharedMove == \/ shared' \in {None, shared}
              \/ \E s \in Submitters : /\ pc[s] = "fetching" /\ att[s].fresh
                                       /\ shared' = att[s].listing

\* A step of one attempt is one of the moves.
LEMMA AttemptMoves ==
    ASSUME TrackInv, CoreInv', NEW s \in Submitters, NEW p, pc' = [pc EXCEPT ![s] = p],
           OthersRest(s), AttMove(s), RowMoves, JobMoves, ClaimMoves, CacheMoves,
           Grows, SharedMove, Dropped \/ pc[s] # "answered"
    PROVE  Moves
  <1>1. pc'[s] = p /\ \A o \in Submitters \ {s} : pc'[o] = pc[o]
    BY DEF TrackInv, CoreInv, TypeOK
  <1>2. \A o \in Submitters \ {s} : Rests(o) /\ ~Begins(o)
    BY <1>1 DEF OthersRest, Rests, Begins
  <1>3. AttMoves
    BY <1>2 DEF AttMoves, AttMove
  <1>4. ListingMoves
    BY <1>1 DEF ListingMoves, SharedMove, OthersRest, SameAttempt
  <1> QED BY <1>3, <1>4 DEF Moves

\* A caller that returns without an answer leaves the others alone.
LEMMA ReturnMoves ==
    ASSUME TrackInv, CoreInv', NEW s \in Submitters, pc[s] # "answered",
           Finish(s), att' = Forget(att, s), RowMoves, ClaimMoves, CacheMoves,
           UNCHANGED <<shared, minted, job>>, blind \subseteq blind'
    PROVE  Moves
  <1>1. \A o \in Submitters \ {s} : att'[o] = att[o]
    BY DEF Forget, TrackInv, CoreInv, TypeOK
  <1>2. OthersRest(s)
    BY <1>1 DEF OthersRest, SameAttempt
  <1>3. pc' = [pc EXCEPT ![s] = "idle"] /\ pc'[s] = "idle"
    BY DEF Finish, TrackInv, CoreInv, TypeOK
  <1>4. JobMoves /\ SharedMove /\ Grows
    BY Quiet DEF SharedMove, Grows
  <1> QED BY <1>2, <1>3, <1>4, AttemptMoves DEF AttMove

\* An attempt that works on towards its intent, with the locals a.
LEMMA WorkMoves ==
    ASSUME TrackInv, CoreInv', NEW s \in Submitters, NEW a, NEW p,
           att' = [att EXCEPT ![s] = a], pc' = [pc EXCEPT ![s] = p],
           Early(s), Works(s), RowMoves, JobMoves, CacheMoves, ClaimMoves,
           SharedMove, Grows
    PROVE  Moves
  <1>1. \A o \in Submitters \ {s} : att'[o] = att[o]
    BY DEF TrackInv, CoreInv, TypeOK
  <1>2. OthersRest(s)
    BY <1>1 DEF OthersRest, SameAttempt
  <1>3. pc[s] # "answered"
    BY DEF Early
  <1> QED BY <1>2, <1>3, AttemptMoves DEF AttMove

-----------------------------------------------------------------------------
(* Every action is one of the moves: an attempt up to its intent.           *)

\* A caller begins under a new id.
LEMMA BeginMoves ==
    ASSUME TrackInv, CoreInv', NEW s \in Submitters, NEW t \in Titles, NEW i \in Ids,
           NEW n \in Intents, Begin(s, t, i, n)
    PROVE  Moves
  <1>1. /\ pc[s] = "idle" /\ i \in Ids \ minted /\ minted' = minted \cup {i}
        /\ pc' = [pc EXCEPT ![s] = "claims"]
        /\ UNCHANGED <<cache, shared, claim, row, job, blind>>
    BY DEF Begin, Goto
  <1>2. /\ att'[s].id = i /\ att'[s].subs = {}
        /\ \A o \in Submitters \ {s} : att'[o] = att[o]
    BY DEF Begin, Idle, TrackInv, CoreInv, TypeOK
  <1>3. pc'[s] = "claims"
    BY <1>1 DEF TrackInv, CoreInv, TypeOK
  <1>4. Begins(s)
    BY <1>1, <1>2, <1>3 DEF Begins
  <1>5. OthersRest(s)
    BY <1>2 DEF OthersRest, SameAttempt
  <1>6. /\ RowMoves /\ JobMoves /\ ClaimMoves /\ CacheMoves /\ SharedMove /\ Grows
    BY <1>1, Quiet DEF SharedMove, Grows
  <1> QED BY <1>1, <1>4, <1>5, <1>6, AttemptMoves DEF AttMove

\* A caller that is turned away, or fails, before it has stored its intent.
LEMMA EndMoves ==
    ASSUME TrackInv, CoreInv', NEW s \in Submitters,
           \/ FailLoad(s) \/ RefuseUnresolved(s) \/ FailFetch(s) \/ AcceptExisting(s)
           \/ RefuseBlocked(s) \/ RefuseConflict(s) \/ FailPrepare(s)
    PROVE  Moves
  <1>1. /\ Finish(s) /\ att' = Forget(att, s)
        /\ UNCHANGED <<cache, shared, claim, row, minted, job, blind>>
    BY DEF FailLoad, RefuseUnresolved, FailFetch, AcceptExisting, RefuseBlocked,
       RefuseConflict, FailPrepare
  <1>2. pc[s] # "answered"
    BY DEF FailLoad, RefuseUnresolved, FailFetch, AcceptExisting, RefuseBlocked,
       RefuseConflict, FailPrepare, PastClaims, PastExisting
  <1>3. RowMoves /\ ClaimMoves /\ CacheMoves
    BY <1>1, Quiet
  <1> QED BY <1>1, <1>2, <1>3, ReturnMoves

\* An ambiguous claim refuses the attempt, and may become a durable intent.
LEMMA RefuseAmbiguousMoves ==
    ASSUME TrackInv, CoreInv', NEW s \in Submitters, RefuseAmbiguous(s)
    PROVE  Moves
  <1> DEFINE t == att[s].title
             c == claim[t]
  <1>1. /\ pc[s] = "claims" /\ c # None /\ Finish(s) /\ att' = Forget(att, s)
        /\ UNCHANGED <<cache, shared, minted, job, blind>>
        /\ \/ /\ c.known /\ row' = RecordPending(row, c.id, t, c.for)
              /\ claim' = [claim EXCEPT ![t] = None]
           \/ UNCHANGED <<row, claim>>
    BY DEF RefuseAmbiguous
  <1>2. t \in Titles /\ c.id \in Ids
    BY <1>1 DEF TrackInv, CoreInv, AttemptsAreAbout, TypeOK, Claims
  <1>3. CASE UNCHANGED <<row, claim>>
    BY <1>1, <1>3, Quiet, ReturnMoves
  <1>4. CASE /\ c.known /\ row' = RecordPending(row, c.id, t, c.for)
             /\ claim' = [claim EXCEPT ![t] = None]
    <2>1. Writes(c.id, t)
      BY <1>1, <1>2, <1>4 DEF Writes
    <2>2. RowMoves
      BY <1>2, <1>4, <2>1, PendingMoves
    <2>3. ClaimMoves
      BY <1>4 DEF ClaimMoves, ClaimMove, TrackInv, CoreInv, TypeOK
    <2> QED BY <1>1, <2>2, <2>3, Quiet, ReturnMoves
  <1> QED BY <1>1, <1>3, <1>4

\* What an accepted claim is about.
LEMMA ClaimFacts ==
    ASSUME TrackInv, NEW t \in Titles, claim[t] # None, claim[t].kind = "accepted"
    PROVE  /\ claim[t].id \in Ids /\ claim[t].item \in Jobs /\ Exists(claim[t].item)
           /\ claim[t].for \in Purposes \cup {NoPurpose}
           /\ Writes(claim[t].id, t) /\ TakenUp(claim[t].item)
           /\ OnlyJob(claim[t].id, claim[t].item) \/ row[claim[t].id].item = claim[t].item
  <1>1. claim[t].id \in Ids /\ claim[t].for \in Purposes \cup {NoPurpose}
    BY DEF TrackInv, CoreInv, TypeOK, Claims
  <1>2. Exists(claim[t].item) /\ claim[t].item \in Jobs
    BY DEF TrackInv, ItemsExist, Exists
  <1>3. /\ claim[t].known
        /\ OnlyJob(claim[t].id, claim[t].item) \/ row[claim[t].id].item = claim[t].item
    BY DEF TrackInv, AcceptedClaims
  <1> QED BY <1>1, <1>2, <1>3 DEF Writes, TakenUp

\* An accepted claim is recorded again, resolved to another download, or kept.
LEMMA RecoverAcceptedMoves ==
    ASSUME TrackInv, CoreInv', NEW s \in Submitters, RecoverAccepted(s)
    PROVE  Moves
  <1> DEFINE t == att[s].title
             c == claim[t]
  <1>1. /\ pc[s] = "claims" /\ c # None /\ c.kind = "accepted"
        /\ UNCHANGED <<cache, shared, minted, job, blind>>
    BY DEF RecoverAccepted
  <1>2. t \in Titles
    BY <1>1 DEF TrackInv, CoreInv, AttemptsAreAbout
  <1>3. /\ c.id \in Ids /\ c.item \in Jobs /\ Exists(c.item) /\ Writes(c.id, t)
        /\ c.for \in Purposes \cup {NoPurpose}
        /\ TakenUp(c.item) /\ (OnlyJob(c.id, c.item) \/ row[c.id].item = c.item)
    BY <1>1, <1>2, ClaimFacts
  <1>4. claim \in [Titles -> Claims \cup {None}]
    BY DEF TrackInv, CoreInv, TypeOK
  <1>5. CASE Finish(s) /\ att' = Forget(att, s) /\ UNCHANGED <<claim, row>>
    BY <1>1, <1>5, Quiet, ReturnMoves
  <1>6. CASE /\ CanBind(c.id, c.item) /\ row' = RecordAccepted(c.id, c.item, t, c.for)
             /\ claim' = [claim EXCEPT ![t] = None]
             /\ \/ Finish(s) /\ att' = Forget(att, s)
                \/ Goto(s, "state") /\ UNCHANGED att
    <2>1. RowMoves
      BY <1>2, <1>3, <1>6, AcceptMoves
    <2>2. ClaimMoves
      BY <1>4, <1>6 DEF ClaimMoves, ClaimMove
    <2>3. CASE Finish(s) /\ att' = Forget(att, s)
      BY <1>1, <2>1, <2>2, <2>3, Quiet, ReturnMoves
    <2>4. CASE Goto(s, "state") /\ UNCHANGED att
      <3>1. Early(s)
        BY <1>1 DEF Early
      <3>2. pc' = [pc EXCEPT ![s] = "state"] /\ pc'[s] = "state"
        BY <2>4 DEF Goto, TrackInv, CoreInv, TypeOK
      <3>3. Works(s)
        BY <2>4, <3>1, <3>2 DEF Works, EarlySteps
      <3>4. att' = [att EXCEPT ![s] = att[s]]
        BY <2>4 DEF TrackInv, CoreInv, TypeOK
      <3>5. JobMoves /\ CacheMoves /\ SharedMove /\ Grows
        BY <1>1, Quiet DEF SharedMove
      <3> QED BY <2>1, <2>2, <3>1, <3>2, <3>3, <3>4, <3>5, WorkMoves
    <2> QED BY <1>6, <2>3, <2>4
  <1>7. CASE /\ Adopts(c.id, c.item) /\ row' = Withdraw(row, c.id)
             /\ \E o \in Bound(c.item) :
                    \/ claim' = [claim EXCEPT ![t] = None]
                    \/ claim' = [claim EXCEPT ![t] = Ambiguous(o, t, NoPurpose, FALSE)]
             /\ Finish(s) /\ att' = Forget(att, s)
    <2>1. Bound(c.item) # {}
      BY <1>7 DEF Adopts
    <2>2. ASSUME row[c.id].bind = "unbound", NEW j \in Jobs, job[j].tok = c.id
          PROVE  Bound(j) # {}
      <3>1. row[c.id].item # c.item
        BY <1>3, <2>2, NoneAssumption DEF TrackInv, ItemMeansBound
      <3>2. j = c.item
        BY <1>3, <2>2, <3>1 DEF OnlyJob
      <3> QED BY <2>1, <3>2
    <2>3. RowMoves
      BY <1>2, <1>3, <1>7, <2>2, WithdrawMoves
    <2>4. ClaimMoves
      BY <1>4, <1>7 DEF ClaimMoves, ClaimMove, Ambiguous
    <2> QED BY <1>1, <1>7, <2>3, <2>4, Quiet, ReturnMoves
  <1> QED BY <1>5, <1>6, <1>7 DEF RecoverAccepted

\* The title state is cached.
LEMMA UseCachedStateMoves ==
    ASSUME TrackInv, CoreInv', NEW s \in Submitters, UseCachedState(s)
    PROVE  Moves
  <1> DEFINE a == [att[s] EXCEPT !.subs = cache[att[s].title].subs,
                                 !.accepted = cache[att[s].title].accepted,
                                 !.blind = Misses(att[s].title, cache[att[s].title].subs)]
  <1>1. /\ Early(s) /\ cache[att[s].title] # None
        /\ pc' = [pc EXCEPT ![s] = "snapshot"]
        /\ UNCHANGED <<cache, shared, claim, row, minted, job, blind>>
    BY DEF UseCachedState, PastClaims, Early, Goto
  <1>2. att' = [att EXCEPT ![s] = a]
    BY DEF UseCachedState, TrackInv, CoreInv, TypeOK
  <1>3. att[s] \in Attempts
    BY DEF TrackInv, CoreInv, TypeOK
  <1>4. a.title = att[s].title /\ a.id = att[s].id /\ a.subs = cache[att[s].title].subs
    BY <1>3 DEF Attempts
  <1> HIDE DEF a
  <1>5. att'[s] = a /\ pc'[s] = "snapshot"
    BY <1>1, <1>2 DEF TrackInv, CoreInv, TypeOK
  <1>6. Works(s)
    BY <1>1, <1>4, <1>5 DEF Works, EarlySteps
  <1>7. RowMoves /\ JobMoves /\ CacheMoves /\ ClaimMoves /\ SharedMove /\ Grows
    BY <1>1, Quiet DEF SharedMove
  <1> QED BY <1>1, <1>2, <1>6, <1>7, WorkMoves

\* The title state is loaded.
LEMMA LoadStateMoves ==
    ASSUME TrackInv, CoreInv', NEW s \in Submitters, LoadState(s)
    PROVE  Moves
  <1> DEFINE t == att[s].title
             a == [att[s] EXCEPT !.subs = ListForTitle(t)]
  <1>1. /\ Early(s) /\ pc' = [pc EXCEPT ![s] = "snapshot"]
        /\ cache' = [cache EXCEPT ![t] = [subs |-> ListForTitle(t), accepted |-> {}]]
        /\ UNCHANGED <<shared, claim, row, minted, job, blind>>
    BY DEF LoadState, PastClaims, Early, Goto
  <1>2. att' = [att EXCEPT ![s] = a]
    BY DEF LoadState, TrackInv, CoreInv, TypeOK
  <1>3. att[s] \in Attempts
    BY DEF TrackInv, CoreInv, TypeOK
  <1>4. a.title = t /\ a.id = att[s].id /\ a.subs = ListForTitle(t)
    BY <1>3 DEF Attempts
  <1> HIDE DEF a
  <1>5. att'[s] = a /\ pc'[s] = "snapshot"
    BY <1>1, <1>2 DEF TrackInv, CoreInv, TypeOK
  <1>6. Works(s)
    BY <1>1, <1>4, <1>5 DEF Works, EarlySteps, ListForTitle
  <1>7. CacheMoves
    BY <1>1 DEF CacheMoves, ListForTitle, TrackInv, CoreInv, TypeOK
  <1>8. RowMoves /\ JobMoves /\ ClaimMoves /\ SharedMove /\ Grows
    BY <1>1, Quiet DEF SharedMove
  <1> QED BY <1>1, <1>2, <1>6, <1>7, <1>8, WorkMoves

\* The cached listing serves, or none is needed.
LEMMA UseSnapshotMoves ==
    ASSUME TrackInv, CoreInv', NEW s \in Submitters, UseSnapshot(s)
    PROVE  Moves
  <1>1. /\ Early(s) /\ pc' = [pc EXCEPT ![s] = "decide"]
        /\ UNCHANGED <<cache, shared, claim, row, minted, job, blind>>
    BY DEF UseSnapshot, Early, Goto
  <1>2. att[s] \in Attempts
    BY DEF TrackInv, CoreInv, TypeOK
  <1>3. PICK a : /\ att' = [att EXCEPT ![s] = a]
                 /\ a.title = att[s].title /\ a.id = att[s].id /\ a.subs = att[s].subs
                 /\ att[s].subs = {} \/ (shared # None /\ a.listing = shared)
    <2>1. CASE att[s].subs = {} /\ UNCHANGED att
      <3>1. att' = [att EXCEPT ![s] = att[s]]
        BY <2>1 DEF TrackInv, CoreInv, TypeOK
      <3> QED BY <2>1, <3>1
    <2>2. CASE shared # None /\ att' = [att EXCEPT ![s].listing = shared]
      <3> DEFINE b == [att[s] EXCEPT !.listing = shared]
      <3>1. att' = [att EXCEPT ![s] = b]
        BY <2>2 DEF TrackInv, CoreInv, TypeOK
      <3>2. /\ b.title = att[s].title /\ b.id = att[s].id /\ b.subs = att[s].subs
            /\ b.listing = shared
        BY <1>2 DEF Attempts
      <3> HIDE DEF b
      <3> QED BY <2>2, <3>1, <3>2
    <2> QED BY <2>1, <2>2 DEF UseSnapshot
  <1>4. att'[s] = a /\ pc'[s] = "decide"
    BY <1>1, <1>3 DEF TrackInv, CoreInv, TypeOK
  <1>5. Works(s)
    BY <1>1, <1>3, <1>4 DEF Works, EarlySteps
  <1>6. RowMoves /\ JobMoves /\ CacheMoves /\ ClaimMoves /\ SharedMove /\ Grows
    BY <1>1, Quiet DEF SharedMove
  <1> QED BY <1>1, <1>3, <1>5, <1>6, WorkMoves

\* A listing the client has just given is fresh.
LEMMA FreshListing ==
    ASSUME TrackInv, CoreInv', NEW s \in Submitters, Early(s), NEW l, Listed(l),
           att' = [att EXCEPT ![s].listing = l, ![s].fresh = TRUE],
           pc' = [pc EXCEPT ![s] = "fetching"],
           UNCHANGED <<cache, shared, claim, row, minted, job, blind>>
    PROVE  Moves
  <1> DEFINE a == [att[s] EXCEPT !.listing = l, !.fresh = TRUE]
  <1>1. att' = [att EXCEPT ![s] = a]
    BY DEF TrackInv, CoreInv, TypeOK
  <1>2. att[s] \in Attempts
    BY DEF TrackInv, CoreInv, TypeOK
  <1>3. /\ a.title = att[s].title /\ a.id = att[s].id /\ a.subs = att[s].subs
        /\ a.listing = l
    BY <1>2 DEF Attempts
  <1> HIDE DEF a
  <1>4. att'[s] = a /\ pc'[s] = "fetching"
    BY <1>1 DEF TrackInv, CoreInv, TypeOK
  <1>5. Works(s)
    BY <1>3, <1>4 DEF Works, EarlySteps
  <1>6. RowMoves /\ JobMoves /\ CacheMoves /\ ClaimMoves /\ SharedMove /\ Grows
    BY Quiet DEF SharedMove
  <1> QED BY <1>1, <1>5, <1>6, WorkMoves

\* The client is asked.
LEMMA FetchMoves ==
    ASSUME TrackInv, CoreInv', NEW s \in Submitters, Fetch(s)
    PROVE  Moves
  BY FreshListing DEF Fetch, Goto, Early

\* What it listed is stored, or read again.
LEMMA StoreSnapshotMoves ==
    ASSUME TrackInv, CoreInv', NEW s \in Submitters, StoreSnapshot(s)
    PROVE  Moves
  <1>1. /\ Early(s) /\ pc[s] = "fetching"
        /\ UNCHANGED <<cache, claim, row, minted, job, blind>>
    BY DEF StoreSnapshot, Early
  <1>2. CASE att[s].fresh
    <2>1. /\ shared' = att[s].listing /\ pc' = [pc EXCEPT ![s] = "decide"]
          /\ UNCHANGED att
      BY <1>2 DEF StoreSnapshot, Goto
    <2>2. att' = [att EXCEPT ![s] = att[s]] /\ pc'[s] = "decide"
      BY <2>1 DEF TrackInv, CoreInv, TypeOK
    <2>3. Works(s)
      BY <1>1, <1>2, <2>1, <2>2 DEF Works, EarlySteps
    <2>4. SharedMove
      BY <1>1, <1>2, <2>1 DEF SharedMove
    <2>5. RowMoves /\ JobMoves /\ CacheMoves /\ ClaimMoves /\ Grows
      BY <1>1, Quiet
    <2> QED BY <1>1, <2>1, <2>2, <2>3, <2>4, <2>5, WorkMoves
  <1>3. CASE ~att[s].fresh
    <2>1. PICK l : /\ Listed(l)
                   /\ att' = [att EXCEPT ![s].listing = l, ![s].fresh = TRUE]
      BY <1>3 DEF StoreSnapshot
    <2>2. pc' = [pc EXCEPT ![s] = "fetching"] /\ UNCHANGED shared
      BY <1>1, <1>3 DEF StoreSnapshot, TrackInv, CoreInv, TypeOK
    <2> QED BY <1>1, <2>1, <2>2, FreshListing
  <1> QED BY <1>2, <1>3

\* What an attempt knows of its title has a job that exists.
LEMMA SubsFacts ==
    ASSUME TrackInv, NEW s \in Submitters, pc[s] # "idle", NEW i \in att[s].subs
    PROVE  i \in Ids /\ row[i].item \in Jobs /\ Exists(row[i].item)
  <1>1. i \in Ids
    BY DEF TrackInv, CoreInv, TypeOK, Attempts
  <1>2. row[i].item # None
    BY DEF TrackInv, AttemptsAgree
  <1> QED BY <1>1, <1>2 DEF TrackInv, ItemsExist, Exists

\* The same request's submission is deleted: it failed, or is not listed.
LEMMA ReplaceExistingMoves ==
    ASSUME TrackInv, CoreInv', NEW s \in Submitters, ReplaceExisting(s)
    PROVE  Moves
  <1>1. /\ pc[s] = "decide" /\ Early(s) /\ pc' = [pc EXCEPT ![s] = "conflicts"]
        /\ UNCHANGED <<shared, claim, minted, job>>
    BY DEF ReplaceExisting, Goto, Early
  <1>2. PICK i \in att[s].subs :
          /\ Seen(s, i) \in {"absent", "failed"}
          /\ row' = DeleteByItem(row[i].item)
          /\ att' = [att EXCEPT ![s].subs = @ \ {i}, ![s].accepted = @ \ {i}]
          /\ blind' = IF att[s].listing.full THEN blind ELSE blind \cup {i}
          /\ cache' = [cache EXCEPT ![att[s].title] =
                          [subs |-> att[s].subs \ {i},
                           accepted |-> att[s].accepted \ {i}]]
    BY DEF ReplaceExisting, Existing
  <1>3. i \in Ids /\ row[i].item \in Jobs
    BY <1>1, <1>2, SubsFacts
  <1>4. \/ job[row[i].item].st \notin Blocking \/ job[row[i].item].tok = None
        \/ \E b \in blind' \cap Ids : row[b].item = row[i].item
    <2>1. CASE att[s].listing.full
      <3>1. Seen(s, i) \notin OnClient \ {"failed"}
        BY <1>2 DEF OnClient
      <3> QED BY <1>1, <1>2, <2>1, <3>1 DEF TrackInv, DecidesOnEvidence
    <2>2. CASE ~att[s].listing.full
      BY <1>2, <1>3, <2>2
    <2> QED BY <2>1, <2>2
  <1>5. RowMoves
    BY <1>2, <1>3, <1>4, DeleteMoves
  <1> DEFINE a == [att[s] EXCEPT !.subs = @ \ {i}, !.accepted = @ \ {i}]
  <1>6. att' = [att EXCEPT ![s] = a]
    BY <1>2 DEF TrackInv, CoreInv, TypeOK
  <1>7. att[s] \in Attempts
    BY DEF TrackInv, CoreInv, TypeOK
  <1>8. a.title = att[s].title /\ a.id = att[s].id /\ a.subs = att[s].subs \ {i}
    BY <1>7 DEF Attempts
  <1> HIDE DEF a
  <1>9. att'[s] = a /\ pc'[s] = "conflicts"
    BY <1>1, <1>6 DEF TrackInv, CoreInv, TypeOK
  <1>10. Works(s)
    BY <1>1, <1>8, <1>9 DEF Works, EarlySteps
  <1>11. CacheMoves
    <2>1. att[s].title \in Titles /\ cache \in [Titles -> TitleStates \cup {None}]
      BY <1>1 DEF TrackInv, CoreInv, AttemptsAreAbout, TypeOK
    <2>2. cache'[att[s].title].subs \subseteq att[s].subs
      BY <1>2, <2>1
    <2>3. \A t \in Titles \ {att[s].title} : cache'[t] = cache[t]
      BY <1>2, <2>1
    <2> QED BY <1>1, <2>1, <2>2, <2>3 DEF CacheMoves
  <1>12. JobMoves /\ ClaimMoves /\ SharedMove /\ Grows
    BY <1>1, <1>2, Quiet DEF SharedMove, Grows
  <1> QED BY <1>1, <1>5, <1>6, <1>10, <1>11, <1>12, WorkMoves

\* Nothing is in the way.
LEMMA NoConflictMoves ==
    ASSUME TrackInv, CoreInv', NEW s \in Submitters, NoConflict(s)
    PROVE  Moves
  <1> DEFINE a == [att[s] EXCEPT !.blind = @ \/ (att[s].subs # {} /\ ~att[s].listing.full),
                                 !.listing = NoListing, !.fresh = FALSE]
  <1>1. /\ Early(s) /\ pc' = [pc EXCEPT ![s] = "prepare"]
        /\ UNCHANGED <<cache, shared, claim, row, minted, job, blind>>
    BY DEF NoConflict, PastExisting, Early, Goto
  <1>2. att' = [att EXCEPT ![s] = a]
    BY DEF NoConflict, TrackInv, CoreInv, TypeOK
  <1>3. att[s] \in Attempts
    BY DEF TrackInv, CoreInv, TypeOK
  <1>4. a.title = att[s].title /\ a.id = att[s].id /\ a.subs = att[s].subs
    BY <1>3 DEF Attempts
  <1> HIDE DEF a
  <1>5. att'[s] = a /\ pc'[s] = "prepare"
    BY <1>1, <1>2 DEF TrackInv, CoreInv, TypeOK
  <1>6. Works(s)
    BY <1>1, <1>4, <1>5 DEF Works, EarlySteps
  <1>7. RowMoves /\ JobMoves /\ CacheMoves /\ ClaimMoves /\ SharedMove /\ Grows
    BY <1>1, Quiet DEF SharedMove
  <1> QED BY <1>1, <1>2, <1>6, <1>7, WorkMoves

\* The client drops a conflicting item, or refuses to.
LEMMA RemoveFromClientMoves ==
    ASSUME TrackInv, CoreInv', NEW s \in Submitters, RemoveFromClient(s)
    PROVE  Moves
  <1>1. /\ Early(s) /\ UNCHANGED <<cache, shared, claim, row, minted, blind>>
    BY DEF RemoveFromClient, PastExisting, Early
  <1>2. pc[s] \notin {"idle", "answered"} /\ att[s] \in Attempts
    BY <1>1 DEF Early, TrackInv, CoreInv, TypeOK
  <1>3. CASE Finish(s) /\ att' = Forget(att, s) /\ UNCHANGED job
    BY <1>1, <1>2, <1>3, Quiet, ReturnMoves
  <1>4. CASE \E i \in Conflicts(s) :
                /\ att' = [att EXCEPT ![s].item = row[i].item]
                /\ job' = [job EXCEPT ![row[i].item].st =
                              IF @ \in OnClient THEN "removed" ELSE @]
                /\ Goto(s, "replaced")
    <2>1. PICK i \in att[s].subs :
                /\ att' = [att EXCEPT ![s].item = row[i].item]
                /\ job' = [job EXCEPT ![row[i].item].st =
                              IF @ \in OnClient THEN "removed" ELSE @]
                /\ pc' = [pc EXCEPT ![s] = "replaced"]
      BY <1>4 DEF Conflicts, Goto
    <2> DEFINE j == row[i].item
               a == [att[s] EXCEPT !.item = j]
               b == [job[j] EXCEPT !.st = IF @ \in OnClient THEN "removed" ELSE @]
    <2>2. j \in Jobs /\ Exists(j)
      BY <1>2, <2>1, SubsFacts
    <2>3. att' = [att EXCEPT ![s] = a] /\ job' = [job EXCEPT ![j] = b]
      BY <2>1, <2>2 DEF TrackInv, CoreInv, TypeOK
    <2>4. /\ a.title = att[s].title /\ a.id = att[s].id /\ a.subs = att[s].subs
          /\ a.item = j
      BY <1>2 DEF Attempts
    <2>5. job[j] \in [st : JobStates, tok : Ids \cup {None}, rel : Releases \cup {None}]
      BY <2>2 DEF TrackInv, CoreInv, TypeOK
    <2>6. b.tok = job[j].tok /\ b.st \notin Blocking /\ b.st # "absent"
      BY <2>2, <2>5 DEF Exists, Blocking, OnClient
    <2> HIDE DEF a, b
    <2>7. /\ att'[s] = a /\ pc'[s] = "replaced" /\ job'[j] = b
          /\ \A k \in Jobs \ {j} : job'[k] = job[k]
      BY <2>1, <2>2, <2>3 DEF TrackInv, CoreInv, TypeOK
    <2>8. JobMoves
      BY <2>2, <2>6, <2>7 DEF JobMoves
    <2>9. Works(s)
      BY <1>1, <2>2, <2>4, <2>6, <2>7 DEF Works, EarlySteps
    <2>10. RowMoves /\ CacheMoves /\ ClaimMoves /\ SharedMove /\ Grows
      BY <1>1, Quiet DEF SharedMove
    <2> QED BY <1>1, <2>1, <2>3, <2>8, <2>9, <2>10, WorkMoves
  <1> QED BY <1>3, <1>4 DEF RemoveFromClient

\* What is being replaced is over.
LEMMA ReplacedFacts ==
    ASSUME TrackInv, NEW s \in Submitters, pc[s] = "replaced"
    PROVE  att[s].item \in Jobs /\ job[att[s].item].st \notin Blocking
  BY DEF TrackInv, ItemsExist, HasItem, Exists, AttemptsAgree

\* The row of a replaced item is deleted.
LEMMA DeleteReplacedMoves ==
    ASSUME TrackInv, CoreInv', NEW s \in Submitters, DeleteReplaced(s)
    PROVE  Moves
  <1> DEFINE after == DeleteByItem(att[s].item)
             known == {i \in Ids : /\ after[i].sub /\ after[i].title = att[s].title
                                   /\ after[i].item # None}
             rest == att[s].subs \ {i \in att[s].subs : row[i].item = att[s].item}
             a == [att[s] EXCEPT !.subs = known, !.accepted = {}, !.item = None,
                                 !.listing = NoListing, !.fresh = FALSE]
             b == [att[s] EXCEPT !.subs = rest, !.item = None]
  <1>1. /\ pc[s] = "replaced" /\ Early(s) /\ row' = after
        /\ UNCHANGED <<cache, shared, claim, minted, job, blind>>
    BY DEF DeleteReplaced, Early
  <1>2. att[s] \in Attempts /\ att \in [Submitters -> Attempts]
    BY DEF TrackInv, CoreInv, TypeOK
  <1>3. /\ RowMoves
        /\ \A i \in Ids : row'[i].title = row[i].title /\ row'[i].item = row[i].item
    BY <1>1, ReplacedFacts, DeleteMoves
  <1>4. /\ a.title = att[s].title /\ a.id = att[s].id /\ a.subs = known
        /\ b.title = att[s].title /\ b.id = att[s].id /\ b.subs = rest
    BY <1>2 DEF Attempts
  <1>5. \/ att' = [att EXCEPT ![s] = a] /\ pc' = [pc EXCEPT ![s] = "prepare"]
        \/ att' = [att EXCEPT ![s] = b] /\ pc' = [pc EXCEPT ![s] = "replacing"]
    BY <1>2 DEF DeleteReplaced, Goto
  <1>6. \A i \in known : row[i].title = att[s].title /\ row[i].item # None
    BY <1>1, <1>3
  <1>7. rest \subseteq att[s].subs
    OBVIOUS
  <1> HIDE DEF a, b, known, rest, after
  <1>8. JobMoves /\ CacheMoves /\ ClaimMoves /\ SharedMove /\ Grows
    BY <1>1, Quiet DEF SharedMove
  <1>9. CASE att' = [att EXCEPT ![s] = a] /\ pc' = [pc EXCEPT ![s] = "prepare"]
    <2>1. att'[s] = a /\ pc'[s] = "prepare"
      BY <1>9 DEF TrackInv, CoreInv, TypeOK
    <2>2. Works(s)
      BY <1>1, <1>4, <1>6, <2>1 DEF Works, EarlySteps
    <2> QED BY <1>1, <1>3, <1>8, <1>9, <2>2, WorkMoves
  <1>10. CASE att' = [att EXCEPT ![s] = b] /\ pc' = [pc EXCEPT ![s] = "replacing"]
    <2>1. att'[s] = b /\ pc'[s] = "replacing"
      BY <1>10 DEF TrackInv, CoreInv, TypeOK
    <2>2. Works(s)
      BY <1>1, <1>4, <1>7, <2>1 DEF Works, EarlySteps
    <2> QED BY <1>1, <1>3, <1>8, <1>10, <2>2, WorkMoves
  <1> QED BY <1>5, <1>9, <1>10

\* The store fails in the middle of a replacement.
LEMMA FailReplaceMoves ==
    ASSUME TrackInv, CoreInv', NEW s \in Submitters, FailReplace(s)
    PROVE  Moves
  <1>1. /\ Finish(s) /\ att' = Forget(att, s) /\ pc[s] # "answered"
        /\ UNCHANGED <<cache, shared, claim, minted, job, blind>>
    BY DEF FailReplace
  <1>2. CASE UNCHANGED row
    BY <1>1, <1>2, Quiet, ReturnMoves
  <1>3. CASE pc[s] = "replaced" /\ row' = DeleteByItem(att[s].item)
    <2>1. RowMoves
      BY <1>3, ReplacedFacts, DeleteMoves
    <2> QED BY <1>1, <2>1, Quiet, ReturnMoves
  <1> QED BY <1>2, <1>3 DEF FailReplace

-----------------------------------------------------------------------------
(* Every action is one of the moves: the request and its answer.            *)

\* What an attempt holds that has stored its intent, or is about to.
LEMMA OwnFacts ==
    ASSUME TrackInv, NEW s \in Submitters, Own(s)
    PROVE  /\ att[s] \in Attempts /\ att[s].id \in Ids /\ att[s].title \in Titles
           /\ att[s].for \in Purposes \cup {NoPurpose}
           /\ pc'[s] \in {"idle", "adopting"} => Writes(att[s].id, att[s].title)
  BY DEF TrackInv, CoreInv, TypeOK, Attempts, AttemptsAreAbout, Own, Writes

\* The intent is stored, and the attempt goes on or fails.
LEMMA RecordIntentMoves ==
    ASSUME TrackInv, CoreInv', NEW s \in Submitters, RecordIntent(s)
    PROVE  Moves
  <1> DEFINE i == att[s].id
             t == att[s].title
  <1>1. /\ pc[s] = "prepare" /\ row' = RecordPending(row, i, t, att[s].for)
        /\ UNCHANGED <<cache, shared, claim, minted, job>> /\ blind \subseteq blind'
    BY DEF RecordIntent
  <1>2. Own(s) /\ i \in Ids /\ t \in Titles
    BY <1>1, OwnFacts DEF Own
  <1>3. CASE Goto(s, "submitting") /\ UNCHANGED att
    <2>1. pc' = [pc EXCEPT ![s] = "submitting"] /\ pc'[s] = "submitting"
      BY <1>3 DEF Goto, TrackInv, CoreInv, TypeOK
    <2>2. Writes(i, t)
      BY <1>1, <2>1 DEF Writes
    <2>3. RowMoves
      BY <1>1, <1>2, <2>2, PendingMoves
    <2>4. row[i].bind = "none" /\ row[i].item = None
      BY <1>1, <1>2 DEF TrackInv, OwnIdProgress, Early, ItemMeansBound
    <2>5. row'[i].bind = "unbound" /\ row'[i].sub /\ row'[i].title = t /\ row'[i].item = None
      BY <1>1, <1>2, <2>4 DEF RecordPending, NoRow, TrackInv, CoreInv, TypeOK
    <2>6. Intends(s)
      BY <1>1, <1>2, <1>3, <2>1, <2>2, <2>4, <2>5 DEF Intends, Intended, SameAttempt
    <2>7. OthersRest(s)
      BY <1>3 DEF OthersRest, SameAttempt
    <2>8. JobMoves /\ CacheMoves /\ ClaimMoves /\ SharedMove /\ Grows
      BY <1>1, <1>3, Quiet DEF SharedMove, Grows
    <2> QED BY <1>1, <2>1, <2>3, <2>6, <2>7, <2>8, AttemptMoves DEF AttMove
  <1>4. CASE Finish(s) /\ att' = Forget(att, s)
    <2>1. pc'[s] = "idle"
      BY <1>4 DEF Finish, TrackInv, CoreInv, TypeOK
    <2>2. RowMoves
      BY <1>1, <1>2, <2>1, OwnFacts, PendingMoves
    <2> QED BY <1>1, <1>4, <2>2, Quiet, ReturnMoves
  <1> QED BY <1>3, <1>4 DEF RecordIntent

\* An attempt that has sent its request gets its answer.
LEMMA AnswerMoves ==
    ASSUME TrackInv, CoreInv', NEW s \in Submitters, pc[s] = "submitting",
           pc' = [pc EXCEPT ![s] = "answered"], Sends(s),
           \A o \in Submitters \ {s} : att'[o] = att[o], JobMoves,
           UNCHANGED <<cache, shared, claim, row, minted, blind>>
    PROVE  Moves
  <1>1. OthersRest(s)
    BY DEF OthersRest, SameAttempt
  <1>2. RowMoves /\ CacheMoves /\ ClaimMoves /\ SharedMove /\ Grows
    BY Quiet DEF SharedMove
  <1> QED BY <1>1, <1>2, AttemptMoves DEF AttMove

\* The answer and the item are all an answer changes of an attempt.
LEMMA AnswerFields ==
    ASSUME TrackInv, NEW s \in Submitters, NEW ans, NEW j,
           \/ att' = [att EXCEPT ![s].answer = ans, ![s].item = j]
           \/ att' = [att EXCEPT ![s].answer = ans] /\ j = att[s].item
    PROVE  /\ att'[s].title = att[s].title /\ att'[s].id = att[s].id
           /\ att'[s].subs = att[s].subs /\ att'[s].answer = ans /\ att'[s].item = j
           /\ \A o \in Submitters \ {s} : att'[o] = att[o]
  <1>1. att \in [Submitters -> Attempts] /\ att[s] \in Attempts
    BY DEF TrackInv, CoreInv, TypeOK
  <1> QED BY <1>1 DEF Attempts

\* The client takes the request as a new job.
LEMMA ClientTakesMoves ==
    ASSUME TrackInv, CoreInv', NEW s \in Submitters, ClientTakes(s)
    PROVE  Moves
  <1>1. /\ pc[s] = "submitting" /\ pc' = [pc EXCEPT ![s] = "answered"]
        /\ UNCHANGED <<cache, shared, claim, row, minted, blind>>
    BY DEF ClientTakes, Goto
  <1>2. PICK j \in Jobs :
          /\ job[j].st = "absent"
          /\ job' = [job EXCEPT ![j] = [st |-> "queued", tok |-> att[s].id,
                                        rel |-> att[s].for.rel]]
          /\ \/ att' = [att EXCEPT ![s].answer = "ok", ![s].item = j]
             \/ att' = [att EXCEPT ![s].answer = "ambiguous"]
    BY DEF ClientTakes
  <1>3. /\ att'[s].title = att[s].title /\ att'[s].id = att[s].id
        /\ att'[s].subs = att[s].subs
        /\ att'[s].answer \in {"ok", "ambiguous"}
        /\ att'[s].answer = "ok" => att'[s].item = j
        /\ \A o \in Submitters \ {s} : att'[o] = att[o]
    <2>0. att \in [Submitters -> Attempts] /\ att[s] \in Attempts
      BY DEF TrackInv, CoreInv, TypeOK
    <2>1. CASE att' = [att EXCEPT ![s].answer = "ok", ![s].item = j]
      BY <2>0, <2>1 DEF Attempts
    <2>2. CASE att' = [att EXCEPT ![s].answer = "ambiguous"]
      BY <2>0, <2>2 DEF Attempts
    <2> QED BY <1>2, <2>1, <2>2
  <1>4. /\ job'[j].st = "queued" /\ job'[j].tok = att[s].id
        /\ \A k \in Jobs \ {j} : job'[k] = job[k]
    BY <1>2 DEF TrackInv, CoreInv, TypeOK
  <1>5. pc'[s] = "answered" /\ \A o \in Submitters \ {s} : pc'[o] = pc[o]
    BY <1>1 DEF TrackInv, CoreInv, TypeOK
  <1>6. Took(s, j)
    BY <1>1, <1>2, <1>3, <1>4, <1>5 DEF Took
  <1>7. JobMoves
    BY <1>2, <1>4, <1>6 DEF JobMoves
  <1>8. \A k \in Jobs : job[k].tok # att[s].id
    BY <1>1, NoneAssumption DEF TrackInv, OwnIdProgress, OnlyJob
  <1>9. Sends(s)
    BY <1>1, <1>3, <1>4, <1>5, <1>8 DEF Sends
  <1> QED BY <1>1, <1>3, <1>7, <1>9, AnswerMoves

\* The client already holds the release, or declines the request.
LEMMA ClientAnswersMoves ==
    ASSUME TrackInv, CoreInv', NEW s \in Submitters, ClientHolds(s) \/ ClientDeclines(s)
    PROVE  Moves
  <1>1. /\ pc[s] = "submitting" /\ pc' = [pc EXCEPT ![s] = "answered"]
        /\ UNCHANGED <<cache, shared, claim, row, minted, job, blind>>
    BY DEF ClientHolds, ClientDeclines, Goto
  <1>2. PICK ans, j : /\ \/ att' = [att EXCEPT ![s].answer = ans, ![s].item = j]
                         \/ att' = [att EXCEPT ![s].answer = ans] /\ j = att[s].item
                      /\ ans = "ok" => j \in Jobs /\ job[j].st # "absent"
    <2>1. CASE ClientHolds(s)
      <3>1. PICK j \in Jobs :
              /\ job[j].st \in OnClient
              /\ \/ att' = [att EXCEPT ![s].answer = "ok", ![s].item = j]
                 \/ att' = [att EXCEPT ![s].answer = "other"]
        BY <2>1 DEF ClientHolds
      <3>2. job[j].st # "absent"
        BY <3>1 DEF OnClient
      <3> QED BY <3>1, <3>2
    <2>2. CASE ClientDeclines(s)
      BY <2>2 DEF ClientDeclines
    <2> QED BY <2>1, <2>2
  <1>3. /\ att'[s].title = att[s].title /\ att'[s].id = att[s].id
        /\ att'[s].subs = att[s].subs /\ att'[s].answer = ans /\ att'[s].item = j
        /\ \A o \in Submitters \ {s} : att'[o] = att[o]
    BY <1>2, AnswerFields
  <1>4. pc'[s] = "answered"
    BY <1>1 DEF TrackInv, CoreInv, TypeOK
  <1>5. \A k \in Jobs : job[k].tok # att[s].id
    BY <1>1, NoneAssumption DEF TrackInv, OwnIdProgress, OnlyJob
  <1>6. Sends(s)
    BY <1>1, <1>2, <1>3, <1>4, <1>5 DEF Sends
  <1>7. JobMoves
    BY <1>1, Quiet
  <1> QED BY <1>1, <1>3, <1>6, <1>7, AnswerMoves

\* Invalidating drops every listing, and touches nothing else of an attempt.
LEMMA InvalidateFields ==
    ASSUME NEW a \in [Submitters -> Attempts], Invalidate(a)
    PROVE  /\ Dropped /\ SharedMove
           /\ \A o \in Submitters :
                 /\ att'[o].title = a[o].title /\ att'[o].id = a[o].id
                 /\ att'[o].subs = a[o].subs /\ att'[o].item = a[o].item
                 /\ att'[o].answer = a[o].answer /\ att'[o].listing = a[o].listing
                 /\ ~att'[o].fresh
  <1>1. shared' = None
    BY DEF Invalidate
  <1>2. ASSUME NEW o \in Submitters
        PROVE  /\ att'[o].title = a[o].title /\ att'[o].id = a[o].id
               /\ att'[o].subs = a[o].subs /\ att'[o].item = a[o].item
               /\ att'[o].answer = a[o].answer /\ att'[o].listing = a[o].listing
               /\ att'[o].fresh = FALSE
    <2>1. a[o] \in Attempts
      OBVIOUS
    <2>2. att'[o] = [a[o] EXCEPT !.fresh = FALSE]
      BY DEF Invalidate
    <2> QED BY <2>1, <2>2 DEF Attempts
  <1> QED BY <1>1, <1>2 DEF Dropped, SharedMove

\* An attempt with an answer returns, and drops the listings.
LEMMA ReturnDropping ==
    ASSUME TrackInv, CoreInv', NEW s \in Submitters, Finish(s),
           Invalidate(Forget(att, s)), RowMoves, ClaimMoves,
           UNCHANGED <<cache, minted, job, blind>>
    PROVE  Moves
  <1>1. /\ Forget(att, s) \in [Submitters -> Attempts]
        /\ \A o \in Submitters \ {s} : Forget(att, s)[o] = att[o]
    BY ForgetTyped DEF TrackInv, CoreInv, TypeOK
  <1> DEFINE a == Forget(att, s)
  <1> HIDE DEF a
  <1>2. a \in [Submitters -> Attempts] /\ Invalidate(a)
        /\ \A o \in Submitters \ {s} : a[o] = att[o]
    BY <1>1 DEF a
  <1>3. /\ Dropped /\ SharedMove
        /\ \A o \in Submitters :
                 /\ att'[o].title = a[o].title /\ att'[o].id = a[o].id
                 /\ att'[o].subs = a[o].subs /\ att'[o].item = a[o].item
                 /\ att'[o].answer = a[o].answer /\ att'[o].listing = a[o].listing
                 /\ ~att'[o].fresh
    BY <1>2, InvalidateFields
  <1>4. OthersRest(s)
    BY <1>2, <1>3 DEF OthersRest, SameAttempt
  <1>5. pc' = [pc EXCEPT ![s] = "idle"] /\ pc'[s] = "idle"
    BY DEF Finish, TrackInv, CoreInv, TypeOK
  <1>6. JobMoves /\ CacheMoves /\ Grows
    BY Quiet
  <1> QED BY <1>3, <1>4, <1>5, <1>6, AttemptMoves DEF AttMove

\* The answer is ambiguous: the intent stays, or a claim does.
LEMMA AmbiguityMoves ==
    ASSUME TrackInv, CoreInv', NEW s \in Submitters, Ambiguity(s)
    PROVE  Moves
  <1> DEFINE i == att[s].id
             t == att[s].title
  <1>1. /\ pc[s] = "answered" /\ Invalidate(Forget(att, s)) /\ Finish(s)
        /\ UNCHANGED <<cache, minted, job, blind>>
        /\ \/ row' = RecordPending(row, i, t, att[s].for) /\ UNCHANGED claim
           \/ /\ \E known \in BOOLEAN :
                    claim' = [claim EXCEPT ![t] = Ambiguous(i, t, att[s].for, known)]
              /\ UNCHANGED row
    BY DEF Ambiguity
  <1>2. pc'[s] = "idle" /\ Own(s)
    BY <1>1 DEF Finish, Own, TrackInv, CoreInv, TypeOK
  <1>3. i \in Ids /\ t \in Titles /\ Writes(i, t)
    BY <1>2, OwnFacts
  <1>4. CASE row' = RecordPending(row, i, t, att[s].for) /\ UNCHANGED claim
    <2>1. RowMoves
      BY <1>3, <1>4, PendingMoves
    <2> QED BY <1>1, <1>4, <2>1, Quiet, ReturnDropping
  <1>5. ASSUME NEW known \in BOOLEAN, UNCHANGED row,
               claim' = [claim EXCEPT ![t] = Ambiguous(i, t, att[s].for, known)]
        PROVE  Moves
    <2>1. claim'[t].kind = "ambiguous" /\ claim'[t].id = i
      BY <1>3, <1>5 DEF Ambiguous, TrackInv, CoreInv, TypeOK
    <2>2. \A u \in Titles \ {t} : claim'[u] = claim[u]
      BY <1>5 DEF TrackInv, CoreInv, TypeOK
    <2>3. ClaimMoves
      BY <1>2, <2>1, <2>2 DEF ClaimMoves, ClaimMove
    <2> QED BY <1>1, <1>5, <2>3, Quiet, ReturnDropping
  <1> QED BY <1>1, <1>4, <1>5

\* The request is refused: the intent is withdrawn, or cannot be.
LEMMA RefusalMoves ==
    ASSUME TrackInv, CoreInv', NEW s \in Submitters, Refusal(s)
    PROVE  Moves
  <1>1. /\ pc[s] = "answered" /\ att[s].answer = "refused"
        /\ Invalidate(Forget(att, s)) /\ Finish(s)
        /\ row' = row \/ row' = Withdraw(row, att[s].id)
        /\ UNCHANGED <<cache, claim, minted, job, blind>>
    BY DEF Refusal
  <1>2. pc'[s] = "idle" /\ Own(s)
    BY <1>1 DEF Finish, Own, TrackInv, CoreInv, TypeOK
  <1>3. \A j \in Jobs : job[j].tok # att[s].id
    BY <1>1, NoneAssumption DEF TrackInv, OwnIdProgress, OnlyJob
  <1>4. RowMoves
    BY <1>1, <1>2, <1>3, OwnFacts, WithdrawMoves, Quiet
  <1> QED BY <1>1, <1>4, Quiet, ReturnDropping

\* The request is accepted.
LEMMA AcceptanceMoves ==
    ASSUME TrackInv, CoreInv', NEW s \in Submitters, Acceptance(s)
    PROVE  Moves
  <1>1. /\ pc[s] = "answered" /\ att[s].answer = "ok" /\ Invalidate(att)
        /\ pc' = [pc EXCEPT ![s] = "recording"]
        /\ UNCHANGED <<cache, claim, row, minted, job, blind>>
    BY DEF Acceptance, Goto
  <1>2. /\ Dropped /\ SharedMove
        /\ \A o \in Submitters :
                 /\ att'[o].title = att[o].title /\ att'[o].id = att[o].id
                 /\ att'[o].subs = att[o].subs /\ att'[o].item = att[o].item
                 /\ att'[o].answer = att[o].answer /\ att'[o].listing = att[o].listing
                 /\ ~att'[o].fresh
    BY <1>1, InvalidateFields DEF TrackInv, CoreInv, TypeOK
  <1>3. OthersRest(s) /\ SameAttempt(s)
    BY <1>2 DEF OthersRest, SameAttempt
  <1>4. pc'[s] = "recording"
    BY <1>1 DEF TrackInv, CoreInv, TypeOK
  <1>5. IsAccepted(s)
    BY <1>1, <1>3, <1>4 DEF IsAccepted
  <1>6. RowMoves /\ JobMoves /\ CacheMoves /\ ClaimMoves /\ Grows
    BY <1>1, Quiet
  <1> QED BY <1>1, <1>2, <1>3, <1>5, <1>6, AttemptMoves DEF AttMove

\* What an attempt holds whose request was accepted.
LEMMA RecordingFacts ==
    ASSUME TrackInv, NEW s \in Submitters, pc[s] = "recording"
    PROVE  /\ att[s].item \in Jobs /\ Exists(att[s].item) /\ TakenUp(att[s].item)
           /\ OnlyJob(att[s].id, att[s].item) /\ Own(s)
  BY DEF TrackInv, ItemsExist, HasItem, Exists, TakenUp, OwnIdProgress, Own

\* The acceptance is recorded.
LEMMA RecordMoves ==
    ASSUME TrackInv, CoreInv', NEW s \in Submitters, Record(s)
    PROVE  Moves
  <1> DEFINE i == att[s].id
             j == att[s].item
  <1>1. /\ pc[s] = "recording" /\ CanBind(i, j)
        /\ row' = RecordAccepted(i, j, att[s].title, att[s].for)
        /\ cache' = Remember(s, i) /\ Finish(s) /\ att' = Forget(att, s)
        /\ UNCHANGED <<shared, claim, minted, job, blind>>
    BY DEF Record
  <1>2. pc'[s] = "idle"
    BY <1>1 DEF Finish, TrackInv, CoreInv, TypeOK
  <1>3. /\ j \in Jobs /\ Exists(j) /\ TakenUp(j) /\ OnlyJob(i, j) /\ Own(s)
    BY <1>1, RecordingFacts
  <1>4. /\ i \in Ids /\ att[s].title \in Titles /\ Writes(i, att[s].title)
        /\ att[s].for \in Purposes \cup {NoPurpose}
    BY <1>2, <1>3, OwnFacts
  <1>5. RowMoves /\ row'[i].item = j
    BY <1>1, <1>3, <1>4, AcceptMoves
  <1>6. CacheMoves
    BY <1>1, <1>2, <1>3, <1>4, <1>5, RememberMoves, NoneAssumption
  <1> QED BY <1>1, <1>5, <1>6, Quiet, ReturnMoves

\* An acceptance is kept as a claim.
LEMMA KeepClaim ==
    ASSUME TrackInv, NEW s \in Submitters, pc[s] \in {"recording", "claiming"},
           pc'[s] = "idle",
           claim' = [claim EXCEPT ![att[s].title] =
                    [kind |-> "accepted", id |-> att[s].id, item |-> att[s].item,
                     for |-> att[s].for, known |-> TRUE]]
    PROVE  ClaimMoves
  <1>1. att[s].title \in Titles /\ claim \in [Titles -> Claims \cup {None}]
    BY DEF TrackInv, CoreInv, AttemptsAreAbout, TypeOK
  <1>2. /\ claim'[att[s].title].kind = "accepted" /\ claim'[att[s].title].known
        /\ claim'[att[s].title].id = att[s].id /\ claim'[att[s].title].item = att[s].item
    BY <1>1
  <1>3. \A t \in Titles \ {att[s].title} : claim'[t] = claim[t]
    BY <1>1
  <1>4. Own(s) \/ pc[s] = "claiming"
    BY DEF Own
  <1> QED BY <1>2, <1>3, <1>4 DEF ClaimMoves, ClaimMove

\* It cannot be recorded.
LEMMA FailRecordMoves ==
    ASSUME TrackInv, CoreInv', NEW s \in Submitters, FailRecord(s)
    PROVE  Moves
  <1>1. /\ pc[s] = "recording" /\ Finish(s) /\ att' = Forget(att, s)
        /\ UNCHANGED <<cache, shared, row, minted, job, blind>>
    BY DEF FailRecord
  <1>2. pc'[s] = "idle"
    BY <1>1 DEF Finish, TrackInv, CoreInv, TypeOK
  <1>3. ClaimMoves
    BY <1>1, <1>2, KeepClaim DEF FailRecord
  <1> QED BY <1>1, <1>3, Quiet, ReturnMoves

\* The job is another download's.
LEMMA RecordAdoptsMoves ==
    ASSUME TrackInv, CoreInv', NEW s \in Submitters, RecordAdopts(s)
    PROVE  Moves
  <1>1. /\ pc[s] = "recording" /\ Adopts(att[s].id, att[s].item)
        /\ row' = Withdraw(row, att[s].id) /\ pc' = [pc EXCEPT ![s] = "adopting"]
        /\ UNCHANGED <<cache, shared, claim, minted, job, blind>>
    BY DEF RecordAdopts, Goto
  <1>2. PICK o \in Bound(att[s].item) : att' = [att EXCEPT ![s].id = o]
    BY DEF RecordAdopts
  <1>3. /\ att[s].item \in Jobs /\ OnlyJob(att[s].id, att[s].item) /\ Own(s)
    BY <1>1, RecordingFacts
  <1>4. pc'[s] = "adopting"
    BY <1>1 DEF TrackInv, CoreInv, TypeOK
  <1>5. /\ att[s] \in Attempts /\ att[s].id \in Ids /\ att[s].title \in Titles
        /\ Writes(att[s].id, att[s].title)
    BY <1>3, <1>4, OwnFacts
  <1>6. \A j \in Jobs : job[j].tok = att[s].id => Bound(j) # {}
    BY <1>1, <1>3 DEF OnlyJob, Adopts
  <1>7. RowMoves
    BY <1>1, <1>5, <1>6, WithdrawMoves
  <1>8. /\ att'[s].title = att[s].title /\ att'[s].item = att[s].item
        /\ att'[s].subs = att[s].subs /\ att'[s].id = o
        /\ \A p \in Submitters \ {s} : att'[p] = att[p]
    BY <1>2, <1>5 DEF Attempts, TrackInv, CoreInv, TypeOK
  <1>9. o \in Ids /\ row[o].item = att[s].item
    BY <1>2 DEF Bound
  <1>10. TurnsToAdopt(s)
    BY <1>1, <1>4, <1>8, <1>9 DEF TurnsToAdopt
  <1>11. OthersRest(s)
    BY <1>8 DEF OthersRest, SameAttempt
  <1>12. JobMoves /\ CacheMoves /\ ClaimMoves /\ SharedMove /\ Grows
    BY <1>1, Quiet DEF SharedMove
  <1> QED BY <1>1, <1>7, <1>10, <1>11, <1>12, AttemptMoves DEF AttMove

\* An adoption without a row fences the title.
LEMMA FenceMoves ==
    ASSUME TrackInv, NEW t \in Titles, NEW o,
           claim' = [claim EXCEPT ![t] = Ambiguous(o, t, NoPurpose, FALSE)]
    PROVE  ClaimMoves
  <1>1. claim \in [Titles -> Claims \cup {None}]
    BY DEF TrackInv, CoreInv, TypeOK
  <1>2. claim'[t].kind = "ambiguous" /\ ~claim'[t].known
    BY <1>1 DEF Ambiguous
  <1>3. \A u \in Titles \ {t} : claim'[u] = claim[u]
    BY <1>1
  <1> QED BY <1>2, <1>3 DEF ClaimMoves, ClaimMove

\* The download the job resolved to is adopted, rejected, or to be claimed.
LEMMA AdoptMoves ==
    ASSUME TrackInv, CoreInv', NEW s \in Submitters, Adopt(s)
    PROVE  Moves
  <1> DEFINE t == att[s].title
             o == att[s].id
  <1>1. pc[s] = "adopting" /\ UNCHANGED <<shared, row, minted, job, blind>>
    BY DEF Adopt
  <1>2. t \in Titles /\ o \in Ids /\ row[o].item # None
    BY <1>1, AdoptedInUse DEF TrackInv, CoreInv, AttemptsAreAbout
  <1>3. RowMoves
    BY <1>1, Quiet
  <1>4. CASE /\ claim' = [claim EXCEPT ![t] = Ambiguous(o, t, NoPurpose, FALSE)]
             /\ Finish(s) /\ att' = Forget(att, s) /\ UNCHANGED cache
    <2>1. ClaimMoves
      BY <1>2, <1>4, FenceMoves
    <2> QED BY <1>1, <1>3, <1>4, <2>1, Quiet, ReturnMoves
  <1>5. CASE Finish(s) /\ att' = Forget(att, s) /\ UNCHANGED <<cache, claim>>
    BY <1>1, <1>3, <1>5, Quiet, ReturnMoves
  <1>6. CASE /\ row[o].title = t /\ cache' = Remember(s, o)
             /\ Finish(s) /\ att' = Forget(att, s) /\ UNCHANGED claim
    <2>1. CacheMoves
      BY <1>1, <1>2, <1>6, RememberMoves
    <2> QED BY <1>1, <1>3, <1>6, <2>1, Quiet, ReturnMoves
  <1>7. CASE /\ row[o].title = None /\ Goto(s, "claiming")
             /\ UNCHANGED <<att, cache, claim>>
    <2>1. pc' = [pc EXCEPT ![s] = "claiming"] /\ pc'[s] = "claiming"
      BY <1>7 DEF Goto, TrackInv, CoreInv, TypeOK
    <2>2. TurnsToClaim(s) /\ OthersRest(s)
      BY <1>1, <1>7, <2>1 DEF TurnsToClaim, OthersRest, SameAttempt
    <2>3. JobMoves /\ CacheMoves /\ ClaimMoves /\ SharedMove /\ Grows
      BY <1>1, <1>7, Quiet DEF SharedMove
    <2> QED BY <1>1, <1>3, <2>1, <2>2, <2>3, AttemptMoves DEF AttMove
  <1> QED BY <1>4, <1>5, <1>6, <1>7 DEF Adopt

\* The stub is recorded as the title's, or kept as a claim, or lost to a third.
LEMMA ClaimStubMoves ==
    ASSUME TrackInv, CoreInv', NEW s \in Submitters, ClaimStub(s)
    PROVE  Moves
  <1> DEFINE t == att[s].title
             o == att[s].id
             j == att[s].item
  <1>1. /\ pc[s] = "claiming" /\ Finish(s) /\ att' = Forget(att, s)
        /\ UNCHANGED <<shared, minted, job, blind>>
    BY DEF ClaimStub
  <1>2. pc'[s] = "idle"
    BY <1>1 DEF Finish, TrackInv, CoreInv, TypeOK
  <1>3. /\ o \in Ids /\ row[o].item = j /\ Exists(j) /\ j \in Jobs /\ j # None
        /\ row[o].bind \notin {"none", "unbound"}
    BY <1>1, AdoptedInUse DEF Exists
  <1>4. t \in Titles /\ att[s].for \in Purposes \cup {NoPurpose}
    BY <1>1 DEF TrackInv, CoreInv, AttemptsAreAbout, TypeOK, Attempts
  <1>5. Writes(o, t) /\ TakenUp(j)
    BY <1>1 DEF Writes, TakenUp
  <1>6. ASSUME cache' \in {cache, Remember(s, o)}, row'[o].item # None
        PROVE  CacheMoves
    BY <1>1, <1>2, <1>3, <1>6, RememberMoves, Quiet
  <1>7. CASE /\ CanBind(o, j) /\ row' = RecordAccepted(o, j, t, att[s].for)
             /\ cache' \in {cache, Remember(s, o)} /\ UNCHANGED claim
    <2>1. RowMoves /\ row'[o].item = j
      BY <1>3, <1>4, <1>5, <1>7, AcceptMoves
    <2> QED BY <1>1, <1>3, <1>6, <1>7, <2>1, Quiet, ReturnMoves
  <1>8. CASE /\ claim' = [claim EXCEPT ![t] =
                    [kind |-> "accepted", id |-> o, item |-> j,
                     for |-> att[s].for, known |-> TRUE]]
             /\ UNCHANGED <<row, cache>>
    <2>1. ClaimMoves
      BY <1>1, <1>2, <1>8, KeepClaim
    <2> QED BY <1>1, <1>8, <2>1, Quiet, ReturnMoves
  <1>9. CASE /\ row' = Withdraw(row, o)
             /\ \E r \in Bound(j) :
                    /\ claim' = [claim EXCEPT ![t] = IF row[r].sub THEN @
                                     ELSE Ambiguous(r, t, NoPurpose, FALSE)]
                    /\ cache' \in IF row[r].sub /\ row[r].title = t
                                  THEN {cache, Remember(s, o)} ELSE {cache}
    <2>1. UNCHANGED row
      BY <1>3, <1>9 DEF Withdraw
    <2>2. PICK r \in Bound(j) :
              /\ claim' = [claim EXCEPT ![t] = IF row[r].sub THEN @
                                     ELSE Ambiguous(r, t, NoPurpose, FALSE)]
              /\ cache' \in {cache, Remember(s, o)}
      BY <1>9
    <2>3. ClaimMoves
      <3>1. CASE row[r].sub
        BY <2>2, <3>1 DEF ClaimMoves, ClaimMove, TrackInv, CoreInv, TypeOK
      <3>2. CASE ~row[r].sub
        <4>1. claim' = [claim EXCEPT ![t] = Ambiguous(r, t, NoPurpose, FALSE)]
          BY <2>2, <3>2
        <4> QED BY <1>4, <4>1, FenceMoves
      <3> QED BY <3>1, <3>2
    <2> QED BY <1>1, <1>3, <1>6, <2>1, <2>2, <2>3, Quiet, ReturnMoves
  <1> QED BY <1>7, <1>8, <1>9 DEF ClaimStub

-----------------------------------------------------------------------------
(* Every action is one of the moves: the others.                            *)

\* A step beside the attempts is one of the moves.
LEMMA BesideMoves ==
    ASSUME TrackInv, CoreInv', pc' = pc, claim' = claim,
           \A o \in Submitters : /\ SameAttempt(o) /\ att'[o].answer = att[o].answer
                                 /\ att'[o].listing = att[o].listing
                                 /\ att'[o].fresh => att[o].fresh,
           shared' \in {None, shared}, RowMoves, JobMoves, CacheMoves, Grows
    PROVE  Moves
  <1>1. \A o \in Submitters : Rests(o) /\ ~Begins(o)
    BY DEF Rests, Begins
  <1>2. AttMoves
    BY <1>1 DEF AttMoves, AttMove
  <1>3. ListingMoves
    BY DEF ListingMoves, SameAttempt
  <1>4. ClaimMoves
    BY Quiet
  <1> QED BY <1>2, <1>3, <1>4 DEF Moves

\* The same, where memory is left alone.
LEMMA StoreMoves ==
    ASSUME TrackInv, CoreInv', UNCHANGED <<memory>>, RowMoves, JobMoves, Grows
    PROVE  Moves
  <1>1. UNCHANGED <<pc, att, cache, shared, claim>>
    BY DEF memory
  <1>2. CacheMoves
    BY <1>1, Quiet
  <1> QED BY <1>1, <1>2, BesideMoves DEF SameAttempt

\* Somebody else's job appears, or a job moves on.
LEMMA ClientMoves ==
    ASSUME TrackInv, CoreInv', NEW j \in Jobs,
           \/ \E r \in Releases : ForeignJob(j, r)
           \/ \E st \in JobStates : Progress(j, st)
    PROVE  Moves
  <1>1. UNCHANGED <<memory, row, minted, blind>>
    BY DEF ForeignJob, Progress
  <1>2. job[j] \in [st : JobStates, tok : Ids \cup {None}, rel : Releases \cup {None}]
    BY DEF TrackInv, CoreInv, TypeOK
  <1>3. job[j].st = "absent" => job[j].tok = None
    BY DEF TrackInv, ItemsExist
  <1>4. PICK b : /\ job' = [job EXCEPT ![j] = b] /\ b.tok = job[j].tok
                 /\ job[j].st # "absent" =>
                      b.st # "absent" /\ (job[j].st \notin Blocking => b.st \notin Blocking)
    <2>1. CASE \E r \in Releases : ForeignJob(j, r)
      BY <1>3, <2>1 DEF ForeignJob
    <2>2. ASSUME NEW st \in JobStates, Progress(j, st)
          PROVE  \E b : /\ job' = [job EXCEPT ![j] = b] /\ b.tok = job[j].tok
                        /\ job[j].st # "absent" =>
                            b.st # "absent" /\ (job[j].st \notin Blocking => b.st \notin Blocking)
      <3> DEFINE c == [job[j] EXCEPT !.st = st]
      <3>1. job' = [job EXCEPT ![j] = c]
        BY <2>2 DEF Progress, TrackInv, CoreInv, TypeOK
      <3>2. c.tok = job[j].tok /\ c.st = st
        BY <1>2
      <3>3. st # "absent" /\ (job[j].st \notin Blocking => st \notin Blocking)
        BY <2>2 DEF Progress, Blocking
      <3> HIDE DEF c
      <3> QED BY <3>1, <3>2, <3>3
    <2> QED BY <2>1, <2>2
  <1>5. job'[j] = b /\ \A k \in Jobs \ {j} : job'[k] = job[k]
    BY <1>4 DEF TrackInv, CoreInv, TypeOK
  <1>6. JobMoves
    BY <1>4, <1>5 DEF JobMoves
  <1> QED BY <1>1, <1>6, Quiet, StoreMoves

\* The observer binds an intent to a job with its token, or with none.
LEMMA BindMoves ==
    ASSUME TrackInv, CoreInv', NEW j \in Jobs, NEW i \in Ids, Exists(j),
           row[i].bind = "unbound", job[j].tok \in {i, None},
           row' = [row EXCEPT ![i].bind = "bound", ![i].item = j], CacheMoves,
           UNCHANGED <<pc, att, shared, claim, minted, job, blind>>
    PROVE  Moves
  <1>1. row \in [Ids -> Rows] /\ row[i] \in Rows
    BY DEF TrackInv, CoreInv, TypeOK
  <1>2. /\ row'[i].bind = "bound" /\ row'[i].item = j /\ row'[i].title = row[i].title
        /\ \A o \in Ids \ {i} : row'[o] = row[o]
    BY <1>1 DEF Rows
  <1>3. Observed(i)
    BY <1>2 DEF Observed
  <1>4. RowMoves
    BY <1>2, <1>3 DEF RowMoves, RowMove, Flagged, SameRow
  <1> QED BY <1>4, Quiet, BesideMoves DEF SameAttempt

\* The observer binds an intent by its token, or by its name.
LEMMA ObserveMoves ==
    ASSUME TrackInv, CoreInv', NEW j \in Jobs, ObserveIntent(j) \/ ObserveByName(j)
    PROVE  Moves
  <1>1. Exists(j)
    BY DEF ObserveIntent, ObserveByName, Exists, OnClient
  <1>4. CacheMoves /\ UNCHANGED <<pc, att, shared, claim, minted, job, blind>>
    BY Quiet DEF ObserveIntent, ObserveByName, memory
  <1>2. CASE ObserveIntent(j)
    <2>1. job[j].tok \in Ids
      BY <1>2 DEF ObserveIntent, TrackInv, CoreInv, TypeOK
    <2> QED BY <1>1, <1>2, <1>4, <2>1, BindMoves DEF ObserveIntent
  <1>3. CASE ObserveByName(j)
    BY <1>1, <1>3, <1>4, BindMoves DEF ObserveByName
  <1> QED BY <1>2, <1>3

\* The observer gives somebody else's job a download.
LEMMA ObserveForeignMoves ==
    ASSUME TrackInv, CoreInv', NEW j \in Jobs, NEW i \in Ids, ObserveForeign(j, i)
    PROVE  Moves
  <1>1. /\ job[j].st \in OnClient /\ job[j].tok = None /\ i \notin minted
        /\ minted' = minted \cup {i}
        /\ row' = [row EXCEPT ![i] = [NoRow EXCEPT !.bind = "bound", !.item = j]]
        /\ UNCHANGED <<memory, job, blind>>
    BY DEF ObserveForeign
  <1>2. Exists(j)
    BY <1>1 DEF Exists, OnClient
  <1>3. /\ row'[i].bind = "bound" /\ row'[i].item = j /\ row'[i].title = None
        /\ \A o \in Ids \ {i} : row'[o] = row[o]
    BY <1>1 DEF NoRow, TrackInv, CoreInv, TypeOK
  <1>4. Discovered(i)
    BY <1>1, <1>2, <1>3 DEF Discovered
  <1>5. RowMoves
    BY <1>3, <1>4 DEF RowMoves, RowMove, Flagged, SameRow
  <1>6. Grows
    BY <1>1 DEF Grows
  <1> QED BY <1>1, <1>5, <1>6, Quiet, StoreMoves

\* The tracker records a stub.
LEMMA RecordStubMoves ==
    ASSUME TrackInv, CoreInv', NEW i \in Ids, RecordStub(i)
    PROVE  Moves
  <1>1. row' = [row EXCEPT ![i].sub = TRUE] /\ UNCHANGED <<memory, minted, job, blind>>
    BY DEF RecordStub
  <1>2. row \in [Ids -> Rows] /\ row[i] \in Rows
    BY DEF TrackInv, CoreInv, TypeOK
  <1>3. SameRow(i) /\ row'[i].sub /\ \A o \in Ids \ {i} : row'[o] = row[o]
    BY <1>1, <1>2 DEF Rows, SameRow
  <1>4. RowMoves
    BY <1>3 DEF RowMoves, RowMove, Flagged, SameRow
  <1> QED BY <1>1, <1>4, Quiet, StoreMoves

\* Dropping a title state teaches it nothing.
LEMMA DropState ==
    ASSUME TrackInv, NEW t, cache' = [cache EXCEPT ![t] = None]
    PROVE  CacheMoves
  BY DEF CacheMoves, TrackInv, CoreInv, TypeOK

\* A download settles.
LEMMA SettleMoves ==
    ASSUME TrackInv, CoreInv', NEW i \in Ids, Settle(i)
    PROVE  Moves
  <1>1. /\ row' = [row EXCEPT ![i].done = TRUE] /\ Invalidate(att)
        /\ cache' = [cache EXCEPT ![row[i].title] = None]
        /\ UNCHANGED <<pc, claim, minted, job, blind>>
    BY DEF Settle
  <1>2. row \in [Ids -> Rows] /\ row[i] \in Rows
    BY DEF TrackInv, CoreInv, TypeOK
  <1>3. /\ SameRow(i) /\ row'[i].sub = row[i].sub
        /\ \A o \in Ids \ {i} : row'[o] = row[o]
    BY <1>1, <1>2 DEF Rows, SameRow
  <1>4. RowMoves
    BY <1>3 DEF RowMoves, RowMove, Flagged, SameRow
  <1>5. /\ shared' = None
        /\ \A o \in Submitters :
                 /\ SameAttempt(o) /\ att'[o].answer = att[o].answer
                 /\ att'[o].listing = att[o].listing /\ ~att'[o].fresh
    BY <1>1, InvalidateFields DEF Dropped, SameAttempt, TrackInv, CoreInv, TypeOK
  <1>6. CacheMoves
    BY <1>1, DropState
  <1> QED BY <1>1, <1>4, <1>5, <1>6, Quiet, BesideMoves

\* A binding ends that holds no running job, or an intent that waits for none.
LEMMA EndRowMoves ==
    ASSUME TrackInv, NEW i \in Ids, row' = [row EXCEPT ![i].bind = "ended"],
           \/ row[i].bind = "bound" /\ job[row[i].item].st \notin Blocking
           \/ /\ row[i].bind = "unbound"
              /\ \A s \in Submitters : pc[s] # "idle" => att[s].id # i
              /\ \A j \in Jobs : job[j].tok = i => job[j].st \notin Blocking
    PROVE  RowMoves
  <1>1. row \in [Ids -> Rows] /\ row[i] \in Rows
    BY DEF TrackInv, CoreInv, TypeOK
  <1>2. /\ row'[i].bind = "ended" /\ row'[i].item = row[i].item
        /\ row'[i].title = row[i].title /\ \A o \in Ids \ {i} : row'[o] = row[o]
    BY <1>1 DEF Rows
  <1>3. Ended(i)
    BY <1>2 DEF Ended
  <1> QED BY <1>2, <1>3 DEF RowMoves, RowMove, Flagged, SameRow

\* The job of a bound download is no longer listed.
LEMMA RecordMissingMoves ==
    ASSUME TrackInv, CoreInv', NEW i \in Ids, RecordMissing(i)
    PROVE  Moves
  <1>1. /\ row[i].bind = "bound" /\ job[row[i].item].st \notin Blocking
        /\ UNCHANGED <<pc, claim, minted, job, blind>>
    BY DEF RecordMissing, Blocking
  <1>2. CASE row' = [row EXCEPT ![i].bind = "ended"] /\ UNCHANGED <<att, cache, shared>>
    <2>1. RowMoves
      BY <1>1, <1>2, EndRowMoves
    <2> QED BY <1>1, <1>2, <2>1, Quiet, StoreMoves DEF memory
  <1>3. CASE /\ cache' = [cache EXCEPT ![row[i].title] = Disown(@, i)]
             /\ Invalidate(att) /\ UNCHANGED row
    <2>1. /\ shared' = None
          /\ \A o \in Submitters :
                 /\ SameAttempt(o) /\ att'[o].answer = att[o].answer
                 /\ att'[o].listing = att[o].listing /\ ~att'[o].fresh
      BY <1>3, InvalidateFields DEF Dropped, SameAttempt, TrackInv, CoreInv, TypeOK
    <2>2. \A c \in TitleStates \cup {None} :
              Disown(c, i) # None => c # None /\ Disown(c, i).subs = c.subs
      BY DEF Disown, TitleStates
    <2>3. cache \in [Titles -> TitleStates \cup {None}]
      BY DEF TrackInv, CoreInv, TypeOK
    <2>4. ASSUME NEW t \in Titles, cache'[t] # None
          PROVE  cache[t] # None /\ cache'[t].subs = cache[t].subs
      <3>1. cache'[t] = cache[t] \/ cache'[t] = Disown(cache[t], i)
        BY <1>3, <2>3
      <3> QED BY <2>2, <2>3, <2>4, <3>1
    <2>5. CacheMoves
      BY <2>4 DEF CacheMoves
    <2> QED BY <1>1, <1>3, <2>1, <2>5, Quiet, BesideMoves
  <1> QED BY <1>2, <1>3 DEF RecordMissing

\* An unconfirmed intent is released: its submit is over and it has no job.
LEMMA ReleaseUnconfirmedMoves ==
    ASSUME TrackInv, CoreInv', NEW i \in Ids, ReleaseUnconfirmed(i)
    PROVE  Moves
  <1>1. /\ row[i].bind = "unbound"
        /\ \A s \in Submitters : pc[s] # "idle" => att[s].id # i
        /\ \A j \in Jobs : job[j].tok = i => job[j].st \notin Blocking
        /\ row' = [row EXCEPT ![i].bind = "ended"]
        /\ cache' = [cache EXCEPT ![row[i].title] = None]
        /\ UNCHANGED <<pc, att, shared, claim, minted, job, blind>>
    BY DEF ReleaseUnconfirmed, Blocking, OnClient
  <1>2. RowMoves
    BY <1>1, EndRowMoves
  <1>3. CacheMoves
    BY <1>1, DropState
  <1> QED BY <1>1, <1>2, <1>3, Quiet, BesideMoves DEF SameAttempt

\* The background walk primes a title.
LEMMA PrimeTitleStateMoves ==
    ASSUME TrackInv, CoreInv', NEW t \in Titles, PrimeTitleState(t)
    PROVE  Moves
  <1>1. UNCHANGED <<pc, att, shared, claim, row, minted, job, blind>>
    BY DEF PrimeTitleState
  <1>2. \/ cache' = [cache EXCEPT ![t] = None]
        \/ cache' = [cache EXCEPT ![t] = [subs |-> ListForTitle(t), accepted |-> {}]]
    BY DEF PrimeTitleState
  <1>3. CacheMoves
    BY <1>2 DEF CacheMoves, ListForTitle, TrackInv, CoreInv, TypeOK
  <1> QED BY <1>1, <1>3, Quiet, BesideMoves DEF SameAttempt

\* It primes it without an intent that is bound between its two reads.
LEMMA PrimeMissingMoves ==
    ASSUME TrackInv, CoreInv', NEW t \in Titles, NEW i \in Ids, NEW j \in Jobs,
           PrimeMissing(t, i, j)
    PROVE  Moves
  <1>1. cache' = [cache EXCEPT ![t] = [subs |-> ListForTitle(t), accepted |-> {}]]
    BY DEF PrimeMissing
  <1>2. CacheMoves
    BY <1>1 DEF CacheMoves, ListForTitle, TrackInv, CoreInv, TypeOK
  <1>3. Exists(j) /\ row[i].bind = "unbound"
    BY DEF PrimeMissing, UnboundFor, Exists, OnClient
  <1> QED BY <1>2, <1>3, BindMoves DEF PrimeMissing

\* The process starts again.
LEMMA RestartMoves ==
    ASSUME TrackInv, CoreInv', Restart
    PROVE  Moves
  <1>1. /\ \A s \in Submitters : pc'[s] = "idle"
        /\ \A t \in Titles : cache'[t] = None /\ claim'[t] = None
        /\ shared' = None /\ UNCHANGED <<row, minted, job, blind>>
    BY DEF Restart
  <1>2. AttMoves
    BY <1>1 DEF AttMoves, AttMove, Begins
  <1>3. ListingMoves
    BY <1>1 DEF ListingMoves, Dropped
  <1>4. ClaimMoves /\ CacheMoves
    BY <1>1 DEF ClaimMoves, ClaimMove, CacheMoves
  <1> QED BY <1>1, <1>2, <1>3, <1>4, Quiet DEF Moves

-----------------------------------------------------------------------------
(* The theorems.                                                            *)

\* The invariant holds when the process starts for the first time.
LEMMA InitTrackInv == Init => TrackInv
  <1> SUFFICES ASSUME Init PROVE TrackInv
    OBVIOUS
  <1>1. CoreInv
    BY InitCoreInv
  <1>2. /\ \A s \in Submitters : pc[s] = "idle"
        /\ \A t \in Titles : cache[t] = None /\ claim[t] = None
        /\ shared = None
    BY DEF Init
  <1>3. \A i \in Ids : row[i].bind = "none" /\ row[i].title = None /\ row[i].item = None
    BY DEF Init, NoRow
  <1>4. \A j \in Jobs : job[j].st = "absent" /\ job[j].tok = None
    BY DEF Init, NoJob
  <1>5. ItemMeansBound /\ NewIdsAreBlank /\ ItemsExist /\ OneJobPerToken
    BY <1>2, <1>3, <1>4, NoneAssumption DEF ItemMeansBound, NewIdsAreBlank, ItemsExist,
       OneJobPerToken, HasItem
  <1>6. OwnIdIsOwn /\ OwnIdProgress /\ AcceptedClaims /\ AttemptsAgree
    BY <1>2 DEF OwnIdIsOwn, OwnIdProgress, AcceptedClaims, AttemptsAgree, Own, Early
  <1>7. ListingsCover /\ DecidesOnEvidence /\ JobIsTracked
    BY <1>2, <1>4 DEF ListingsCover, DecidesOnEvidence, JobIsTracked
  <1> QED BY <1>1, <1>5, <1>6, <1>7 DEF TrackInv

\* Every step of an attempt is one of the moves.
LEMMA AttemptIsMove ==
    ASSUME TrackInv, CoreInv', NEW s \in Submitters, Attempt(s)
    PROVE  Moves
  <1>1. CASE \E t \in Titles, i \in Ids, n \in Intents : Begin(s, t, i, n)
    BY <1>1, BeginMoves
  <1>2. CASE \/ FailLoad(s) \/ RefuseUnresolved(s) \/ FailFetch(s) \/ AcceptExisting(s)
             \/ RefuseBlocked(s) \/ RefuseConflict(s) \/ FailPrepare(s)
    BY <1>2, EndMoves
  <1>3. CASE RefuseAmbiguous(s) \/ RecoverAccepted(s)
    BY <1>3, RefuseAmbiguousMoves, RecoverAcceptedMoves
  <1>4. CASE UseCachedState(s) \/ LoadState(s) \/ UseSnapshot(s) \/ Fetch(s)
             \/ StoreSnapshot(s)
    BY <1>4, UseCachedStateMoves, LoadStateMoves, UseSnapshotMoves, FetchMoves,
       StoreSnapshotMoves
  <1>5. CASE ReplaceExisting(s) \/ NoConflict(s) \/ RemoveFromClient(s)
             \/ DeleteReplaced(s) \/ FailReplace(s) \/ RecordIntent(s)
    BY <1>5, ReplaceExistingMoves, NoConflictMoves, RemoveFromClientMoves,
       DeleteReplacedMoves, FailReplaceMoves, RecordIntentMoves
  <1>6. CASE ClientTakes(s) \/ ClientHolds(s) \/ ClientDeclines(s) \/ Ambiguity(s)
             \/ Refusal(s) \/ Acceptance(s)
    BY <1>6, ClientTakesMoves, ClientAnswersMoves, AmbiguityMoves, RefusalMoves,
       AcceptanceMoves
  <1>7. CASE Record(s) \/ FailRecord(s) \/ RecordAdopts(s) \/ Adopt(s) \/ ClaimStub(s)
    BY <1>7, RecordMoves, FailRecordMoves, RecordAdoptsMoves, AdoptMoves, ClaimStubMoves
  <1> QED BY <1>1, <1>2, <1>3, <1>4, <1>5, <1>6, <1>7 DEF Attempt

\* Every step of the client, the observer, the tracker and the walk is one.
LEMMA OthersAreMoves ==
    ASSUME TrackInv, CoreInv', Others
    PROVE  Moves
  <1>1. CASE \E j \in Jobs : \/ \E r \in Releases : ForeignJob(j, r)
                             \/ \E st \in JobStates : Progress(j, st)
    BY <1>1, ClientMoves
  <1>2. CASE \E j \in Jobs : \/ ObserveIntent(j) \/ ObserveByName(j)
                             \/ \E i \in Ids : ObserveForeign(j, i)
    BY <1>2, ObserveMoves, ObserveForeignMoves
  <1>3. CASE \E i \in Ids : \/ RecordStub(i) \/ Settle(i) \/ RecordMissing(i)
                            \/ ReleaseUnconfirmed(i)
    BY <1>3, RecordStubMoves, SettleMoves, RecordMissingMoves, ReleaseUnconfirmedMoves
  <1>4. CASE \E t \in Titles : \/ PrimeTitleState(t)
                               \/ \E i \in Ids, j \in Jobs : PrimeMissing(t, i, j)
    BY <1>4, PrimeTitleStateMoves, PrimeMissingMoves
  <1> QED BY <1>1, <1>2, <1>3, <1>4 DEF Others

\* The invariant holds always: whatever the callers, the client, the observer,
\* the tracker and the walk do, in whatever order, and wherever the process
\* stops.
THEOREM TrackInvHolds == Spec => []TrackInv
  <1>1. Init => TrackInv
    BY InitTrackInv
  <1>2. TrackInv /\ [Next]_vars => TrackInv'
    <2> SUFFICES ASSUME TrackInv, [Next]_vars PROVE TrackInv'
      OBVIOUS
    <2>1. CoreInv
      BY DEF TrackInv
    <2>2. CoreInv'
      BY <2>1, AttemptCoreInv, OthersCoreInv, RestartCoreInv, StutterCoreInv DEF Next
    <2>3. Moves
      <3>1. CASE UNCHANGED vars
        BY <2>2, <3>1, Quiet, StoreMoves DEF vars, memory
      <3> QED BY <2>2, <3>1, AttemptIsMove, OthersAreMoves, RestartMoves DEF Next
    <2> QED BY <2>3, MovesKeepTrackInv
  <1> QED BY <1>1, <1>2, PTL DEF Spec

\* A running job of ours always resolves to a download: the intent it carries
\* waits for it, or a download is bound to it, unless its deletion was decided
\* on a listing the client did not answer or the observer bound the intent to
\* somebody else's job of that name (record_pending_submission before the
\* submit, record_submission_with_identity after it).
THEOREM JobIsTrackedHolds == Spec => []JobIsTracked
  <1>1. TrackInv => JobIsTracked
    BY DEF TrackInv
  <1> QED BY <1>1, TrackInvHolds, PTL

\* A reusable listing is missing no grab whose submit has returned, whichever
\* title it was for and whoever was reading the queue meanwhile
\* (invalidate_client_snapshots, store_client_snapshot).
THEOREM CachedListingCoversGrabsHolds == Spec => []CachedListingCoversGrabs
  <1>1. TrackInv => CachedListingCoversGrabs
    BY DEF TrackInv, ListingsCover, Covers, CachedListingCoversGrabs
  <1> QED BY <1>1, TrackInvHolds, PTL

=============================================================================
