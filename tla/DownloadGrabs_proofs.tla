------------------------ MODULE DownloadGrabs_proofs ------------------------
(***************************************************************************)
(* Proof that a title has two standard grabs under way in                   *)
(* DownloadSubmission only if one of them was decided blind: the inductive  *)
(* invariant IInv, and DoubleGrabWasBlind from it.                          *)
(*                                                                          *)
(* It rests on TrackInv and on the moves of DownloadTracking_proofs.  To    *)
(* them it adds a second summary, Turns, of what a step does to the columns *)
(* of a row and to what an attempt knows: its title state, its listing and  *)
(* whether it is blind.  The heart of it is that a step makes a grab live   *)
(* only by storing an intent (LiveOnlyByIntent), and that an attempt which  *)
(* is not blind stores one only if none is live (NoneLeft).                 *)
(*                                                                          *)
(* The same two facts show that DownloadSubmission implements TitleGrabs.   *)
(***************************************************************************)
EXTENDS DownloadTracking_proofs

-----------------------------------------------------------------------------
(* What a step may do.                                                      *)

\* A step settles what is known of download i, for title t and purpose f: an
\* attempt under its own id, one that claims a stub, or whoever settles the
\* title's claim.
Writer(i, t, f) ==
    \/ \E s \in Submitters :
          /\ att[s].id = i /\ att[s].title = t /\ att[s].for = f
          /\ \/ Own(s) /\ pc'[s] \in {"idle", "adopting"}
             \/ pc[s] = "claiming" /\ pc'[s] = "idle"
    \/ /\ claim[t] # None /\ claim[t].known /\ claim[t].id = i /\ claim[t].for = f
       /\ claim'[t] = None \/ ~claim'[t].known

SameDeal(i) == /\ row'[i].title = row[i].title /\ row'[i].for = row[i].for
               /\ row'[i].done = row[i].done
SameColumns(i) == /\ SameDeal(i) /\ row'[i].bind = row[i].bind
                  /\ row'[i].item = row[i].item /\ row'[i].sub = row[i].sub

\* The attempt s stores its intent.
Stores(s, i) == /\ pc[s] = "prepare" /\ pc'[s] \in {"submitting", "idle"}
                /\ att[s].id = i /\ row'[i].title = att[s].title
                /\ row'[i].for = att[s].for
                /\ att[s].blind => i \in blind'
Stored(i) == /\ row[i].bind = "none" /\ row'[i].bind = "unbound"
             /\ row'[i].sub /\ row'[i].item = None /\ ~row'[i].done
             /\ \E s \in Submitters : Stores(s, i)

\* An intent is withdrawn.
Recalled(i) == /\ row[i].bind = "unbound" /\ row'[i].bind = "none"
               /\ ~row'[i].sub /\ row'[i].item = row[i].item /\ SameDeal(i)
               /\ \E t \in Titles, f \in Purposes \cup {NoPurpose} : Writer(i, t, f)

\* An acceptance is recorded of what was asked for.
Confirmed(i) == /\ row'[i].bind = "bound" /\ row'[i].sub
                /\ row'[i].item \in Jobs /\ CanBind(i, row'[i].item)
                /\ row'[i].title \in Titles /\ row'[i].done = row[i].done
                /\ Writer(i, row'[i].title, row'[i].for)
                /\ AskedFor(i, row'[i].title, row'[i].for)

\* A binding or an intent is over, or a submission of an ended one is deleted.
Closed(i) == /\ row[i].bind # "none" /\ row'[i].bind = "ended"
             /\ row'[i].item = row[i].item /\ SameDeal(i)

\* The observer binds an intent.
Attached(i) == /\ row[i].bind = "unbound" /\ row'[i].bind = "bound"
               /\ Exists(row'[i].item) /\ job[row'[i].item].tok \in {i, None}
               /\ row'[i].sub = row[i].sub /\ SameDeal(i)

\* The observer finds somebody else's job.
Found(i) == /\ i \notin minted /\ row'[i].bind = "bound"
            /\ row'[i].title = None /\ ~row'[i].done
            /\ Exists(row'[i].item) /\ job[row'[i].item].tok = None

\* The tracker records a stub, or a download settles.
Marked(i) == /\ row[i].bind = "bound" /\ row'[i].bind = "bound"
             /\ row'[i].item = row[i].item
             /\ row'[i].title = row[i].title /\ row'[i].for = row[i].for
             /\ \/ row[i].title = None /\ row'[i].done = row[i].done
                \/ row'[i].sub = row[i].sub /\ job[row[i].item].st \notin Blocking

RowTurn(i) == \/ SameColumns(i) \/ Stored(i) \/ Recalled(i) \/ Confirmed(i)
              \/ Closed(i) \/ Attached(i) \/ Found(i) \/ Marked(i)
RowTurns == \A i \in Ids : RowTurn(i)

Looking == {"snapshot", "fetching"} \cup Deciding
Asking == {"submitting", "answered", "recording"}

\* A listing is kept, dropped, taken from the shared one, or read.
ListingTurn(s) == \/ att'[s].listing \in {att[s].listing, NoListing}
                  \/ shared # None /\ att'[s].listing = shared
                  \/ Listed(att'[s].listing) /\ UNCHANGED <<job>>

\* An attempt loads its title state, or forgets of it only what is deleted.
KnowTurn(s) ==
    pc'[s] \in Looking =>
        /\ att'[s].title = att[s].title
        /\ \/ /\ pc'[s] = "snapshot" /\ UNCHANGED <<row, job>>
              /\ att'[s].blind \/ \A i \in Ids : row[i].title = att[s].title /\ Live(i)
                                                    => i \in att'[s].subs
           \/ /\ pc[s] \in Looking /\ att'[s].blind = att[s].blind
              /\ \A i \in att[s].subs : i \in att'[s].subs \/ ~row'[i].sub

\* It decides on one listing.
DecideTurn(s) ==
    pc'[s] \in {"conflicts", "replacing", "replaced"} =>
        /\ pc[s] \in Deciding /\ att'[s].listing = att[s].listing
        /\ att'[s].subs \subseteq att[s].subs
        /\ pc'[s] \in {"replacing", "replaced"} => att[s].listing.full

\* It decides to go on, or rests before it stores its intent.
PrepareTurn(s) ==
    pc'[s] = "prepare" =>
        \/ /\ pc[s] = "prepare" /\ att'[s].title = att[s].title
           /\ att'[s].blind = att[s].blind /\ att'[s].for = att[s].for
        \/ /\ pc[s] \in Deciding /\ att'[s].title = att[s].title
           /\ \/ att'[s].blind \/ att'[s].for.extra
              \/ \A i \in Ids : row'[i].title = att[s].title => ~Live(i) \/ ~row'[i].sub

\* It has stored its intent, and asks for it until it has recorded the answer.
AskTurn(s) ==
    pc'[s] \in Asking =>
        /\ att'[s].id = att[s].id /\ att'[s].title = att[s].title
        /\ att'[s].for = att[s].for
        /\ \/ pc[s] \in Asking
           \/ Stored(att[s].id) /\ Stores(s, att[s].id)

\* It claims a download without a title.
ClaimingTurn(s) ==
    pc'[s] = "claiming" =>
        /\ att'[s].id = att[s].id
        /\ \/ pc[s] = "claiming"
           \/ pc[s] = "adopting" /\ row[att[s].id].title = None

AttTurn(s) == /\ ListingTurn(s) /\ KnowTurn(s) /\ DecideTurn(s) /\ PrepareTurn(s)
              /\ AskTurn(s) /\ ClaimingTurn(s)
AttTurns == \A s \in Submitters : AttTurn(s)

\* A claim that can be recorded stays, or is about what was asked for.
ClaimTurn(t) ==
    \/ claim'[t] = claim[t] \/ claim'[t] = None \/ ~claim'[t].known
    \/ /\ UNCHANGED <<row, job>> /\ claim'[t].id \in Ids
       /\ AskedFor(claim'[t].id, t, claim'[t].for)
ClaimTurns == \A t \in Titles : ClaimTurn(t)

Turns == /\ Moves /\ RowTurns /\ AttTurns /\ ClaimTurns

-----------------------------------------------------------------------------
(* The invariant survives such a step.                                      *)

\* What a step leaves of downloads and jobs.
LEMMA Sticks ==
    ASSUME IInv, Turns, NEW i \in Ids
    PROVE  /\ row[i].item # None => row'[i].item = row[i].item
           /\ row[i].item # None => Exists(row[i].item)
           /\ BoundAstray(i) => BoundAstray(i)'
  <1>1. row[i].item # None => row'[i].item = row[i].item
    BY ItemsStick DEF IInv, Turns
  <1>2. row[i].item # None => Exists(row[i].item)
    BY DEF IInv, TrackInv, ItemsExist
  <1>3. BoundAstray(i) => BoundAstray(i)'
    BY <1>1, <1>2, JobsStick DEF BoundAstray, IInv, Turns
  <1> QED BY <1>1, <1>2, <1>3

\* Intents, bindings and stubs stay what they are.
LEMMA RowsAgreeKept ==
    ASSUME IInv, Turns
    PROVE  RowsAgree'
  <1> SUFFICES ASSUME NEW i \in Ids
               PROVE  /\ row'[i].bind = "unbound" => row'[i].title # None
                      /\ row'[i].bind \in {"unbound", "bound"} /\ row'[i].title # None
                            => row'[i].sub
                      /\ row'[i].bind = "bound" => row'[i].item # None
                      /\ row'[i].item # None /\ row'[i].title = None => BoundAstray(i)'
    BY DEF RowsAgree
  <1>1. /\ row[i].bind = "unbound" => row[i].title # None
        /\ row[i].bind \in {"unbound", "bound"} /\ row[i].title # None => row[i].sub
        /\ row[i].bind = "bound" => row[i].item # None
        /\ row[i].item # None /\ row[i].title = None => BoundAstray(i)
        /\ row[i].bind \in {"none", "unbound"} => row[i].item = None
    BY DEF IInv, GrabInv, RowsAgree, TrackInv, ItemMeansBound
  <1>2. BoundAstray(i) => BoundAstray(i)'
    BY Sticks
  <1>3. CASE SameColumns(i) \/ Recalled(i) \/ Closed(i) \/ Marked(i)
    BY <1>1, <1>2, <1>3 DEF SameColumns, SameDeal, Recalled, Closed, Marked
  <1>4. CASE Stored(i)
    <2>1. row'[i].title \in Titles
      BY <1>4 DEF Stored, Stores, IInv, TrackInv, CoreInv, AttemptsAreAbout
    <2> QED BY <1>4, <2>1, NoneAssumption DEF Stored
  <1>5. CASE Confirmed(i)
    BY <1>5, NoneAssumption DEF Confirmed
  <1>6. CASE Attached(i) \/ Found(i)
    <2>1. Exists(row'[i].item) /\ row'[i].item # None
      BY <1>6, NoneAssumption DEF Attached, Found, Exists
    <2>2. job'[row'[i].item].tok = job[row'[i].item].tok
      BY <2>1, JobsStick DEF IInv, Turns
    <2> QED BY <1>1, <1>6, <2>1, <2>2 DEF Attached, Found, SameDeal, BoundAstray
  <1> QED BY <1>3, <1>4, <1>5, <1>6 DEF Turns, RowTurns, RowTurn

\* A settled download's job stays over.
LEMMA SettledIsOverKept ==
    ASSUME IInv, Turns
    PROVE  SettledIsOver'
  <1> SUFFICES ASSUME NEW i \in Ids, row'[i].done
               PROVE  row'[i].item # None /\ job'[row'[i].item].st \notin Blocking
    BY DEF SettledIsOver
  <1>1. /\ row[i].done => row[i].item # None /\ job[row[i].item].st \notin Blocking
        /\ row[i].bind \in {"none", "unbound"} => row[i].item = None
        /\ row[i].bind = "bound" => row[i].item # None
    BY DEF IInv, GrabInv, RowsAgree, SettledIsOver, TrackInv, ItemMeansBound
  <1>2. row[i].item # None /\ job[row[i].item].st \notin Blocking =>
            row'[i].item = row[i].item /\ job'[row[i].item].st \notin Blocking
    BY Sticks, JobsStick DEF IInv, Turns
  <1>3. row[i].done \/ Marked(i)
    BY DEF Turns, RowTurns, RowTurn, SameColumns, SameDeal, Stored, Recalled, Confirmed,
       Closed, Attached, Found
  <1> QED BY <1>1, <1>2, <1>3 DEF Marked

\* A grab becomes live only by the intent of an attempt.
LEMMA LiveOnlyByIntent ==
    ASSUME IInv, Turns, NEW i \in Ids, Live(i)', ~Stored(i)
    PROVE  Live(i) /\ row'[i].title = row[i].title
  <1>1. /\ row'[i].sub /\ ~row'[i].for.extra
        /\ \/ row'[i].bind = "unbound"
           \/ /\ row'[i].bind = "bound"
              /\ job'[row'[i].item].st \in Blocking /\ job'[row'[i].item].tok # None
    BY DEF Live
  <1>2. /\ row[i].bind \in {"unbound", "bound"} /\ row[i].title # None => row[i].sub
        /\ row[i].bind = "unbound" => row[i].title # None
        /\ row[i].bind = "bound" => row[i].item # None
        /\ row[i].item # None /\ row[i].title = None => BoundAstray(i)
        /\ row[i].bind \in {"none", "unbound"} => row[i].item = None
    BY DEF IInv, GrabInv, RowsAgree, TrackInv, ItemMeansBound
  <1>3. ASSUME row[i].item # None, row'[i].bind = "bound"
        PROVE  /\ row'[i].item = row[i].item /\ job[row[i].item].st \in Blocking
               /\ job[row[i].item].tok # None
    <2>1. row'[i].item = row[i].item /\ Exists(row[i].item)
      BY <1>3, Sticks
    <2> QED BY <1>1, <1>3, <2>1, JobsStick DEF IInv, Turns
  <1>4. BoundAstray(i) => row'[i].bind # "bound"
    BY <1>3 DEF BoundAstray
  <1>5. CASE SameColumns(i)
    BY <1>1, <1>2, <1>3, <1>5 DEF SameColumns, SameDeal, Live
  <1>6. CASE Confirmed(i)
    <2>1. row[i].bind # "none" /\ row[i].title = row'[i].title /\ row[i].for = row'[i].for
      BY <1>4, <1>6 DEF Confirmed, AskedFor
    <2>2. row[i].bind \in {"unbound", "bound"} /\ row[i].title # None
      BY <1>6, <2>1, NoneAssumption DEF Confirmed, CanBind
    <2> QED BY <1>1, <1>2, <1>3, <1>6, <2>1, <2>2 DEF Confirmed, Live
  <1>7. CASE Attached(i)
    BY <1>1, <1>7 DEF Attached, SameDeal, Live
  <1>8. CASE Found(i)
    <2>1. job'[row'[i].item].tok = None
      BY <1>8, JobsStick DEF Found, IInv, Turns
    <2> QED BY <1>1, <1>8, <2>1 DEF Found
  <1>9. CASE Marked(i)
    BY <1>1, <1>2, <1>3, <1>4, <1>9 DEF Marked, Live
  <1>10. CASE Recalled(i) \/ Closed(i)
    BY <1>1, <1>10 DEF Recalled, Closed
  <1> QED BY <1>5, <1>6, <1>7, <1>8, <1>9, <1>10 DEF Turns, RowTurns, RowTurn

AskedForNext(i, t, f) ==
    \/ row'[i].item # None /\ job'[row'[i].item].tok = None
    \/ row'[i].bind # "none" /\ row'[i].title = t /\ row'[i].for = f

\* Nobody but its writer changes what a download was asked for.
LEMMA AskedForKept ==
    ASSUME IInv, Turns, NEW i \in Ids, NEW t, NEW f, AskedFor(i, t, f),
           BoundAstray(i) \/ (~Recalled(i) /\ ~Confirmed(i))
    PROVE  AskedForNext(i, t, f)
  <1>1. CASE BoundAstray(i)
    BY <1>1, Sticks DEF AskedForNext, BoundAstray
  <1>2. CASE ~BoundAstray(i)
    <2>1. row[i].bind # "none" /\ row[i].title = t /\ row[i].for = f
      BY <1>2 DEF AskedFor
    <2>2. i \notin minted => row[i].bind = "none"
      BY DEF IInv, TrackInv, NewIdsAreBlank
    <2>3. SameColumns(i) \/ Closed(i) \/ Attached(i) \/ Marked(i)
      BY <1>2, <2>1, <2>2 DEF Turns, RowTurns, RowTurn, Stored, Found
    <2> QED BY <2>1, <2>3 DEF AskedForNext, SameColumns, Closed, Attached, Marked, SameDeal
  <1> QED BY <1>1, <1>2

\* Who withdraws or records a download that is not bound to somebody else's job
\* is its attempt, or settles the claim of its title.
LEMMA WhoWrites ==
    ASSUME IInv, NEW i \in Ids, Recalled(i) \/ Confirmed(i), ~BoundAstray(i)
    PROVE  \/ \E s \in Submitters : /\ Own(s) /\ att[s].id = i
                                    /\ pc'[s] \in {"idle", "adopting"}
           \/ \E t \in Titles : /\ claim[t] # None /\ claim[t].known
                                /\ claim[t].id = i /\ row[i].title = t
                                /\ claim'[t] = None \/ ~claim'[t].known
  <1>1. PICK t, f : t \in Titles /\ Writer(i, t, f)
    BY DEF Recalled, Confirmed
  <1>2. \/ \E s \in Submitters : Own(s) /\ att[s].id = i /\ pc'[s] \in {"idle", "adopting"}
        \/ /\ claim[t] # None /\ claim[t].known /\ claim[t].id = i
           /\ claim'[t] = None \/ ~claim'[t].known
    BY <1>1 DEF Writer, IInv, GrabInv, RecordsAskedFor
  <1>3. claim[t] # None /\ claim[t].known /\ claim[t].id = i => row[i].title = t
    BY <1>1 DEF AskedFor, IInv, GrabInv, RecordsAskedFor
  <1> QED BY <1>1, <1>2, <1>3

\* Whoever is to record an acceptance has asked for it.
LEMMA RecordsAskedForKept ==
    ASSUME IInv, Turns
    PROVE  RecordsAskedFor'
  <1>1. ASSUME NEW s \in Submitters, pc'[s] \in Asking
        PROVE  AskedForNext(att'[s].id, att'[s].title, att'[s].for)
    <2>1. /\ att'[s].id = att[s].id /\ att'[s].title = att[s].title
          /\ att'[s].for = att[s].for
          /\ pc[s] \in Asking \/ (Stored(att[s].id) /\ Stores(s, att[s].id))
      BY <1>1 DEF Turns, AttTurns, AttTurn, AskTurn
    <2>2. CASE pc[s] \in Asking
      <3>1. /\ att[s].id \in Ids /\ Own(s)
            /\ AskedFor(att[s].id, att[s].title, att[s].for)
        BY <2>2 DEF Asking, Own, IInv, TrackInv, CoreInv, AttemptsAreAbout, GrabInv,
           RecordsAskedFor
      <3>2. /\ \A o \in Submitters : Own(o) /\ att[o].id = att[s].id => o = s
            /\ \A t \in Titles : claim[t] # None /\ claim[t].known =>
                                   claim[t].id # att[s].id
        BY <3>1 DEF IInv, TrackInv, OwnIdIsOwn
      <3>3. \/ BoundAstray(att[s].id)
            \/ ~Recalled(att[s].id) /\ ~Confirmed(att[s].id)
        BY <1>1, <3>1, <3>2, WhoWrites DEF Asking
      <3> QED BY <2>1, <3>1, <3>3, AskedForKept
    <2>3. CASE Stored(att[s].id) /\ Stores(s, att[s].id)
      BY <2>1, <2>3 DEF Stored, Stores, AskedForNext
    <2> QED BY <2>1, <2>2, <2>3
  <1>2. ASSUME NEW s \in Submitters, pc'[s] = "claiming"
        PROVE  row'[att'[s].id].item # None /\ job'[row'[att'[s].id].item].tok = None
    <2>1. /\ att'[s].id = att[s].id
          /\ pc[s] = "claiming" \/ (pc[s] = "adopting" /\ row[att[s].id].title = None)
      BY <1>2 DEF Turns, AttTurns, AttTurn, ClaimingTurn
    <2>2. att[s].id \in Ids
      BY <2>1 DEF IInv, TrackInv, CoreInv, AttemptsAreAbout
    <2>3. BoundAstray(att[s].id)
      <3>1. CASE pc[s] = "claiming"
        BY <3>1 DEF IInv, GrabInv, RecordsAskedFor
      <3>2. CASE pc[s] = "adopting" /\ row[att[s].id].title = None
        BY <2>2, <3>2, AdoptedInUse DEF IInv, GrabInv, RowsAgree
      <3> QED BY <2>1, <3>1, <3>2
    <2> QED BY <2>1, <2>2, <2>3, Sticks DEF BoundAstray
  <1>3. ASSUME NEW t \in Titles, claim'[t] # None, claim'[t].known
        PROVE  AskedForNext(claim'[t].id, t, claim'[t].for)
    <2>1. CASE claim'[t] = claim[t]
      <3>1. /\ claim[t].id \in Ids /\ AskedFor(claim[t].id, t, claim[t].for)
        BY <1>3, <2>1 DEF IInv, TrackInv, CoreInv, TypeOK, Claims, GrabInv, RecordsAskedFor
      <3>2. \A s \in Submitters : Own(s) => att[s].id # claim[t].id
        BY <1>3, <2>1 DEF IInv, TrackInv, OwnIdIsOwn
      <3>3. ~BoundAstray(claim[t].id) => row[claim[t].id].title = t
        BY <3>1 DEF AskedFor
      <3>4. \/ BoundAstray(claim[t].id)
            \/ ~Recalled(claim[t].id) /\ ~Confirmed(claim[t].id)
        BY <1>3, <2>1, <3>1, <3>2, <3>3, WhoWrites
      <3> QED BY <2>1, <3>1, <3>4, AskedForKept
    <2>2. CASE /\ UNCHANGED <<row, job>>
               /\ AskedFor(claim'[t].id, t, claim'[t].for)
      BY <2>2 DEF AskedFor, BoundAstray, AskedForNext
    <2> QED BY <1>3, <2>1, <2>2 DEF Turns, ClaimTurns, ClaimTurn
  <1> QED BY <1>1, <1>2, <1>3 DEF RecordsAskedFor, AskedFor, AskedForNext, BoundAstray,
          Asking

TruthfulNext(l) ==
    \A j \in Jobs : /\ job'[j].st \in Blocking => l.at[j] \in Blocking \cup {"absent"}
                    /\ job'[j].st = "absent" \/ ~l.full => l.at[j] = "absent"

\* A listing goes on saying of running jobs that they were running.
LEMMA TruthfulKept ==
    ASSUME IInv, Turns, NEW l, Truthful(l)
    PROVE  TruthfulNext(l)
  <1> SUFFICES ASSUME NEW j \in Jobs
               PROVE  /\ job'[j].st \in Blocking => l.at[j] \in Blocking \cup {"absent"}
                      /\ job'[j].st = "absent" \/ ~l.full => l.at[j] = "absent"
    BY DEF TruthfulNext
  <1>1. CASE job[j].st = "absent"
    BY <1>1 DEF Truthful
  <1>2. CASE job[j].st # "absent"
    <2>1. /\ job'[j].st # "absent"
          /\ job[j].st \notin Blocking => job'[j].st \notin Blocking
      BY <1>2, JobsStick DEF Exists, IInv, Turns
    <2> QED BY <2>1 DEF Truthful
  <1> QED BY <1>1, <1>2

\* What a client lists, or fails to, is truthful.
LEMMA ListedTruthful ==
    ASSUME NEW l, Listed(l) \/ l = NoListing
    PROVE  Truthful(l)
  BY DEF Listed, Listing, NoListing, Truthful, Blocking, OnClient

\* Every listing in memory is truthful.
LEMMA ListingsAreTruthfulKept ==
    ASSUME IInv, Turns
    PROVE  ListingsAreTruthful'
  <1>1. /\ shared # None => Truthful(shared)
        /\ \A s \in Submitters : Truthful(att[s].listing)
    BY DEF IInv, GrabInv, ListingsAreTruthful
  <1>2. shared' # None => TruthfulNext(shared')
    BY <1>1, TruthfulKept DEF Turns, Moves, ListingMoves
  <1>3. ASSUME NEW s \in Submitters
        PROVE  TruthfulNext(att'[s].listing)
    <2>1. CASE Listed(att'[s].listing) /\ UNCHANGED <<job>>
      BY <2>1, ListedTruthful DEF Truthful, TruthfulNext
    <2>2. CASE \/ att'[s].listing \in {att[s].listing, NoListing}
               \/ shared # None /\ att'[s].listing = shared
      BY <1>1, <2>2, ListedTruthful, TruthfulKept
    <2> QED BY <2>1, <2>2 DEF Turns, AttTurns, AttTurn, ListingTurn
  <1> QED BY <1>2, <1>3 DEF ListingsAreTruthful, Truthful, TruthfulNext

\* An attempt keeps its evidence until it has decided.
LEMMA KeepsEvidenceKept ==
    ASSUME IInv, Turns, TrackInv', ListingsAreTruthful'
    PROVE  KeepsEvidence'
  <1>1. ASSUME NEW s \in Submitters, pc'[s] \in Deciding, att'[s].listing.full,
               NEW i \in att'[s].subs, job'[row'[i].item].st \in Blocking,
               job'[row'[i].item].tok # None
        PROVE  att'[s].listing.at[row'[i].item] \in Blocking
    <2>1. CASE pc'[s] = "decide"
      <3>1. att'[s].listing.at[row'[i].item] \in OnClient \ {"failed"}
        BY <1>1, <2>1 DEF TrackInv, DecidesOnEvidence, Seen
      <3>2. row'[i].item \in Jobs
        BY <1>1, <2>1 DEF TrackInv, AttemptsAgree, ItemsExist, Exists, CoreInv, TypeOK, Attempts
      <3> QED BY <1>1, <3>1, <3>2 DEF ListingsAreTruthful, Truthful, OnClient
    <2>2. CASE pc'[s] # "decide"
      <3>1. /\ pc[s] \in Deciding /\ att'[s].listing = att[s].listing
            /\ i \in att[s].subs
        BY <1>1, <2>2 DEF Deciding, Turns, AttTurns, AttTurn, DecideTurn
      <3>2. i \in Ids /\ row[i].item # None
        BY <3>1, SubsFacts, NoneAssumption DEF IInv, Deciding
      <3>3. row'[i].item = row[i].item /\ Exists(row[i].item)
        BY <3>2, Sticks
      <3>4. job[row[i].item].st \in Blocking /\ job[row[i].item].tok # None
        BY <1>1, <3>3, JobsStick DEF IInv, Turns
      <3> QED BY <1>1, <3>1, <3>3, <3>4 DEF IInv, GrabInv, KeepsEvidence, Seen
    <2> QED BY <2>1, <2>2
  <1>2. ASSUME NEW s \in Submitters, pc'[s] \in {"replacing", "replaced"}
        PROVE  att'[s].listing.full
    BY <1>2 DEF Turns, AttTurns, AttTurn, DecideTurn
  <1> QED BY <1>1, <1>2 DEF KeepsEvidence, Seen

\* The attempts of two submitters on one title do not overlap.
LEMMA Alone ==
    ASSUME IInv, NEW s \in Submitters, NEW o \in Submitters, pc[s] # "idle",
           pc[o] # "idle", att[s].title = att[o].title
    PROVE  s = o
  BY DEF IInv, TrackInv, CoreInv, OneAttemptPerTitle

\* While an attempt goes on, and stores no intent, no grab of its title becomes
\* live.
LEMMA NoNewGrab ==
    ASSUME IInv, Turns, NEW s \in Submitters, pc[s] # "idle",
           pc'[s] \notin {"idle", "submitting"},
           NEW i \in Ids, row'[i].title = att[s].title, Live(i)'
    PROVE  Live(i) /\ row[i].title = att[s].title
  <1>1. ~Stored(i)
    <2>1. ASSUME NEW o \in Submitters, Stores(o, i)
          PROVE  FALSE
      BY <2>1, Alone DEF Stores
    <2> QED BY <2>1 DEF Stored
  <1> QED BY <1>1, LiveOnlyByIntent

\* An attempt that is not blind goes on knowing every grab of its title.
LEMMA KnowsItsTitleKept ==
    ASSUME IInv, Turns
    PROVE  KnowsItsTitle'
  <1> SUFFICES ASSUME NEW s \in Submitters, pc'[s] \in Looking, ~att'[s].blind,
                      NEW i \in Ids, row'[i].title = att'[s].title, Live(i)'
               PROVE  i \in att'[s].subs
    BY DEF KnowsItsTitle, Looking
  <1>1. KnowTurn(s)
    BY DEF Turns, AttTurns, AttTurn
  <1>2. att'[s].title = att[s].title
    BY <1>1 DEF KnowTurn
  <1>3. CASE /\ UNCHANGED <<row, job>>
             /\ \A k \in Ids : row[k].title = att[s].title /\ Live(k) => k \in att'[s].subs
    BY <1>2, <1>3 DEF Live
  <1>4. CASE /\ pc[s] \in Looking /\ att'[s].blind = att[s].blind
             /\ \A k \in att[s].subs : k \in att'[s].subs \/ ~row'[k].sub
    <2>1. Live(i) /\ row[i].title = att[s].title
      BY <1>2, <1>4, NoNewGrab DEF Looking, Deciding
    <2>2. i \in att[s].subs
      BY <1>4, <2>1 DEF IInv, GrabInv, KnowsItsTitle, Looking
    <2> QED BY <1>4, <2>2 DEF Live
  <1> QED BY <1>1, <1>3, <1>4 DEF KnowTurn

\* An attempt that is not blind decides to go on, and goes on, with no grab of
\* its title live.
LEMMA DecidedAloneKept ==
    ASSUME IInv, Turns
    PROVE  DecidedAlone'
  <1> SUFFICES ASSUME NEW s \in Submitters, pc'[s] = "prepare", ~att'[s].blind,
                      ~att'[s].for.extra, NEW i \in Ids, row'[i].title = att'[s].title,
                      Live(i)'
               PROVE  FALSE
    BY DEF DecidedAlone
  <1>1. PrepareTurn(s)
    BY DEF Turns, AttTurns, AttTurn
  <1>2. att'[s].title = att[s].title /\ pc[s] # "idle"
    BY <1>1 DEF PrepareTurn, Deciding
  <1>3. Live(i) /\ row[i].title = att[s].title
    BY <1>2, NoNewGrab
  <1>4. CASE /\ pc[s] = "prepare" /\ att'[s].blind = att[s].blind
             /\ att'[s].for = att[s].for
    BY <1>3, <1>4 DEF IInv, GrabInv, DecidedAlone
  <1>5. CASE \A k \in Ids : row'[k].title = att[s].title => ~Live(k) \/ ~row'[k].sub
    BY <1>2, <1>3, <1>5 DEF Live
  <1> QED BY <1>1, <1>4, <1>5 DEF PrepareTurn

\* Two grabs of a title are live only if one was decided blind.
LEMMA DoubleGrabWasBlindKept ==
    ASSUME IInv, Turns
    PROVE  DoubleGrabWasBlind'
  <1>1. ASSUME NEW i \in Ids, NEW o \in Ids, i # o, Live(i)', Live(o)', Stored(i),
               row'[i].title = row'[o].title
        PROVE  i \in blind'
    <2>1. PICK s \in Submitters : Stores(s, i)
      BY <1>1 DEF Stored
    <2>2. ~att[s].for.extra
      BY <1>1, <2>1 DEF Stores, Live
    <2>3. ~Stored(o)
      <3>1. ASSUME NEW p \in Submitters, Stores(p, o)
            PROVE  FALSE
        <4>1. p = s
          BY <1>1, <2>1, <3>1, Alone DEF Stores
        <4> QED BY <1>1, <2>1, <3>1, <4>1 DEF Stores
      <3> QED BY <3>1 DEF Stored
    <2>4. Live(o) /\ row[o].title = att[s].title
      BY <1>1, <2>1, <2>3, LiveOnlyByIntent DEF Stores
    <2>5. att[s].blind
      BY <2>1, <2>2, <2>4 DEF Stores, IInv, GrabInv, DecidedAlone
    <2> QED BY <2>1, <2>5 DEF Stores
  <1>2. ASSUME NEW i \in Ids, NEW o \in Ids, i # o, Live(i)', Live(o)', ~Stored(i),
               ~Stored(o), row'[i].title = row'[o].title
        PROVE  i \in blind' \/ o \in blind'
    <2>1. /\ Live(i) /\ row'[i].title = row[i].title
          /\ Live(o) /\ row'[o].title = row[o].title
      BY <1>2, LiveOnlyByIntent
    <2>2. i \in blind \/ o \in blind
      BY <1>2, <2>1 DEF IInv, GrabInv, DoubleGrabWasBlind
    <2> QED BY <2>2 DEF Turns, Moves, Grows
  <1> QED BY <1>1, <1>2 DEF DoubleGrabWasBlind

\* The whole invariant survives such a step.
LEMMA TurnsKeepIInv ==
    ASSUME IInv, Turns
    PROVE  IInv'
  <1>1. TrackInv'
    BY MovesKeepTrackInv DEF IInv, Turns
  <1>2. ListingsAreTruthful'
    BY ListingsAreTruthfulKept
  <1> QED BY <1>1, <1>2, RowsAgreeKept, SettledIsOverKept, RecordsAskedForKept,
          KeepsEvidenceKept, KnowsItsTitleKept, DecidedAloneKept,
          DoubleGrabWasBlindKept DEF IInv, GrabInv

-----------------------------------------------------------------------------
(* What the operations of the store and of the guard table do.              *)

\* Rows and claims that stay the same.
LEMMA QuietTurns ==
    /\ UNCHANGED <<row>> => RowTurns
    /\ UNCHANGED <<claim>> => ClaimTurns
  BY DEF RowTurns, RowTurn, SameColumns, SameDeal, ClaimTurns, ClaimTurn

\* An intent that was asked for is stored already.
LEMMA PendingAgain ==
    ASSUME IInv, NEW i \in Ids, NEW t, NEW f, NEW g, AskedFor(i, t, g),
           row' = RecordPending(row, i, t, f)
    PROVE  UNCHANGED row
  <1>1. row[i].bind # "none"
    BY DEF AskedFor, BoundAstray, IInv, TrackInv, ItemMeansBound
  <1> QED BY <1>1 DEF RecordPending

\* An intent is withdrawn by its writer.
LEMMA WithdrawTurns ==
    ASSUME IInv, NEW i \in Ids, NEW t \in Titles, NEW f \in Purposes \cup {NoPurpose},
           row' = Withdraw(row, i), Writer(i, t, f)
    PROVE  RowTurns
  <1>0. row \in [Ids -> Rows] /\ row[i] \in Rows
    BY DEF IInv, TrackInv, CoreInv, TypeOK
  <1>1. ASSUME NEW o \in Ids, o # i \/ row[i].bind # "unbound"
        PROVE  row'[o] = row[o]
    BY <1>0, <1>1 DEF Withdraw
  <1>2. ASSUME row[i].bind = "unbound"
        PROVE  Recalled(i)
    <2>1. row'[i] = [row[i] EXCEPT !.bind = "none", !.sub = FALSE]
      BY <1>0, <1>2 DEF Withdraw
    <2>2. /\ row'[i].bind = "none" /\ ~row'[i].sub /\ row'[i].item = row[i].item
          /\ row'[i].title = row[i].title /\ row'[i].for = row[i].for
          /\ row'[i].done = row[i].done
      BY <1>0, <2>1 DEF Rows
    <2> QED BY <1>2, <2>2 DEF Recalled, SameDeal
  <1> QED BY <1>1, <1>2 DEF RowTurns, RowTurn, SameColumns, SameDeal

\* An acceptance of what was asked for is recorded.
LEMMA AcceptTurns ==
    ASSUME IInv, NEW i \in Ids, NEW j \in Jobs, NEW t \in Titles, NEW f,
           row' = RecordAccepted(i, j, t, f), CanBind(i, j), Writer(i, t, f),
           AskedFor(i, t, f)
    PROVE  RowTurns
  <1>1. /\ row'[i] = [bind |-> "bound", sub |-> TRUE, title |-> t, item |-> j,
                      for |-> f, done |-> row[i].done]
        /\ \A o \in Ids : o # i => row'[o] = IF o \in Bound(j)
                                             THEN [row[o] EXCEPT !.bind = "ended"]
                                             ELSE row[o]
    BY DEF RecordAccepted
  <1>2. /\ row'[i].bind = "bound" /\ row'[i].sub /\ row'[i].title = t
        /\ row'[i].item = j /\ row'[i].for = f /\ row'[i].done = row[i].done
    BY <1>1
  <1>3. Confirmed(i)
    BY <1>2 DEF Confirmed
  <1>4. ASSUME NEW o \in Ids, o # i, o \in Bound(j)
        PROVE  Closed(o)
    <2>1. row[o].bind = "bound" /\ row[o] \in Rows
      BY <1>4 DEF Bound, IInv, TrackInv, CoreInv, TypeOK
    <2>2. row'[o] = [row[o] EXCEPT !.bind = "ended"]
      BY <1>1, <1>4
    <2>3. /\ row'[o].bind = "ended" /\ row'[o].item = row[o].item
          /\ row'[o].title = row[o].title /\ row'[o].for = row[o].for
          /\ row'[o].done = row[o].done
      BY <2>1, <2>2 DEF Rows
    <2> QED BY <2>1, <2>3 DEF Closed, SameDeal
  <1>5. ASSUME NEW o \in Ids, o # i, o \notin Bound(j)
        PROVE  row'[o] = row[o]
    BY <1>1, <1>5
  <1> QED BY <1>3, <1>4, <1>5 DEF RowTurns, RowTurn, SameColumns, SameDeal

\* The submissions of a job are deleted.
LEMMA DeleteTurns ==
    ASSUME IInv, NEW j \in Jobs, row' = DeleteByItem(j)
    PROVE  /\ RowTurns
           /\ \A i \in Ids : /\ row'[i].title = row[i].title
                             /\ row'[i].sub <=> (row[i].sub /\ row[i].item # j)
                             /\ row'[i].item = row[i].item
  <1>1. ASSUME NEW i \in Ids
        PROVE  /\ SameDeal(i) /\ row'[i].item = row[i].item
               /\ row'[i].bind = IF i \in Bound(j) THEN "ended" ELSE row[i].bind
               /\ row'[i].sub = (row[i].sub /\ row[i].item # j)
    <2>1. row[i] \in Rows
      BY DEF IInv, TrackInv, CoreInv, TypeOK
    <2>2. row'[i] = [row[i] EXCEPT !.bind = IF i \in Bound(j) THEN "ended" ELSE @,
                                   !.sub = @ /\ row[i].item # j]
      BY DEF DeleteByItem
    <2> QED BY <2>1, <2>2, ZenonT(60) DEF Rows, SameDeal
  <1>2. j # None
    BY NoneAssumption
  <1>3. ASSUME NEW i \in Ids
        PROVE  RowTurn(i)
    <2>1. row[i].bind \in {"none", "unbound", "bound", "ended"} /\ row[i].sub \in BOOLEAN
      BY DEF IInv, TrackInv, CoreInv, TypeOK, Rows
    <2>2. row[i].item = j => row[i].bind \in {"bound", "ended"}
      BY <1>2, <2>1 DEF IInv, TrackInv, ItemMeansBound
    <2>3. CASE row[i].item = j
      BY <1>1, <2>1, <2>2, <2>3 DEF RowTurn, Closed, Bound
    <2>4. CASE row[i].item # j
      BY <1>1, <2>1, <2>4 DEF RowTurn, SameColumns, Bound
    <2> QED BY <2>3, <2>4
  <1> QED BY <1>1, <1>3 DEF RowTurns, SameDeal

\* A binding or an intent ends.
LEMMA EndTurns ==
    ASSUME IInv, NEW i \in Ids, row' = [row EXCEPT ![i].bind = "ended"],
           row[i].bind # "none"
    PROVE  RowTurns
  <1>1. row \in [Ids -> Rows] /\ row[i] \in Rows
    BY DEF IInv, TrackInv, CoreInv, TypeOK
  <1>2. /\ row'[i].bind = "ended" /\ row'[i].item = row[i].item
        /\ row'[i].title = row[i].title /\ row'[i].for = row[i].for
        /\ row'[i].done = row[i].done
        /\ \A o \in Ids \ {i} : row'[o] = row[o]
    BY <1>1 DEF Rows
  <1> QED BY <1>2 DEF RowTurns, RowTurn, Closed, SameColumns, SameDeal

\* What of an attempt the others leave alone.
SameLocals(s) ==
    /\ att'[s].title = att[s].title /\ att'[s].id = att[s].id
    /\ att'[s].for = att[s].for /\ att'[s].subs = att[s].subs
    /\ att'[s].blind = att[s].blind /\ att'[s].listing = att[s].listing

\* An attempt that rests.
LEMMA RestTurn ==
    ASSUME IInv, NEW s \in Submitters, pc'[s] = pc[s], SameLocals(s)
    PROVE  AttTurn(s)
  BY DEF SameLocals, AttTurn, ListingTurn, KnowTurn, DecideTurn, PrepareTurn, AskTurn,
     ClaimingTurn, Looking, Deciding, IInv, GrabInv, KeepsEvidence

\* An attempt that returns, or knows nothing yet or any more.
LEMMA LooseTurn ==
    ASSUME NEW s \in Submitters, pc'[s] \in {"idle", "claims", "state", "adopting"},
           att'[s].listing \in {att[s].listing, NoListing}
    PROVE  AttTurn(s)
  BY DEF AttTurn, ListingTurn, KnowTurn, DecideTurn, PrepareTurn, AskTurn,
     ClaimingTurn, Looking, Deciding, Asking

\* The step of one attempt.
LEMMA OneTurns ==
    ASSUME IInv, Moves, NEW s \in Submitters, NEW p, pc' = [pc EXCEPT ![s] = p],
           \A o \in Submitters \ {s} : SameLocals(o),
           AttTurn(s), RowTurns, ClaimTurns
    PROVE  Turns
  <1>1. \A o \in Submitters \ {s} : pc'[o] = pc[o]
    BY DEF IInv, TrackInv, CoreInv, TypeOK
  <1>2. \A o \in Submitters \ {s} : AttTurn(o)
    BY <1>1, RestTurn
  <1> QED BY <1>2 DEF Turns, AttTurns

\* An attempt that goes on with the locals a.
LEMMA GoTurns ==
    ASSUME IInv, Moves, NEW s \in Submitters, NEW p, NEW a,
           pc' = [pc EXCEPT ![s] = p], att' = [att EXCEPT ![s] = a],
           pc'[s] = p /\ att'[s] = a => AttTurn(s), RowTurns, ClaimTurns
    PROVE  Turns
  <1>1. /\ pc'[s] = p /\ att'[s] = a /\ \A o \in Submitters \ {s} : att'[o] = att[o]
    BY DEF IInv, TrackInv, CoreInv, TypeOK
  <1>2. \A o \in Submitters \ {s} : SameLocals(o)
    BY <1>1 DEF SameLocals
  <1> QED BY <1>1, <1>2, OneTurns

\* An attempt that returns.
LEMMA ReturnTurns ==
    ASSUME IInv, Moves, NEW s \in Submitters, Finish(s), att' = Forget(att, s),
           RowTurns, ClaimTurns
    PROVE  Turns
  <1>1. pc' = [pc EXCEPT ![s] = "idle"] /\ att' = [att EXCEPT ![s] = Idle]
    BY DEF Finish, Forget
  <1>2. Idle.listing = NoListing
    BY DEF Idle
  <1> QED BY <1>1, <1>2, LooseTurn, GoTurns

\* Invalidating leaves every attempt what it knows.
LEMMA InvalidateLocals ==
    ASSUME NEW a \in [Submitters -> Attempts], Invalidate(a)
    PROVE  \A o \in Submitters :
              /\ att'[o].title = a[o].title /\ att'[o].id = a[o].id
              /\ att'[o].for = a[o].for /\ att'[o].subs = a[o].subs
              /\ att'[o].blind = a[o].blind /\ att'[o].listing = a[o].listing
  <1> SUFFICES ASSUME NEW o \in Submitters
               PROVE  /\ att'[o].title = a[o].title /\ att'[o].id = a[o].id
                      /\ att'[o].for = a[o].for /\ att'[o].subs = a[o].subs
                      /\ att'[o].blind = a[o].blind /\ att'[o].listing = a[o].listing
    OBVIOUS
  <1>1. a[o] \in Attempts
    OBVIOUS
  <1>2. att'[o] = [a[o] EXCEPT !.fresh = FALSE]
    BY DEF Invalidate
  <1> QED BY <1>1, <1>2 DEF Attempts

\* An attempt with an answer that returns.
LEMMA DropTurns ==
    ASSUME IInv, Moves, NEW s \in Submitters, Finish(s), Invalidate(Forget(att, s)),
           RowTurns, ClaimTurns
    PROVE  Turns
  <1>1. /\ Forget(att, s) \in [Submitters -> Attempts]
        /\ Forget(att, s)[s] = Idle
        /\ \A o \in Submitters \ {s} : Forget(att, s)[o] = att[o]
    BY ForgetTyped DEF IInv, TrackInv, CoreInv, TypeOK, Forget
  <1> DEFINE a == Forget(att, s)
  <1> HIDE DEF a
  <1>2. /\ a \in [Submitters -> Attempts] /\ Invalidate(a) /\ a[s] = Idle
        /\ \A o \in Submitters \ {s} : a[o] = att[o]
    BY <1>1 DEF a
  <1>3. \A o \in Submitters :
              /\ att'[o].title = a[o].title /\ att'[o].id = a[o].id
              /\ att'[o].for = a[o].for /\ att'[o].subs = a[o].subs
              /\ att'[o].blind = a[o].blind /\ att'[o].listing = a[o].listing
    BY <1>2, InvalidateLocals
  <1>4. \A o \in Submitters \ {s} : SameLocals(o)
    BY <1>2, <1>3 DEF SameLocals
  <1>5. att'[s].listing = NoListing
    BY <1>2, <1>3 DEF Idle
  <1>6. pc' = [pc EXCEPT ![s] = "idle"] /\ pc'[s] = "idle"
    BY DEF Finish, IInv, TrackInv, CoreInv, TypeOK
  <1>7. AttTurn(s)
    BY <1>5, <1>6, LooseTurn
  <1> QED BY <1>4, <1>6, <1>7, OneTurns

\* A step beside the attempts.
LEMMA BesideTurns ==
    ASSUME IInv, Moves, pc' = pc, \A s \in Submitters : SameLocals(s),
           UNCHANGED <<claim>>, RowTurns
    PROVE  Turns
  BY RestTurn, QuietTurns DEF Turns, AttTurns

-----------------------------------------------------------------------------
(* Every action is such a step: an attempt up to its intent.                *)

\* A caller begins.
LEMMA BeginTurns ==
    ASSUME IInv, Moves, NEW s \in Submitters, NEW t \in Titles, NEW i \in Ids,
           NEW n \in Intents, Begin(s, t, i, n)
    PROVE  Turns
  <1> DEFINE a == [Idle EXCEPT !.title = t, !.id = i,
                               !.for = [rel |-> n.rel, extra |-> n.extra],
                               !.policy = n.policy]
  <1>1. /\ pc' = [pc EXCEPT ![s] = "claims"] /\ att' = [att EXCEPT ![s] = a]
        /\ UNCHANGED <<claim, row>>
    BY DEF Begin, Goto
  <1>2. a.listing = NoListing
    BY DEF Idle
  <1> HIDE DEF a
  <1> QED BY <1>1, <1>2, LooseTurn, QuietTurns, GoTurns

\* A caller is turned away, or fails, before it has stored its intent.
LEMMA ReturnEarlyTurns ==
    ASSUME IInv, Moves, NEW s \in Submitters,
           \/ FailLoad(s) \/ RefuseUnresolved(s) \/ FailFetch(s) \/ AcceptExisting(s)
           \/ RefuseBlocked(s) \/ RefuseConflict(s) \/ FailPrepare(s)
    PROVE  Turns
  <1>1. Finish(s) /\ att' = Forget(att, s) /\ UNCHANGED <<claim, row>>
    BY DEF FailLoad, RefuseUnresolved, FailFetch, AcceptExisting, RefuseBlocked,
       RefuseConflict, FailPrepare
  <1> QED BY <1>1, QuietTurns, ReturnTurns

\* An ambiguous claim refuses the attempt: its intent is stored already.
LEMMA RefuseAmbiguousTurns ==
    ASSUME IInv, Moves, NEW s \in Submitters, RefuseAmbiguous(s)
    PROVE  Turns
  <1> DEFINE t == att[s].title
             c == claim[t]
  <1>1. /\ pc[s] = "claims" /\ c # None /\ Finish(s) /\ att' = Forget(att, s)
        /\ \/ /\ c.known /\ row' = RecordPending(row, c.id, t, c.for)
              /\ claim' = [claim EXCEPT ![t] = None]
           \/ UNCHANGED <<row, claim>>
    BY DEF RefuseAmbiguous
  <1>2. t \in Titles /\ c.id \in Ids /\ claim \in [Titles -> Claims \cup {None}]
    BY <1>1 DEF IInv, TrackInv, CoreInv, AttemptsAreAbout, TypeOK, Claims
  <1>3. CASE UNCHANGED <<row, claim>>
    BY <1>1, <1>3, QuietTurns, ReturnTurns
  <1>4. CASE /\ c.known /\ row' = RecordPending(row, c.id, t, c.for)
             /\ claim' = [claim EXCEPT ![t] = None]
    <2>1. AskedFor(c.id, t, c.for)
      BY <1>1, <1>2, <1>4 DEF IInv, GrabInv, RecordsAskedFor
    <2>2. UNCHANGED row
      BY <1>2, <1>4, <2>1, PendingAgain
    <2>3. ClaimTurns
      BY <1>2, <1>4 DEF ClaimTurns, ClaimTurn
    <2> QED BY <1>1, <2>2, <2>3, QuietTurns, ReturnTurns
  <1> QED BY <1>1, <1>3, <1>4

\* An accepted claim is recorded again, resolved to another download, or kept.
LEMMA RecoverAcceptedTurns ==
    ASSUME IInv, Moves, NEW s \in Submitters, RecoverAccepted(s)
    PROVE  Turns
  <1> DEFINE t == att[s].title
             c == claim[t]
  <1>1. pc[s] = "claims" /\ c # None /\ c.kind = "accepted"
    BY DEF RecoverAccepted
  <1>2. t \in Titles /\ claim \in [Titles -> Claims \cup {None}]
    BY <1>1 DEF IInv, TrackInv, CoreInv, AttemptsAreAbout, TypeOK
  <1>3. /\ c.id \in Ids /\ c.item \in Jobs /\ c.for \in Purposes \cup {NoPurpose}
        /\ c.known
    BY <1>1, <1>2, ClaimFacts DEF IInv, TrackInv, AcceptedClaims
  <1>4. AskedFor(c.id, t, c.for)
    BY <1>1, <1>2, <1>3 DEF IInv, GrabInv, RecordsAskedFor
  <1>5. CASE Finish(s) /\ att' = Forget(att, s) /\ UNCHANGED <<claim, row>>
    BY <1>5, QuietTurns, ReturnTurns
  <1>6. ASSUME \E o : \/ claim' = [claim EXCEPT ![t] = None]
                      \/ claim' = [claim EXCEPT ![t] = Ambiguous(o, t, NoPurpose, FALSE)]
        PROVE  Writer(c.id, t, c.for) /\ ClaimTurns
    <2>1. /\ claim'[t] = None \/ ~claim'[t].known
          /\ \A u \in Titles \ {t} : claim'[u] = claim[u]
      BY <1>2, <1>6 DEF Ambiguous
    <2> QED BY <1>1, <1>3, <2>1 DEF Writer, ClaimTurns, ClaimTurn
  <1>7. CASE /\ CanBind(c.id, c.item) /\ row' = RecordAccepted(c.id, c.item, t, c.for)
             /\ claim' = [claim EXCEPT ![t] = None]
             /\ \/ Finish(s) /\ att' = Forget(att, s)
                \/ Goto(s, "state") /\ UNCHANGED att
    <2>1. Writer(c.id, t, c.for) /\ ClaimTurns
      BY <1>6, <1>7
    <2>2. RowTurns
      BY <1>2, <1>3, <1>4, <1>7, <2>1, AcceptTurns
    <2>3. CASE Finish(s) /\ att' = Forget(att, s)
      BY <2>1, <2>2, <2>3, ReturnTurns
    <2>4. CASE Goto(s, "state") /\ UNCHANGED att
      <3>1. /\ pc' = [pc EXCEPT ![s] = "state"] /\ pc'[s] = "state"
            /\ \A o \in Submitters : SameLocals(o)
        BY <2>4 DEF Goto, SameLocals, IInv, TrackInv, CoreInv, TypeOK
      <3>2. AttTurn(s)
        BY <3>1, LooseTurn DEF SameLocals
      <3> QED BY <2>1, <2>2, <3>1, <3>2, OneTurns
    <2> QED BY <1>7, <2>3, <2>4
  <1>8. CASE /\ row' = Withdraw(row, c.id)
             /\ \E o \in Bound(c.item) :
                    \/ claim' = [claim EXCEPT ![t] = None]
                    \/ claim' = [claim EXCEPT ![t] = Ambiguous(o, t, NoPurpose, FALSE)]
             /\ Finish(s) /\ att' = Forget(att, s)
    <2>1. Writer(c.id, t, c.for) /\ ClaimTurns
      BY <1>6, <1>8
    <2>2. RowTurns
      BY <1>2, <1>3, <1>8, <2>1, WithdrawTurns
    <2> QED BY <1>8, <2>1, <2>2, ReturnTurns
  <1> QED BY <1>5, <1>7, <1>8 DEF RecoverAccepted

\* A live grab is not settled.
LEMMA LiveIsOpen ==
    ASSUME IInv, NEW i \in Ids, Live(i)
    PROVE  ~row[i].done
  <1>1. row[i].bind = "unbound" => row[i].item = None
    BY DEF IInv, TrackInv, ItemMeansBound
  <1> QED BY <1>1 DEF Live, IInv, GrabInv, SettledIsOver

\* The title state is cached: the attempt is blind, or it knows every grab.
LEMMA UseCachedStateTurns ==
    ASSUME IInv, Moves, NEW s \in Submitters, UseCachedState(s)
    PROVE  Turns
  <1> DEFINE t == att[s].title
             a == [att[s] EXCEPT !.subs = cache[t].subs, !.accepted = cache[t].accepted,
                                 !.blind = Misses(t, cache[t].subs)]
  <1>1. /\ pc' = [pc EXCEPT ![s] = "snapshot"] /\ UNCHANGED <<claim, row, job>>
    BY DEF UseCachedState, Goto
  <1>2. att' = [att EXCEPT ![s] = a] /\ att[s] \in Attempts
    BY DEF UseCachedState, IInv, TrackInv, CoreInv, TypeOK
  <1>3. /\ a.title = t /\ a.listing = att[s].listing /\ a.subs = cache[t].subs
        /\ a.blind = Misses(t, cache[t].subs)
    BY <1>2 DEF Attempts
  <1>4. ASSUME NEW i \in Ids, row[i].title = t, Live(i), i \notin cache[t].subs
        PROVE  Misses(t, cache[t].subs)
    BY <1>4, LiveIsOpen DEF Live, Misses
  <1> HIDE DEF a
  <1>5. ASSUME pc'[s] = "snapshot", att'[s] = a
        PROVE  AttTurn(s)
    <2>1. KnowTurn(s)
      BY <1>1, <1>3, <1>4, <1>5 DEF KnowTurn
    <2> QED BY <1>3, <1>5, <2>1 DEF AttTurn, ListingTurn, DecideTurn, PrepareTurn, AskTurn,
            ClaimingTurn, Asking
  <1> QED BY <1>1, <1>2, <1>5, QuietTurns, GoTurns

\* The title state is loaded: the attempt knows every grab.
LEMMA LoadStateTurns ==
    ASSUME IInv, Moves, NEW s \in Submitters, LoadState(s)
    PROVE  Turns
  <1> DEFINE t == att[s].title
             a == [att[s] EXCEPT !.subs = ListForTitle(t)]
  <1>1. /\ pc' = [pc EXCEPT ![s] = "snapshot"] /\ UNCHANGED <<claim, row, job>>
        /\ UnboundFor(t) = {}
    BY DEF LoadState, Goto
  <1>2. att' = [att EXCEPT ![s] = a] /\ att[s] \in Attempts
    BY DEF LoadState, IInv, TrackInv, CoreInv, TypeOK
  <1>3. a.title = t /\ a.listing = att[s].listing /\ a.subs = ListForTitle(t)
    BY <1>2 DEF Attempts
  <1>4. ASSUME NEW i \in Ids, row[i].title = t, Live(i)
        PROVE  i \in ListForTitle(t)
    <2>1. /\ row[i].bind = "unbound" => row[i].item = None
          /\ row[i].bind = "bound" => row[i].item # None
      BY DEF IInv, TrackInv, ItemMeansBound, GrabInv, RowsAgree
    <2> QED BY <1>1, <1>4, <2>1 DEF Live, UnboundFor, ListForTitle
  <1> HIDE DEF a
  <1>5. ASSUME pc'[s] = "snapshot", att'[s] = a
        PROVE  AttTurn(s)
    <2>1. KnowTurn(s)
      BY <1>1, <1>3, <1>4, <1>5 DEF KnowTurn
    <2> QED BY <1>3, <1>5, <2>1 DEF AttTurn, ListingTurn, DecideTurn, PrepareTurn, AskTurn,
            ClaimingTurn, Asking
  <1> QED BY <1>1, <1>2, <1>5, QuietTurns, GoTurns

\* An attempt gets a listing, to be stored or to decide on.
LEMMA LookTurns ==
    ASSUME IInv, Moves, NEW s \in Submitters, pc[s] \in {"snapshot", "fetching"},
           NEW p \in {"fetching", "decide"}, pc' = [pc EXCEPT ![s] = p],
           NEW a, att' = [att EXCEPT ![s] = a], a.title = att[s].title,
           a.subs = att[s].subs, a.blind = att[s].blind,
           \/ a.listing = att[s].listing \/ (shared # None /\ a.listing = shared)
           \/ Listed(a.listing),
           UNCHANGED <<claim, row, job>>
    PROVE  Turns
  <1>1. ASSUME pc'[s] = p, att'[s] = a
        PROVE  AttTurn(s)
    BY <1>1 DEF AttTurn, ListingTurn, KnowTurn, DecideTurn, PrepareTurn, AskTurn,
       ClaimingTurn, Looking, Asking
  <1> QED BY <1>1, QuietTurns, GoTurns

\* The cached listing serves, or none is needed; the client is asked; what it
\* listed is stored, or read again.
LEMMA SnapshotTurns ==
    ASSUME IInv, Moves, NEW s \in Submitters,
           UseSnapshot(s) \/ Fetch(s) \/ StoreSnapshot(s)
    PROVE  Turns
  <1>1. att[s] \in Attempts /\ att = [att EXCEPT ![s] = att[s]]
    BY DEF IInv, TrackInv, CoreInv, TypeOK
  <1>2. ASSUME NEW l
        PROVE  LET a == [att[s] EXCEPT !.listing = l]
                   b == [att[s] EXCEPT !.listing = l, !.fresh = TRUE]
               IN  /\ a.title = att[s].title /\ a.subs = att[s].subs
                   /\ a.blind = att[s].blind /\ a.listing = l
                   /\ b.title = att[s].title /\ b.subs = att[s].subs
                   /\ b.blind = att[s].blind /\ b.listing = l
    BY <1>1 DEF Attempts
  <1>3. CASE /\ pc[s] \in {"snapshot", "fetching"} /\ UNCHANGED <<claim, row, job>>
             /\ pc' = [pc EXCEPT ![s] = "decide"] /\ UNCHANGED att
    BY <1>1, <1>3, LookTurns
  <1>4. CASE /\ pc[s] = "snapshot" /\ UNCHANGED <<claim, row, job>>
             /\ pc' = [pc EXCEPT ![s] = "decide"] /\ shared # None
             /\ att' = [att EXCEPT ![s].listing = shared]
    <2> DEFINE a == [att[s] EXCEPT !.listing = shared]
    <2>1. /\ a.title = att[s].title /\ a.subs = att[s].subs
          /\ a.blind = att[s].blind /\ a.listing = shared
      BY <1>2
    <2>2. att' = [att EXCEPT ![s] = a]
      BY <1>4 DEF IInv, TrackInv, CoreInv, TypeOK
    <2> HIDE DEF a
    <2> QED BY <1>4, <2>1, <2>2, LookTurns
  <1>5. CASE /\ pc[s] \in {"snapshot", "fetching"} /\ UNCHANGED <<claim, row, job>>
             /\ pc' = [pc EXCEPT ![s] = "fetching"]
             /\ \E l : /\ Listed(l)
                       /\ att' = [att EXCEPT ![s].listing = l, ![s].fresh = TRUE]
    <2>1. PICK l : /\ Listed(l)
                   /\ att' = [att EXCEPT ![s].listing = l, ![s].fresh = TRUE]
      BY <1>5
    <2> DEFINE a == [att[s] EXCEPT !.listing = l, !.fresh = TRUE]
    <2>2. /\ a.title = att[s].title /\ a.subs = att[s].subs
          /\ a.blind = att[s].blind /\ a.listing = l
      BY <1>2
    <2>3. att' = [att EXCEPT ![s] = a]
      BY <2>1 DEF IInv, TrackInv, CoreInv, TypeOK
    <2> HIDE DEF a
    <2> QED BY <1>5, <2>1, <2>2, <2>3, LookTurns
  <1>6. UNCHANGED pc /\ pc[s] = "fetching" => pc' = [pc EXCEPT ![s] = "fetching"]
    BY DEF IInv, TrackInv, CoreInv, TypeOK
  <1>7. CASE UseSnapshot(s)
    BY <1>3, <1>4, <1>7 DEF UseSnapshot, Goto
  <1>8. CASE Fetch(s)
    BY <1>5, <1>8 DEF Fetch, Goto
  <1>9. CASE StoreSnapshot(s)
    BY <1>3, <1>5, <1>6, <1>9 DEF StoreSnapshot, Goto
  <1> QED BY <1>7, <1>8, <1>9

\* The same request's submission is deleted.
LEMMA ReplaceExistingTurns ==
    ASSUME IInv, Moves, NEW s \in Submitters, ReplaceExisting(s)
    PROVE  Turns
  <1>1. /\ pc[s] = "decide" /\ pc' = [pc EXCEPT ![s] = "conflicts"]
        /\ UNCHANGED <<claim, job>>
    BY DEF ReplaceExisting, Goto
  <1>2. PICK i \in att[s].subs :
          /\ row' = DeleteByItem(row[i].item)
          /\ att' = [att EXCEPT ![s].subs = @ \ {i}, ![s].accepted = @ \ {i}]
    BY DEF ReplaceExisting, Existing
  <1>3. i \in Ids /\ row[i].item \in Jobs
    BY <1>1, <1>2, SubsFacts DEF IInv
  <1>4. RowTurns /\ ~row'[i].sub
    BY <1>2, <1>3, DeleteTurns
  <1> DEFINE a == [att[s] EXCEPT !.subs = @ \ {i}, !.accepted = @ \ {i}]
  <1>5. att' = [att EXCEPT ![s] = a] /\ att[s] \in Attempts
    BY <1>2 DEF IInv, TrackInv, CoreInv, TypeOK
  <1>6. /\ a.title = att[s].title /\ a.subs = att[s].subs \ {i}
        /\ a.blind = att[s].blind /\ a.listing = att[s].listing
    BY <1>5 DEF Attempts
  <1> HIDE DEF a
  <1>7. ASSUME pc'[s] = "conflicts", att'[s] = a
        PROVE  AttTurn(s)
    <2>1. KnowTurn(s)
      BY <1>1, <1>4, <1>6, <1>7 DEF KnowTurn, Looking, Deciding
    <2>2. DecideTurn(s)
      BY <1>1, <1>6, <1>7 DEF DecideTurn, Deciding
    <2> QED BY <1>6, <1>7, <2>1, <2>2 DEF AttTurn, ListingTurn, PrepareTurn, AskTurn,
            ClaimingTurn, Asking
  <1> QED BY <1>1, <1>4, <1>5, <1>7, QuietTurns, GoTurns

\* A live grab of its title is in the way of an attempt that is not blind and
\* has its evidence.
LEMMA NoneLeft ==
    ASSUME IInv, NEW s \in Submitters, pc[s] \in Deciding, ~att[s].blind,
           ~att[s].for.extra, att[s].listing.full \/ att[s].subs = {},
           NEW i \in Ids, row[i].title = att[s].title, Live(i)
    PROVE  i \in Conflicts(s)
  <1>1. i \in att[s].subs
    BY DEF IInv, GrabInv, KnowsItsTitle
  <1>2. row[i].item # None /\ att[s].listing.full
    BY <1>1, SubsFacts, NoneAssumption DEF IInv, Deciding
  <1>3. job[row[i].item].st \in Blocking /\ job[row[i].item].tok # None
    BY <1>2 DEF Live, IInv, TrackInv, ItemMeansBound
  <1>4. Seen(s, i) \in Blocking
    BY <1>1, <1>2, <1>3 DEF IInv, GrabInv, KeepsEvidence
  <1> QED BY <1>1, <1>4 DEF Conflicts

\* Nothing is in the way: no grab of the title is live, or the attempt is blind.
LEMMA NoConflictTurns ==
    ASSUME IInv, Moves, NEW s \in Submitters, NoConflict(s)
    PROVE  Turns
  <1> DEFINE b == att[s].blind \/ (att[s].subs # {} /\ ~att[s].listing.full)
             a == [att[s] EXCEPT !.blind = b, !.listing = NoListing, !.fresh = FALSE]
  <1>1. /\ pc[s] \in Deciding /\ Conflicts(s) = {} /\ pc' = [pc EXCEPT ![s] = "prepare"]
        /\ UNCHANGED <<claim, row, job>>
    BY DEF NoConflict, PastExisting, Deciding, Goto
  <1>2. att' = [att EXCEPT ![s] = a] /\ att[s] \in Attempts
    BY DEF NoConflict, IInv, TrackInv, CoreInv, TypeOK
  <1>3. /\ a.title = att[s].title /\ a.for = att[s].for
        /\ a.blind = b /\ a.listing = NoListing
    BY <1>2 DEF Attempts
  <1>4. b \/ att[s].for.extra \/ \A i \in Ids : row[i].title = att[s].title => ~Live(i)
    BY <1>1, NoneLeft
  <1> HIDE DEF a, b
  <1>5. ASSUME pc'[s] = "prepare", att'[s] = a
        PROVE  AttTurn(s)
    <2>1. PrepareTurn(s)
      BY <1>1, <1>3, <1>4, <1>5 DEF PrepareTurn
    <2> QED BY <1>3, <1>5, <2>1 DEF AttTurn, ListingTurn, KnowTurn, DecideTurn, AskTurn,
            ClaimingTurn, Looking, Deciding, Asking
  <1> QED BY <1>1, <1>2, <1>5, QuietTurns, GoTurns

\* The client drops a conflicting item, or refuses to.
LEMMA RemoveFromClientTurns ==
    ASSUME IInv, Moves, NEW s \in Submitters, RemoveFromClient(s)
    PROVE  Turns
  <1>1. pc[s] \in Deciding /\ UNCHANGED <<claim, row>>
    BY DEF RemoveFromClient, PastExisting, Deciding
  <1>2. CASE Finish(s) /\ att' = Forget(att, s)
    BY <1>1, <1>2, QuietTurns, ReturnTurns
  <1>3. CASE \E i \in Conflicts(s) : /\ att' = [att EXCEPT ![s].item = row[i].item]
                                     /\ Goto(s, "replaced")
    <2>1. PICK i \in Conflicts(s) : att' = [att EXCEPT ![s].item = row[i].item]
      BY <1>3
    <2>2. i \in att[s].subs /\ row[i].item \in Jobs
      BY <1>1, <2>1, SubsFacts DEF Conflicts, IInv, Deciding
    <2>3. att[s].listing.full
      <3>1. CASE pc[s] = "replacing"
        BY <3>1 DEF IInv, GrabInv, KeepsEvidence
      <3>2. CASE Seen(s, i) = "queued"
        BY <2>2, <3>2 DEF Seen, IInv, GrabInv, ListingsAreTruthful, Truthful
      <3> QED BY <3>1, <3>2 DEF RemoveFromClient, Replaceable
    <2> DEFINE a == [att[s] EXCEPT !.item = row[i].item]
    <2>4. att' = [att EXCEPT ![s] = a] /\ att[s] \in Attempts
      BY <2>1 DEF IInv, TrackInv, CoreInv, TypeOK
    <2>5. /\ a.title = att[s].title /\ a.subs = att[s].subs /\ a.blind = att[s].blind
          /\ a.listing = att[s].listing
      BY <2>4 DEF Attempts
    <2> HIDE DEF a
    <2>6. ASSUME pc'[s] = "replaced", att'[s] = a
          PROVE  AttTurn(s)
      <3>1. KnowTurn(s)
        BY <1>1, <2>5, <2>6 DEF KnowTurn, Looking
      <3>2. DecideTurn(s)
        BY <1>1, <2>3, <2>5, <2>6 DEF DecideTurn
      <3> QED BY <2>5, <2>6, <3>1, <3>2 DEF AttTurn, ListingTurn, PrepareTurn, AskTurn,
              ClaimingTurn, Asking
    <2> QED BY <1>1, <1>3, <2>4, <2>6, QuietTurns, GoTurns DEF Goto
  <1> QED BY <1>2, <1>3 DEF RemoveFromClient

\* The row of a replaced item is deleted; after the last one no grab is left.
LEMMA DeleteReplacedTurns ==
    ASSUME IInv, Moves, NEW s \in Submitters, DeleteReplaced(s)
    PROVE  Turns
  <1> DEFINE t == att[s].title
             j == att[s].item
             known == {i \in Ids : /\ DeleteByItem(j)[i].sub /\ DeleteByItem(j)[i].title = t
                                   /\ DeleteByItem(j)[i].item # None}
             rest == att[s].subs \ {i \in att[s].subs : row[i].item = j}
             a == [att[s] EXCEPT !.subs = known, !.accepted = {}, !.item = None,
                                 !.listing = NoListing, !.fresh = FALSE]
             b == [att[s] EXCEPT !.subs = rest, !.item = None]
  <1>1. /\ pc[s] = "replaced" /\ row' = DeleteByItem(j) /\ UNCHANGED <<claim, job>>
    BY DEF DeleteReplaced
  <1>2. att[s] \in Attempts /\ att \in [Submitters -> Attempts]
    BY DEF IInv, TrackInv, CoreInv, TypeOK
  <1>3. /\ RowTurns
        /\ \A i \in Ids : row'[i].title = row[i].title /\ (row[i].item = j => ~row'[i].sub)
    BY <1>1, ReplacedFacts, DeleteTurns DEF IInv
  <1>4. /\ a.title = t /\ a.for = att[s].for /\ a.blind = att[s].blind
        /\ a.listing = NoListing
        /\ b.title = t /\ b.subs = rest /\ b.blind = att[s].blind
        /\ b.listing = att[s].listing
    BY <1>2 DEF Attempts
  <1>5. att[s].listing.full
    BY <1>1 DEF IInv, GrabInv, KeepsEvidence
  <1>6. \/ /\ att' = [att EXCEPT ![s] = a] /\ pc' = [pc EXCEPT ![s] = "prepare"]
           /\ \A i \in Conflicts(s) : row[i].item = j
        \/ att' = [att EXCEPT ![s] = b] /\ pc' = [pc EXCEPT ![s] = "replacing"]
    BY <1>2 DEF DeleteReplaced, Goto
  <1>7. \A i \in att[s].subs : i \in rest \/ ~row'[i].sub
    BY <1>2, <1>3 DEF Attempts
  <1>8. rest \subseteq att[s].subs
    OBVIOUS
  <1> HIDE DEF a, b, known, rest
  <1>9. CASE /\ att' = [att EXCEPT ![s] = a] /\ pc' = [pc EXCEPT ![s] = "prepare"]
             /\ \A i \in Conflicts(s) : row[i].item = j
    <2>1. \/ att[s].blind \/ att[s].for.extra
          \/ \A i \in Ids : row'[i].title = t => ~Live(i) \/ ~row'[i].sub
      BY <1>1, <1>3, <1>5, <1>9, NoneLeft DEF Deciding
    <2>2. ASSUME pc'[s] = "prepare", att'[s] = a
          PROVE  AttTurn(s)
      <3>1. PrepareTurn(s)
        BY <1>1, <1>4, <2>1, <2>2 DEF PrepareTurn, Deciding
      <3> QED BY <1>4, <2>2, <3>1 DEF AttTurn, ListingTurn, KnowTurn, DecideTurn, AskTurn,
              ClaimingTurn, Looking, Deciding, Asking
    <2> QED BY <1>1, <1>3, <1>9, <2>2, QuietTurns, GoTurns
  <1>10. CASE att' = [att EXCEPT ![s] = b] /\ pc' = [pc EXCEPT ![s] = "replacing"]
    <2>1. ASSUME pc'[s] = "replacing", att'[s] = b
          PROVE  AttTurn(s)
      <3>1. KnowTurn(s)
        BY <1>1, <1>4, <1>7, <2>1 DEF KnowTurn, Looking, Deciding
      <3>2. DecideTurn(s)
        BY <1>1, <1>4, <1>5, <1>8, <2>1 DEF DecideTurn, Deciding
      <3> QED BY <1>4, <2>1, <3>1, <3>2 DEF AttTurn, ListingTurn, PrepareTurn, AskTurn,
              ClaimingTurn, Asking
    <2> QED BY <1>1, <1>3, <1>10, <2>1, QuietTurns, GoTurns
  <1> QED BY <1>6, <1>9, <1>10

\* The store fails in the middle of a replacement.
LEMMA FailReplaceTurns ==
    ASSUME IInv, Moves, NEW s \in Submitters, FailReplace(s)
    PROVE  Turns
  <1>1. Finish(s) /\ att' = Forget(att, s) /\ UNCHANGED claim
    BY DEF FailReplace
  <1>2. CASE UNCHANGED row
    BY <1>1, <1>2, QuietTurns, ReturnTurns
  <1>3. CASE pc[s] = "replaced" /\ row' = DeleteByItem(att[s].item)
    <2>1. RowTurns
      BY <1>3, ReplacedFacts, DeleteTurns DEF IInv
    <2> QED BY <1>1, <2>1, QuietTurns, ReturnTurns
  <1> QED BY <1>2, <1>3 DEF FailReplace

-----------------------------------------------------------------------------
(* Every action is such a step: the intent, the request and its answer.     *)

\* The intent is stored, and the attempt goes on or fails.
LEMMA RecordIntentTurns ==
    ASSUME IInv, Moves, NEW s \in Submitters, RecordIntent(s)
    PROVE  Turns
  <1> DEFINE i == att[s].id
             t == att[s].title
  <1>1. /\ pc[s] = "prepare" /\ row' = RecordPending(row, i, t, att[s].for)
        /\ blind' = IF att[s].blind THEN blind \cup {i} ELSE blind
        /\ UNCHANGED claim
    BY DEF RecordIntent
  <1>2. Own(s) /\ i \in Ids /\ row \in [Ids -> Rows]
    BY <1>1, OwnFacts DEF Own, IInv, TrackInv, CoreInv, TypeOK
  <1>3. row[i].bind = "none"
    BY <1>1, <1>2 DEF IInv, TrackInv, OwnIdProgress, Early
  <1>4. /\ row'[i].bind = "unbound" /\ row'[i].sub /\ row'[i].title = t
        /\ row'[i].item = None /\ row'[i].for = att[s].for /\ ~row'[i].done
        /\ \A o \in Ids \ {i} : row'[o] = row[o]
    BY <1>1, <1>2, <1>3 DEF RecordPending, NoRow
  <1>5. ASSUME pc'[s] \in {"submitting", "idle"}
        PROVE  Stored(i) /\ Stores(s, i) /\ RowTurns
    <2>1. Stores(s, i)
      BY <1>1, <1>4, <1>5 DEF Stores
    <2>2. Stored(i)
      BY <1>3, <1>4, <2>1 DEF Stored
    <2> QED BY <1>4, <2>1, <2>2 DEF RowTurns, RowTurn, SameColumns, SameDeal
  <1>6. CASE Goto(s, "submitting") /\ UNCHANGED att
    <2>1. pc' = [pc EXCEPT ![s] = "submitting"] /\ pc'[s] = "submitting"
      BY <1>6 DEF Goto, IInv, TrackInv, CoreInv, TypeOK
    <2>2. Stored(i) /\ Stores(s, i) /\ RowTurns
      BY <1>5, <2>1
    <2>3. AttTurn(s)
      BY <1>6, <2>1, <2>2 DEF AttTurn, ListingTurn, KnowTurn, DecideTurn, PrepareTurn,
         AskTurn, ClaimingTurn, Looking, Deciding
    <2>4. \A o \in Submitters : SameLocals(o)
      BY <1>6 DEF SameLocals
    <2> QED BY <1>1, <2>1, <2>2, <2>3, <2>4, QuietTurns, OneTurns
  <1>7. CASE Finish(s) /\ att' = Forget(att, s)
    <2>1. pc'[s] = "idle"
      BY <1>7 DEF Finish, IInv, TrackInv, CoreInv, TypeOK
    <2> QED BY <1>1, <1>5, <1>7, <2>1, QuietTurns, ReturnTurns
  <1> QED BY <1>6, <1>7 DEF RecordIntent

\* An attempt that has sent its request gets its answer, with the locals a.
LEMMA AnswerTurns ==
    ASSUME IInv, Moves, NEW s \in Submitters, pc[s] = "submitting",
           pc' = [pc EXCEPT ![s] = "answered"],
           NEW a, att' = [att EXCEPT ![s] = a], a.id = att[s].id,
           a.title = att[s].title, a.for = att[s].for, a.listing = att[s].listing,
           UNCHANGED <<claim, row>>
    PROVE  Turns
  <1>1. ASSUME pc'[s] = "answered", att'[s] = a
        PROVE  AttTurn(s)
    BY <1>1 DEF AttTurn, ListingTurn, KnowTurn, DecideTurn, PrepareTurn, AskTurn,
       ClaimingTurn, Looking, Deciding, Asking
  <1> QED BY <1>1, QuietTurns, GoTurns

\* The client takes the request, already holds the release, or declines.
LEMMA ClientTurns ==
    ASSUME IInv, Moves, NEW s \in Submitters,
           ClientTakes(s) \/ ClientHolds(s) \/ ClientDeclines(s)
    PROVE  Turns
  <1>1. /\ pc[s] = "submitting" /\ pc' = [pc EXCEPT ![s] = "answered"]
        /\ UNCHANGED <<claim, row>>
    BY DEF ClientTakes, ClientHolds, ClientDeclines, Goto
  <1>2. att[s] \in Attempts /\ att \in [Submitters -> Attempts]
    BY DEF IInv, TrackInv, CoreInv, TypeOK
  <1>3. PICK ans, j : \/ att' = [att EXCEPT ![s].answer = ans, ![s].item = j]
                      \/ att' = [att EXCEPT ![s].answer = ans]
    BY DEF ClientTakes, ClientHolds, ClientDeclines
  <1>4. CASE att' = [att EXCEPT ![s].answer = ans, ![s].item = j]
    <2> DEFINE a == [att[s] EXCEPT !.answer = ans, !.item = j]
    <2>1. att' = [att EXCEPT ![s] = a]
      BY <1>2, <1>4
    <2>2. /\ a.id = att[s].id /\ a.title = att[s].title /\ a.for = att[s].for
          /\ a.listing = att[s].listing
      BY <1>2 DEF Attempts
    <2> HIDE DEF a
    <2> QED BY <1>1, <2>1, <2>2, AnswerTurns
  <1>5. CASE att' = [att EXCEPT ![s].answer = ans]
    <2> DEFINE a == [att[s] EXCEPT !.answer = ans]
    <2>1. att' = [att EXCEPT ![s] = a]
      BY <1>2, <1>5
    <2>2. /\ a.id = att[s].id /\ a.title = att[s].title /\ a.for = att[s].for
          /\ a.listing = att[s].listing
      BY <1>2 DEF Attempts
    <2> HIDE DEF a
    <2> QED BY <1>1, <2>1, <2>2, AnswerTurns
  <1> QED BY <1>3, <1>4, <1>5

\* What an attempt holds that has asked: it may settle its own download.
LEMMA AskingFacts ==
    ASSUME IInv, NEW s \in Submitters, pc[s] \in Asking
    PROVE  /\ att[s].id \in Ids /\ att[s].title \in Titles
           /\ att[s].for \in Purposes \cup {NoPurpose} /\ Own(s)
           /\ AskedFor(att[s].id, att[s].title, att[s].for)
           /\ pc'[s] \in {"idle", "adopting"} =>
                 Writer(att[s].id, att[s].title, att[s].for)
  <1>1. Own(s)
    BY DEF Own, Asking
  <1>2. AskedFor(att[s].id, att[s].title, att[s].for)
    BY DEF Asking, IInv, GrabInv, RecordsAskedFor
  <1> QED BY <1>1, <1>2, OwnFacts DEF IInv, Writer

\* A claim on a title is kept in memory.
LEMMA KeepClaimTurns ==
    ASSUME IInv, NEW t \in Titles, NEW c, claim' = [claim EXCEPT ![t] = c],
           \/ ~c.known
           \/ UNCHANGED <<row, job>> /\ c.id \in Ids /\ AskedFor(c.id, t, c.for)
    PROVE  ClaimTurns
  <1>1. claim'[t] = c /\ \A u \in Titles \ {t} : claim'[u] = claim[u]
    BY DEF IInv, TrackInv, CoreInv, TypeOK
  <1> QED BY <1>1 DEF ClaimTurns, ClaimTurn

\* The answer is ambiguous: the intent stays, or a claim does.
LEMMA AmbiguityTurns ==
    ASSUME IInv, Moves, NEW s \in Submitters, Ambiguity(s)
    PROVE  Turns
  <1> DEFINE i == att[s].id
             t == att[s].title
             C(known) == Ambiguous(i, t, att[s].for, known)
  <1>1. /\ pc[s] = "answered" /\ Invalidate(Forget(att, s)) /\ Finish(s)
        /\ UNCHANGED job
        /\ \/ row' = RecordPending(row, i, t, att[s].for) /\ UNCHANGED claim
           \/ /\ \E known \in BOOLEAN : claim' = [claim EXCEPT ![t] = C(known)]
              /\ UNCHANGED row
    BY DEF Ambiguity
  <1>2. i \in Ids /\ t \in Titles /\ AskedFor(i, t, att[s].for)
    BY <1>1, AskingFacts DEF Asking
  <1>3. CASE row' = RecordPending(row, i, t, att[s].for) /\ UNCHANGED claim
    <2>1. UNCHANGED row
      BY <1>2, <1>3, PendingAgain
    <2> QED BY <1>1, <1>3, <2>1, QuietTurns, DropTurns
  <1>4. ASSUME NEW known \in BOOLEAN, claim' = [claim EXCEPT ![t] = C(known)],
               UNCHANGED row
        PROVE  Turns
    <2>1. C(known).id = i /\ C(known).for = att[s].for
      BY DEF Ambiguous
    <2> HIDE DEF C
    <2>2. ClaimTurns
      BY <1>1, <1>2, <1>4, <2>1, KeepClaimTurns
    <2> QED BY <1>1, <1>4, <2>2, QuietTurns, DropTurns
  <1> QED BY <1>1, <1>3, <1>4

\* The request is refused: the intent is withdrawn, or cannot be.
LEMMA RefusalTurns ==
    ASSUME IInv, Moves, NEW s \in Submitters, Refusal(s)
    PROVE  Turns
  <1>1. /\ pc[s] = "answered" /\ Invalidate(Forget(att, s)) /\ Finish(s)
        /\ row' = row \/ row' = Withdraw(row, att[s].id)
        /\ UNCHANGED claim
    BY DEF Refusal
  <1>2. pc'[s] = "idle"
    BY <1>1 DEF Finish, IInv, TrackInv, CoreInv, TypeOK
  <1>3. RowTurns
    BY <1>1, <1>2, AskingFacts, WithdrawTurns, QuietTurns DEF Asking
  <1> QED BY <1>1, <1>3, QuietTurns, DropTurns

\* The request is accepted.
LEMMA AcceptanceTurns ==
    ASSUME IInv, Moves, NEW s \in Submitters, Acceptance(s)
    PROVE  Turns
  <1>1. /\ pc[s] = "answered" /\ Invalidate(att)
        /\ pc' = [pc EXCEPT ![s] = "recording"] /\ UNCHANGED <<claim, row>>
    BY DEF Acceptance, Goto
  <1>2. \A o \in Submitters : SameLocals(o)
    BY <1>1, InvalidateLocals DEF SameLocals, IInv, TrackInv, CoreInv, TypeOK
  <1>3. pc'[s] = "recording"
    BY <1>1 DEF IInv, TrackInv, CoreInv, TypeOK
  <1>4. AttTurn(s)
    BY <1>1, <1>2, <1>3 DEF SameLocals, AttTurn, ListingTurn, KnowTurn, DecideTurn,
       PrepareTurn, AskTurn, ClaimingTurn, Looking, Deciding, Asking
  <1> QED BY <1>1, <1>2, <1>4, QuietTurns, OneTurns

\* The acceptance is recorded, or cannot be.
LEMMA RecordTurns ==
    ASSUME IInv, Moves, NEW s \in Submitters, Record(s) \/ FailRecord(s)
    PROVE  Turns
  <1> DEFINE i == att[s].id
             t == att[s].title
             c == [kind |-> "accepted", id |-> i, item |-> att[s].item,
                   for |-> att[s].for, known |-> TRUE]
  <1>1. pc[s] = "recording" /\ Finish(s) /\ att' = Forget(att, s) /\ UNCHANGED job
    BY DEF Record, FailRecord
  <1>2. pc'[s] = "idle"
    BY <1>1 DEF Finish, IInv, TrackInv, CoreInv, TypeOK
  <1>3. /\ i \in Ids /\ t \in Titles /\ AskedFor(i, t, att[s].for)
        /\ Writer(i, t, att[s].for) /\ att[s].item \in Jobs
    BY <1>1, <1>2, AskingFacts, RecordingFacts DEF Asking, IInv
  <1>4. CASE Record(s)
    <2>1. RowTurns
      BY <1>3, <1>4, AcceptTurns DEF Record
    <2> QED BY <1>1, <1>4, <2>1, QuietTurns, ReturnTurns DEF Record
  <1>5. CASE FailRecord(s)
    <2>1. claim' = [claim EXCEPT ![t] = c] /\ UNCHANGED row
      BY <1>5 DEF FailRecord
    <2>2. c.id = i /\ c.for = att[s].for
      OBVIOUS
    <2> HIDE DEF c
    <2>3. ClaimTurns
      BY <1>1, <1>3, <2>1, <2>2, KeepClaimTurns
    <2> QED BY <1>1, <2>1, <2>3, QuietTurns, ReturnTurns
  <1> QED BY <1>4, <1>5

\* The job is another download's.
LEMMA RecordAdoptsTurns ==
    ASSUME IInv, Moves, NEW s \in Submitters, RecordAdopts(s)
    PROVE  Turns
  <1>1. /\ pc[s] = "recording" /\ row' = Withdraw(row, att[s].id)
        /\ pc' = [pc EXCEPT ![s] = "adopting"] /\ UNCHANGED claim
    BY DEF RecordAdopts, Goto
  <1>2. PICK o : att' = [att EXCEPT ![s].id = o]
    BY DEF RecordAdopts
  <1>3. pc'[s] = "adopting"
    BY <1>1 DEF IInv, TrackInv, CoreInv, TypeOK
  <1>4. RowTurns
    BY <1>1, <1>3, AskingFacts, WithdrawTurns DEF Asking
  <1> DEFINE a == [att[s] EXCEPT !.id = o]
  <1>5. att' = [att EXCEPT ![s] = a] /\ att[s] \in Attempts
    BY <1>2 DEF IInv, TrackInv, CoreInv, TypeOK
  <1>6. a.listing = att[s].listing
    BY <1>5 DEF Attempts
  <1> HIDE DEF a
  <1> QED BY <1>1, <1>4, <1>5, <1>6, LooseTurn, QuietTurns, GoTurns

\* The download the job resolved to is adopted, rejected, or to be claimed.
LEMMA AdoptTurns ==
    ASSUME IInv, Moves, NEW s \in Submitters, Adopt(s)
    PROVE  Turns
  <1> DEFINE t == att[s].title
             o == att[s].id
             c == Ambiguous(o, t, NoPurpose, FALSE)
  <1>1. pc[s] = "adopting" /\ UNCHANGED row
    BY DEF Adopt
  <1>2. t \in Titles
    BY <1>1 DEF IInv, TrackInv, CoreInv, AttemptsAreAbout
  <1>3. CASE Finish(s) /\ att' = Forget(att, s) /\ claim' = [claim EXCEPT ![t] = c]
    <2>1. ~c.known
      BY DEF Ambiguous
    <2> HIDE DEF c
    <2>2. ClaimTurns
      BY <1>2, <1>3, <2>1, KeepClaimTurns
    <2> QED BY <1>1, <1>3, <2>2, QuietTurns, ReturnTurns
  <1>4. CASE Finish(s) /\ att' = Forget(att, s) /\ UNCHANGED claim
    BY <1>1, <1>4, QuietTurns, ReturnTurns
  <1>5. CASE row[o].title = None /\ Goto(s, "claiming") /\ UNCHANGED <<att, claim>>
    <2>1. pc' = [pc EXCEPT ![s] = "claiming"] /\ pc'[s] = "claiming"
      BY <1>5 DEF Goto, IInv, TrackInv, CoreInv, TypeOK
    <2>2. AttTurn(s)
      BY <1>1, <1>5, <2>1 DEF AttTurn, ListingTurn, KnowTurn, DecideTurn, PrepareTurn,
         AskTurn, ClaimingTurn, Looking, Deciding, Asking
    <2>3. \A p \in Submitters : SameLocals(p)
      BY <1>5 DEF SameLocals
    <2> QED BY <1>1, <1>5, <2>1, <2>2, <2>3, QuietTurns, OneTurns
  <1> QED BY <1>3, <1>4, <1>5 DEF Adopt

\* The stub is recorded as the title's, or kept as a claim, or lost to a third:
\* it is bound to somebody else's job.
LEMMA ClaimStubTurns ==
    ASSUME IInv, Moves, NEW s \in Submitters, ClaimStub(s)
    PROVE  Turns
  <1> DEFINE t == att[s].title
             o == att[s].id
             j == att[s].item
             c == [kind |-> "accepted", id |-> o, item |-> j,
                   for |-> att[s].for, known |-> TRUE]
  <1>1. /\ pc[s] = "claiming" /\ Finish(s) /\ att' = Forget(att, s) /\ UNCHANGED job
    BY DEF ClaimStub
  <1>2. pc'[s] = "idle"
    BY <1>1 DEF Finish, IInv, TrackInv, CoreInv, TypeOK
  <1>3. o \in Ids /\ j \in Jobs /\ row[o].bind \notin {"none", "unbound"}
    BY <1>1, AdoptedInUse DEF Exists, IInv
  <1>4. t \in Titles /\ AskedFor(o, t, att[s].for) /\ Writer(o, t, att[s].for)
    BY <1>1, <1>2 DEF AskedFor, Writer, IInv, GrabInv, RecordsAskedFor, TrackInv, CoreInv,
       AttemptsAreAbout
  <1>5. CASE /\ CanBind(o, j) /\ row' = RecordAccepted(o, j, t, att[s].for)
             /\ UNCHANGED claim
    <2>1. RowTurns
      BY <1>3, <1>4, <1>5, AcceptTurns
    <2> QED BY <1>1, <1>5, <2>1, QuietTurns, ReturnTurns
  <1>6. CASE claim' = [claim EXCEPT ![t] = c] /\ UNCHANGED row
    <2>1. c.id = o /\ c.for = att[s].for
      OBVIOUS
    <2> HIDE DEF c
    <2>2. ClaimTurns
      BY <1>1, <1>3, <1>4, <1>6, <2>1, KeepClaimTurns
    <2> QED BY <1>1, <1>6, <2>2, QuietTurns, ReturnTurns
  <1>7. CASE /\ row' = Withdraw(row, o)
             /\ \E r \in Bound(j) :
                    claim' = [claim EXCEPT ![t] = IF row[r].sub THEN @
                                     ELSE Ambiguous(r, t, NoPurpose, FALSE)]
    <2>1. UNCHANGED row
      BY <1>3, <1>7 DEF Withdraw
    <2>2. PICK r : claim' = [claim EXCEPT ![t] = IF row[r].sub THEN @
                                     ELSE Ambiguous(r, t, NoPurpose, FALSE)]
      BY <1>7
    <2>3. ClaimTurns
      <3>1. CASE row[r].sub
        BY <2>2, <3>1 DEF ClaimTurns, ClaimTurn, IInv, TrackInv, CoreInv, TypeOK
      <3>2. CASE ~row[r].sub
        <4> DEFINE d == Ambiguous(r, t, NoPurpose, FALSE)
        <4>1. claim' = [claim EXCEPT ![t] = d] /\ ~d.known
          BY <2>2, <3>2 DEF Ambiguous
        <4> HIDE DEF d
        <4> QED BY <1>4, <4>1, KeepClaimTurns
      <3> QED BY <3>1, <3>2
    <2> QED BY <1>1, <2>1, <2>3, QuietTurns, ReturnTurns
  <1> QED BY <1>5, <1>6, <1>7 DEF ClaimStub

-----------------------------------------------------------------------------
(* Every action is such a step: the others.                                 *)

\* The locals of the attempts stay when memory does, or is only invalidated.
LEMMA LocalsStay ==
    ASSUME IInv, UNCHANGED <<att>> \/ Invalidate(att)
    PROVE  \A s \in Submitters : SameLocals(s)
  BY InvalidateLocals DEF SameLocals, IInv, TrackInv, CoreInv, TypeOK

\* A step that touches one row.
LEMMA OneRowTurns ==
    ASSUME NEW i \in Ids, RowTurn(i), \A o \in Ids \ {i} : row'[o] = row[o]
    PROVE  RowTurns
  BY DEF RowTurns, RowTurn, SameColumns, SameDeal

\* A job appears or moves on; the walk primes a title.
LEMMA ElsewhereTurns ==
    ASSUME IInv, Moves, UNCHANGED <<pc, att, claim, row>>
    PROVE  Turns
  BY LocalsStay, QuietTurns, BesideTurns

\* The observer binds an intent to a job with its token, or with none.
LEMMA BindTurns ==
    ASSUME IInv, Moves, NEW j \in Jobs, NEW i \in Ids, Exists(j),
           row[i].bind = "unbound", job[j].tok \in {i, None},
           row' = [row EXCEPT ![i].bind = "bound", ![i].item = j],
           UNCHANGED <<pc, att, claim>>
    PROVE  Turns
  <1>1. row \in [Ids -> Rows] /\ row[i] \in Rows
    BY DEF IInv, TrackInv, CoreInv, TypeOK
  <1>2. /\ row'[i].bind = "bound" /\ row'[i].item = j /\ row'[i].title = row[i].title
        /\ row'[i].for = row[i].for /\ row'[i].done = row[i].done
        /\ row'[i].sub = row[i].sub
        /\ \A o \in Ids \ {i} : row'[o] = row[o]
    BY <1>1 DEF Rows
  <1>3. RowTurn(i)
    BY <1>2 DEF RowTurn, Attached, SameDeal
  <1>4. RowTurns
    BY <1>2, <1>3, OneRowTurns
  <1> QED BY <1>4, LocalsStay, BesideTurns

\* The observer binds an intent, or gives somebody else's job a download.
LEMMA ObserveTurns ==
    ASSUME IInv, Moves, NEW j \in Jobs,
           ObserveIntent(j) \/ ObserveByName(j) \/ \E i \in Ids : ObserveForeign(j, i)
    PROVE  Turns
  <1>1. Exists(j)
    BY DEF ObserveIntent, ObserveByName, ObserveForeign, Exists, OnClient
  <1>2. CASE ObserveIntent(j)
    <2>1. job[j].tok \in Ids
      BY <1>2 DEF ObserveIntent, IInv, TrackInv, CoreInv, TypeOK
    <2> QED BY <1>1, <1>2, <2>1, BindTurns DEF ObserveIntent, memory
  <1>3. CASE ObserveByName(j)
    BY <1>1, <1>3, BindTurns DEF ObserveByName, memory
  <1>4. ASSUME NEW i \in Ids, ObserveForeign(j, i)
        PROVE  Turns
    <2>1. /\ job[j].tok = None /\ i \notin minted /\ UNCHANGED memory
          /\ row' = [row EXCEPT ![i] = [NoRow EXCEPT !.bind = "bound", !.item = j]]
      BY <1>4 DEF ObserveForeign
    <2>2. /\ row'[i].bind = "bound" /\ row'[i].item = j /\ row'[i].title = None
          /\ ~row'[i].done /\ \A o \in Ids \ {i} : row'[o] = row[o]
      BY <2>1 DEF NoRow, IInv, TrackInv, CoreInv, TypeOK
    <2>3. RowTurn(i)
      BY <1>1, <2>1, <2>2 DEF RowTurn, Found
    <2>4. RowTurns
      BY <2>2, <2>3, OneRowTurns
    <2> QED BY <2>1, <2>4, LocalsStay, BesideTurns DEF memory
  <1> QED BY <1>2, <1>3, <1>4

\* The walk primes a title without an intent that is bound between its two reads.
LEMMA PrimeMissingTurns ==
    ASSUME IInv, Moves, NEW t \in Titles, NEW i \in Ids, NEW j \in Jobs,
           PrimeMissing(t, i, j)
    PROVE  Turns
  <1>1. Exists(j) /\ row[i].bind = "unbound"
    BY DEF PrimeMissing, UnboundFor, Exists, OnClient
  <1> QED BY <1>1, BindTurns DEF PrimeMissing

\* The tracker records a stub, or a download settles.
LEMMA MarkTurns ==
    ASSUME IInv, Moves, NEW i \in Ids, RecordStub(i) \/ Settle(i)
    PROVE  Turns
  <1>1. row \in [Ids -> Rows] /\ row[i] \in Rows
    BY DEF IInv, TrackInv, CoreInv, TypeOK
  <1>2. row[i].bind = "bound"
    BY DEF RecordStub, Settle
  <1>3. CASE RecordStub(i)
    <2>1. /\ row[i].title = None /\ row' = [row EXCEPT ![i].sub = TRUE]
          /\ UNCHANGED memory
      BY <1>3 DEF RecordStub
    <2>2. /\ row'[i].bind = row[i].bind /\ row'[i].item = row[i].item
          /\ row'[i].title = row[i].title /\ row'[i].for = row[i].for
          /\ row'[i].done = row[i].done /\ \A o \in Ids \ {i} : row'[o] = row[o]
      BY <1>1, <2>1 DEF Rows
    <2>3. RowTurn(i)
      BY <1>2, <2>1, <2>2 DEF RowTurn, Marked
    <2>4. RowTurns
      BY <2>2, <2>3, OneRowTurns
    <2> QED BY <2>1, <2>4, LocalsStay, BesideTurns DEF memory
  <1>4. CASE Settle(i)
    <2>1. /\ job[row[i].item].st \notin Blocking /\ row' = [row EXCEPT ![i].done = TRUE]
          /\ Invalidate(att) /\ UNCHANGED <<pc, claim>>
      BY <1>4 DEF Settle
    <2>2. /\ row'[i].bind = row[i].bind /\ row'[i].item = row[i].item
          /\ row'[i].title = row[i].title /\ row'[i].for = row[i].for
          /\ row'[i].sub = row[i].sub /\ \A o \in Ids \ {i} : row'[o] = row[o]
      BY <1>1, <2>1 DEF Rows
    <2>3. RowTurn(i)
      BY <1>2, <2>1, <2>2 DEF RowTurn, Marked
    <2>4. RowTurns
      BY <2>2, <2>3, OneRowTurns
    <2> QED BY <2>1, <2>4, LocalsStay, BesideTurns
  <1> QED BY <1>3, <1>4

\* A job is missing, or an unconfirmed intent is released.
LEMMA ReleaseTurns ==
    ASSUME IInv, Moves, NEW i \in Ids, RecordMissing(i) \/ ReleaseUnconfirmed(i)
    PROVE  Turns
  <1>1. /\ row[i].bind # "none" /\ UNCHANGED <<pc, claim>>
        /\ UNCHANGED att \/ Invalidate(att)
        /\ UNCHANGED row \/ row' = [row EXCEPT ![i].bind = "ended"]
    BY DEF RecordMissing, ReleaseUnconfirmed
  <1>2. RowTurns
    BY <1>1, EndTurns, QuietTurns
  <1> QED BY <1>1, <1>2, LocalsStay, BesideTurns

\* The process starts again.
LEMMA RestartTurns ==
    ASSUME IInv, Moves, Restart
    PROVE  Turns
  <1>1. /\ \A s \in Submitters : pc'[s] = "idle" /\ att'[s].listing = NoListing
        /\ \A t \in Titles : claim'[t] = None
        /\ UNCHANGED row
    BY DEF Restart, Idle
  <1>2. AttTurns
    BY <1>1, LooseTurn DEF AttTurns
  <1>3. ClaimTurns
    BY <1>1 DEF ClaimTurns, ClaimTurn
  <1> QED BY <1>1, <1>2, <1>3, QuietTurns DEF Turns

-----------------------------------------------------------------------------
(* Every step is a step of TitleGrabs, or none of its business.             *)

\* A live grab is some title's.
LEMMA LiveHasTitle ==
    ASSUME IInv, NEW i \in Ids, Live(i)
    PROVE  row[i].title \in Titles
  <1>1. row[i].title \in Titles \cup {None}
    BY DEF IInv, TrackInv, CoreInv, TypeOK, Rows
  <1>2. /\ row[i].bind = "unbound" => row[i].title # None
        /\ row[i].bind = "bound" => row[i].item # None
        /\ row[i].item # None /\ row[i].title = None => BoundAstray(i)
    BY DEF IInv, GrabInv, RowsAgree
  <1> QED BY <1>1, <1>2 DEF Live, BoundAstray

\* A download that is some title's never stops being one's.
LEMMA UsedGrows ==
    ASSUME IInv, Turns
    PROVE  Used \subseteq Used'
  <1> SUFFICES ASSUME NEW i \in Ids, row[i].title # None
               PROVE  row'[i].title # None
    BY DEF Used
  <1>1. i \in minted
    BY DEF IInv, TrackInv, NewIdsAreBlank
  <1>2. CASE Stored(i)
    <2>1. row'[i].title \in Titles
      BY <1>2 DEF Stored, Stores, IInv, TrackInv, CoreInv, AttemptsAreAbout
    <2> QED BY <2>1, NoneAssumption
  <1>3. CASE Confirmed(i)
    BY <1>3, NoneAssumption DEF Confirmed
  <1>4. CASE SameColumns(i) \/ Recalled(i) \/ Closed(i) \/ Attached(i) \/ Marked(i)
    BY <1>4 DEF SameColumns, Recalled, Closed, Attached, Marked, SameDeal
  <1> QED BY <1>1, <1>2, <1>3, <1>4 DEF Turns, RowTurns, RowTurn, Found

\* A step that stores no intent only lets scopes go.
LEMMA LeaveStep ==
    ASSUME IInv, IInv', Turns, \A i \in Ids : ~Stored(i)
    PROVE  Grabs!Next
  <1> DEFINE S == {i \in Ids : ~Live(i)'}
  <1>1. Scopes' = [i \in Ids |-> IF i \in S THEN None ELSE Scopes[i]]
    <2>1. ASSUME NEW i \in Ids
          PROVE  Scopes'[i] = IF i \in S THEN None ELSE Scopes[i]
      <3>1. CASE Live(i)'
        BY <3>1, LiveOnlyByIntent DEF Scopes
      <3>2. CASE ~Live(i)'
        BY <3>2 DEF Scopes
      <3> QED BY <3>1, <3>2
    <2> QED BY <2>1 DEF Scopes
  <1>2. Used \subseteq Used' /\ Used' \subseteq Ids
    BY UsedGrows DEF Used
  <1>3. blind \subseteq blind' /\ blind' \subseteq Ids
    BY DEF Turns, Moves, Grows, IInv, TrackInv, CoreInv, TypeOK
  <1>4. S \in SUBSET Ids
    OBVIOUS
  <1> HIDE DEF S
  <1>5. Grabs!Leave(S)
    BY <1>1, <1>2, <1>3 DEF Grabs!Leave
  <1> QED BY <1>4, <1>5 DEF Grabs!Next

\* The intent of a standard grab takes the scope of its title.
LEMMA TakeStep ==
    ASSUME IInv, IInv', Turns, NEW s \in Submitters, RecordIntent(s)
    PROVE  Grabs!Next
  <1>0. Own(s) /\ att[s].id \in Ids /\ att[s].title \in Titles
    BY OwnFacts DEF RecordIntent, Own, IInv
  <1> PICK i \in Ids, t \in Titles : i = att[s].id /\ t = att[s].title
    BY <1>0
  <1>1. /\ pc[s] = "prepare" /\ row' = RecordPending(row, i, t, att[s].for)
        /\ blind' = IF att[s].blind THEN blind \cup {i} ELSE blind
        /\ UNCHANGED job
    BY DEF RecordIntent
  <1>2. row \in [Ids -> Rows]
    BY DEF IInv, TrackInv, CoreInv, TypeOK
  <1>3. row[i].bind = "none" /\ row[i].title = None
    BY <1>1 DEF IInv, TrackInv, OwnIdProgress, Early
  <1>4. /\ row'[i].bind = "unbound" /\ row'[i].sub /\ row'[i].title = t
        /\ row'[i].for = att[s].for
        /\ \A o \in Ids \ {i} : row'[o] = row[o]
    <2> DEFINE new == [NoRow EXCEPT !.bind = "unbound", !.sub = TRUE,
                                    !.title = t, !.for = att[s].for]
    <2>1. row' = [row EXCEPT ![i] = new]
      BY <1>1, <1>3 DEF RecordPending
    <2>2. /\ new.bind = "unbound" /\ new.sub /\ new.title = t
          /\ new.for = att[s].for
      BY DEF NoRow
    <2> HIDE DEF new
    <2>3. row'[i] = new /\ \A o \in Ids \ {i} : row'[o] = row[o]
      BY <1>2, <2>1
    <2> QED BY <2>2, <2>3
  <1>5. /\ ~Live(i) /\ (Live(i)' <=> ~att[s].for.extra)
        /\ \A o \in Ids \ {i} : Live(o)' <=> Live(o)
    <2>1. ~Live(i)
      BY <1>3 DEF Live
    <2>2. Live(i)' <=> ~att[s].for.extra
      BY <1>4 DEF Live
    <2>3. ASSUME NEW o \in Ids \ {i} PROVE Live(o)' <=> Live(o)
      BY <1>1, <1>4 DEF Live
    <2> QED BY <2>1, <2>2, <2>3
  <1>6. Used' = Used \cup {i}
    BY <1>2, <1>4, NoneAssumption DEF Used
  <1>7. CASE ~att[s].for.extra
    <2>1. Scopes' = [Scopes EXCEPT ![i] = t]
      <3>1. ASSUME NEW o \in Ids
            PROVE  Scopes'[o] = IF o = i THEN t ELSE Scopes[o]
        BY <1>4, <1>5, <1>7 DEF Scopes
      <3> QED BY <3>1 DEF Scopes
    <2>2. Grabs!Holders(t) = {} \/ i \in blind'
      <3>1. CASE att[s].blind
        BY <1>1, <3>1
      <3>2. CASE ~att[s].blind
        <4>1. \A o \in Ids : row[o].title = t => ~Live(o)
          BY <1>1, <1>7, <3>2 DEF IInv, GrabInv, DecidedAlone
        <4> QED BY <1>2, <4>1, NoneAssumption DEF Grabs!Holders, Scopes
      <3> QED BY <3>1, <3>2
    <2>3. i \notin Used
      BY <1>3 DEF Used
    <2>4. blind' \in {blind, blind \cup {i}}
      BY <1>1
    <2>5. Grabs!Take(i, t)
      BY <1>6, <2>1, <2>2, <2>3, <2>4 DEF Grabs!Take
    <2> QED BY <1>2, <2>5 DEF Grabs!Next
  <1>8. CASE att[s].for.extra
    <2>1. Scopes' = [o \in Ids |-> IF o \in {} THEN None ELSE Scopes[o]]
      <3>1. ASSUME NEW o \in Ids
            PROVE  Scopes'[o] = Scopes[o]
        BY <1>4, <1>5, <1>8 DEF Scopes
      <3> QED BY <3>1 DEF Scopes
    <2>2. Used \subseteq Used' /\ Used' \subseteq Ids
      BY <1>6 DEF Used
    <2>3. blind \subseteq blind' /\ blind' \subseteq Ids
      BY DEF Turns, Moves, Grows, IInv, TrackInv, CoreInv, TypeOK
    <2>4. Grabs!Leave({})
      BY <2>1, <2>2, <2>3 DEF Grabs!Leave
    <2> QED BY <2>4 DEF Grabs!Next
  <1> QED BY <1>7, <1>8

\* Nothing else an attempt does stores an intent.
LEMMA NoIntent ==
    ASSUME IInv, NEW s \in Submitters, Attempt(s), ~RecordIntent(s), NEW i \in Ids
    PROVE  ~Stored(i)
  <1>1. \/ pc[s] # "prepare" /\ \E p : pc' = [pc EXCEPT ![s] = p] \/ pc' = pc
        \/ UNCHANGED row
    <2>1. CASE \/ \E t \in Titles, k \in Ids, n \in Intents : Begin(s, t, k, n)
               \/ FailLoad(s) \/ RefuseUnresolved(s) \/ FailFetch(s) \/ AcceptExisting(s)
               \/ RefuseBlocked(s) \/ RefuseConflict(s) \/ FailPrepare(s)
               \/ UseCachedState(s) \/ LoadState(s) \/ UseSnapshot(s) \/ Fetch(s)
               \/ StoreSnapshot(s) \/ NoConflict(s) \/ RemoveFromClient(s)
               \/ ClientTakes(s) \/ ClientHolds(s) \/ ClientDeclines(s) \/ Acceptance(s)
               \/ FailRecord(s) \/ Adopt(s)
      BY <2>1 DEF Begin, FailLoad, RefuseUnresolved, FailFetch, AcceptExisting,
         RefuseBlocked, RefuseConflict, FailPrepare, UseCachedState, LoadState,
         UseSnapshot, Fetch, StoreSnapshot, NoConflict, RemoveFromClient, ClientTakes,
         ClientHolds, ClientDeclines, Acceptance, FailRecord, Adopt
    <2>2. CASE \/ RefuseAmbiguous(s) \/ RecoverAccepted(s) \/ ReplaceExisting(s)
               \/ DeleteReplaced(s) \/ FailReplace(s) \/ Ambiguity(s) \/ Refusal(s)
               \/ Record(s) \/ RecordAdopts(s) \/ ClaimStub(s)
      BY <2>2 DEF RefuseAmbiguous, RecoverAccepted, ReplaceExisting, DeleteReplaced,
         FailReplace, Ambiguity, Refusal, Record, RecordAdopts, ClaimStub, Finish, Goto
    <2> QED BY <2>1, <2>2 DEF Attempt
  <1>2. CASE UNCHANGED row
    BY <1>2 DEF Stored
  <1>3. CASE pc[s] # "prepare" /\ \E p : pc' = [pc EXCEPT ![s] = p] \/ pc' = pc
    <2>1. \A o \in Submitters \ {s} : pc'[o] = pc[o]
      BY <1>3 DEF IInv, TrackInv, CoreInv, TypeOK
    <2> QED BY <1>3, <2>1 DEF Stored, Stores
  <1> QED BY <1>1, <1>2, <1>3

\* Nor does anybody else.
LEMMA NoIntentBeside ==
    ASSUME IInv, Others \/ Restart, NEW i \in Ids
    PROVE  ~Stored(i)
  <1>1. UNCHANGED pc \/ UNCHANGED row
    BY DEF Others, ForeignJob, Progress, ObserveIntent, ObserveByName, ObserveForeign,
       RecordStub, Settle, RecordMissing, ReleaseUnconfirmed, PrimeTitleState, PrimeMissing, memory,
       Restart
  <1> QED BY <1>1 DEF Stored, Stores

-----------------------------------------------------------------------------
(* The theorems.                                                            *)

\* The invariant holds when the process starts for the first time.
LEMMA InitIInv == Init => IInv
  <1> SUFFICES ASSUME Init PROVE IInv
    OBVIOUS
  <1>1. TrackInv
    BY InitTrackInv
  <1>2. /\ \A s \in Submitters : pc[s] = "idle" /\ att[s].listing = NoListing
        /\ \A t \in Titles : claim[t] = None
        /\ shared = None
    BY DEF Init, Idle
  <1>3. \A i \in Ids : /\ row[i].bind = "none" /\ row[i].item = None
                       /\ ~row[i].sub /\ ~row[i].done
    BY DEF Init, NoRow
  <1>4. RowsAgree /\ SettledIsOver /\ DoubleGrabWasBlind
    BY <1>3 DEF RowsAgree, SettledIsOver, DoubleGrabWasBlind, Live
  <1>5. RecordsAskedFor /\ KeepsEvidence /\ KnowsItsTitle /\ DecidedAlone
    BY <1>2 DEF RecordsAskedFor, KeepsEvidence, KnowsItsTitle, DecidedAlone, Deciding
  <1>6. ListingsAreTruthful
    BY <1>2, ListedTruthful DEF ListingsAreTruthful
  <1> QED BY <1>1, <1>4, <1>5, <1>6 DEF IInv, GrabInv

\* Every step of an attempt is such a step.
LEMMA AttemptTurns ==
    ASSUME IInv, Moves, NEW s \in Submitters, Attempt(s)
    PROVE  Turns
  <1>1. CASE \E t \in Titles, i \in Ids, n \in Intents : Begin(s, t, i, n)
    BY <1>1, BeginTurns
  <1>2. CASE \/ FailLoad(s) \/ RefuseUnresolved(s) \/ FailFetch(s) \/ AcceptExisting(s)
             \/ RefuseBlocked(s) \/ RefuseConflict(s) \/ FailPrepare(s)
    BY <1>2, ReturnEarlyTurns
  <1>3. CASE RefuseAmbiguous(s) \/ RecoverAccepted(s)
    BY <1>3, RefuseAmbiguousTurns, RecoverAcceptedTurns
  <1>4. CASE UseCachedState(s) \/ LoadState(s) \/ UseSnapshot(s) \/ Fetch(s)
             \/ StoreSnapshot(s)
    BY <1>4, UseCachedStateTurns, LoadStateTurns, SnapshotTurns
  <1>5. CASE ReplaceExisting(s) \/ NoConflict(s) \/ RemoveFromClient(s)
             \/ DeleteReplaced(s) \/ FailReplace(s) \/ RecordIntent(s)
    BY <1>5, ReplaceExistingTurns, NoConflictTurns, RemoveFromClientTurns,
       DeleteReplacedTurns, FailReplaceTurns, RecordIntentTurns
  <1>6. CASE ClientTakes(s) \/ ClientHolds(s) \/ ClientDeclines(s) \/ Ambiguity(s)
             \/ Refusal(s) \/ Acceptance(s)
    BY <1>6, ClientTurns, AmbiguityTurns, RefusalTurns, AcceptanceTurns
  <1>7. CASE Record(s) \/ FailRecord(s) \/ RecordAdopts(s) \/ Adopt(s) \/ ClaimStub(s)
    BY <1>7, RecordTurns, RecordAdoptsTurns, AdoptTurns, ClaimStubTurns
  <1> QED BY <1>1, <1>2, <1>3, <1>4, <1>5, <1>6, <1>7 DEF Attempt

\* So is every step of the client, the observer, the tracker and the walk.
LEMMA OthersTurns ==
    ASSUME IInv, Moves, Others
    PROVE  Turns
  <1>1. CASE \/ \E j \in Jobs : \/ \E r \in Releases : ForeignJob(j, r)
                                \/ \E st \in JobStates : Progress(j, st)
             \/ \E t \in Titles : PrimeTitleState(t)
    <2>1. UNCHANGED <<pc, att, claim, row>>
      BY <1>1 DEF ForeignJob, Progress, PrimeTitleState, memory
    <2> QED BY <2>1, ElsewhereTurns
  <1>2. CASE \E j \in Jobs : \/ ObserveIntent(j) \/ ObserveByName(j)
                             \/ \E i \in Ids : ObserveForeign(j, i)
    BY <1>2, ObserveTurns
  <1>3. CASE \E i \in Ids : \/ RecordStub(i) \/ Settle(i) \/ RecordMissing(i)
                            \/ ReleaseUnconfirmed(i)
    BY <1>3, MarkTurns, ReleaseTurns
  <1>4. CASE \E t \in Titles, i \in Ids, j \in Jobs : PrimeMissing(t, i, j)
    BY <1>4, PrimeMissingTurns
  <1> QED BY <1>1, <1>2, <1>3, <1>4 DEF Others

\* So is every step.
LEMMA StepTurns ==
    ASSUME IInv, [Next]_vars
    PROVE  Turns
  <1>1. TrackInv /\ CoreInv
    BY DEF IInv, TrackInv
  <1>2. CoreInv'
    BY <1>1, AttemptCoreInv, OthersCoreInv, RestartCoreInv, StutterCoreInv DEF Next
  <1>3. CASE UNCHANGED vars
    <2>1. Moves
      BY <1>1, <1>2, <1>3, Quiet, StoreMoves DEF vars, memory
    <2> QED BY <1>3, <2>1, ElsewhereTurns DEF vars
  <1>4. CASE \E s \in Submitters : Attempt(s)
    BY <1>1, <1>2, <1>4, AttemptIsMove, AttemptTurns
  <1>5. CASE Others
    BY <1>1, <1>2, <1>5, OthersAreMoves, OthersTurns
  <1>6. CASE Restart
    BY <1>1, <1>2, <1>6, RestartMoves, RestartTurns
  <1> QED BY <1>3, <1>4, <1>5, <1>6 DEF Next

\* The inductive invariant holds always: what an attempt knows when it decides
\* is enough, whatever the other callers, the client, the observer, the tracker
\* and the walk have done since it looked, and wherever the process stops
\* (submit_canonical_download and the writers of the rows it reads).
THEOREM IInvHolds == Spec => []IInv
  <1>1. Init => IInv
    BY InitIInv
  <1>2. IInv /\ [Next]_vars => IInv'
    BY StepTurns, TurnsKeepIInv
  <1> QED BY <1>1, <1>2, PTL DEF Spec

\* A title has two standard grabs under way only if one of them was decided on a
\* cached title state that missed something the store had, or on a listing the
\* client did not answer (the title lock, list_active_unbound_for_title and
\* find_blocking_download_submissions_in_state together).
THEOREM DoubleGrabWasBlindHolds == Spec => []DoubleGrabWasBlind
  <1>1. IInv => DoubleGrabWasBlind
    BY DEF IInv, GrabInv
  <1> QED BY <1>1, IInvHolds, PTL

\* The submission of downloads keeps the promise of TitleGrabs: a grab takes its
\* title's scope once, when its intent is stored, only if no other grab holds it
\* or its evidence was incomplete, and never comes back once it has let it go
\* (record_pending_submission against every other writer of the rows).
THEOREM GrabsTheorem == Spec => ImplementsGrabs
  <1>1. Init => Grabs!Init
    <2> SUFFICES ASSUME Init PROVE Grabs!Init
      OBVIOUS
    <2>1. \A i \in Ids : ~Live(i) /\ row[i].title = None
      BY DEF Init, NoRow, Live
    <2> QED BY <2>1 DEF Init, Grabs!Init, Scopes, Used
  <1>2. ASSUME IInv, [Next]_vars
        PROVE  [Grabs!Next]_(Grabs!vars)
    <2>1. CASE UNCHANGED vars
      BY <2>1 DEF vars, Grabs!vars, Scopes, Used, Live
    <2>2. CASE Next
      <3>1. IInv' /\ Turns
        BY <1>2, StepTurns, TurnsKeepIInv
      <3>2. CASE \E s \in Submitters : RecordIntent(s)
        BY <1>2, <3>1, <3>2, TakeStep
      <3>3. CASE ~\E s \in Submitters : RecordIntent(s)
        BY <1>2, <2>2, <3>1, <3>3, NoIntent, NoIntentBeside, LeaveStep DEF Next
      <3> QED BY <3>2, <3>3
    <2> QED BY <1>2, <2>1, <2>2
  <1> QED BY <1>1, <1>2, IInvHolds, PTL DEF Spec, ImplementsGrabs, Grabs!Spec

=============================================================================
