-------------------------- MODULE DownloadSubmission --------------------------
(***************************************************************************)
(* How a grab reaches a download client.  Every grab a title owns goes      *)
(* through submit_canonical_download: under the title's lock it settles a   *)
(* claim an earlier attempt left uncertain, loads what the title already    *)
(* has in flight (from a cache that lives 30 s, or from the store), reads   *)
(* the client's queue (from a cache shared by all titles, or afresh),       *)
(* decides, records its intent durably, hands the release to the client     *)
(* and records the answer.  The queue observer, the tracker and the release *)
(* of unconfirmed intents work on the same rows without the title's lock,   *)
(* and the process may stop between any two steps.                          *)
(*                                                                          *)
(* One download client stands for the configured ones; every submission of  *)
(* a title has the title as its scope, so any two of them overlap.  A       *)
(* client lists what it holds, tagged with the download id it was given.    *)
(* A step ends where the code awaits.                                       *)
(***************************************************************************)
EXTENDS Naturals, FiniteSets

CONSTANTS
    Titles,          \* title ids
    Submitters,      \* concurrent callers of submit_canonical_download
    Intents,         \* what a caller may ask for
    Ids,             \* download ids: one per attempt or observed foreign job
    Jobs,            \* native item ids of the client
    ClientFaults,    \* may the client fail to answer, or be in failure backoff
    Foreign,         \* may jobs appear in the client that nobody here asked for
    Restarts,        \* may the process stop and start again
    None

ASSUME NoneAssumption == None \notin Titles \cup Ids \cup Jobs
ASSUME IntentsAssumption ==
    \A n \in Intents : /\ n.extra \in BOOLEAN
                       /\ n.policy \in {"Abort", "ReplaceEarly"}
ASSUME EnvironmentAssumption == /\ ClientFaults \in BOOLEAN
                                /\ Foreign \in BOOLEAN
                                /\ Restarts \in BOOLEAN

VARIABLES
    pc,      \* submitter -> the step it is at
    att,     \* submitter -> its attempt's locals
    cache,   \* title -> title_states: cached submission state, or None
    shared,  \* client_snapshot: the listing of the current generation, or None
    claim,   \* title -> uncertain_titles: an uncertain claim, or None
    row,     \* download id -> its binding and its submission, durable
    minted,  \* the download ids in use
    job,     \* native item id -> what the client holds under it
    blind    \* history: downloads grabbed or dropped on incomplete evidence

memory == <<pc, att, cache, shared, claim>>
vars == <<pc, att, cache, shared, claim, row, minted, job, blind>>

\* What the client holds.  "queued": waiting, paused or downloading, so blocking
\* and replaceable; "busy": verifying to import pending, blocking.  "gone": it
\* left by itself; "removed": this program deleted it.
OnClient == {"queued", "busy", "completed", "failed"}
Blocking == {"queued", "busy"}
JobStates == OnClient \cup {"absent", "gone", "removed"}

Releases == {n.rel : n \in Intents}
Purposes == {[rel |-> n.rel, extra |-> n.extra] : n \in Intents}
NoPurpose == [rel |-> None, extra |-> FALSE]

\* One download id in the store: bind is its client binding, sub says that its
\* submission row exists; the row's columns stay here after it is deleted, for
\* the copies of it that are in memory.
NoRow == [bind |-> "none", sub |-> FALSE, title |-> None, item |-> None,
          for |-> NoPurpose, done |-> FALSE]
NoJob == [st |-> "absent", tok |-> None, rel |-> None]
NoListing == [full |-> FALSE, at |-> [j \in Jobs |-> "absent"]]
Idle == [title |-> None, id |-> None, for |-> NoPurpose, policy |-> "Abort",
         subs |-> {}, accepted |-> {}, blind |-> FALSE, listing |-> NoListing,
         fresh |-> FALSE, answer |-> "none", item |-> None]

Steps == {"idle", "claims", "state", "snapshot", "fetching", "decide",
          "conflicts", "replacing", "replaced", "prepare", "submitting",
          "answered", "recording", "adopting", "claiming"}
Answers == {"none", "ok", "other", "refused", "ambiguous"}

Rows == [bind : {"none", "unbound", "bound", "ended"}, sub : BOOLEAN,
         title : Titles \cup {None}, item : Jobs \cup {None},
         for : Purposes \cup {NoPurpose}, done : BOOLEAN]
Listings == [full : BOOLEAN, at : [Jobs -> OnClient \cup {"absent"}]]
Attempts == [title : Titles \cup {None}, id : Ids \cup {None},
             for : Purposes \cup {NoPurpose},
             policy : {"Abort", "ReplaceEarly"},
             subs : SUBSET Ids, accepted : SUBSET Ids, blind : BOOLEAN,
             listing : Listings, fresh : BOOLEAN, answer : Answers,
             item : Jobs \cup {None}]
TitleStates == [subs : SUBSET Ids, accepted : SUBSET Ids]
\* known: the claim carries a submission that record_ambiguous can persist
Claims == [kind : {"accepted", "ambiguous"}, id : Ids, item : Jobs \cup {None},
           for : Purposes \cup {NoPurpose}, known : BOOLEAN]

TypeOK ==
    /\ pc \in [Submitters -> Steps]
    /\ att \in [Submitters -> Attempts]
    /\ cache \in [Titles -> TitleStates \cup {None}]
    /\ shared \in Listings \cup {None}
    /\ claim \in [Titles -> Claims \cup {None}]
    /\ row \in [Ids -> Rows]
    /\ minted \subseteq Ids
    /\ job \in [Jobs -> [st : JobStates, tok : Ids \cup {None},
                         rel : Releases \cup {None}]]
    /\ blind \subseteq Ids

Init ==
    /\ pc = [s \in Submitters |-> "idle"]
    /\ att = [s \in Submitters |-> Idle]
    /\ cache = [t \in Titles |-> None]
    /\ shared = None
    /\ claim = [t \in Titles |-> None]
    /\ row = [i \in Ids |-> NoRow]
    /\ minted = {}
    /\ job = [j \in Jobs |-> NoJob]
    /\ blind = {}

-----------------------------------------------------------------------------
(* The store.                                                               *)

\* list_for_title: the rows that name a client job.
ListForTitle(t) == {i \in Ids : row[i].sub /\ row[i].title = t /\ row[i].item # None}

\* list_active_unbound_for_title.
UnboundFor(t) == {i \in Ids : /\ row[i].sub /\ row[i].title = t
                              /\ row[i].item = None /\ row[i].bind = "unbound"}

\* active_binding_download_id: the downloads actively bound to job j.
Bound(j) == {i \in Ids : row[i].bind = "bound" /\ row[i].item = j}

\* Mutant: an id whose intent has ended is recorded again.
RecordPending_Reopens(r, i, t, for) ==
    IF r[i].bind # "bound"
    THEN [r EXCEPT ![i] = [NoRow EXCEPT !.bind = "unbound", !.sub = TRUE,
                                        !.title = t, !.for = for]]
    ELSE r

\* record_ambiguous and record_pending insert an unbound row under a new id,
\* and leave an id alone that is bound or ended.
RecordPending(r, i, t, for) ==
    IF r[i].bind = "none"
    THEN [r EXCEPT ![i] = [NoRow EXCEPT !.bind = "unbound", !.sub = TRUE,
                                        !.title = t, !.for = for]]
    ELSE r

\* withdraw_pending_download_submission_tx.
Withdraw(r, i) == IF r[i].bind = "unbound"
                  THEN [r EXCEPT ![i].bind = "none", ![i].sub = FALSE]
                  ELSE r

\* record_submission_with_identity resolves to another download.
Adopts(i, j) == \E o \in Bound(j) : o # i /\ ~row[o].done

\* The binding row of i can be bound to j.
CanBind(i, j) == \/ row[i].bind \in {"none", "unbound"}
                 \/ row[i].bind = "bound" /\ row[i].item = j

\* Mutant: a stale binding of the job is not ended.
RecordAccepted_KeepsStale(i, j, t, for) ==
    [row EXCEPT ![i] = [bind |-> "bound", sub |-> TRUE, title |-> t,
                        item |-> j, for |-> for, done |-> row[i].done]]

\* claim_or_create_binding, then the upsert of the submission: a binding of the
\* job to a finished download is ended.
RecordAccepted(i, j, t, for) ==
    [o \in Ids |->
        CASE o = i -> [bind |-> "bound", sub |-> TRUE, title |-> t, item |-> j,
                       for |-> for, done |-> row[i].done]
          [] o # i /\ o \in Bound(j) -> [row[o] EXCEPT !.bind = "ended"]
          [] OTHER -> row[o]]

\* delete_by_client_item_id.
DeleteByItem(j) ==
    [i \in Ids |->
        [row[i] EXCEPT !.bind = IF i \in Bound(j) THEN "ended" ELSE @,
                       !.sub = @ /\ row[i].item # j]]

-----------------------------------------------------------------------------
(* The guard table.                                                         *)

Locked(t) == \E s \in Submitters : pc[s] # "idle" /\ att[s].title = t

\* The attempt returns, and its title guard is dropped.
Finish(s) == pc' = [pc EXCEPT ![s] = "idle"]
Forget(a, s) == [a EXCEPT ![s] = Idle]
Goto(s, p) == pc' = [pc EXCEPT ![s] = p]

\* invalidate_client_snapshots, with attempts a: the generation moves on, so
\* no listing read before it can be stored, and the cached one is dropped.
Invalidate(a) ==
    /\ shared' = None
    /\ att' = [s \in Submitters |-> [a[s] EXCEPT !.fresh = FALSE]]

\* What a listing returns now: everything, or nothing from a client that does
\* not answer.
Listing == [full |-> TRUE,
            at |-> [j \in Jobs |-> IF job[j].st \in OnClient THEN job[j].st
                                                            ELSE "absent"]]
Listed(l) == l = Listing \/ (ClientFaults /\ l = NoListing)

Ambiguous(i, t, for, known) == [kind |-> "ambiguous", id |-> i, item |-> None,
                                for |-> for, known |-> known]

-----------------------------------------------------------------------------
(* One attempt.                                                             *)

\* Mutant: the title's lock is not taken.
Begin_NoLock(s, t, i, n) ==
    /\ pc[s] = "idle" /\ i \in Ids \ minted
    /\ minted' = minted \cup {i}
    /\ att' = [att EXCEPT ![s] = [Idle EXCEPT !.title = t, !.id = i,
                                  !.for = [rel |-> n.rel, extra |-> n.extra],
                                  !.policy = n.policy]]
    /\ Goto(s, "claims")
    /\ UNCHANGED <<cache, shared, claim, row, job, blind>>

\* acquire_title.  A caller that waits for the lock has not begun; nor has one
\* the admission or the location guard turns away, which changes nothing.
Begin(s, t, i, n) ==
    /\ pc[s] = "idle" /\ ~Locked(t)
    /\ i \in Ids \ minted
    /\ minted' = minted \cup {i}
    /\ att' = [att EXCEPT ![s] = [Idle EXCEPT !.title = t, !.id = i,
                                  !.for = [rel |-> n.rel, extra |-> n.extra],
                                  !.policy = n.policy]]
    /\ Goto(s, "claims")
    /\ UNCHANGED <<cache, shared, claim, row, job, blind>>

\* An ambiguous claim refuses the attempt.  If it carries its submission it is
\* persisted and, if that succeeds, cleared: the durable row is the fence now.
RefuseAmbiguous(s) ==
    LET t == att[s].title
        c == claim[t]
    IN  /\ pc[s] = "claims" /\ c # None /\ c.kind = "ambiguous"
        /\ \/ /\ c.known
              /\ row' = RecordPending(row, c.id, t, c.for)
              /\ claim' = [claim EXCEPT ![t] = None]
           \/ UNCHANGED <<row, claim>>
        /\ Finish(s) /\ att' = Forget(att, s)
        /\ UNCHANGED <<cache, shared, minted, job, blind>>

\* An accepted claim is recorded again.
\*   - the store fails, or the binding cannot be made: refused, still uncertain
\*   - recorded as its own download: this attempt's, or it goes on
\*   - resolved to another download, which is adopted for this intent unless it
\*     has no row (the title is fenced), it is another title's or the load fails
RecoverAccepted(s) ==
    LET t == att[s].title
        c == claim[t]
    IN  /\ pc[s] = "claims" /\ c # None /\ c.kind = "accepted"
        /\ \/ Finish(s) /\ att' = Forget(att, s) /\ UNCHANGED <<claim, row>>
           \/ /\ ~Adopts(c.id, c.item) /\ CanBind(c.id, c.item)
              /\ row' = RecordAccepted(c.id, c.item, t, c.for)
              /\ claim' = [claim EXCEPT ![t] = None]
              /\ IF c.for = att[s].for
                 THEN Finish(s) /\ att' = Forget(att, s)
                 ELSE Goto(s, "state") /\ UNCHANGED att
           \/ /\ Adopts(c.id, c.item)
              /\ row' = Withdraw(row, c.id)
              /\ \E o \in Bound(c.item) :
                    \/ claim' = [claim EXCEPT ![t] = None]
                    \/ /\ ~row[o].sub
                       /\ claim' = [claim EXCEPT ![t] =
                                       Ambiguous(o, t, NoPurpose, FALSE)]
              /\ Finish(s) /\ att' = Forget(att, s)
        /\ UNCHANGED <<cache, shared, minted, job, blind>>

\* Mutant: the claim table is not consulted.
PastClaims_Unlooked(s) == pc[s] \in {"claims", "state"}

\* No claim is uncertain, or it has just been recovered.
PastClaims(s) == \/ pc[s] = "claims" /\ claim[att[s].title] = None
                 \/ pc[s] = "state"

\* The title holds, in the store, what state c does not know of.
Misses(t, subs) == \E i \in Ids \ subs : /\ row[i].sub /\ row[i].title = t
                                         /\ row[i].bind \in {"unbound", "bound"}
                                         /\ ~row[i].done

\* A read of the store fails: the attempt ends there, with nothing changed.
FailLoad(s) ==
    /\ PastClaims(s) \/ pc[s] = "adopting"
    /\ Finish(s) /\ att' = Forget(att, s)
    /\ UNCHANGED <<cache, shared, claim, row, minted, job, blind>>

\* cached_title_state has an entry that is not too old: nothing is read.
UseCachedState(s) ==
    LET t == att[s].title
    IN  /\ PastClaims(s) /\ cache[t] # None
        /\ att' = [att EXCEPT ![s].subs = cache[t].subs,
                              ![s].accepted = cache[t].accepted,
                              ![s].blind = Misses(t, cache[t].subs)]
        /\ Goto(s, "snapshot")
        /\ UNCHANGED <<cache, shared, claim, row, minted, job, blind>>

\* No entry, or one past its age: an intent without a job refuses the attempt.
RefuseUnresolved(s) ==
    /\ PastClaims(s) /\ UnboundFor(att[s].title) # {}
    /\ Finish(s) /\ att' = Forget(att, s)
    /\ UNCHANGED <<cache, shared, claim, row, minted, job, blind>>

\* Mutant: the load does not look for unbound intents.
LoadState_NoFence(s) ==
    LET t == att[s].title
    IN  /\ PastClaims(s)
        /\ att' = [att EXCEPT ![s].subs = ListForTitle(t)]
        /\ cache' = [cache EXCEPT ![t] = [subs |-> ListForTitle(t), accepted |-> {}]]
        /\ Goto(s, "snapshot")
        /\ UNCHANGED <<shared, claim, row, minted, job, blind>>

\* ... otherwise the title's submissions are loaded and cached.
LoadState(s) ==
    LET t == att[s].title
    IN  /\ PastClaims(s) /\ UnboundFor(t) = {}
        /\ att' = [att EXCEPT ![s].subs = ListForTitle(t)]
        /\ cache' = [cache EXCEPT ![t] = [subs |-> ListForTitle(t), accepted |-> {}]]
        /\ Goto(s, "snapshot")
        /\ UNCHANGED <<shared, claim, row, minted, job, blind>>

\* With nothing in flight no listing is needed; a cached one of the current
\* generation serves if the client answered it or every submission is accepted.
UseSnapshot(s) ==
    /\ pc[s] = "snapshot"
    /\ \/ att[s].subs = {} /\ UNCHANGED att
       \/ /\ att[s].subs # {} /\ shared # None
          /\ shared.full \/ att[s].subs \subseteq att[s].accepted
          /\ att' = [att EXCEPT ![s].listing = shared]
    /\ Goto(s, "decide")
    /\ UNCHANGED <<cache, shared, claim, row, minted, job, blind>>

\* Otherwise one submitter at a time reads the generation and asks the client.
Fetch(s) ==
    /\ pc[s] = "snapshot" /\ att[s].subs # {}
    /\ \A o \in Submitters : pc[o] # "fetching"
    /\ \E l \in {Listing, NoListing} :
          /\ Listed(l)
          /\ att' = [att EXCEPT ![s].listing = l, ![s].fresh = TRUE]
    /\ Goto(s, "fetching")
    /\ UNCHANGED <<cache, shared, claim, row, minted, job, blind>>

\* Mutant: the listing is stored whatever the generation.
StoreSnapshot_AnyGeneration(s) ==
    /\ pc[s] = "fetching"
    /\ shared' = att[s].listing
    /\ Goto(s, "decide")
    /\ UNCHANGED <<att, cache, claim, row, minted, job, blind>>

\* store_client_snapshot: refused if the generation has moved on, and then the
\* read is repeated.
StoreSnapshot(s) ==
    /\ pc[s] = "fetching"
    /\ IF att[s].fresh
       THEN /\ shared' = att[s].listing /\ Goto(s, "decide")
            /\ UNCHANGED att
       ELSE /\ \E l \in {Listing, NoListing} :
                  /\ Listed(l)
                  /\ att' = [att EXCEPT ![s].listing = l, ![s].fresh = TRUE]
            /\ UNCHANGED <<pc, shared>>
    /\ UNCHANGED <<cache, claim, row, minted, job, blind>>

\* The client fails the listing altogether.
FailFetch(s) ==
    /\ pc[s] = "fetching" /\ ClientFaults
    /\ Finish(s) /\ att' = Forget(att, s)
    /\ UNCHANGED <<cache, shared, claim, row, minted, job, blind>>

\* What the attempt sees of submission i: its item's state in the listing.
Seen(s, i) == att[s].listing.at[row[i].item]

\* The submission of the same request, if the title state has one.
Existing(s) == {i \in att[s].subs : row[i].for = att[s].for}

\* The title state has no such submission, or it has just been replaced.
PastExisting(s) == \/ pc[s] = "decide" /\ Existing(s) = {}
                   \/ pc[s] = "conflicts"

\* The same request is in flight: it is accepted again.
AcceptExisting(s) ==
    /\ pc[s] = "decide"
    /\ \E i \in Existing(s) : Seen(s, i) \in OnClient \ {"failed"}
    /\ Finish(s) /\ att' = Forget(att, s)
    /\ UNCHANGED <<cache, shared, claim, row, minted, job, blind>>

\* The same request is not, or failed, and its client is in backoff: refused.
RefuseBlocked(s) ==
    /\ ClientFaults
    /\ \/ /\ pc[s] = "decide"
          /\ \E i \in Existing(s) : Seen(s, i) \in {"absent", "failed"}
       \/ /\ PastExisting(s) /\ ~att[s].for.extra
          /\ \E i \in att[s].subs \ att[s].accepted : Seen(s, i) = "absent"
    /\ Finish(s) /\ att' = Forget(att, s)
    /\ UNCHANGED <<cache, shared, claim, row, minted, job, blind>>

\* ... and its client is answering: the row is deleted and forgotten.
ReplaceExisting(s) ==
    /\ pc[s] = "decide"
    /\ \E i \in Existing(s) :
          /\ Seen(s, i) \in {"absent", "failed"}
          /\ row' = DeleteByItem(row[i].item)
          /\ att' = [att EXCEPT ![s].subs = @ \ {i}, ![s].accepted = @ \ {i}]
          /\ blind' = IF att[s].listing.full THEN blind ELSE blind \cup {i}
          /\ cache' = [cache EXCEPT ![att[s].title] =
                          [subs |-> att[s].subs \ {i},
                           accepted |-> att[s].accepted \ {i}]]
    /\ Goto(s, "conflicts")
    /\ UNCHANGED <<shared, claim, minted, job>>

\* find_blocking_download_submissions_in_state: a submission this process had
\* accepted blocks; another blocks if its item is listed in a blocking state.
Conflicts(s) ==
    IF att[s].for.extra THEN {}
    ELSE {i \in att[s].subs : i \in att[s].accepted \/ Seen(s, i) \in Blocking}

Replaceable(s, i) == i \notin att[s].accepted /\ Seen(s, i) = "queued"

\* A conflict ends the attempt, unless the caller replaces and every one of
\* them is replaceable.
RefuseConflict(s) ==
    /\ PastExisting(s) /\ Conflicts(s) # {}
    /\ att[s].policy = "Abort" \/ \E i \in Conflicts(s) : ~Replaceable(s, i)
    /\ Finish(s) /\ att' = Forget(att, s)
    /\ UNCHANGED <<cache, shared, claim, row, minted, job, blind>>

NoConflict(s) ==
    /\ PastExisting(s) /\ Conflicts(s) = {}
    /\ att' = [att EXCEPT ![s].blind = @ \/ (att[s].subs # {} /\ ~att[s].listing.full),
                          ![s].listing = NoListing, ![s].fresh = FALSE]
    /\ Goto(s, "prepare")
    /\ UNCHANGED <<cache, shared, claim, row, minted, job, blind>>

\* replace_blocking_download_submission, one conflict after the other: the
\* client drops the item (or refuses to, which ends the attempt) ...
RemoveFromClient(s) ==
    /\ \/ /\ PastExisting(s) /\ att[s].policy = "ReplaceEarly"
          /\ \A i \in Conflicts(s) : Replaceable(s, i)
       \/ pc[s] = "replacing"
    /\ \/ \E i \in Conflicts(s) :
            /\ att' = [att EXCEPT ![s].item = row[i].item]
            /\ job' = [job EXCEPT ![row[i].item].st =
                          IF @ \in OnClient THEN "removed" ELSE @]
            /\ Goto(s, "replaced")
       \/ /\ Conflicts(s) # {} /\ ClientFaults
          /\ Finish(s) /\ att' = Forget(att, s) /\ UNCHANGED job
    /\ UNCHANGED <<cache, shared, claim, row, minted, blind>>

\* ... and its row is deleted.  After the last one the title's submissions are
\* listed again; the title-state cache is left as it was.
DeleteReplaced(s) ==
    LET rest == {i \in Conflicts(s) : row[i].item # att[s].item}
        t == att[s].title
        after == DeleteByItem(att[s].item)
    IN  /\ pc[s] = "replaced"
        /\ row' = after
        /\ IF rest = {}
           THEN /\ att' = [att EXCEPT
                     ![s].subs = {i \in Ids : /\ after[i].sub /\ after[i].title = t
                                              /\ after[i].item # None},
                     ![s].accepted = {}, ![s].item = None,
                     ![s].listing = NoListing, ![s].fresh = FALSE]
                /\ Goto(s, "prepare")
           ELSE /\ att' = [att EXCEPT ![s].subs = @ \ {i \in @ : row[i].item = att[s].item},
                                      ![s].item = None]
                /\ Goto(s, "replacing")
        /\ UNCHANGED <<cache, shared, claim, minted, job, blind>>

\* The store fails in the middle of a replacement: before the row is deleted, or
\* after it, when the wanted scope is reset or the submissions are listed.
FailReplace(s) ==
    /\ \/ /\ pc[s] = "replaced"
          /\ row' \in {row, DeleteByItem(att[s].item)}
       \/ /\ pc[s] = "decide" /\ UNCHANGED row
          /\ \E i \in Existing(s) : Seen(s, i) \in {"absent", "failed"}
    /\ Finish(s) /\ att' = Forget(att, s)
    /\ UNCHANGED <<cache, shared, claim, minted, job, blind>>

\* The artifact cannot be prepared, or the intent cannot be stored.
FailPrepare(s) ==
    /\ pc[s] = "prepare"
    /\ Finish(s) /\ att' = Forget(att, s)
    /\ UNCHANGED <<cache, shared, claim, row, minted, job, blind>>

\* Mutant: the request leaves before the intent is stored.
RecordIntent_Late(s) ==
    /\ pc[s] = "prepare"
    /\ Goto(s, "submitting")
    /\ UNCHANGED <<att, cache, shared, claim, row, minted, job, blind>>

\* record_pending_submission: the intent is durable; then the password
\* candidates are stored, and failing to ends the attempt.
RecordIntent(s) ==
    /\ pc[s] = "prepare"
    /\ row' = RecordPending(row, att[s].id, att[s].title, att[s].for)
    /\ blind' = IF att[s].blind THEN blind \cup {att[s].id} ELSE blind
    /\ \/ Goto(s, "submitting") /\ UNCHANGED att
       \/ Finish(s) /\ att' = Forget(att, s)
    /\ UNCHANGED <<cache, shared, claim, minted, job>>

-----------------------------------------------------------------------------
(* The client, and what its answer does.                                    *)

\* The client takes the release as a new job, tagged with the attempt's id.
\* It says so, or its answer is lost.
ClientTakes(s) ==
    /\ pc[s] = "submitting"
    /\ \E j \in Jobs :
          /\ job[j].st = "absent"
          /\ job' = [job EXCEPT ![j] = [st |-> "queued", tok |-> att[s].id,
                                        rel |-> att[s].for.rel]]
          /\ \/ att' = [att EXCEPT ![s].answer = "ok", ![s].item = j]
             \/ att' = [att EXCEPT ![s].answer = "ambiguous"]
    /\ Goto(s, "answered")
    /\ UNCHANGED <<cache, shared, claim, row, minted, blind>>

\* It already holds the release: it names the job it has, with or without the
\* identity that job carries.
ClientHolds(s) ==
    /\ pc[s] = "submitting"
    /\ \E j \in Jobs :
          /\ job[j].st \in OnClient /\ job[j].rel = att[s].for.rel
          /\ \/ att' = [att EXCEPT ![s].answer = "ok", ![s].item = j]
             \/ job[j].tok # None /\ att' = [att EXCEPT ![s].answer = "other"]
    /\ Goto(s, "answered")
    /\ UNCHANGED <<cache, shared, claim, row, minted, job, blind>>

\* It refuses, or nothing is known of what it did and it did nothing.
ClientDeclines(s) ==
    /\ pc[s] = "submitting"
    /\ \E a \in {"refused", "ambiguous"} : att' = [att EXCEPT ![s].answer = a]
    /\ Goto(s, "answered")
    /\ UNCHANGED <<cache, shared, claim, row, minted, job, blind>>

\* The answer was lost, or names another identity: the intent stays unbound;
\* if that cannot be stored, the claim is kept in memory.  An error that names no
\* client leaves nothing to store, and a claim without a submission.
Ambiguity(s) ==
    LET t == att[s].title
        i == att[s].id
    IN  /\ pc[s] = "answered" /\ att[s].answer \in {"ambiguous", "other"}
        /\ Invalidate(Forget(att, s)) /\ Finish(s)
        /\ \/ row' = RecordPending(row, i, t, att[s].for) /\ UNCHANGED claim
           \/ /\ \E known \in BOOLEAN :
                    /\ att[s].answer = "other" => known
                    /\ claim' = [claim EXCEPT ![t] = Ambiguous(i, t, att[s].for, known)]
              /\ UNCHANGED row
        /\ UNCHANGED <<cache, minted, job, blind>>

\* Refused: the intent is withdrawn, best effort.
Refusal(s) ==
    /\ pc[s] = "answered" /\ att[s].answer = "refused"
    /\ Invalidate(Forget(att, s)) /\ Finish(s)
    /\ row' \in {row, Withdraw(row, att[s].id)}
    /\ UNCHANGED <<cache, claim, minted, job, blind>>

Acceptance(s) ==
    /\ pc[s] = "answered" /\ att[s].answer = "ok"
    /\ Invalidate(att) /\ Goto(s, "recording")
    /\ UNCHANGED <<cache, claim, row, minted, job, blind>>

\* state.remember(i), stored in the title-state cache.
Remember(s, i) == [cache EXCEPT ![att[s].title] =
                      [subs |-> att[s].subs \cup {i},
                       accepted |-> att[s].accepted \cup {i}]]

\* The acceptance is recorded under the attempt's own id.
Record(s) ==
    LET i == att[s].id
    IN  /\ pc[s] = "recording"
        /\ ~Adopts(i, att[s].item) /\ CanBind(i, att[s].item)
        /\ row' = RecordAccepted(i, att[s].item, att[s].title, att[s].for)
        /\ cache' = Remember(s, i)
        /\ Finish(s) /\ att' = Forget(att, s)
        /\ UNCHANGED <<shared, claim, minted, job, blind>>

\* It cannot be recorded: the claim is kept in memory.
FailRecord(s) ==
    /\ pc[s] = "recording"
    /\ claim' = [claim EXCEPT ![att[s].title] =
                    [kind |-> "accepted", id |-> att[s].id, item |-> att[s].item,
                     for |-> att[s].for, known |-> TRUE]]
    /\ Finish(s) /\ att' = Forget(att, s)
    /\ UNCHANGED <<cache, shared, row, minted, job, blind>>

\* The job is another download's: the attempt's own intent is withdrawn, and
\* the other's id is the effective one from here on.
RecordAdopts(s) ==
    /\ pc[s] = "recording" /\ Adopts(att[s].id, att[s].item)
    /\ row' = Withdraw(row, att[s].id)
    /\ \E o \in Bound(att[s].item) : att' = [att EXCEPT ![s].id = o]
    /\ Goto(s, "adopting")
    /\ UNCHANGED <<cache, shared, claim, minted, job, blind>>

\* adopt_canonical_download with ClaimForGrab, of the download the job resolved
\* to.  Its row cannot be loaded: the title is fenced.  Another title's:
\* rejected.  This title's: adopted, and remembered unless it cannot be loaded a
\* second time.  A tracker's stub: to be claimed.
Adopt(s) ==
    LET t == att[s].title
        o == att[s].id
    IN  /\ pc[s] = "adopting"
        /\ \/ /\ ~row[o].sub
              /\ claim' = [claim EXCEPT ![t] = Ambiguous(o, t, NoPurpose, FALSE)]
              /\ Finish(s) /\ att' = Forget(att, s) /\ UNCHANGED cache
           \/ /\ row[o].sub /\ row[o].title \in Titles \ {t}
              /\ Finish(s) /\ att' = Forget(att, s) /\ UNCHANGED <<cache, claim>>
           \/ /\ row[o].sub /\ row[o].title = t
              /\ cache' \in {cache, Remember(s, o)}
              /\ Finish(s) /\ att' = Forget(att, s) /\ UNCHANGED claim
           \/ /\ row[o].sub /\ row[o].title = None
              /\ Goto(s, "claiming") /\ UNCHANGED <<att, cache, claim>>
        /\ UNCHANGED <<shared, row, minted, job, blind>>

\* The stub is recorded as this title's submission; if the store fails, the
\* acceptance is kept as a claim.  If the job has meanwhile become a third
\* download's, that one must have a row, and be this title's, to be accepted.
ClaimStub(s) ==
    LET t == att[s].title
        o == att[s].id
        j == att[s].item
    IN  /\ pc[s] = "claiming"
        /\ \/ /\ ~Adopts(o, j) /\ CanBind(o, j)
              /\ row' = RecordAccepted(o, j, t, att[s].for)
              /\ cache' \in {cache, Remember(s, o)}
              /\ UNCHANGED claim
           \/ /\ claim' = [claim EXCEPT ![t] =
                    [kind |-> "accepted", id |-> o, item |-> j,
                     for |-> att[s].for, known |-> TRUE]]
              /\ UNCHANGED <<row, cache>>
           \/ /\ Adopts(o, j)
              /\ row' = Withdraw(row, o)
              /\ \E r \in Bound(j) :
                    /\ claim' = [claim EXCEPT ![t] = IF row[r].sub THEN @
                                     ELSE Ambiguous(r, t, NoPurpose, FALSE)]
                    /\ cache' \in IF row[r].sub /\ row[r].title = t
                                  THEN {cache, Remember(s, o)} ELSE {cache}
        /\ Finish(s) /\ att' = Forget(att, s)
        /\ UNCHANGED <<shared, minted, job, blind>>

-----------------------------------------------------------------------------
(* The others: the client itself, the observer, the tracker, the walk.       *)

\* A job somebody else added.
ForeignJob(j, r) ==
    /\ Foreign /\ job[j].st = "absent"
    /\ job' = [job EXCEPT ![j] = [st |-> "queued", tok |-> None, rel |-> r]]
    /\ UNCHANGED <<memory, row, minted, blind>>

\* A job moves on.
Progress(j, st) ==
    /\ \/ job[j].st = "queued" /\ st \in {"busy", "completed", "failed"}
       \/ job[j].st = "busy" /\ st \in {"completed", "failed"}
       \/ job[j].st \in {"completed", "failed"} /\ st = "gone"
    /\ job' = [job EXCEPT ![j].st = st]
    /\ UNCHANGED <<memory, row, minted, blind>>

\* resolve_observation of a job no download is bound to: an unbound intent with
\* the job's token is bound to it.
ObserveIntent(j) ==
    LET i == job[j].tok
    IN  /\ job[j].st \in OnClient /\ Bound(j) = {} /\ i # None
        /\ row[i].bind = "unbound"
        /\ row' = [row EXCEPT ![i].bind = "bound", ![i].item = j]
        /\ UNCHANGED <<memory, minted, job, blind>>

\* A job without a token is bound by its name to the one intent for that release
\* that names its client: one the caller pinned to it, or one with an ambiguous
\* answer.  Which intents name it is left open.
ObserveByName(j) ==
    /\ job[j].st \in OnClient /\ Bound(j) = {} /\ job[j].tok = None
    /\ \E i \in Ids :
          /\ row[i].bind = "unbound" /\ row[i].for.rel = job[j].rel
          /\ row' = [row EXCEPT ![i].bind = "bound", ![i].item = j]
    /\ UNCHANGED <<memory, minted, job, blind>>

\* A job without a token, that no download was ever bound to, gets a download
\* of its own, which has no submission row yet.
ObserveForeign(j, i) ==
    /\ job[j].st \in OnClient /\ job[j].tok = None
    /\ \A o \in Ids : row[o].item # j
    /\ i \in Ids \ minted
    /\ minted' = minted \cup {i}
    /\ row' = [row EXCEPT ![i] = [NoRow EXCEPT !.bind = "bound", !.item = j]]
    /\ UNCHANGED <<memory, job, blind>>

\* The tracker records its observation stub: a submission row without a title.
RecordStub(i) ==
    /\ row[i].bind = "bound" /\ ~row[i].sub /\ row[i].title = None
    /\ row' = [row EXCEPT ![i].sub = TRUE]
    /\ UNCHANGED <<memory, minted, job, blind>>

\* A download reaches a terminal state: forget_settled_download.
Settle(i) ==
    /\ row[i].bind = "bound" /\ row[i].sub /\ row[i].title # None /\ ~row[i].done
    /\ job[row[i].item].st \notin Blocking
    /\ row' = [row EXCEPT ![i].done = TRUE]
    /\ cache' = [cache EXCEPT ![row[i].title] = None]
    /\ Invalidate(att)
    /\ UNCHANGED <<pc, claim, minted, job, blind>>

\* release_missing_claim: title state c no longer holds i as accepted.
Disown(c, i) == IF c = None THEN None ELSE [c EXCEPT !.accepted = @ \ {i}]

\* record_missing_client_download: the job of a bound download is no longer
\* listed.  A download without a submission, or with a mere stub, loses its
\* binding; under its title's lock, so does a settled one, and an unsettled one
\* keeps it, to resume if the job comes back, but its accepted claim is
\* released.
RecordMissing(i) ==
    LET t == row[i].title
    IN  /\ row[i].bind = "bound" /\ job[row[i].item].st \in {"gone", "removed"}
        /\ \/ /\ ~row[i].sub \/ t = None \/ (row[i].done /\ ~Locked(t))
              /\ row' = [row EXCEPT ![i].bind = "ended"]
              /\ UNCHANGED <<att, cache, shared>>
           \/ /\ row[i].sub /\ t # None /\ ~Locked(t) /\ ~row[i].done
              /\ cache' = [cache EXCEPT ![t] = Disown(@, i)]
              /\ Invalidate(att)
              /\ UNCHANGED row
        /\ UNCHANGED <<pc, claim, minted, job, blind>>

\* Mutant: an intent no job was ever listed for counts as not yet listed.
ReleaseUnconfirmed_NeverListed(i) ==
    /\ row[i].bind = "unbound"
    /\ \A s \in Submitters : pc[s] # "idle" => att[s].id # i
    /\ \E j \in Jobs : job[j].tok = i /\ job[j].st \notin OnClient
    /\ row' = [row EXCEPT ![i].bind = "ended"]
    /\ cache' = [cache EXCEPT ![row[i].title] = None]
    /\ UNCHANGED <<pc, att, shared, claim, minted, job, blind>>

\* release_unconfirmed_grab_intents: an intent past its grace, or older than
\* the process, whose submit is therefore over, and which the client lists
\* under no job.
ReleaseUnconfirmed(i) ==
    /\ row[i].bind = "unbound"
    /\ \A s \in Submitters : pc[s] # "idle" => att[s].id # i
    /\ \A j \in Jobs : job[j].tok = i => job[j].st \notin OnClient
    /\ row' = [row EXCEPT ![i].bind = "ended"]
    /\ cache' = [cache EXCEPT ![row[i].title] = None]
    /\ UNCHANGED <<pc, att, shared, claim, minted, job, blind>>

\* The background walk loads a title under its lock: it primes the title state,
\* or clears it when an intent has no job yet.
PrimeTitleState(t) ==
    /\ ~Locked(t)
    /\ cache' = [cache EXCEPT ![t] =
                    IF UnboundFor(t) = {}
                    THEN [subs |-> ListForTitle(t), accepted |-> {}]
                    ELSE None]
    /\ UNCHANGED <<pc, att, shared, claim, row, minted, job, blind>>

\* It reads the rows with a job first and the intents after them.  The observer
\* takes no title lock: it may bind the one intent in between, which is then in
\* neither, and the title is primed without it.
PrimeMissing(t, i, j) ==
    /\ ~Locked(t) /\ UnboundFor(t) = {i}
    /\ job[j].st \in OnClient /\ Bound(j) = {}
    /\ \/ job[j].tok = i
       \/ job[j].tok = None /\ row[i].for.rel = job[j].rel
    /\ row' = [row EXCEPT ![i].bind = "bound", ![i].item = j]
    /\ cache' = [cache EXCEPT ![t] = [subs |-> ListForTitle(t), accepted |-> {}]]
    /\ UNCHANGED <<pc, att, shared, claim, minted, job, blind>>

\* The process stops at any point and starts again: what was in memory is lost.
\* A request under way has been taken by then or never will be.
Restart ==
    /\ Restarts
    /\ pc' = [s \in Submitters |-> "idle"]
    /\ att' = [s \in Submitters |-> Idle]
    /\ cache' = [t \in Titles |-> None]
    /\ shared' = None
    /\ claim' = [t \in Titles |-> None]
    /\ UNCHANGED <<row, minted, job, blind>>

Attempt(s) ==
    \/ \E t \in Titles, i \in Ids, n \in Intents : Begin(s, t, i, n)
    \/ FailLoad(s) \/ RefuseAmbiguous(s) \/ RecoverAccepted(s)
    \/ UseCachedState(s) \/ RefuseUnresolved(s) \/ LoadState(s)
    \/ UseSnapshot(s) \/ Fetch(s) \/ StoreSnapshot(s) \/ FailFetch(s)
    \/ AcceptExisting(s) \/ RefuseBlocked(s) \/ ReplaceExisting(s)
    \/ RefuseConflict(s) \/ NoConflict(s)
    \/ RemoveFromClient(s) \/ DeleteReplaced(s) \/ FailReplace(s)
    \/ FailPrepare(s) \/ RecordIntent(s)
    \/ ClientTakes(s) \/ ClientHolds(s) \/ ClientDeclines(s)
    \/ Ambiguity(s) \/ Refusal(s) \/ Acceptance(s)
    \/ Record(s) \/ FailRecord(s) \/ RecordAdopts(s) \/ Adopt(s) \/ ClaimStub(s)

Others ==
    \/ \E j \in Jobs : \/ \E r \in Releases : ForeignJob(j, r)
                       \/ \E st \in JobStates : Progress(j, st)
                       \/ ObserveIntent(j) \/ ObserveByName(j)
                       \/ \E i \in Ids : ObserveForeign(j, i)
    \/ \E i \in Ids : \/ RecordStub(i) \/ Settle(i) \/ RecordMissing(i)
                      \/ ReleaseUnconfirmed(i)
    \/ \E t \in Titles : \/ PrimeTitleState(t)
                         \/ \E i \in Ids, j \in Jobs : PrimeMissing(t, i, j)

Next == (\E s \in Submitters : Attempt(s)) \/ Others \/ Restart

Spec == Init /\ [][Next]_vars

-----------------------------------------------------------------------------
(* Properties.                                                              *)

\* A client job is bound to at most one download: whatever the observer, the
\* acceptance and an adoption do to the same job, one download owns it.
OneDownloadPerJob ==
    \A j \in Jobs : \A i, o \in Bound(j) : i = o

\* The intent i was bound by its name to a job somebody else added.
BoundAstray(i) == row[i].item # None /\ job[row[i].item].tok = None

\* A standard grab that holds its title's scope: its intent waits for a job, or
\* it is bound to a running job this program asked for.
Live(i) ==
    /\ row[i].sub /\ ~row[i].for.extra
    /\ \/ row[i].bind = "unbound"
       \/ /\ row[i].bind = "bound"
          /\ job[row[i].item].st \in Blocking /\ job[row[i].item].tok # None

\* A title has two standard grabs under way only if one of them was decided on a
\* cached title state that missed something the store had, or on a listing the
\* client did not answer.
DoubleGrabWasBlind ==
    \A i, o \in Ids :
        i # o /\ Live(i) /\ Live(o) /\ row[i].title = row[o].title =>
            i \in blind \/ o \in blind

\* A job of ours that is running always resolves to a download: the intent it
\* carries is waiting for it, or a download is bound to it.  Only a deletion
\* decided on a listing the client did not answer can lose it, or the observer,
\* if it took somebody else's job of the same name for it.
JobIsTracked ==
    \A j \in Jobs :
        job[j].st \in Blocking /\ job[j].tok # None =>
            \/ row[job[j].tok].sub /\ row[job[j].tok].bind = "unbound"
            \/ Bound(j) # {}
            \/ \E i \in blind : row[i].item = j
            \/ BoundAstray(job[j].tok)

\* A reusable listing is missing no grab whose submit has returned, whichever
\* title it was for and whoever was reading the queue meanwhile.
CachedListingCoversGrabs ==
    shared # None /\ shared.full =>
        \A j \in Jobs :
            \/ job[j].st \notin Blocking \/ job[j].tok = None
            \/ shared.at[j] \in OnClient
            \/ \E s \in Submitters : pc[s] = "answered" /\ att[s].id = job[j].tok

\* While a claim on a title is uncertain, nobody is deciding or submitting for
\* that title.
ClaimFencesTitle ==
    \A s \in Submitters :
        pc[s] \notin {"idle", "claims"} => claim[att[s].title] = None

\* Attempts on one title do not overlap: the title's lock is held from the first
\* look at the claims to the return.
OneAttemptPerTitle ==
    \A s, o \in Submitters :
        pc[s] # "idle" /\ pc[o] # "idle" /\ att[s].title = att[o].title => s = o

\* A running attempt is about a title, under an id in use.
AttemptsAreAbout ==
    \A s \in Submitters :
        pc[s] # "idle" => att[s].title \in Titles /\ att[s].id \in Ids

\* The part of the inductive invariant about who attempts what.
CoreInv == /\ TypeOK
           /\ AttemptsAreAbout
           /\ OneAttemptPerTitle
           /\ ClaimFencesTitle
           /\ OneDownloadPerJob

\* The id of the attempt is the one it was given, not one it adopts.
Own(s) == pc[s] \notin {"idle", "adopting", "claiming"}

\* The attempt has not stored its intent yet.
Early(s) == pc[s] \in {"claims", "state", "snapshot", "fetching", "decide",
                       "conflicts", "replacing", "replaced", "prepare"}

\* The attempt has a job of the client in hand.
HasItem(s) == \/ pc[s] \in {"replaced", "recording", "adopting", "claiming"}
              \/ pc[s] = "answered" /\ att[s].answer = "ok"

\* The client has, or had, job j.
Exists(j) == j \in Jobs /\ job[j].st # "absent"

\* No job but j carries the token i.
OnlyJob(i, j) == \A k \in Jobs : job[k].tok = i => k = j

\* A download that was never bound names no job.
ItemMeansBound ==
    \A i \in Ids : row[i].bind \in {"none", "unbound"} => row[i].item = None

\* A new id is on no row, on no job and in no claim.
NewIdsAreBlank ==
    /\ \A i \in Ids \ minted : row[i].bind = "none" /\ row[i].title = None
    /\ \A j \in Jobs : job[j].tok \in minted \cup {None}
    /\ \A t \in Titles : claim[t] # None /\ claim[t].known => claim[t].id \in minted

\* Whoever names a job names one the client has, or had.
ItemsExist ==
    /\ \A j \in Jobs : job[j].st = "absent" => job[j].tok = None
    /\ \A i \in Ids : row[i].item # None => Exists(row[i].item)
    /\ \A s \in Submitters : HasItem(s) => Exists(att[s].item)
    /\ \A t \in Titles :
          claim[t] # None /\ claim[t].kind = "accepted" => Exists(claim[t].item)

OneJobPerToken == \A i \in Ids : \A j, k \in Jobs :
                      job[j].tok = i /\ job[k].tok = i => j = k

\* Nobody else writes the rows of an attempt's own id.
OwnIdIsOwn ==
    \A s \in Submitters : Own(s) =>
        /\ att[s].id \in minted
        /\ \A o \in Submitters :
              /\ Own(o) /\ att[o].id = att[s].id => o = s
              /\ pc[o] = "claiming" => att[o].id # att[s].id
              /\ pc[o] # "idle" /\ att[s].id \in att[o].subs =>
                    att[o].title = att[s].title
        /\ \A t \in Titles :
              /\ claim[t] # None /\ claim[t].known => claim[t].id # att[s].id
              /\ cache[t] # None /\ att[s].id \in cache[t].subs => t = att[s].title

\* How far the attempt is shows in the store and in the client.
OwnIdProgress ==
    \A s \in Submitters :
        LET i == att[s].id IN
        /\ Early(s) => /\ row[i].bind = "none" /\ row[i].title = None
                       /\ OnlyJob(i, None)
        /\ pc[s] \in {"submitting", "answered", "recording"} =>
              row[i].title = att[s].title
        /\ pc[s] = "submitting" =>
              /\ OnlyJob(i, None)
              /\ (row[i].sub /\ row[i].bind = "unbound") \/ BoundAstray(i)
        /\ pc[s] = "answered" /\ att[s].answer = "refused" => OnlyJob(i, None)
        /\ pc[s] \in {"answered", "recording"} /\ HasItem(s) =>
              OnlyJob(i, att[s].item)

\* An acceptance kept in memory is about the one job with its token, or about a
\* download that is that job's already.
AcceptedClaims ==
    \A t \in Titles : claim[t] # None /\ claim[t].kind = "accepted" =>
        /\ claim[t].known
        /\ \/ OnlyJob(claim[t].id, claim[t].item)
           \/ row[claim[t].id].item = claim[t].item

\* An adopted download is the job's; the submissions of a title state have jobs;
\* a job that is being replaced is over.
AttemptsAgree ==
    /\ \A s \in Submitters :
          /\ pc[s] \in {"adopting", "claiming"} => row[att[s].id].item = att[s].item
          /\ pc[s] # "idle" => \A i \in att[s].subs : row[i].item # None
          /\ pc[s] = "replaced" => job[att[s].item].st \notin Blocking
    /\ \A t \in Titles :
          cache[t] # None => \A i \in cache[t].subs : row[i].item # None

\* Somebody but the attempt that made job j is to record it, or has.
TakenUp(j) ==
    \/ \E i \in Ids : i # job[j].tok /\ row[i].item = j
    \/ \E s \in Submitters : pc[s] \in {"recording", "adopting", "claiming"}
                               /\ att[s].item = j
    \/ \E t \in Titles : /\ claim[t] # None /\ claim[t].kind = "accepted"
                         /\ claim[t].item = j

\* Listing l has every running job of ours, but for those whose submit has not
\* returned and which nobody else has met.
Covers(l) ==
    l.full => \A j \in Jobs :
        \/ job[j].st \notin Blocking \/ job[j].tok = None
        \/ l.at[j] \in OnClient \ {"failed"}
        \/ /\ \E s \in Submitters : pc[s] = "answered" /\ att[s].id = job[j].tok
           /\ ~TakenUp(j)

\* The listings that are, or may still become, reusable.
ListingsCover ==
    /\ shared # None => Covers(shared)
    /\ \A s \in Submitters : pc[s] = "fetching" /\ att[s].fresh => Covers(att[s].listing)

\* An attempt decides on a listing that has every running job of its title state.
DecidesOnEvidence ==
    \A s \in Submitters : pc[s] = "decide" /\ att[s].listing.full =>
        \A i \in att[s].subs :
            LET j == row[i].item IN
            \/ job[j].st \notin Blocking \/ job[j].tok = None
            \/ Seen(s, i) \in OnClient \ {"failed"}

\* The part of the inductive invariant about who keeps track of which job.
TrackInv == /\ CoreInv
            /\ ItemMeansBound /\ NewIdsAreBlank /\ ItemsExist /\ OneJobPerToken
            /\ OwnIdIsOwn /\ OwnIdProgress /\ AcceptedClaims /\ AttemptsAgree
            /\ ListingsCover /\ DecidesOnEvidence
            /\ JobIsTracked

\* An intent or a binding of a title has its submission, a binding has its job,
\* and a download without a title is for a job somebody else added.
RowsAgree ==
    \A i \in Ids :
        /\ row[i].bind = "unbound" => row[i].title # None
        /\ row[i].bind \in {"unbound", "bound"} /\ row[i].title # None => row[i].sub
        /\ row[i].bind = "bound" => row[i].item # None
        /\ row[i].item # None /\ row[i].title = None => BoundAstray(i)

\* A settled download has a job, and the job is over.
SettledIsOver ==
    \A i \in Ids : row[i].done => /\ row[i].item # None
                                  /\ job[row[i].item].st \notin Blocking

\* Download i is what title t asked for, or it is bound to somebody else's job.
AskedFor(i, t, for) ==
    BoundAstray(i) \/ (row[i].bind # "none" /\ row[i].title = t /\ row[i].for = for)

\* Whoever is to record an acceptance has asked for it.
RecordsAskedFor ==
    /\ \A s \in Submitters :
          /\ pc[s] \in {"submitting", "answered", "recording"} =>
                AskedFor(att[s].id, att[s].title, att[s].for)
          /\ pc[s] = "claiming" => BoundAstray(att[s].id)
    /\ \A t \in Titles : claim[t] # None /\ claim[t].known =>
          AskedFor(claim[t].id, t, claim[t].for)

\* What listing l says of a running job is that it was running; it says nothing
\* of a job yet to come, and an unanswered one says nothing at all.
Truthful(l) ==
    \A j \in Jobs : /\ job[j].st \in Blocking => l.at[j] \in Blocking \cup {"absent"}
                    /\ job[j].st = "absent" \/ ~l.full => l.at[j] = "absent"

ListingsAreTruthful ==
    /\ shared # None => Truthful(shared)
    /\ \A s \in Submitters : Truthful(att[s].listing)

Deciding == {"decide", "conflicts", "replacing", "replaced"}

\* An attempt goes on with the evidence it decides on, and replaces on nothing
\* less than an answered listing.
KeepsEvidence ==
    \A s \in Submitters :
        /\ pc[s] \in Deciding /\ att[s].listing.full =>
              \A i \in att[s].subs :
                  LET j == row[i].item IN
                  job[j].st \in Blocking /\ job[j].tok # None => Seen(s, i) \in Blocking
        /\ pc[s] \in {"replacing", "replaced"} => att[s].listing.full

\* An attempt that is not blind knows every grab under way for its title.
KnowsItsTitle ==
    \A s \in Submitters :
        pc[s] \in {"snapshot", "fetching"} \cup Deciding /\ ~att[s].blind =>
            \A i \in Ids : row[i].title = att[s].title /\ Live(i) => i \in att[s].subs

\* One that is to store the intent of a standard grab has found none.
DecidedAlone ==
    \A s \in Submitters :
        pc[s] = "prepare" /\ ~att[s].blind /\ ~att[s].for.extra =>
            \A i \in Ids : row[i].title = att[s].title => ~Live(i)

\* The part of the inductive invariant about what an attempt knows.
GrabInv == /\ RowsAgree /\ SettledIsOver /\ RecordsAskedFor
           /\ ListingsAreTruthful /\ KeepsEvidence /\ KnowsItsTitle
           /\ DecidedAlone /\ DoubleGrabWasBlind

\* The inductive invariant.
IInv == TrackInv /\ GrabInv

\* What a title's scope sees of this: a grab that is live holds it.
Scopes == [i \in Ids |-> IF Live(i) THEN row[i].title ELSE None]
Used == {i \in Ids : row[i].title # None}

Grabs == INSTANCE TitleGrabs WITH scope <- Scopes, used <- Used, unsure <- blind

\* A grab takes the scope of its title once, when its intent is stored, and only
\* if no other grab holds it or the evidence was incomplete; it holds it for one
\* title, and once it has let it go nothing brings it back, neither the answer to
\* its request, nor a recovered claim, an adoption, the observer or a restart.
ImplementsGrabs == Grabs!Spec

\* What the repository says and these instances refute.

\* A grab the client holds but whose acceptance is unresolved blocks another
\* submission on the title
\* (queue_existing_title_download_blocks_a_durable_unbound_submission).
UnresolvedAcceptanceBlocks ==
    \A s \in Submitters : \A j \in Jobs :
        pc[s] = "submitting" /\ job[j].st \in Blocking =>
            job[j].tok \notin UnboundFor(att[s].title) \ {att[s].id}

\* No attempt meets a job this program has already deleted (a snapshot may only
\* answer for a queue nothing has touched).
NoPhantomConflict ==
    \A s \in Submitters :
        PastExisting(s) =>
            \A i \in Conflicts(s) : job[row[i].item].st # "removed"

\* A settled download is not held as accepted by the cached title state.
SettledIsForgotten ==
    \A t \in Titles : cache[t] # None => \A i \in cache[t].accepted : ~row[i].done

\* The fence an adoption left for want of a row refuses nobody once the row is
\* there.
FenceEndsWithReconciliation ==
    [][\A s \in Submitters :
         RefuseAmbiguous(s) /\ ~claim[att[s].title].known
            => ~row[claim[att[s].title].id].sub]_vars

\* A download some title owns is not taken over by another title.
OwnedDownloadKeepsItsTitle ==
    [][\A i \in Ids : row[i].sub /\ row[i].title # None => row'[i].title = row[i].title]_vars

-----------------------------------------------------------------------------
(* Liveness.                                                                *)

Fairness ==
    /\ \A s \in Submitters : WF_vars(Attempt(s) /\ pc[s] # "idle")
    /\ \A j \in Jobs : WF_vars(ObserveIntent(j))
    /\ \A i \in Ids : WF_vars(ReleaseUnconfirmed(i))

FairSpec == Spec /\ Fairness

\* No intent waits for a job for ever: it is accepted, withdrawn, bound by the
\* observer or released, also when the process stops in the middle.  The
\* exception is an intent whose job another download was bound to.
IntentsResolve ==
    \A i \in Ids :
        row[i].bind = "unbound" ~>
            \/ row[i].bind # "unbound"
            \/ \E j \in Jobs : job[j].tok = i /\ Bound(j) # {}

=============================================================================
