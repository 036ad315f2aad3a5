------------------------ MODULE DownloadQueueCommands ------------------------
(***************************************************************************)
(* Deleting a download.  A user, or the purge of a title, queues a delete   *)
(* command; a poller takes the queued commands one by one, deletes the item *)
(* in the client, finalizes the download as ignored, deletes its submission *)
(* and ends its binding.  Meanwhile the queue observer resolves what it has *)
(* listed to download identities, grabs are accepted under item ids the     *)
(* client may use again, a password retry may move a download to another    *)
(* item, and the process may stop between any two steps.                    *)
(*                                                                          *)
(* One configured client stands for all; a step ends where the code awaits. *)
(* The queue read model, the tracker's memory and the guard caches that a   *)
(* delete also invalidates are rebuilt by the next poll and left out.       *)
(***************************************************************************)
EXTENDS Naturals, FiniteSets

CONSTANTS
    Ids,          \* download ids
    Items,        \* native item ids of the client
    MaxCommands,  \* rows the command table can hold at a time
    MaxRequests,  \* delete requests under way at a time
    MaxRetries,   \* password retries under way at a time
    MaxListed,    \* jobs a listing of the client can hold
    Orphans,      \* downloads whose binding an old migration ended, unfinished
    Tagging,      \* may the client report the wire token of a job
    Places,       \* where the client keeps jobs
    Outcomes,     \* how the tracker may settle a download
    Protected,    \* downloads whose job may fail for want of a password
    Foreign,      \* may jobs appear that nobody here asked for
    MaxPurges,    \* downloads being purged at a time; 0: nor is the client deleted
    Faults,       \* may the store and the client fail
    Restarts,     \* may the process stop and start again
    None

ASSUME NoneAssumption == None \notin Ids \cup Items
ASSUME OrphansAssumption == Orphans \subseteq Ids /\ Protected \subseteq Ids
ASSUME CommandsAssumption == MaxCommands \in Nat
ASSUME BoundsAssumption == MaxRequests \in Nat /\ MaxRetries \in Nat /\ MaxListed \in Nat
                           /\ MaxPurges \in Nat
ASSUME SwitchesAssumption == /\ Tagging \subseteq BOOLEAN /\ Tagging # {}
                             /\ Places \subseteq {"queue", "history"} /\ "queue" \in Places
                             /\ Outcomes \subseteq {"ignored", "kept"}
                             /\ Foreign \in BOOLEAN /\ Faults \in BOOLEAN /\ Restarts \in BOOLEAN

VARIABLES
    dl,        \* download id -> its binding, its submission, its tracked state
    job,       \* item -> the job the client holds under it, or None
    accepting, \* acceptances by the client that are not recorded yet
    obs,       \* observations listed by the queue poller, not resolved yet
    cmd,       \* command id -> its row
    asked,     \* delete requests whose download has been looked up
    purging,   \* downloads of a title that is being purged
    retries,   \* password retries whose request to the client is under way
    exec       \* the delete poller

vars == <<dl, job, accepting, obs, cmd, asked, purging, retries, exec>>

Commands == 1 .. MaxCommands

NoDownload == [bind |-> "none", item |-> None, over |-> FALSE, sub |-> FALSE,
               state |-> "open", retry |-> "none", late |-> {}, left |-> {}]
NoCommand == [status |-> "none", item |-> None, place |-> "queue", id |-> None,
              own |-> FALSE]
IdlePoller == [pc |-> "idle", todo |-> {}, c |-> 0, id |-> None, both |-> FALSE]

\* bind: the row of download_client_bindings ("unbound": no client job yet);
\* over: downloads.terminal_at; sub: a titled submission; state: the tracked
\* state, "failed" for want of a password, "kept" for imported or failed for
\* good; retry: password_retry_state (claimed, accepted under the same or under
\* another item, confirmed by progress); late: the commands created before
\* last_seen_at; left: history, the items a retry has moved it away from.
Downloads == [bind : {"none", "unbound", "bound", "ended"}, item : Items \cup {None},
              over : BOOLEAN, sub : BOOLEAN, state : {"open", "ignored", "failed", "kept"},
              retry : {"none", "claimed", "same", "moved", "confirmed"},
              late : SUBSET Commands, left : SUBSET Items]
JobsOf == [dl : Ids \cup {None}, tok : BOOLEAN, place : Places]
Observations == [item : Items, tok : Ids \cup {None},
                 st : {"seen", "conflict", "proven", "again"}, other : Ids \cup {None},
                 seen : SUBSET Commands]   \* the commands created before the listing
\* own: the canonical id was given when the row was inserted, not added later.
Rows == [status : {"none", "queued", "running", "completed"}, item : Items \cup {None},
         place : Places, id : Ids \cup {None}, own : BOOLEAN]
Requests == [item : Items, place : Places, id : Ids \cup {None}]
\* merge: the title was merged away or dropped; retire, keep: it was deleted by
\* a user, and this download goes with it or stays live.
Purged == [id : Ids, how : {"merge", "retire", "keep"}]
\* mine: the claim of this attempt is still the stored one.
Retries == [id : Ids, item : Items, mine : BOOLEAN, to : Items \cup {None},
            answer : {"sent", "accepted", "refused", "uncertain"}]
Snapshots == [c : Commands, id : Ids \cup {None}]
Steps == {"idle", "list", "loop", "identify", "check", "fence", "client",
          "finalize", "ignore", "settle", "local", "complete", "end"}

TypeOK ==
    /\ dl \in [Ids -> Downloads]
    /\ job \in [Items -> JobsOf \cup {None}]
    /\ accepting \subseteq [id : Ids, item : Items]
    /\ obs \subseteq Observations
    /\ cmd \in [Commands -> Rows]
    /\ asked \subseteq Requests
    /\ purging \subseteq Purged
    /\ retries \subseteq Retries
    /\ exec \in [pc : Steps, todo : SUBSET Snapshots, c : 0 .. MaxCommands,
                 id : Ids \cup {None}, both : BOOLEAN]

Init ==
    /\ dl = [i \in Ids |-> IF i \in Orphans
                           THEN [NoDownload EXCEPT !.bind = "ended", !.sub = TRUE]
                           ELSE NoDownload]
    /\ job = [k \in Items |-> None]
    /\ accepting = {} /\ obs = {} /\ asked = {} /\ purging = {} /\ retries = {}
    /\ cmd = [c \in Commands |-> NoCommand]
    /\ exec = IdlePoller

-----------------------------------------------------------------------------
(* The registry.                                                            *)

\* find_active_binding_by_locator.
Bound(k) == {i \in Ids : dl[i].bind = "bound" /\ dl[i].item = k}
HolderOf(k) == IF Bound(k) = {} THEN None ELSE CHOOSE i \in Bound(k) : TRUE

Known == {c \in Commands : cmd[c].status # "none"}

\* An id nothing refers to yet.
Fresh(i) == /\ dl[i] = NoDownload
            /\ \A k \in Items : job[k] # None => job[k].dl # i
            /\ \A o \in obs : o.tok # i
            /\ \A a \in accepting : a.id # i
            /\ \A p \in purging : p.id # i

\* The binding of i names item k, and was seen after the commands C were created.
BindTo(d, i, k, C) == [d EXCEPT ![i].bind = "bound", ![i].item = k, ![i].late = C]

\* create_foreign_observation_tx: a download nobody here submitted, in state s.
Mint(d, i, k, s, C) ==
    [d EXCEPT ![i] = [NoDownload EXCEPT !.bind = "bound", !.item = k, !.state = s,
                                        !.late = C]]

\* Mutant: the download is not stamped terminal with its binding.
End_Unstamped(d, i) ==
    [d EXCEPT ![i].bind = IF d[i].bind \in {"bound", "unbound"} THEN "ended" ELSE d[i].bind]

\* end_binding_tx: the binding ends and the download is terminal.
End(d, i) ==
    [d EXCEPT ![i].bind = IF d[i].bind \in {"bound", "unbound"} THEN "ended" ELSE d[i].bind,
              ![i].over = TRUE]

\* Mutant: the binding is only taken off the item.
EndBinding_Unbinds(d, i) == [d EXCEPT ![i].bind = "unbound", ![i].item = None]

\* A password retry is pending: DOWNLOAD_PASSWORD_RETRY_REASON.
Fenced(d, i) == d[i].retry \in {"claimed", "same", "moved"}

\* end_bindings: refused while a password retry is pending on the binding.
EndBinding(d, i) == IF Fenced(d, i) /\ d[i].bind = "bound" THEN d ELSE End(d, i)

-----------------------------------------------------------------------------
(* The client, and grabs.                                                   *)

\* The intent of a grab is stored, and the client accepts it as item k, which
\* it may have used before.
Submit(i, k) ==
    /\ Fresh(i) /\ job[k] = None
    /\ dl' = [dl EXCEPT ![i] = [NoDownload EXCEPT !.bind = "unbound", !.sub = TRUE]]
    /\ \E t \in Tagging : job' = [job EXCEPT ![k] = [dl |-> i, tok |-> t, place |-> "queue"]]
    /\ accepting' = accepting \cup {[id |-> i, item |-> k]}
    /\ UNCHANGED <<obs, cmd, asked, purging, retries, exec>>

\* Mutant: another download's binding of the item is kept.
Accepted_KeepsStale(i, k) == BindTo(dl, i, k, Known)

\* The item belongs to another download, which is not finished.
Adopts(i, k) == LET h == HolderOf(k) IN h \notin {None, i} /\ dl[h].state = "open"

\* record_submission_with_identity: such a holder keeps the item and the intent
\* is withdrawn; a finished one ends; a binding this grab already has is kept.
Accepted(i, k) ==
    LET h == HolderOf(k)
    IN  CASE Adopts(i, k) ->
                [dl EXCEPT ![i] = IF dl[i].bind = "unbound" THEN NoDownload ELSE dl[i]]
          [] h \notin {None, i} /\ dl[h].state # "open" /\ dl[i].bind = "unbound" ->
                BindTo(End(dl, h), i, k, Known)
          [] h = i -> [dl EXCEPT ![i].sub = TRUE]
          [] h = None /\ dl[i].bind = "unbound" -> BindTo(dl, i, k, Known)
          [] OTHER -> dl

\* A holder without a submission is given this one: adopt_canonical_download
\* records it again, under the holder.
RecordAccepted(a) ==
    LET h == HolderOf(a.item)
    IN  /\ dl' = Accepted(a.id, a.item)
        /\ accepting' = (accepting \ {a}) \cup
              (IF Adopts(a.id, a.item) /\ ~dl[h].sub THEN {[id |-> h, item |-> a.item]} ELSE {})
        /\ UNCHANGED <<job, obs, cmd, asked, purging, retries, exec>>

\* A job appears that nobody here asked for, or one of an orphaned download.
Appear(k) ==
    /\ job[k] = None
    /\ \/ /\ Foreign
          /\ job' = [job EXCEPT ![k] = [dl |-> None, tok |-> FALSE, place |-> "queue"]]
       \/ \E i \in Orphans : /\ dl[i].bind = "ended" /\ ~dl[i].over
                             /\ job' = [job EXCEPT ![k] = [dl |-> i, tok |-> TRUE,
                                                           place |-> "queue"]]
    /\ UNCHANGED <<dl, accepting, obs, cmd, asked, purging, retries, exec>>

\* A job moves to the client's history, or leaves the client.
Move(k) ==
    /\ job[k] # None
    /\ \/ job' = [job EXCEPT ![k] = None]
       \/ /\ "history" \in Places /\ job[k].place = "queue"
          /\ job' = [job EXCEPT ![k].place = "history"]
    /\ UNCHANGED <<dl, accepting, obs, cmd, asked, purging, retries, exec>>

-----------------------------------------------------------------------------
(* The queue observer.                                                      *)

\* The poll lists what the client holds.
List ==
    LET listed == {k \in Items : job[k] # None}
    IN  /\ obs = {} /\ Cardinality(listed) <= MaxListed
        /\ obs' = {[item |-> k, st |-> "seen", other |-> None,
                    tok |-> IF job[k].tok THEN job[k].dl ELSE None, seen |-> Known] :
                       k \in listed}
        /\ UNCHANGED <<dl, job, accepting, cmd, asked, purging, retries, exec>>

Conflicting(o) == LET h == HolderOf(o.item)
                  IN  h # None /\ o.tok # None /\ o.tok # h

\* resolve_against_active_locator_tx: the item has a holder, whose last_seen_at
\* is written unless it is recent.
ResolveHeld(o) ==
    LET h == HolderOf(o.item)
    IN  /\ h # None /\ ~Conflicting(o)
        /\ dl' \in {dl, [dl EXCEPT ![h].late = dl[h].late \cup o.seen]}

\* Mutant: an ended download is bound again whether it is over or not.
Rebinds_Over(i) == dl[i].bind = "ended"

Rebinds(i) == dl[i].bind = "ended" /\ ~dl[i].over

\* resolve_observation_tx by the wire token of a free item.
ResolveToken(o) ==
    /\ HolderOf(o.item) = None /\ o.tok # None
    /\ dl' = CASE dl[o.tok].bind = "unbound" \/ Rebinds(o.tok) ->
                    BindTo(dl, o.tok, o.item, o.seen)
               [] dl[o.tok] = NoDownload -> Mint(dl, o.tok, o.item, "open", o.seen)
               [] OTHER -> dl

\* ... and without one: the only pending intent of that name, whichever it is,
\* takes the item; an item this program was done with is left alone; any other
\* is a new download.
ResolveNamed(o) ==
    /\ HolderOf(o.item) = None /\ o.tok = None
    /\ \/ \E i \in Ids : /\ dl[i].bind = "unbound" /\ dl[i].sub
                        /\ dl' = BindTo(dl, i, o.item, o.seen)
       \/ IF \E i \in Ids : dl[i].bind = "ended" /\ dl[i].item = o.item
          THEN UNCHANGED dl
          ELSE \E i \in Ids : Fresh(i) /\ dl' = Mint(dl, i, o.item, "open", o.seen)

Resolve(o) ==
    /\ o.st \in {"seen", "again"}
    /\ \/ /\ ResolveHeld(o) \/ ResolveToken(o) \/ ResolveNamed(o)
          /\ obs' = obs \ {o}
       \/ /\ Conflicting(o) /\ UNCHANGED dl
          /\ obs' = (obs \ {o}) \cup
                (IF o.st = "again" THEN {}
                 ELSE {[o EXCEPT !.st = "conflict", !.other = HolderOf(o.item)]})
       \/ Faults /\ UNCHANGED dl /\ obs' = obs \ {o}
    /\ UNCHANGED <<job, accepting, cmd, asked, purging, retries, exec>>

Completed(k, p) == {c \in Commands : /\ cmd[c].status = "completed"
                                     /\ cmd[c].item = k /\ cmd[c].place = p}

\* completed_delete_proves_stale_binding: the newest completed command of a
\* place named download i, or named none and was created after i was last seen.
Proven(i, k) == \E p \in Places : \E c \in Completed(k, p) :
                   /\ \A d \in Completed(k, p) : d <= c
                   /\ \/ cmd[c].id = i
                      \/ cmd[c].id = None /\ c \notin dl[i].late

\* heal_binding_after_completed_delete: the holder is still the one that
\* conflicted, and a completed delete proves it stale ...
ProveStale(o) ==
    /\ o.st = "conflict"
    /\ obs' = (obs \ {o}) \cup
          (IF HolderOf(o.item) = o.other /\ Proven(o.other, o.item)
           THEN {[o EXCEPT !.st = "proven"]} ELSE {})
    /\ UNCHANGED <<dl, job, accepting, cmd, asked, purging, retries, exec>>

\* ... so its binding is ended, and the observation is resolved once more.
Heal(o) ==
    /\ o.st = "proven"
    /\ dl' = EndBinding(dl, o.other)
    /\ obs' = (obs \ {o}) \cup
          (IF dl'[o.other].bind = "bound" THEN {} ELSE {[o EXCEPT !.st = "again"]})
    /\ UNCHANGED <<job, accepting, cmd, asked, purging, retries, exec>>

\* password_retry_observation: a retry the tracker has to wait for.
Awaited(i) == /\ dl[i].sub /\ dl[i].bind = "bound" /\ dl[i].retry # "none"
              /\ dl[i].state \notin {"ignored", "kept"}

\* record_missing_client_download: the client no longer lists the item; a
\* foreign or finished download is ended.
RetireAbsent(i) ==
    /\ dl[i].bind = "bound" /\ ~Awaited(i) /\ job[dl[i].item] = None
    /\ ~dl[i].sub \/ dl[i].state # "open"
    /\ dl' = EndBinding(dl, i)
    /\ UNCHANGED <<job, accepting, obs, cmd, asked, purging, retries, exec>>

\* The tracker settles a download.
Settle(i) ==
    /\ dl[i].bind = "bound" /\ dl[i].state = "open"
    /\ \E s \in Outcomes \cup (IF i \in Protected THEN {"failed"} ELSE {}) :
          dl' = [dl EXCEPT ![i].state = s]
    /\ UNCHANGED <<job, accepting, obs, cmd, asked, purging, retries, exec>>

-----------------------------------------------------------------------------
(* Password retries.                                                        *)

\* claim_remote_password_retry: the job failed for want of a password, or an
\* earlier retry was never answered; that one's request has ended, for it is
\* replaced only after the request's own time limit.
ClaimRetry(i) ==
    /\ Cardinality(retries) < MaxRetries
    /\ dl[i].bind = "bound" /\ dl[i].sub /\ dl[i].state = "failed"
    /\ \/ ~Fenced(dl, i)
       \/ dl[i].retry = "claimed" /\ \A r \in retries : r.id = i => ~r.mine
    /\ dl' = [dl EXCEPT ![i].retry = "claimed"]
    /\ retries' = {IF r.id = i THEN [r EXCEPT !.mine = FALSE] ELSE r : r \in retries}
                   \cup {[id |-> i, item |-> dl[i].item, mine |-> TRUE, to |-> None,
                           answer |-> "sent"]}
    /\ UNCHANGED <<job, accepting, obs, cmd, asked, purging, exec>>

\* The client refuses, or starts the job again, under its item or another one;
\* its answer may be lost.
RetryJob(r) ==
    /\ r.answer = "sent"
    /\ \/ /\ UNCHANGED job
          /\ \E a \in {"refused", "uncertain"} :
                retries' = (retries \ {r}) \cup {[r EXCEPT !.answer = a]}
       \/ \E k \in Items, a \in {"accepted", "uncertain"} :
             /\ job[r.item] # None /\ (k = r.item \/ job[k] = None)
             /\ job' = [[job EXCEPT ![r.item] = None]
                           EXCEPT ![k] = [job[r.item] EXCEPT !.place = "queue"]]
             /\ retries' = (retries \ {r}) \cup
                   {[r EXCEPT !.answer = a, !.to = IF a = "accepted" THEN k ELSE None]}
    /\ UNCHANGED <<dl, accepting, obs, cmd, asked, purging, exec>>

\* The stored claim is this attempt's, and its binding has not ended.
Owns(r) == dl[r.id].sub /\ dl[r.id].retry # "none" /\ r.mine /\ dl[r.id].bind = "bound"

\* Mutant: whoever holds the item the client answered with.
MayMove_Taken(r) == dl[r.id].item = r.item

\* The item the client answered with may be this download's.
MayMove(r) == HolderOf(r.to) \in {None, r.id} /\ dl[r.id].item = r.item

\* finish_remote_password_retry.  Progress that was confirmed outranks the
\* answer; a lost answer changes nothing; an accepted one moves the binding.
FinishRetry(r) ==
    LET i == r.id
        current == Owns(r) /\ dl[i].retry # "confirmed"
        moved == r.to # r.item
    IN  /\ r.answer # "sent"
        /\ \/ /\ current /\ r.answer = "accepted" /\ MayMove(r)
              /\ dl' = [dl EXCEPT ![i].item = r.to, ![i].over = FALSE, ![i].state = "failed",
                                  ![i].retry = IF moved THEN "moved" ELSE "same",
                                  ![i].left = dl[i].left \cup ({r.item} \ {r.to})]
           \/ /\ current /\ r.answer = "refused"
              /\ dl' = [dl EXCEPT ![i].state = "failed", ![i].retry = "none"]
           \/ /\ \/ Faults \/ ~current \/ r.answer = "uncertain"
                 \/ r.answer = "accepted" /\ ~MayMove(r)
              /\ UNCHANGED dl
        /\ retries' = retries \ {r}
        /\ UNCHANGED <<job, accepting, obs, cmd, asked, purging, exec>>

\* apply_password_retry_observation: the bound item is read from the client.
\* Progress confirms the retry; a failure ends it, if it is the retry's own.
ObserveRetry(i) ==
    /\ Awaited(i) /\ job[dl[i].item] # None
    /\ \/ /\ dl[i].retry # "confirmed"
          /\ dl' = [dl EXCEPT ![i].state = "open", ![i].retry = "confirmed", ![i].over = FALSE]
       \/ /\ dl[i].retry \in {"moved", "confirmed"}
          /\ dl' = [dl EXCEPT ![i].state = "open", ![i].retry = "none", ![i].over = FALSE]
    /\ UNCHANGED <<job, accepting, obs, cmd, asked, purging, retries, exec>>

-----------------------------------------------------------------------------
(* Delete commands.                                                         *)

\* delete_download_queue_item looks the item's holder up; no holder, or an
\* error, makes it a legacy command.
Ask(k, p) ==
    /\ Cardinality(asked) < MaxRequests
    /\ \E h \in {HolderOf(k)} \cup (IF Faults THEN {None} ELSE {}) :
          asked' = asked \cup {[item |-> k, place |-> p, id |-> h]}
    /\ UNCHANGED <<dl, job, accepting, obs, cmd, purging, retries, exec>>

Active(k, p) == {c \in Commands : /\ cmd[c].status \in {"queued", "running"}
                                  /\ cmd[c].item = k /\ cmd[c].place = p}

\* queue_delete_command_for_download: one active row per item and place; the
\* download is added to a row that has none, and never replaces one.  Rows are
\* numbered as they are created.
Queued(r) ==
    IF Active(r.item, r.place) = {}
    THEN \E c \in Commands :
            /\ cmd[c].status = "none" /\ \A d \in Known : d < c
            /\ cmd' = [cmd EXCEPT ![c] = [status |-> "queued", item |-> r.item,
                                          place |-> r.place, id |-> r.id,
                                          own |-> r.id # None]]
    ELSE cmd' = [c \in Commands |->
                    IF c \in Active(r.item, r.place) /\ cmd[c].id = None
                    THEN [cmd[c] EXCEPT !.id = r.id] ELSE cmd[c]]

QueueDelete(r) ==
    /\ Queued(r)
    /\ asked' = asked \ {r}
    /\ UNCHANGED <<dl, job, accepting, obs, purging, retries, exec>>

\* purge_title_dependent_records: the delete of an active download of the title
\* is queued under its id, unless a user deleted the title: then an active or
\* pending download stays live.  Not all that is open is active (a blocked
\* import, or a download without a state, is not) ...
Purge(i, h) ==
    LET active == dl[i].state = "open" /\ dl[i].item # None
    IN  /\ Cardinality(purging) < MaxPurges
        /\ dl[i].sub /\ \A p \in purging : p.id # i
        /\ h = "keep" => active \/ dl[i].bind = "unbound"
        /\ \/ h = "merge" /\ active /\ Queued([item |-> dl[i].item, place |-> "queue", id |-> i])
           \/ UNCHANGED cmd
        /\ purging' = purging \cup {[id |-> i, how |-> h]}
        /\ UNCHANGED <<dl, job, accepting, obs, asked, retries, exec>>

\* ... its binding is ended, a pending retry with it ...
RetirePurged(p) ==
    /\ p.how # "keep" /\ dl[p.id].bind \in {"bound", "unbound"}
    /\ dl' = [End(dl, p.id) EXCEPT ![p.id].retry = "none"]
    /\ UNCHANGED <<job, accepting, obs, cmd, asked, purging, retries, exec>>

\* ... and its tracked state and submission are deleted with the title's
\* records.  A binding that could not be ended is only logged after a merge.
DropPurged(p) ==
    /\ \/ p.how = "keep" \/ dl[p.id].bind \notin {"bound", "unbound"}
       \/ p.how = "merge" /\ Faults
    /\ dl' = [dl EXCEPT ![p.id].sub = FALSE, ![p.id].state = "open", ![p.id].retry = "none"]
    /\ purging' = purging \ {p}
    /\ UNCHANGED <<job, accepting, obs, cmd, asked, retries, exec>>

\* The configured client is deleted: every binding to it ends, and its downloads
\* are over.  Registered again, it lists the same jobs.
DeleteClient ==
    /\ MaxPurges # 0
    /\ dl' = [i \in Ids |-> IF dl[i].bind = "none" THEN dl[i] ELSE End(dl, i)[i]]
    /\ UNCHANGED <<job, accepting, obs, cmd, asked, purging, retries, exec>>

\* prune_terminal_delete_commands_older_than.
Prune(c) ==
    /\ cmd[c].status = "completed" /\ exec.c # c
    /\ cmd' = [cmd EXCEPT ![c] = NoCommand]
    /\ dl' = [i \in Ids |-> [dl[i] EXCEPT !.late = dl[i].late \ {c}]]
    /\ obs' = {[o EXCEPT !.seen = o.seen \ {c}] : o \in obs}
    /\ UNCHANGED <<job, accepting, asked, purging, retries, exec>>

-----------------------------------------------------------------------------
(* The delete poller.                                                       *)

Goto(p) == exec' = [exec EXCEPT !.pc = p]
NextCommand == exec' = [IdlePoller EXCEPT !.pc = "loop", !.todo = exec.todo]
Marked(c, s) == cmd' = [cmd EXCEPT ![c].status = s]
Item == cmd[exec.c].item

\* Mutant: nothing is recovered.
Recover_Never ==
    /\ exec.pc = "idle"
    /\ Goto("list")
    /\ UNCHANGED <<dl, job, accepting, obs, cmd, asked, purging, retries>>

\* recover_stale_running_delete_commands: running rows not updated for 120 s.
Recover ==
    /\ exec.pc = "idle"
    /\ \E S \in SUBSET {c \in Commands : cmd[c].status = "running"} :
          cmd' = [c \in Commands |-> IF c \in S THEN [cmd[c] EXCEPT !.status = "queued"]
                                     ELSE cmd[c]]
    /\ Goto("list")
    /\ UNCHANGED <<dl, job, accepting, obs, asked, purging, retries>>

\* list_pending_delete_commands: the rows are read once, for the whole pass.
ListPending ==
    /\ exec.pc = "list"
    /\ \/ exec' = [exec EXCEPT !.pc = "loop",
                     !.todo = {[c |-> d, id |-> cmd[d].id] :
                                 d \in {e \in Commands : cmd[e].status = "queued"}}]
       \/ Faults /\ exec' = IdlePoller
    /\ UNCHANGED <<dl, job, accepting, obs, cmd, asked, purging, retries>>

\* The next command is marked running, or skipped; after the last, the pass ends.
TakeCommand ==
    /\ exec.pc = "loop"
    /\ \/ exec.todo = {} /\ exec' = IdlePoller /\ UNCHANGED cmd
       \/ \E s \in exec.todo :
            /\ \A r \in exec.todo : s.c <= r.c
            /\ \/ /\ Marked(s.c, "running")
                  /\ exec' = [exec EXCEPT !.todo = exec.todo \ {s}, !.c = s.c, !.id = s.id,
                                          !.pc = "identify"]
               \/ /\ Faults /\ UNCHANGED cmd
                  /\ exec' = [exec EXCEPT !.todo = exec.todo \ {s}]
    /\ UNCHANGED <<dl, job, accepting, obs, asked, purging, retries>>

\* delete_command_download_id: a legacy command stands for the item's holder if
\* that was not seen after the command was created.
Identify ==
    /\ exec.pc = "identify"
    /\ \E h \in {HolderOf(Item)} \cup (IF Faults THEN {None} ELSE {}) :
          LET id == IF exec.id # None THEN exec.id
                    ELSE IF h # None /\ exec.c \notin dl[h].late THEN h ELSE None
          IN  exec' = [exec EXCEPT !.id = id, !.pc = IF id = None THEN "client" ELSE "check"]
    /\ UNCHANGED <<dl, job, accepting, obs, cmd, asked, purging, retries>>

\* delete_locator_was_rebound.
Superseded(h) == h \notin {None, exec.id}

\* The item has another holder by now: the command is complete.  If the lookup
\* fails, it stays running.
CheckRebound ==
    LET h == HolderOf(Item)
    IN  /\ exec.pc = "check"
        /\ \/ ~Superseded(h) /\ Goto("fence") /\ UNCHANGED cmd
           \/ Superseded(h) /\ Marked(exec.c, "completed") /\ NextCommand
           \/ Faults /\ NextCommand /\ UNCHANGED cmd
        /\ UNCHANGED <<dl, job, accepting, obs, asked, purging, retries>>

\* bindings_have_password_retry: then the job is deleted from both places.
ReadFence ==
    LET fenced == Fenced(dl, exec.id) /\ dl[exec.id].bind \in {"bound", "unbound"}
    IN  /\ exec.pc = "fence"
        /\ \E b \in {fenced} \cup (IF Faults THEN {FALSE} ELSE {}) :
              exec' = [exec EXCEPT !.pc = "client", !.both = b]
        /\ UNCHANGED <<dl, job, accepting, obs, cmd, asked, purging, retries>>

\* The client deletes what it holds under the item, there; failing is only
\* logged.
ClientDelete ==
    LET held == job[Item]
        there == held # None /\ (exec.both \/ held.place = cmd[exec.c].place)
    IN  /\ exec.pc = "client"
        /\ \/ job' = IF there THEN [job EXCEPT ![Item] = None] ELSE job
           \/ Faults /\ UNCHANGED job
        /\ Goto("finalize")
        /\ UNCHANGED <<dl, accepting, obs, cmd, asked, purging, retries>>

\* finalize_scryer_download_ignored_for_download reads the submission of the
\* command's download, or of the item's holder, and the holder's tracked state,
Target == IF exec.id # None THEN exec.id ELSE HolderOf(Item)

FinalizeRead ==
    LET h == HolderOf(Item)
        goes == /\ Target # None /\ dl[Target].sub
                /\ h # None => dl[h].state = "open"
    IN  /\ exec.pc = "finalize"
        /\ \/ goes /\ Goto("ignore")
           \/ (~goes \/ Faults) /\ Goto("local")
        /\ UNCHANGED <<dl, job, accepting, obs, cmd, asked, purging, retries>>

\* writes the identity state of the download, unless that is preserved,
IgnoreIdentity ==
    LET preserved == Target # None /\ dl[Target].state \in {"failed", "kept"}
    IN  /\ exec.pc = "ignore"
        /\ \/ /\ ~preserved /\ Goto("settle")
              /\ dl' = IF Target = None THEN dl ELSE [dl EXCEPT ![Target].state = "ignored"]
           \/ (preserved \/ Faults) /\ Goto("local") /\ UNCHANGED dl
        /\ UNCHANGED <<job, accepting, obs, cmd, asked, purging, retries>>

\* and the submission's state by item: for its holder, or for a download minted
\* there.  A settled holder's identity state stands.
IgnoreItem ==
    LET h == HolderOf(Item)
    IN  /\ exec.pc = "settle"
        /\ \/ /\ h # None /\ dl[h].state = "open"
              /\ dl' = [dl EXCEPT ![h].state = "ignored"]
           \/ /\ h = None
              /\ \E f \in Ids : Fresh(f) /\ dl' = Mint(dl, f, Item, "ignored", Known)
           \/ /\ \/ Faults
                 \/ h = None /\ \A f \in Ids : ~Fresh(f)
                 \/ h # None /\ dl[h].state # "open"
              /\ UNCHANGED dl
        /\ Goto("local")
        /\ UNCHANGED <<job, accepting, obs, cmd, asked, purging, retries>>

\* Mutant: the binding is ended as a caller of the registry would, which a
\* pending password retry refuses.
LocallyDeleted_Fenced ==
    IF exec.id # None
    THEN [EndBinding(dl, exec.id) EXCEPT ![exec.id].sub = FALSE]
    ELSE dl

\* delete_by_download_id, or delete_by_client_item_id for a command without a
\* download: the binding ends, and the submission goes.
LocallyDeleted ==
    IF exec.id # None
    THEN [End(dl, exec.id) EXCEPT ![exec.id].sub = FALSE]
    ELSE LET h == HolderOf(Item)
             d == IF h = None THEN dl ELSE End(dl, h)
         IN  [i \in Ids |-> IF dl[i].item = Item THEN [d[i] EXCEPT !.sub = FALSE] ELSE d[i]]

\* A failed local delete leaves the command running.
LocalDelete ==
    /\ exec.pc = "local"
    /\ \/ dl' = LocallyDeleted /\ Goto("complete")
       \/ Faults /\ UNCHANGED dl /\ NextCommand
    /\ UNCHANGED <<job, accepting, obs, cmd, asked, purging, retries>>

Complete ==
    /\ exec.pc = "complete"
    /\ Marked(exec.c, "completed") \/ (Faults /\ UNCHANGED cmd)
    /\ IF exec.id = None THEN NextCommand ELSE Goto("end")
    /\ UNCHANGED <<dl, job, accepting, obs, asked, purging, retries>>

EndExecuted ==
    /\ exec.pc = "end"
    /\ dl' = EndBinding(dl, exec.id) \/ (Faults /\ UNCHANGED dl)
    /\ NextCommand
    /\ UNCHANGED <<job, accepting, obs, cmd, asked, purging, retries>>

\* The process stops and starts again.
Restart ==
    /\ Restarts
    /\ exec' = IdlePoller /\ obs' = {} /\ asked' = {} /\ purging' = {} /\ accepting' = {}
    /\ retries' = {}
    /\ UNCHANGED <<dl, job, cmd>>

-----------------------------------------------------------------------------
Poller == \/ Recover \/ ListPending \/ TakeCommand \/ Identify \/ CheckRebound
          \/ ReadFence \/ ClientDelete \/ FinalizeRead \/ IgnoreIdentity \/ IgnoreItem
          \/ LocalDelete \/ Complete \/ EndExecuted

Observer == \/ List
            \/ \E o \in obs : Resolve(o) \/ ProveStale(o) \/ Heal(o)

Others == \/ \E k \in Items : \/ Appear(k) \/ Move(k)
                              \/ \E i \in Ids : Submit(i, k)
                              \/ \E p \in Places : Ask(k, p)
          \/ \E a \in accepting : RecordAccepted(a)
          \/ \E i \in Ids : \/ RetireAbsent(i) \/ Settle(i) \/ ClaimRetry(i) \/ ObserveRetry(i)
                            \/ \E h \in {"merge", "retire", "keep"} : Purge(i, h)
          \/ \E r \in retries : RetryJob(r) \/ FinishRetry(r)
          \/ \E p \in purging : RetirePurged(p) \/ DropPurged(p)
          \/ DeleteClient
          \/ \E r \in asked : QueueDelete(r)
          \/ \E c \in Commands : Prune(c)
          \/ Restart

Next == Poller \/ Observer \/ Others

Spec == Init /\ [][Next]_vars

\* The poller ticks every 2 s, and its store and client do not fail for ever;
\* what has been running for 120 s is recovered by some later tick.  The process
\* may stop again and again, but not always in the middle of a command.
Fairness ==
    /\ WF_vars(Poller)
    /\ SF_vars(ListPending /\ exec'.pc = "loop")
    /\ SF_vars(TakeCommand /\ exec'.pc = "identify")
    /\ SF_vars(CheckRebound /\ (cmd' # cmd \/ exec'.pc = "fence"))
    /\ SF_vars(LocalDelete /\ exec'.pc = "complete")
    /\ SF_vars(Complete /\ cmd' # cmd)
    /\ \A c \in Commands : SF_vars(Recover /\ cmd'[c].status = "queued")
    /\ <>[][Restart => exec.pc \in {"idle", "list", "loop"}]_vars

LiveSpec == Spec /\ Fairness

-----------------------------------------------------------------------------
(* Properties.                                                              *)

\* However acceptances, observations, healed bindings, finalized deletes and
\* rebound downloads interleave, no two downloads are actively bound to one
\* item: the registry's own steps keep what its unique index only backstops.
OneHolderPerItem ==
    \A i, j \in Ids : /\ dl[i].bind = "bound" /\ dl[j].bind = "bound"
                      /\ dl[i].item = dl[j].item
                      => i = j

\* A command that was queued for a download is completed only when that
\* download is over, whatever failed, stopped, was fenced, purged or superseded
\* on the way, or when a password retry has moved the download away from the
\* item the user deleted; a download an old migration left unfinished is the
\* exception.
CompletedDeleteIsOver ==
    \A c \in Commands : /\ cmd[c].status = "completed" /\ cmd[c].own
                        /\ cmd[c].id \notin Orphans
                        => dl[cmd[c].id].over \/ cmd[c].item \in dl[cmd[c].id].left

\* The invariant the proofs rest on.  A binding that is active is of a download
\* that is not over, and one that ended is of one that is, orphans apart.
BindingsAgree ==
    \A i \in Ids : /\ dl[i].bind \in {"unbound", "bound"} => ~dl[i].over
                   /\ dl[i].bind = "bound" => dl[i].item \in Items
                   /\ dl[i].bind = "ended" => dl[i].over \/ i \in Orphans
                   /\ dl[i].bind \in {"none", "unbound"} => dl[i].item = None /\ dl[i].left = {}

\* What a request or a command names is over, holds the item, or has left it.
Named(i, k) == \/ dl[i].over \/ i \in Orphans \/ k \in dl[i].left
               \/ dl[i].bind = "bound" /\ dl[i].item = k

RequestsAgree ==
    /\ \A r \in asked : r.id # None => Named(r.id, r.item)
    /\ \A c \in Commands : /\ cmd[c].own => cmd[c].id # None /\ Named(cmd[c].id, cmd[c].item)
                           /\ cmd[c].status = "none" => ~cmd[c].own
                           /\ cmd[c].status # "none" => cmd[c].item \in Items

Working == Steps \ {"idle", "list", "loop"}

\* The pass executes the rows it has listed, once each, under their downloads.
PassAgrees ==
    /\ \A s \in exec.todo : /\ cmd[s.c].status = "queued" /\ s.c # exec.c
                            /\ cmd[s.c].own => s.id = cmd[s.c].id
                            /\ \A t \in exec.todo : s.c = t.c => s = t
    /\ IF exec.pc \in Working
       THEN /\ exec.c \in Commands /\ cmd[exec.c].status # "none"
            /\ cmd[exec.c].own => exec.id = cmd[exec.c].id
       ELSE exec.c = 0
    /\ exec.pc \in {"check", "fence", "end"} => exec.id # None
    /\ exec.pc \in {"complete", "end"} /\ exec.id # None => dl[exec.id].over
    /\ exec.pc \in {"idle", "list"} => exec.todo = {}

\* An observation that conflicts knows with which download; an answer that
\* accepts a retry names an item.
ObservationsAgree == \A o \in obs : o.st \in {"conflict", "proven"} => o.other # None
AnswersAgree == \A r \in retries : r.answer = "accepted" => r.to \in Items

IInv == /\ TypeOK /\ BindingsAgree /\ OneHolderPerItem /\ RequestsAgree /\ PassAgrees
        /\ CompletedDeleteIsOver /\ ObservationsAgree /\ AnswersAgree

\* A download that is over stays over and is never bound again: not by a listing
\* read before its delete, a late acceptance, a healed conflict, the late answer
\* of a password retry or a client that is registered again.
DeletedStaysDeleted ==
    [][\A i \in Ids : dl[i].over => dl'[i].over /\ dl'[i].bind \notin {"bound", "unbound"}]_vars

\* Every queued delete is completed in the end, across failures of the store
\* and the client, and restarts at any step: with CompletedDeleteIsOver, a
\* delete queued for a download ends that download.
DeletesComplete ==
    \A c \in Commands : cmd[c].status = "queued" ~> cmd[c].status \notin {"queued", "running"}

\* The registry with its callers (acceptances, observations, healing, absence,
\* password retries, purges, the deletion of the client and the delete poller)
\* implements the identities it promises.
Life == [i \in Ids |-> IF dl[i].over THEN "over"
                       ELSE IF dl[i].bind = "none" THEN "unknown" ELSE "live"]
Holder == [k \in Items |-> HolderOf(k)]
Identity == INSTANCE DownloadIdentity WITH life <- Life, holder <- Holder
ImplementsIdentity == Identity!Spec

\* What the repository says and these instances refute.

\* A legacy command does not end a binding that was seen after the command was
\* created.
LegacyDeleteSparesNewerBinding ==
    [][/\ exec.pc = "local" /\ exec.id = None /\ exec' # exec /\ exec'.pc # "idle"
       => \A i \in Ids : /\ dl[i].bind = "bound" /\ exec.c \in dl[i].late
                          => dl'[i].bind = "bound"]_vars

\* Executing a delete command binds nothing: it ends a binding.
DeleteBindsNothing ==
    [][/\ exec.pc = "settle" /\ exec'.pc = "local"
       => \A i \in Ids : dl'[i].bind = "bound" => dl[i].bind = "bound"]_vars

\* A command that names a download takes no other download's job from the
\* client.
DeleteTakesOwnJob ==
    [][\A k \in Items :
          /\ exec.pc = "client" /\ exec.id # None /\ exec' # exec
          /\ job[k] # None /\ job'[k] = None
          => job[k].dl \in {None, exec.id}]_vars

\* Once a delete that names a download has ended it, the client holds no job of
\* it under another item.
DeleteFollowsRetry ==
    [][\A k \in Items :
          /\ exec.pc = "local" /\ exec'.pc = "complete" /\ exec.id # None
          /\ dl[exec.id].left # {} /\ job[k] # None
          => job[k].dl # exec.id]_vars

\* A command that names a download leaves the tracked state of the item's new
\* holder alone.
ReusedItemKeepsItsState ==
    [][/\ exec.pc = "settle" /\ exec'.pc = "local" /\ exec.id # None
       => \A i \in Ids \ {exec.id} : dl[i].bind = "bound" => dl'[i].state = dl[i].state]_vars
=============================================================================
