# Scryer: a TLA+ model of the acquisition core

Scryer keeps a catalogue of titles, looks for releases of them on indexers, hands
releases to download clients and imports what the clients finish.  This directory
holds TLA+ modules that model the part of that program where its state is hard to
keep right, the TLC configurations that check them on small instances, and proofs
that TLAPS checks for instances of any size.

Paths below are relative to `src/crates/`; `app/` stands for
`scryer-application/src/` and `stores/` for
`scryer-infrastructure-workflow/src/workflow/stores/`.

## The system, by component

`PROJECT.json` lists every component with its status.  The ones that carry state
and concurrency of their own are these.

| Component | State | Operations | Hard because | Correct if |
| --- | --- | --- | --- | --- |
| Title walk locks (`app/services/guards.rs`) | weak table of per-title slots, a FIFO mutex and a yield token per slot | `try_acquire`, `acquire`, `try_acquire_background`, drop | the table holds weak handles; an operator overtakes a background walk that is taking or leaving the title | one walk per title; the walk in the way, and no other, is told to yield; the operator is served |
| Walk priority (`app/services/guards.rs`) | count of RSS visits, token of the background cycle | `begin_rss`, `begin_background`, drop | visits overlap and begin between two looks at the token | no walk starts under RSS; the cycle winds up |
| Background poller (`app/acquisition/workflow/task_runner.rs`) | cursors, timers, batch | dispatch of walks, retries | cancellations, early returns | scopes are walked again |
| Canonical submission (`app/acquisition/submission.rs`) | none of its own; works on the guard table and the store | `submit_canonical_download`, `adopt_canonical_download` | a dozen awaits, each of which may fail, between evidence and act | no second grab of a scope, no job without an owner |
| Submission guard table (`app/services/guards.rs`) | title locks, title states (30 s), client listing with generation, uncertain claims | `acquire_title`, `cached_title_state`, `store_client_snapshot`, `invalidate_client_snapshots`, `uncertain_claim`, ... | caches shared between titles, filled from reads that are already old | a cached answer is never older than what it is used for |
| Submission store (`stores/download_submission_store.rs`, `stores/core.rs`) | submissions and client bindings, durable | `record_pending`, `record_ambiguous`, `record_submission_with_identity`, withdraw, delete, release | written by callers that do not share a lock | one active binding per client job |
| Download registry (`stores/download_registry_store.rs`) | the same bindings | `resolve_observation` | observes a job between the client's answer and its recording | a job resolves to the download it was submitted for |
| Download queue commands (`app/integration/download_queue_commands.rs`, `stores/download_queue_command_store.rs`) | durable delete commands, a poller's pass | queue, merge, recover, execute, prune | restart in the middle, reused item ids, a listing that was read before the delete | a completed delete has ended the download it was queued for, unless a retry moved that away from the item |
| Password retries (`stores/download_password_retry.rs`) | a claim per download, its outcome | claim, dispatch, finish, observe | the client may go on under another item; the answer may be late or lost, and deletes, purges and observations go on meanwhile | a binding moves only while it is live and only to a free item |
| Import space incidents (`stores/import_space_store.rs`) | members and incidents per volume, their events | observe, retire, reconcile | reports are late or lost; the binding is read before the membership is written | an incident lives exactly as long as an import waits; recovery is never made up |
| Disk-space notifications (`app/notifications/dispatcher.rs`) | subscriber offset, receipts, attempts | read, send, record, advance | targets refuse, the process stops between a send and its receipt | no event is passed over, none blocks the rest, and a repeat is owed to a receipt that was lost |
| Lifecycle claims (`app/lifecycle_claims.rs`, `app/media_requests.rs`, the claim store) | leases of requested titles | approve, activate, expire, extend, convert, release, merge | hook, sweep and operator act on one row; hooks are best effort | the clock starts once, runs for the granted days, and every lease ends |
| Tracked downloads (`app/integration/...`) | state of each download from grabbed to imported | settle, missing, stub, import | events of client, importer and user arrive in any order | terminal states stay terminal |
| Upstream scheduler (`app/upstream_scheduler.rs`), seeding gate, escalation backoff | admissions, removal decisions, levels | | ordering and boundaries | see `PROJECT.json` |

How they interact.  The poller's walk and an operator's job walk a title under its
walk lock and end in `submit_canonical_download`.  That reads and writes the guard
table (memory, lost at a restart) and the submission store (durable), and calls the
download client.  The client's queue is polled by the observer, which writes the
same bindings through the registry, and by the tracker, which settles downloads and
tells the guard table to forget them.  None of these hold the title's submission
lock, except the tracker when it handles a missing job, and the walk when it loads
a title.  Deleting a download is a durable command; the poller that executes it
ends the binding, and the observer may meet the item again, before or after, under
a new download.  A finished download is imported; an import that does not fit its
volume opens an incident, whose events the notification dispatcher delivers.  The
first import of a requested title starts the clock of its lease.

## Modules

| Module | Models | Used by |
| --- | --- | --- |
| `TitleWalkLocks` | walk locks, walk priority, dispatch loop, operator job | `MC_TitleWalkLocks`, `TitleWalkLocks_proofs` |
| `TitleGrabs` | abstract: what submission promises about the scope of a title | `DownloadSubmission` (refines it) |
| `DownloadSubmission` | canonical submission, its guard table, the store and registry transactions it meets, the client, the tracker's effects, restarts | `MC_DownloadSubmission`, and the proofs `DownloadSubmission_proofs`, `DownloadTracking_proofs`, `DownloadGrabs_proofs`, each extending the one before |
| `DownloadIdentity` | abstract: what the registry promises about items and downloads | `DownloadQueueCommands` (refines it) |
| `DownloadQueueCommands` | delete commands and their poller, the registry's observer with conflicts and healing, acceptances, password retries that move a binding, purges, deletion of the client, restarts | `MC_DownloadQueueCommands`, `DownloadQueueCommands_proofs` |
| `SpaceEventLog` | abstract: the log of incident events as its readers may rely on it | `ImportSpace` (refines it), `SpaceNotifications` (is driven by it) |
| `ImportSpace` | incidents of full volumes: gate, transaction, retirement, reconciliation | `MC_ImportSpace`, `ImportSpace_proofs` |
| `SpaceNotifications` | durable delivery of the incident events | `MC_SpaceNotifications`, `SpaceNotifications_proofs` |
| `LifecycleClaims` | leases of requested titles, the import hook and the maintenance pass | `MC_LifecycleClaims`, `LifecycleClaims_proofs` |

A step of a model ends where the code awaits or leaves a mutex; a database
transaction is one step.  A failing store or client is an alternative of the action
that calls it, wherever the code returns the error, and nothing else.  Definitions
whose comment begins with "Mutant" are not part of the specifications: each is a
plausible error in the code it stands next to, used to show that a property would
notice it.

### TitleWalkLocks

`table`, `holder`, `queue`, `yield` are the weak table and the slots; `ref` is the
strong handle a walker owns, and a slot is alive while someone has one.  `SlotFor`
is the lookup: upgrade the handle the table has, or allocate.  `TryAcquire`,
`Acquire` and `TryAcquireBackground` are the methods of the table, each under its
mutex.  `Resume` is the waiter that tokio's FIFO mutex has been handed to,
`AbandonWait` the drop of a cancelled waiter, which passes a lock it was already
handed on to the next one.  `EndWalk` and `DropSlot` are the two halves of
dropping a guard.  `BeginCycle`, `Dispatch`, `EndCycle` are the
dispatch loop of `walk_selected_scopes` with its second look at the RSS token after
the title lock, `YieldWalk` is a walk that stops at a stage because it was told to.

`Slots` and `Tokens` are pools: an allocation that nothing refers to cannot be told
from a new one, so a pool just larger than what can be referred to at once is no
restriction.

The model queues an operator in the step in which it cancels the holder's token.
The code relies on the same: `acquire` polls the lock future once, before it gives
the table's mutex up.  A poll that tokio's cooperative budget turns into a mere
"pending" would not queue; this is not modelled.

### DownloadSubmission

`pc` and `att` are the running calls and their locals; `cache`, `shared` and `claim`
the guard table's title states, client listing and uncertain claims; `row` the
binding and the submission of each download id; `job` what the client holds.
`blind` is a history variable: the downloads that were submitted, or whose row was
deleted, on evidence that was incomplete (a cached title state that the store
contradicts, a listing that the client did not answer).

The call is the sequence

    claims -> (state) -> snapshot -> (fetching) -> decide -> (conflicts) ->
    (replacing <-> replaced) -> prepare -> submitting -> answered ->
    recording -> (adopting -> (claiming)) -> idle

and each label is a place where other callers, the observer, the tracker, the walk
or a restart may come in.  The generation counter of the listing is abstracted to
what it decides: `fresh` says of a read in progress that no invalidation has
happened since it began, which is when `store_client_snapshot` accepts it.  The age
of a cache entry is abstracted to a choice: an entry may be used (`UseCachedState`,
`UseSnapshot`) or treated as too old (`LoadState`, `Fetch`).

Abstractions to keep in mind:

* One client stands for the configured ones.  Failover between clients happens
  behind `submit_download`; the model sees that the request was taken, was already
  held, was refused or has an unknown outcome.
* A submission's scope is its whole title, so any two of a title overlap.  Seasons
  and episodes only make fewer pairs overlap.
* Every attempt has a download id of its own, and a job is tagged with it.  Clients
  without tags are the jobs with `tok = None`; the observer may then bind an intent
  for the same release by its name.  Which intents name their client, as that
  requires, is left open.
* The recent-grab admission and the location guard only turn a caller away before
  it has changed anything, which is the same as a caller that does not begin.
* `ReleaseUnconfirmed` takes the premise the code states: the grace is longer than
  any submit, and a request of an earlier process has been taken or lost.  So an
  intent is released only if no running attempt has it.  A request that timed out and
  that the client takes after its answer was given up is not modelled, nor one of this
  program's that the client lists without its tag.
* `ReleaseUnconfirmed` needs the clients that could hold the intent to have answered in
  full.  A disabled client, or one whose history is longer than the part that is read,
  can withhold that for ever; `IntentsResolve` is about clients that do answer.
* The walk reads the rows with a job before the intents.  `PrimeTitleState` has both
  reads in one step, and `PrimeMissing` adds the one way they can disagree, an intent
  bound in between.  It lets one intent through; two bound in one such gap are left
  out.  `LoadState` looks for the intents first: under the title's lock none can
  appear before it reads the rows, and one step is enough.
* An adoption that finds its own title's submission, without signature, hint or source
  title, is recorded again with those fields, and if that fails the acceptance is kept as
  a claim.  The model keeps none of the fields and leaves out that second record.
* Every way a binding ends also marks its download terminal, so an ended binding is
  not bound again.

Two properties have exceptions that belong to the code.

* `JobIsTracked` excepts a row deleted on a listing the client did not answer, and an
  intent that the observer bound, by its name, to somebody else's job: when the answer
  to the request comes, its own job finds the intent bound elsewhere (`BoundAstray`).
* `DoubleGrabWasBlind` is about `Live` grabs: an intent that waits for its job, or a
  binding to a running job this program asked for, for a standard purpose.  It is said
  of downloads and not of jobs, because a job may be tagged for one title and end up
  as another's: two titles want one release, the client answers the second with the
  first's job, and the second records it before the first does.  The first then finds
  its job bound to the other title's download and withdraws its own intent, and may
  rightly grab again.  What the theorem excludes is a second live grab, unless one of
  the two was grabbed or dropped on incomplete evidence, that is, is in `blind`.

`TitleGrabs` says this as a specification: a grab takes the scope of its title under
an id that was never used, only if nobody holds the scope or its evidence was
incomplete, holds it for that title alone, and never regains it once it has let it go.
`Scopes` and `Used` are the refinement mapping; `blind` maps to `unsure`.


### DownloadQueueCommands

`dl` is the registry: per download its binding (`none`, `unbound`, `bound`,
`ended`), the item it is bound to, whether it is over (`terminal_at`), whether it
has a submission, its tracked state, how far a password retry has got, and `late`,
the commands that were created before it was last seen, which is all the code's
comparison of timestamps decides; `left`, the items a retry has moved it away from,
is history.  `job` is what the client holds under an item id, which the client may
use again; `accepting`, `obs` and `retries` are acceptances, observations and
password retries in flight; `cmd` is the command table; `asked` and `purging` are
callers between two awaits; `exec` is the poller's pass with the rows it listed.

The poller is one action per await of `execute_delete_command`: `Identify`,
`CheckRebound`, `ReadFence`, `ClientDelete`, `FinalizeRead`, `IgnoreIdentity`,
`IgnoreItem`, `LocalDelete`, `Complete`, `EndExecuted`, after `Recover`,
`ListPending` and `TakeCommand`.  The observer is `List`, `Resolve` and, after a
conflict, `ProveStale` and `Heal`; an observation carries the commands that were
known when it was listed.

A password retry is `ClaimRetry`, `RetryJob` (the client, which may go on under
another item, refuse, or answer something that is lost), `FinishRetry`, which moves
a binding that is still live and still names the item of the request, if the new
item has no other holder, and `ObserveRetry`, which puts the download back to
downloading or lets the failure stand.  While a retry is pending, `EndBinding`
refuses; the poller's own local delete and a purge end the binding all the same.  So
a command can find its download moved to another item and the item it names taken by
another download: it then completes as superseded with its download live, which
`CompletedDeleteIsOver` says with `left`.

A purge takes one of three ways: after a merge (`merge`) an active download gets a
delete command and its binding ends; when a user deletes the title, what is active
or pending stays live and only its submission goes (`keep`), and the rest is retired
(`retire`).  `DeleteClient` ends every binding of the configured client.

* One configured client stands for all of them.  The queue read model, the
  tracker's memory and the guard caches that a delete invalidates are rebuilt by the
  next poll and left out.
* The 120 s after which a running row is stale are a choice: `Recover` may take up
  any subset of the running rows.  So is the time after which an unanswered retry
  may be claimed anew; the model takes the code's premise that the request of the
  earlier one has ended by then.
* A nameless job may be bound to any pending intent: which of them share its name is
  left open.  The code also asks that there be only one of that name.
* `Orphans` are downloads whose binding an old migration ended without finishing
  them; they are the only ones `rebind_ended_binding_tx` binds again.
* A failing store or client call is an alternative of the step where `Faults` holds.

`DownloadIdentity` is what this amounts to: an item has at most one holder, is taken
only when its holder is over or it is free, a live download may move to a free item,
and what is over never holds anything again.  `Life` and `Holder` are the refinement
mapping.

### ImportSpace and SpaceNotifications

`mem` is `import_space_members`, `incident` the incident of a volume or 0, `events`
the incident events of the log, `dl` the downloads the files belong to, `pending`
the reports under way.  A report of an import check passes the read-only gate
(`Check`), then runs as one transaction under the incident lock, in two statements: the binding is
read (`Decide`, `ObserveRetired`), the membership is written (`CommitBlocked`,
`CommitPassing`).  The lock serialises incident transactions only, so on PostgreSQL
a download may end between the two; SQLite's single writer forbids it.  Check and
gate of an import are one step.  A retirement always names a download
(`finalize_scryer_download_ignored_for_download` falls back to the submission's own);
it is announced after the tracked state is written (`Ignore`), and passes the gate at
any later time (`Retired`), or finds nothing there (`Drop`); what is measured is a choice; a manual import is a job that
nothing is bound to.  `Reconcile` is the pass of the 30 s tick.

`SpaceEventLog` is the log as a reader may rely on it: an incident opens with one
`Blocked` event and is named after it, ends at most once, and a volume has one at a
time.  `ImportSpace` refines it; `SpaceNotifications` is composed with it (its
`Publish` is a step of the log), so what is shown of the delivery holds for the
events `ImportSpace` writes.

`SpaceNotifications` follows one pass of the dispatcher: the offset and a batch of
events are read (`Begin`), every target is skipped, sent or refuses, the receipt is
written, a failed attempt is counted (`Record`), the offset moves (`Advance`).
`Abort` is a lookup that fails (no bound); `ReceiptFails` and `Stop`, which could
repeat a send without end, are bounded by `MaxStops`.  `got` and `lost` are history
variables: how often a target was sent an event, and how often no receipt of it was
written.  The delivery is at least once, and `RepeatsAreLostReceipts` says exactly how
much more: a target has got an event once for its receipt, or for the send whose
receipt is about to be written, and once for every receipt that was lost to a stop or
a failed write.  The targets are enabled and subscribed throughout; targets that the
code skips without a receipt or a failure, because they are disabled or gone, are left
out.

### LifecycleClaims

`claim` is the lease of a request, `starting` the activations that were computed from
a read and are not written yet (by the hook or by the sweep), `closing` a
cancellation or dismissal between its three statements, `sweep` the maintenance pass
between its statements.  Every store operation is one conditional `UPDATE`, as in the
code.  Time is in days.

* The hook is best effort: it may run after any import of a title that has a file,
  and need not.  One hook is under way at a time.  `ReleaseTitle` after a deletion
  may never happen, which is how its loss is modelled.
* A dismissal resolves the requests that overlap with it too, and a dismissed request
  can be reopened; a cancellation is of one request, and final.
* Any statement of the pass may fail (`SweepFails`): a failed release of orphans or
  expiry goes on with the next statement, a failed listing ends the pass.
* The deletion of single media files and the fallback that creates
  claims missing after an upgrade are not modelled.
* A lease that is approved for a title already in the library is started by the
  sweep at the day of that title's first import, which is what the code does.

## Runs

All runs check deadlock except `space_notifications`, whose system stops when the
last event is delivered.  The two `violation` runs are under "Findings".

| Run | Instance | Checks | Shows |
| --- | --- | --- | --- |
| `walk_locks` | 1 title, 2 background walks, 2 operators, 2 overlapping RSS visits, `FairSpec` | `IInv`, `OneWalkPerTitle`, `HolderBehindQueueYields`, `CancelsOnlyTheHolder`, `NoWalkStartsUnderRss`, `OperatorServed`, `RssWindsUpCycle` | the weak table never gives a title two locks; the walk in an operator's way has been cancelled and no other; the second look closes the gap between RSS and dispatch; operators and RSS get through although a background walk ends only when told to |
| `submission` | 1 title, 2 callers, 3 attempts that grab or replace, 2 jobs, client faults, restarts | `IInv`, `JobIsTracked`, `DoubleGrabWasBlind`, `ClaimFencesTitle` | whatever is lost and wherever the process stops, a running job resolves to a download, and a title gets a second grab only on incomplete evidence |
| `submission_titles` | 2 titles, 2 callers, 2 jobs, one release | `CachedListingCoversGrabs`, `ImplementsGrabs` | a listing that another title may reuse misses no grab that has returned; submission implements `TitleGrabs` |
| `submission_live` | 1 title, 1 caller, 2 attempts, one job the client may already hold, foreign jobs, faults, restarts, `FairSpec` | `OneDownloadPerJob`, `IntentsResolve` | acceptance, adoption, stub claims and observations agree on one owner, and no intent fences its title for ever |
| `submission_fence` | 1 title, 1 caller, 2 attempts | `UnresolvedAcceptanceBlocks` | a violation |
| `commands` | a grab with or without a wire token, a foreign job and an orphaned download under one item id, the observer, a user's delete, faults, restarts | `IInv`, `OneHolderPerItem`, `DeletedStaysDeleted`, `ImplementsIdentity` | registry, command table and pass agree; an item has one holder; what is over is not bound again; what acceptances, observations, healing and the poller do are steps of `DownloadIdentity` |
| `commands_moves` | 2 downloads, 2 items, a password retry, purges that queue deletes, deletion of the client | `CompletedDeleteIsOver`, `ImplementsIdentity` | a retry moves a binding only while it is live and only to a free item; a completed delete has ended its download, or a retry has moved that away |
| `commands_live` | 1 download, 1 command, both places of the client, faults, restarts, `LiveSpec` | `DeletesComplete` | every queued delete is completed |
| `import_space` | 2 files of one client item, 2 volumes, 2 downloads that use the item one after the other, 2 reports at a time, `FairSpec` | `IInv`, `SparesOtherDownloads`, `OneAlertPerIncident`, `RecoveryIsObserved`, `ImplementsLog`, `DeadMembersCleared` | incidents and members agree, alerts and recoveries are real, and what waits for nothing is cleared |
| `space_notifications` | 3 events, 2 targets, batches of 2, 2 attempts, 1 stop, `FairSpec` | `IInv`, `RepeatsAreLostReceipts`, `InOrder`, `EveryEventPasses` | no event is passed over unheard, every repeat is owed to a receipt that was lost, no broken target holds the rest back |
| `claims` | 1 request, 2 titles, 2 days, `FairSpec` | `IInv`, `LeaseLastsAsGranted`, `ClockStartsOnce`, `ExtensionIsKept`, `OverIsFinal`, `LeaseStarts`, `LeaseExpires`, `OrphansReleased` | a lease starts once, is given its days, and starts, expires and is released although hooks, releases and statements of the pass fail |
| `claims_dismiss` | 1 request, 1 day | `DismissalSparesApproved` | a violation |

Why the bounds are enough.  The interesting interleavings are of two callers with
one other actor: a lock with a holder, a queue and a successor, two RSS visits so
that the first to end must not release the second's priority.  In `submission`,
three ids make an attempt, its competitor and a successor that meets what the two
left; two jobs make a double grab possible.  `commands` needs two downloads that
share one item id (the old holder, the new one) and one command to be early, late,
requeued or superseded.  A retry that moves a download needs a second item, which
`commands_moves` has, without the observer and without a user's delete (the purge
queues the commands there); all of them together, with any number of downloads, items,
commands, requests and retries, are covered by the proofs.  `import_space`
needs a file that moves between two volumes while another waits, and an item id used
twice.  `space_notifications` needs a batch that ends before the log does, a target
that refuses while the other takes, and one attempt short of giving up.  In `claims`
a lease of one day ends on the second, before which it can be extended or merged into
the other title; its invariants and action properties are proved for any number of
requests.  With one lease the limits of a pass never bite.  The instance where they
do, `Requests = {1, 2}`, `Closable = {}` and `MaxTime = 1` with both limits 1, leaves
nothing to expire; TLC confirms `LeaseStarts` and `OrphansReleased` for it in a minute
(a backlog of orphans drains, one pass after the other) and refutes `BacklogDrains`, of
which more below.  `MaxCommands`, `MaxRequests`, `MaxRetries`, `MaxPurges`,
`MaxListed`, `MaxInFlight`, `MaxEvents`, `MaxStops`, `MaxTime` and
`MaxRss` bound the only things that grow.  Symmetry is used for safety checking only.

Fairness.

* `TitleWalkLocks`: tokio runs runnable tasks, so waiting operators that were handed
  the lock resume, guards finish dropping and the dispatch loop goes on.  A
  background walk is only assumed to stop once its token is cancelled, which it looks
  at between stages; an operator's walk is one bounded search and ends.  Nothing is
  assumed of RSS visits.
* `DownloadSubmission`: a running attempt goes on (every outside call has a timeout),
  the queue observer keeps polling and so does the release of unconfirmed intents.
* `DownloadQueueCommands`: the poller ticks every 2 s; its store and client do not
  fail for ever, and what has been running for 120 s is recovered by some later tick
  (strong fairness of the succeeding alternatives).  The process may stop any number
  of times, but from some time on no longer between `TakeCommand` and the end of a
  command: a process that always stops there does not complete anything, in the code
  either.
* `ImportSpace`: a transaction that has the lock ends, and the reconciliation, which
  runs every 30 s, gets the lock in its turn.  No report is assumed to arrive.
* `SpaceNotifications`: the dispatcher runs at every event and every 30 s.  No target
  is assumed ever to take anything.
* `LifecycleClaims`: the maintenance job runs again and again and no statement of it
  fails for ever (strong fairness of its statements, for a failing pass comes back to
  each of them).  Neither the hook nor any other release is assumed to run.

Each property has a mutant in `PROJECT.json`, a definition next to the one it changes:
the listing stored whatever its generation, the lookup that always allocates, an
ended download bound again whether it is over or not, a refusal that is not
remembered, and so on.

## Proofs

Eight modules hold proofs; all are for any sets of titles, walks, callers, downloads,
jobs, items, files, volumes, targets and requests and any bounds.  The assumptions are
the named `ASSUME`s of the modules: `None` is none of the other values, switches and
bounds have their types.  Each component has an inductive invariant `IInv` that a run
also checks, the theorem `Spec => []IInv`, and the other theorems from it.  Between
them they state every safety property that a passing run checks, the invariants and
the action properties, and the three refinements.

* `TitleWalkLocks_proofs`: `IInvHolds`, `OneWalkPerTitleHolds`, `YieldTheorem`,
  `CancelTheorem`, `RssTheorem`.  `OneWalkPerTitle`
  needs that a walker's strong handle is to the slot the table names for its title,
  that two titles do not name one live slot, that whoever is inside a walk holds its
  slot's mutex and refers to the slot, and that queues consist of distinct waiters of
  the slot, so that handing the mutex on keeps it with someone who has a handle.  The
  same facts give that the token an operator cancels is the token of the very walk it
  is queued behind, and of no other; `NoWalkStartsUnderRss` needs that a cycle which is
  to start a walk knows of every visit that began before its last look.
* `DownloadSubmission_proofs`: `CoreInvHolds`, `ClaimFencesTitleHolds`,
  `OneDownloadPerJobHolds`.  `ClaimFencesTitle` is not inductive alone: an attempt
  that returns leaves a claim, and only because no second attempt is on the title is
  nobody past the claims then.  One lemma per action, from three about attempts
  (`StepOn`, `Return`, `Beside`) and two about bindings (`BindsNothing`, `BindsOne`).
* `DownloadTracking_proofs`: `TrackInvHolds`, `JobIsTrackedHolds`,
  `CachedListingCoversGrabsHolds`.  That a job is tracked needs that an attempt's own id
  is its own (`OwnIdIsOwn`: no other attempt, claim or title state uses it), that how
  far the attempt is shows in the store and in the client (`OwnIdProgress`: the intent
  is stored before the request is sent), that a claim is about the one job with its
  token (`AcceptedClaims`), and that a deletion is decided on a listing that has every
  running job of the title state (`DecidesOnEvidence`).  The last rests on
  `ListingsCover`, which is stronger than `CachedListingCoversGrabs`: it is also about
  listings that are still being read, and says of a job that is missing that nobody but
  the attempt that made it can have met it.  Every action is shown to be one of the
  moves of `Moves`, a summary of what a step may do to each row, job, attempt, claim,
  title state and listing, and each part of the invariant to survive a move; so that
  the proof is one lemma per action and one per part, and not one for each pair.
* `DownloadGrabs_proofs`: `IInvHolds`, `DoubleGrabWasBlindHolds`, `GrabsTheorem` (the
  refinement of `TitleGrabs`).  A second summary, `Turns`, says what a step does to
  the columns of a row and to what an attempt knows.  Two facts carry the argument.
  `LiveOnlyByIntent`: a step makes a grab live only by storing its intent, since every
  later write of the row, by an acceptance, a recovered claim, an adoption or the
  observer, meets a download that was asked for under that title and purpose
  (`RecordsAskedFor`) or one bound to somebody else's job.  `NoneLeft`: an attempt that
  is not blind and finds no conflict leaves no live grab on its title, because its
  title state names every one of them (`KnowsItsTitle`) and its listing shows each
  that runs as running (`KeepsEvidence`, from `ListingsAreTruthful`); so that at the
  time it stores its intent it is alone (`DecidedAlone`).  The title lock is what keeps
  both true while it waits.
* `DownloadQueueCommands_proofs`: `InvariantHolds`, `OneHolderTheorem`,
  `CompletedTheorem`, `DeletedTheorem`, `IdentityTheorem`.  Every action is shown to
  change the bindings in one of six ways (`Shape`): not at all, a download becomes
  known, is forgotten, some are finished with, one moves to a free item, or one takes
  an item whose holders are finished with.  `ShapeInOrder` has that each of them keeps
  the registry in order, `ShapeRefines` that each is a step of `DownloadIdentity`.
  `CompletedDeleteIsOver` needs that what a command names is over, still holds its item
  or was moved away from it (`Named`), so that a command that finds another holder may
  be completed; that the pass executes each listed row once and under the download the
  row names; and that after the local delete the download is over.  That a late answer
  of a retry revives nothing rests on `BindingsAgree`: a binding that is live, which
  `FinishRetry` asks for, is of a download that is not over.
* `ImportSpace_proofs`: `InvariantHolds`, `LogTheorem` (the refinement),
  `AlertTheorem`, `RecoveryTheorem`, `SparesTheorem`.  An incident is open exactly while its volume has
  members; a member, and a report that has read its binding, speaks for a download
  that was bound to the file's job.  All changes of members go through two operators
  on sets of files, `Without` and `Closed`, about which the lemmas are.  `SparesTheorem`
  (`SparesOtherDownloads`) needs `ReadersAgree` besides: one report at a time holds the
  store's lock, and once it has read the binding it acts on, every other download that
  was bound to the job is ended, and stays so.
* `SpaceNotifications_proofs`: `InvariantHolds`, `RepeatTheorem`, `OrderTheorem`.
  The offset passes an event only if every target has a receipt or it was given up;
  this needs what the pass in hand has already done (`PassAgrees`).  `RepeatTheorem`
  counts: a send is matched by its receipt, by the pass that is about to write it, or
  by one receipt more that was lost; it rests on the pass holding a send without a
  receipt only for a target that has none.
* `LifecycleClaims_proofs`: `InvariantHolds`, `LeasesLast`, `ClockTheorem`,
  `ExtensionTheorem`, `OverTheorem`.  A lease lasts as granted because an activation
  in flight, read at any earlier time, already covers the granted days
  (`ActivationsFit`), and the store keeps the later of two ends.

Only model-checked: the liveness properties, `OperatorServed`, `RssWindsUpCycle`,
`IntentsResolve`, `DeletesComplete`, `DeadMembersCleared`, `EveryEventPasses`,
`LeaseStarts`, `LeaseExpires` and `OrphansReleased`, since fairness and `ENABLED` are
out of the prover's reach.  TLC in turn did what the proofs could not begin without:
every part of the inductive invariants was checked as an invariant first, also with
two titles and with foreign jobs, which is where the two exceptions described under
`DownloadSubmission` came from.

## Findings

Each is a run that TLC refutes, with the quotation in `PROJECT.json`.

* `submission_fence`: an attempt whose answer was lost leaves the title state that
  was cached before it, and for 30 s the next attempt uses that state without
  looking for unbound intents, although a test says an unresolved acceptance blocks.
* `claims_dismiss`: `dismiss_media_request` and `cancel_my_media_request` resolve the
  request only if it is still pending, but release its lease in any case: a dismissal
  that loses the race against an approval releases the lease that was just granted.

Other behaviours met while modelling.  The properties are kept in the modules and TLC
refutes them within seconds; no run is kept.

* `SettledIsForgotten` (`submission.rs:973`, `guards.rs:457`): a download that settles
  before its submit has recorded it is put back into the title state as accepted.
* `NoPhantomConflict` (`guards.rs:494`): a replacement removes an item from the client
  without invalidating listing or title state; if it then fails, the next attempt
  refuses because of the removed item.
* `OwnedDownloadKeepsItsTitle` (`submission.rs:254`): two titles that adopt one stub
  both pass the check that it is a stub; the second takes the download.
* `FenceEndsWithReconciliation` (`submission.rs:236`, `:398`): the fence an adoption
  leaves when the adopted download has no submission row carries nothing to reconcile
  it with, and lasts until a restart.
* `DeleteBindsNothing` (`download_queue_commands.rs:135`): a delete that finalizes an
  item nobody holds any more mints a download bound to it, in order to mark it ignored.
* `ReusedItemKeepsItsState` (`download_queue_commands.rs:308`): a delete that names a
  download writes "ignored" to the item's new holder too, if the item was rebound
  after the check.
* `LegacyDeleteSparesNewerBinding` (`download_queue_commands.rs:266`): a command without
  a download ends the binding it finds at the local delete, whether or not that is
  newer than the command; a test says it is not ended.
* `DeleteTakesOwnJob` (`download_queue_commands.rs:152`): whether the item still belongs
  to the download is checked before the request to the client and not after it; a
  client that reuses item ids may have given it to a new grab, which is deleted.
* `DeleteFollowsRetry` (`download_password_retry.rs:326`): a delete that was queued for
  the item a download had before a retry moved it ends the download, and its job runs
  on in the client under the new item.
* `BacklogDrains` (`app/lifecycle_claims.rs:26`): dormant leases whose titles have not
  arrived keep their places at the head of the bounded, oldest-first list, and hide
  arrived ones behind them from every pass (two requests, `SweepLimit` 1); the comment
  on the limit says that the backlog drains in the order it formed.

## Not modelled, and the plan

The repository is about 1.1 million lines, a large part of it tests, parsers, wire
protocols and generated or tabular data.  The modules cover the parts in which
several actors change one piece of state across awaits and restarts, so the share of
lines they map stays small.

Next, in this order:

1. `TrackedDownloads`: the states from grabbed to imported, composed with the
   registry of `DownloadQueueCommands`; terminal states are final.
2. `PollerSignal`: the reopened-scope flag and the timers of the background poller.
3. Operators for the seeding gate, the escalation backoff and RSS due-ness, each
   checked against a reference definition.

Not planned: location moves, imports, library scans, plugins, parsing and media
analysis, which are file-system effects, foreign code or text processing; the
interface, web application, identity and settings, which hold no state that other
actors change underneath them; clients' wire protocols, which the models treat as
the environment.
