--------------------------- MODULE TitleWalkLocks ---------------------------
(***************************************************************************)
(* Who may walk a title.  The background acquisition cycle and an           *)
(* operator's title-scoped search both run the same staged walk over a      *)
(* title; services/guards.rs gives them                                     *)
(*                                                                          *)
(*   - AcquisitionTitleWalkLocks: a table of weak handles to per-title      *)
(*     slots, a slot being a FIFO mutex and the yield token of a            *)
(*     background holder;                                                   *)
(*   - AcquisitionWalkPriority: a count of the RSS visits under way and the *)
(*     cancellation token of the one background cycle.                      *)
(*                                                                          *)
(* Every method of the table runs under the table's mutex and is one        *)
(* action.  A guard is dropped in two steps, as its two fields are: the     *)
(* mutex is unlocked, then the strong handle to the slot goes away.         *)
(*                                                                          *)
(* A slot or a token that nothing refers to any more cannot be told from a  *)
(* new one, so Slots and Tokens are finite pools whose unreferenced members *)
(* are allocated afresh.                                                    *)
(***************************************************************************)
EXTENDS Naturals, Sequences

CONSTANTS
    Titles,      \* title ids
    Background,  \* concurrent title walks of the one background cycle
    Operators,   \* operator jobs that search one title
    Slots,       \* pool of TitleWalkSlot allocations
    Tokens,      \* pool of yield tokens
    MaxRss,      \* bound: RSS visits under way at once
    None         \* no slot, no holder, no token, no title

ASSUME WalkersAssumption == /\ Background \cap Operators = {}
                            /\ None \notin Background \cup Operators
                            /\ None \notin Slots \cup Tokens \cup Titles
ASSUME MaxRssAssumption == MaxRss \in Nat

Walkers == Background \cup Operators

VARIABLES
    table,      \* title -> weak handle: a slot, dead or alive, or None
    holder,     \* slot -> the walker its mutex is assigned to
    queue,      \* slot -> operators queued on its mutex, in order
    yield,      \* slot -> background_yield: a token or None
    ref,        \* walker -> the slot it holds a strong handle to
    pc,         \* walker -> where its walk stands
    title,      \* walker -> the title it is about
    token,      \* background walker -> its own yield token
    cancelled,  \* the tokens that are cancelled
    rss,        \* AcquisitionWalkPriorityState.rss
    cycle,      \* is a background cycle under way
    rssYield    \* the cycle's priority token is cancelled

slotVars == <<table, holder, queue, yield>>
walkVars == <<ref, pc, title, token>>
prioVars == <<rss, cycle, rssYield>>
vars == <<table, holder, queue, yield, ref, pc, title, token, cancelled,
          rss, cycle, rssYield>>

\* idle      not walking
\* tried     an operator whose try_acquire found the title taken
\* waiting   an operator queued on the slot's mutex
\* locked    a background walk that has the lock and has not started
\* walking   inside the walk
\* dropping  the mutex is unlocked, the slot handle not yet dropped
Phases == {"idle", "tried", "waiting", "locked", "walking", "dropping"}

TypeOK ==
    /\ table \in [Titles -> Slots \cup {None}]
    /\ holder \in [Slots -> Walkers \cup {None}]
    /\ queue \in [Slots -> Seq(Operators)]
    /\ yield \in [Slots -> Tokens \cup {None}]
    /\ ref \in [Walkers -> Slots \cup {None}]
    /\ pc \in [Walkers -> Phases]
    /\ title \in [Walkers -> Titles \cup {None}]
    /\ token \in [Background -> Tokens \cup {None}]
    /\ cancelled \subseteq Tokens
    /\ rss \in 0..MaxRss
    /\ cycle \in BOOLEAN
    /\ rssYield \in BOOLEAN

Init ==
    /\ table = [t \in Titles |-> None]
    /\ holder = [s \in Slots |-> None]
    /\ queue = [s \in Slots |-> <<>>]
    /\ yield = [s \in Slots |-> None]
    /\ ref = [w \in Walkers |-> None]
    /\ pc = [w \in Walkers |-> "idle"]
    /\ title = [w \in Walkers |-> None]
    /\ token = [w \in Background |-> None]
    /\ cancelled = {}
    /\ rss = 0
    /\ cycle = FALSE
    /\ rssYield = FALSE

-----------------------------------------------------------------------------
(* The table of weak handles.                                               *)

\* strong_count() > 0
Live(s) == \E w \in Walkers : ref[w] = s

\* Mutant: a lookup never upgrades the handle it finds.
SlotFor_AlwaysNew(t, s) == s \in Slots /\ ~Live(s)

\* What the walker gets for title t: the slot the table's handle upgrades to,
\* else a new allocation.
SlotFor(t, s) == IF table[t] # None /\ Live(table[t])
                 THEN s = table[t]
                 ELSE s \in Slots /\ ~Live(s)

\* The yield token the caller finds: none in a new slot.  (The mutex of a slot
\* nobody refers to is unlocked with nobody queued: HoldersHold, QueuesQueue.)
Yield(s) == IF Live(s) THEN yield[s] ELSE None

\* retain(strong_count > 0), then the insert of a new slot.
TableAfter(t, s) ==
    [u \in Titles |-> CASE u = t -> s
                        [] u # t /\ table[u] # None /\ Live(table[u]) -> table[u]
                        [] OTHER -> None]

\* try_lock_owned succeeds on a mutex nobody holds and nobody is queued for.
Free(s) == holder[s] = None /\ queue[s] = <<>>

\* A token no walk and no slot refers to: CancellationToken::new().
FreshToken(tk) == /\ tk \in Tokens
                  /\ \A w \in Background : token[w] # tk
                  /\ \A s \in Slots : Live(s) => yield[s] # tk

-----------------------------------------------------------------------------
(* Operators.                                                               *)

\* Mutant: the first attempt already tells the holder to yield.
TryAcquire_Disturbs(o, t, s) ==
    /\ pc[o] = "idle"
    /\ SlotFor(t, s)
    /\ title' = [title EXCEPT ![o] = t]
    /\ cancelled' = cancelled \cup ({Yield(s)} \ {None})
    /\ \/ /\ Free(s)
          /\ table' = TableAfter(t, s)
          /\ holder' = [holder EXCEPT ![s] = o]
          /\ yield' = [yield EXCEPT ![s] = None]
          /\ ref' = [ref EXCEPT ![o] = s]
          /\ pc' = [pc EXCEPT ![o] = "walking"]
       \/ /\ ~Free(s)
          /\ table' = TableAfter(t, s)
          /\ pc' = [pc EXCEPT ![o] = "tried"]
          /\ UNCHANGED <<holder, yield, ref>>
    /\ UNCHANGED <<queue, token, prioVars>>

\* try_acquire: the operator's first attempt disturbs nobody.
TryAcquire(o, t, s) ==
    /\ pc[o] = "idle"
    /\ SlotFor(t, s)
    /\ title' = [title EXCEPT ![o] = t]
    /\ \/ /\ Free(s)
          /\ table' = TableAfter(t, s)
          /\ holder' = [holder EXCEPT ![s] = o]
          /\ yield' = [yield EXCEPT ![s] = None]
          /\ ref' = [ref EXCEPT ![o] = s]
          /\ pc' = [pc EXCEPT ![o] = "walking"]
       \/ /\ ~Free(s)
          /\ table' = TableAfter(t, s)
          /\ pc' = [pc EXCEPT ![o] = "tried"]
          /\ UNCHANGED <<holder, yield, ref>>
    /\ UNCHANGED <<queue, token, cancelled, prioVars>>

\* Mutant: the operator joins the queue and cancels nobody.
Acquire_NoCancel(o, s) ==
    /\ pc[o] = "tried"
    /\ SlotFor(title[o], s)
    /\ table' = TableAfter(title[o], s)
    /\ ref' = [ref EXCEPT ![o] = s]
    /\ \/ /\ Free(s)
          /\ holder' = [holder EXCEPT ![s] = o]
          /\ pc' = [pc EXCEPT ![o] = "walking"]
          /\ UNCHANGED queue
       \/ /\ ~Free(s)
          /\ queue' = [queue EXCEPT ![s] = Append(queue[s], o)]
          /\ pc' = [pc EXCEPT ![o] = "waiting"]
          /\ UNCHANGED holder
    /\ UNCHANGED <<yield, title, token, cancelled, prioVars>>

\* acquire: take and cancel the background holder's token, then lock the mutex
\* or join its queue, all before the table is released.
Acquire(o, s) ==
    /\ pc[o] = "tried"
    /\ SlotFor(title[o], s)
    /\ cancelled' = cancelled \cup ({Yield(s)} \ {None})
    /\ table' = TableAfter(title[o], s)
    /\ yield' = [yield EXCEPT ![s] = None]
    /\ ref' = [ref EXCEPT ![o] = s]
    /\ \/ /\ Free(s)
          /\ holder' = [holder EXCEPT ![s] = o]
          /\ pc' = [pc EXCEPT ![o] = "walking"]
          /\ UNCHANGED queue
       \/ /\ ~Free(s)
          /\ queue' = [queue EXCEPT ![s] = Append(queue[s], o)]
          /\ pc' = [pc EXCEPT ![o] = "waiting"]
          /\ UNCHANGED holder
    /\ UNCHANGED <<title, token, prioVars>>

\* The job was cancelled before it joined the queue (select! is biased).
CancelBeforeWait(o) ==
    /\ pc[o] = "tried"
    /\ pc' = [pc EXCEPT ![o] = "idle"]
    /\ title' = [title EXCEPT ![o] = None]
    /\ UNCHANGED <<slotVars, ref, token, cancelled, prioVars>>

\* The mutex was handed to the queued operator, whose task resumes.
Resume(o) ==
    /\ pc[o] = "waiting"
    /\ holder[ref[o]] = o
    /\ pc' = [pc EXCEPT ![o] = "walking"]
    /\ UNCHANGED <<slotVars, ref, title, token, cancelled, prioVars>>

\* Unlocking hands the mutex to the head of its queue.
Unlock(s) ==
    IF queue[s] = <<>>
    THEN /\ holder' = [holder EXCEPT ![s] = None]
         /\ UNCHANGED queue
    ELSE /\ holder' = [holder EXCEPT ![s] = Head(queue[s])]
         /\ queue' = [queue EXCEPT ![s] = Tail(queue[s])]

\* The job is cancelled while it waits: its future is dropped, which leaves the
\* queue, or passes on a lock that was handed over and never taken up.
AbandonWait(o) ==
    /\ pc[o] = "waiting"
    /\ \/ /\ holder[ref[o]] = o
          /\ Unlock(ref[o])
       \/ \E i \in 1..Len(queue[ref[o]]) :
             /\ queue[ref[o]][i] = o
             /\ queue' = [queue EXCEPT ![ref[o]] =
                            SubSeq(queue[ref[o]], 1, i - 1)
                              \o SubSeq(queue[ref[o]], i + 1, Len(queue[ref[o]]))]
             /\ UNCHANGED holder
    /\ pc' = [pc EXCEPT ![o] = "dropping"]
    /\ UNCHANGED <<table, yield, ref, title, token, cancelled, prioVars>>

-----------------------------------------------------------------------------
(* The background cycle.                                                    *)

\* begin_background: refused while an RSS visit is under way.
BeginCycle ==
    /\ ~cycle
    /\ rss = 0
    /\ cycle' = TRUE
    /\ rssYield' = FALSE
    /\ UNCHANGED <<slotVars, walkVars, cancelled, rss>>

EndCycle ==
    /\ cycle
    /\ \A w \in Background : pc[w] = "idle"
    /\ cycle' = FALSE
    /\ UNCHANGED <<slotVars, walkVars, cancelled, rss, rssYield>>

\* try_acquire_background, of the cycle's dispatch loop: a title that is taken
\* is skipped.  rss_yield is read before the await and again after it.
TryAcquireBackground(w, t, s, tk) ==
    /\ cycle
    /\ pc[w] = "idle"
    /\ ~rssYield
    /\ SlotFor(t, s)
    /\ Free(s)
    /\ FreshToken(tk)
    /\ table' = TableAfter(t, s)
    /\ holder' = [holder EXCEPT ![s] = w]
    /\ yield' = [yield EXCEPT ![s] = tk]
    /\ ref' = [ref EXCEPT ![w] = s]
    /\ token' = [token EXCEPT ![w] = tk]
    /\ cancelled' = cancelled \ {tk}
    /\ title' = [title EXCEPT ![w] = t]
    /\ pc' = [pc EXCEPT ![w] = "locked"]
    /\ UNCHANGED <<queue, prioVars>>

\* Mutant: rss_yield is not read again once the title is locked.
Dispatch_NoSecondLook(w) ==
    /\ pc[w] = "locked"
    /\ pc' = [pc EXCEPT ![w] = "walking"]
    /\ UNCHANGED <<slotVars, ref, title, token, cancelled, prioVars>>

\* The second look at rss_yield: go on to walk, or give the title back.
Dispatch(w) ==
    /\ pc[w] = "locked"
    /\ \/ /\ ~rssYield
          /\ pc' = [pc EXCEPT ![w] = "walking"]
          /\ UNCHANGED <<holder, queue, token>>
       \/ /\ rssYield
          /\ Unlock(ref[w])
          /\ token' = [token EXCEPT ![w] = None]
          /\ pc' = [pc EXCEPT ![w] = "dropping"]
    /\ UNCHANGED <<table, yield, ref, title, cancelled, prioVars>>

EndWalk(w) ==
    /\ pc[w] = "walking"
    /\ Unlock(ref[w])
    /\ pc' = [pc EXCEPT ![w] = "dropping"]
    /\ token' = [b \in Background |-> IF b = w THEN None ELSE token[b]]
    /\ UNCHANGED <<table, yield, ref, title, cancelled, prioVars>>

\* The stage loop looks at both tokens before every stage.
YieldWalk(w) ==
    /\ w \in Background
    /\ token[w] \in cancelled \/ rssYield
    /\ EndWalk(w)

\* The second field of the guard: the strong handle to the slot.
DropSlot(w) ==
    /\ pc[w] = "dropping"
    /\ ref' = [ref EXCEPT ![w] = None]
    /\ title' = [title EXCEPT ![w] = None]
    /\ pc' = [pc EXCEPT ![w] = "idle"]
    /\ UNCHANGED <<slotVars, token, cancelled, prioVars>>

-----------------------------------------------------------------------------
(* RSS visits.                                                              *)

\* Mutant: the visit is counted but the cycle under way is not cancelled.
BeginRss_NoCancel ==
    /\ rss < MaxRss
    /\ rss' = rss + 1
    /\ UNCHANGED <<slotVars, walkVars, cancelled, cycle, rssYield>>

\* begin_rss: counted and the cycle's token cancelled under one lock.
BeginRss ==
    /\ rss < MaxRss
    /\ rss' = rss + 1
    /\ rssYield' = (rssYield \/ cycle)
    /\ UNCHANGED <<slotVars, walkVars, cancelled, cycle>>

\* Mutant: the guard is dropped a second time.
EndRss_DropsTwice ==
    /\ rss' = rss - 1
    /\ UNCHANGED <<slotVars, walkVars, cancelled, cycle, rssYield>>

EndRss ==
    /\ rss > 0
    /\ rss' = rss - 1
    /\ UNCHANGED <<slotVars, walkVars, cancelled, cycle, rssYield>>

-----------------------------------------------------------------------------
OperatorStep(o) ==
    \/ \E t \in Titles, s \in Slots : TryAcquire(o, t, s)
    \/ \E s \in Slots : Acquire(o, s)
    \/ CancelBeforeWait(o)
    \/ Resume(o)
    \/ AbandonWait(o)
    \/ EndWalk(o)
    \/ DropSlot(o)

BackgroundStep(w) ==
    \/ \E t \in Titles, s \in Slots, tk \in Tokens : TryAcquireBackground(w, t, s, tk)
    \/ Dispatch(w)
    \/ EndWalk(w)
    \/ DropSlot(w)

Next ==
    \/ \E o \in Operators : OperatorStep(o)
    \/ \E w \in Background : BackgroundStep(w)
    \/ BeginCycle
    \/ EndCycle
    \/ BeginRss
    \/ EndRss

\* Tasks are scheduled.  A background walk is only assumed to stop once it is
\* told to; an operator's walk is finite work with bounded queries.
Fairness ==
    /\ \A o \in Operators : /\ WF_vars(\E s \in Slots : Acquire(o, s))
                            /\ WF_vars(Resume(o))
                            /\ WF_vars(EndWalk(o))
                            /\ WF_vars(DropSlot(o))
    /\ \A w \in Background : /\ WF_vars(Dispatch(w))
                             /\ WF_vars(YieldWalk(w))
                             /\ WF_vars(DropSlot(w))
    /\ WF_vars(EndCycle)

Spec == Init /\ [][Next]_vars
FairSpec == Spec /\ Fairness

-----------------------------------------------------------------------------
(* Properties.                                                              *)

Inside(w) == pc[w] \in {"locked", "walking"}

\* At most one walk over a title exists at a time, although the title's slot
\* is found through a weak handle that dies and is replaced (slot()).
OneWalkPerTitle ==
    \A v, w \in Walkers : Inside(v) /\ Inside(w) /\ title[v] = title[w] => v = w

\* A background walk that an operator is queued behind has been told to yield:
\* acquire cancels the token of the very walk that holds the lock, whatever
\* walks held the title before it.
HolderBehindQueueYields ==
    \A o \in Operators : pc[o] = "waiting" =>
        \A w \in Background : holder[ref[o]] = w => token[w] \in cancelled

\* A background walk is only ever cancelled by an operator that asks for its
\* own title while it holds it: no stale token of an earlier holder is reached.
CancelsOnlyTheHolder ==
    [][\A w \in Background :
          /\ token[w] # None
          /\ token[w] = token'[w]
          /\ token[w] \in cancelled' \ cancelled
          => \E o \in Operators : /\ pc[o] = "tried"
                                  /\ title[o] = title[w]
                                  /\ pc'[o] = "waiting"
                                  /\ Inside(w)]_vars

\* No background walk starts while an RSS visit is under way, although the
\* visit may begin between the cycle's look at its token and the title lock.
NoWalkStartsUnderRss ==
    [][\A w \in Background : pc[w] # "walking" /\ pc'[w] = "walking" => rss = 0]_vars

\* An operator that waits for a title gets it or gives up; it does not wait for
\* the length of a background pass, which need not end by itself.
OperatorServed ==
    \A o \in Operators : pc[o] = "waiting" ~> pc[o] # "waiting"

\* Once an RSS visit has begun, the background cycle under way winds up.
RssWindsUpCycle == (rss > 0 /\ cycle) ~> ~cycle

-----------------------------------------------------------------------------
(* The inductive invariant.                                                 *)

\* A walker's strong handle is to the slot the table names for its title, so
\* a lookup always finds it.
HandlesAreTabled ==
    \A w \in Walkers :
        /\ ref[w] # None <=> pc[w] \in {"waiting", "locked", "walking", "dropping"}
        /\ ref[w] # None => title[w] \in Titles /\ table[title[w]] = ref[w]
        /\ pc[w] = "tried" => title[w] \in Titles
        /\ pc[w] \in {"tried", "waiting"} => w \in Operators
        /\ pc[w] = "locked" => w \in Background

\* Two titles never name one live slot.
TableInjective ==
    \A t, u \in Titles : table[t] # None /\ Live(table[t]) /\ table[t] = table[u] => t = u

\* A walker inside a walk holds its slot's mutex; whoever holds a live slot's
\* mutex refers to the slot.
HoldersHold ==
    /\ \A w \in Walkers : Inside(w) => holder[ref[w]] = w
    /\ \A s \in Slots, w \in Walkers : holder[s] = w =>
          ref[w] = s /\ pc[w] \in {"waiting", "locked", "walking"}

\* The queue of a slot holds operators that wait for it, each once, and not
\* the one the mutex was handed to.
QueuesQueue ==
    \A s \in Slots : \A i \in 1..Len(queue[s]) :
        /\ ref[queue[s][i]] = s
        /\ pc[queue[s][i]] = "waiting"
        /\ holder[s] # queue[s][i]
        /\ \A j \in 1..Len(queue[s]) : queue[s][i] = queue[s][j] => i = j

\* Handles, mutexes and queues agree.
LockInv == TypeOK /\ HandlesAreTabled /\ TableInjective /\ HoldersHold /\ QueuesQueue

\* Who waits is queued, or the mutex was handed to it: no wakeup is lost.
WaitersQueue ==
    \A o \in Operators : pc[o] = "waiting" =>
        \/ holder[ref[o]] = o
        \/ \E i \in 1..Len(queue[ref[o]]) : queue[ref[o]][i] = o

\* A background walk has a token of its own exactly while it holds its title,
\* and the token a live slot keeps is its holder's or that of a walk that ended.
TokensAgree ==
    /\ \A w \in Background : token[w] # None <=> Inside(w)
    /\ \A v, w \in Background : token[v] # None /\ token[v] = token[w] => v = w
    /\ \A w \in Background, s \in Slots :
          Live(s) /\ yield[s] # None /\ yield[s] = token[w] => ref[w] = s

\* The walk that holds a title can be reached by its token, unless it has been.
YieldReaches ==
    \A w \in Background : Inside(w) => yield[ref[w]] = token[w] \/ token[w] \in cancelled

\* A cycle that runs beside an RSS visit has been told; walks belong to a cycle.
CycleKnowsRss ==
    /\ cycle /\ rss > 0 => rssYield
    /\ \A w \in Background : pc[w] # "idle" => cycle

IInv == /\ LockInv /\ WaitersQueue /\ TokensAgree /\ YieldReaches
        /\ HolderBehindQueueYields /\ CycleKnowsRss

=============================================================================
