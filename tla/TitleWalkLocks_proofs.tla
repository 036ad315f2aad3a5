----------------------- MODULE TitleWalkLocks_proofs -----------------------
(* One walk per title, no lost wakeup, and yield tokens that reach the walk   *)
(* that holds the title and no other; for any titles, walkers, slots, tokens. *)
EXTENDS TitleWalkLocks, SequenceTheorems, TLAPS

\* The initial state satisfies the inductive invariant: no slot is allocated.
LEMMA InitLock == Init => LockInv
<1> SUFFICES ASSUME Init PROVE LockInv
  OBVIOUS
<1> USE DEF Init
<1>1. TypeOK
  <2>1. queue \in [Slots -> Seq(Operators)]
    OBVIOUS
  <2>2. rss \in 0..MaxRss
    BY MaxRssAssumption
  <2> QED
    BY <2>1, <2>2 DEF TypeOK, Phases
<1>2. HandlesAreTabled
  BY DEF HandlesAreTabled
<1>3. TableInjective /\ HoldersHold
  BY WalkersAssumption DEF TableInjective, HoldersHold, Inside, Walkers
<1>4. QueuesQueue
  BY DEF QueuesQueue
<1> QED
  BY <1>1, <1>2, <1>3, <1>4 DEF LockInv

\* What a lookup of a title returns (slot()): if the slot is live, it is the
\* one every walker of the title already refers to and no other title names it.
LEMMA LookupFacts ==
  ASSUME LockInv, NEW t \in Titles, NEW s \in Slots, SlotFor(t, s)
  PROVE  /\ Live(s) => table[t] = s
         /\ \A w \in Walkers : ref[w] # None /\ title[w] = t => ref[w] = s
         /\ \A w \in Walkers : ref[w] = s => title[w] = t
  BY WalkersAssumption
     DEF LockInv, TypeOK, SlotFor, Live, HandlesAreTabled, TableInjective

\* A lookup that leaves the strong handles alone, or gives walker w one to the
\* slot it found, keeps live slots and titles one to one.
LEMMA LookupKeepsTable ==
  ASSUME LockInv, NEW t \in Titles, NEW s \in Slots, SlotFor(t, s),
         table' = TableAfter(t, s),
         \/ ref' = ref
         \/ \E w \in Walkers : ref' = [ref EXCEPT ![w] = s]
  PROVE  /\ table' \in [Titles -> Slots \cup {None}]
         /\ TableInjective'
         /\ table'[t] = s
         /\ \A u \in Titles : table[u] # None /\ Live(table[u]) => table'[u] = table[u]
<1>1. \A u \in Titles : table[u] \in Slots \cup {None}
  BY DEF LockInv, TypeOK
<1>2. \A u \in Titles : u # t => \/ table'[u] = None
                                 \/ table'[u] = table[u] /\ table[u] # None /\ Live(table[u])
  BY DEF TableAfter
<1>3. table'[t] = s
  BY DEF TableAfter
<1>4. table' \in [Titles -> Slots \cup {None}]
  BY <1>1 DEF TableAfter
<1>5. \A u \in Titles : table[u] # None /\ Live(table[u]) => table'[u] = table[u]
  BY <1>3, LookupFacts DEF TableAfter, SlotFor, Live
<1>6. \A u \in Titles : u # t => table'[u] # s
  <2> SUFFICES ASSUME NEW u \in Titles, u # t, table'[u] = s PROVE FALSE
    OBVIOUS
  <2>1. table[u] = s /\ Live(s)
    BY <1>2, WalkersAssumption
  <2> QED
    BY <2>1, LookupFacts, WalkersAssumption DEF LockInv, TableInjective
<1>7. TableInjective'
  <2> SUFFICES ASSUME NEW u \in Titles, NEW v \in Titles, table'[u] # None,
                      table'[u] = table'[v]
               PROVE  u = v
    BY DEF TableInjective
  <2>1. CASE u = t \/ v = t
    BY <2>1, <1>3, <1>6
  <2>2. CASE u # t /\ v # t
    BY <2>2, <1>2 DEF LockInv, TableInjective
  <2> QED
    BY <2>1, <2>2
<1> QED
  BY <1>3, <1>4, <1>5, <1>7

-----------------------------------------------------------------------------
(* One lemma per shape of step.                                             *)

\* Unlocking a mutex its holder lets go of hands it to a waiting operator or
\* frees it; the walker that let go moves on to drop its slot handle.
LEMMA UnlockStep ==
  ASSUME LockInv, NEW w \in Walkers, NEW s \in Slots,
         ref[w] = s, holder[s] = w, Unlock(s),
         pc' = [pc EXCEPT ![w] = "dropping"],
         UNCHANGED <<table, ref, title>>
  PROVE  /\ holder' \in [Slots -> Walkers \cup {None}]
         /\ queue' \in [Slots -> Seq(Operators)]
         /\ HandlesAreTabled' /\ TableInjective' /\ HoldersHold' /\ QueuesQueue'
<1> USE WalkersAssumption
<1>0. /\ holder \in [Slots -> Walkers \cup {None}]
      /\ queue \in [Slots -> Seq(Operators)]
      /\ ref \in [Walkers -> Slots \cup {None}]
      /\ pc \in [Walkers -> Phases]
      /\ HandlesAreTabled /\ TableInjective /\ HoldersHold /\ QueuesQueue
  BY DEF LockInv, TypeOK
<1>1. HandlesAreTabled'
  BY <1>0 DEF HandlesAreTabled, HoldersHold, Phases
<1>2. TableInjective'
  BY <1>0 DEF TableInjective, Live
<1>3. CASE queue[s] = <<>>
  <2>1. holder' = [holder EXCEPT ![s] = None] /\ queue' = queue
    BY <1>3 DEF Unlock
  <2>2. HoldersHold'
    BY <1>0, <2>1 DEF HoldersHold, Inside, HandlesAreTabled, Phases, Walkers
  <2>3. QueuesQueue'
    BY <1>0, <1>3, <2>1 DEF QueuesQueue, Walkers
  <2> QED
    BY <1>0, <1>1, <1>2, <2>1, <2>2, <2>3
<1>4. CASE queue[s] # <<>>
  <2> DEFINE h == Head(queue[s])
  <2>1. /\ holder' = [holder EXCEPT ![s] = h]
        /\ queue' = [queue EXCEPT ![s] = Tail(queue[s])]
    BY <1>4 DEF Unlock
  <2>2. /\ queue[s] \in Seq(Operators) /\ Len(queue[s]) \in Nat /\ 1 \in 1..Len(queue[s])
        /\ h = queue[s][1] /\ h \in Operators
        /\ Tail(queue[s]) \in Seq(Operators)
        /\ Len(Tail(queue[s])) = Len(queue[s]) - 1
        /\ \A i \in 1..Len(Tail(queue[s])) : /\ Tail(queue[s])[i] = queue[s][i + 1]
                                              /\ i + 1 \in 1..Len(queue[s])
    BY <1>0, <1>4
  <2>3. ref[h] = s /\ pc[h] = "waiting" /\ h # w
    BY <1>0, <2>2 DEF QueuesQueue
  <2>4. h \in Walkers
    BY <2>2 DEF Walkers
  <2>5. HoldersHold'
    BY <1>0, <2>1, <2>3, <2>4 DEF HoldersHold, Inside, HandlesAreTabled, Phases
  <2>6. QueuesQueue'
    <3> SUFFICES ASSUME NEW r \in Slots, NEW i \in 1..Len(queue'[r])
                 PROVE  /\ ref[queue'[r][i]] = r
                        /\ pc'[queue'[r][i]] = "waiting"
                        /\ holder'[r] # queue'[r][i]
                        /\ \A j \in 1..Len(queue'[r]) : queue'[r][i] = queue'[r][j] => i = j
      BY DEF QueuesQueue
    <3>1. CASE r = s
      <4>1. queue'[r] = Tail(queue[s]) /\ holder'[r] = queue[s][1]
        BY <1>0, <2>1, <2>2, <3>1
      <4> DEFINE q == queue[s]
      <4>2. i + 1 \in 1..Len(q) /\ queue'[r][i] = q[i + 1]
        BY <2>2, <4>1
      <4>3. /\ ref[q[i + 1]] = s /\ pc[q[i + 1]] = "waiting" /\ holder[s] # q[i + 1]
            /\ \A j \in 1..Len(q) : q[i + 1] = q[j] => i + 1 = j
        BY <1>0, <4>2 DEF QueuesQueue
      <4>4. pc'[q[i + 1]] = "waiting"
        BY <1>0, <4>3
      <4>5. q[1] # q[i + 1]
        BY <2>2, <4>2, <4>3
      <4>6. \A j \in 1..Len(queue'[r]) : queue'[r][i] = queue'[r][j] => i = j
        <5> SUFFICES ASSUME NEW j \in 1..Len(Tail(q)), q[i + 1] = Tail(q)[j]
                     PROVE  i = j
          BY <4>1, <4>2
        <5>1. j + 1 \in 1..Len(q) /\ Tail(q)[j] = q[j + 1]
          BY <2>2
        <5> QED
          BY <5>1, <4>3
      <4> QED
        BY <3>1, <4>1, <4>2, <4>3, <4>4, <4>5, <4>6
    <3>2. CASE r # s
      <4>1. queue'[r] = queue[r] /\ holder'[r] = holder[r]
        BY <1>0, <2>1, <3>2
      <4> QED
        BY <1>0, <4>1, <3>2 DEF QueuesQueue
    <3> QED
      BY <3>1, <3>2
  <2> QED
    BY <1>0, <1>1, <1>2, <2>1, <2>2, <2>4, <2>5, <2>6
<1> QED
  BY <1>3, <1>4

\* A walker without a slot looks its title up and takes the free mutex.
LEMMA TakeStep ==
  ASSUME LockInv, NEW w \in Walkers, NEW t \in Titles, NEW s \in Slots, NEW p,
         SlotFor(t, s), Free(s), ref[w] = None,
         p = "walking" \/ (p = "locked" /\ w \in Background),
         table' = TableAfter(t, s),
         holder' = [holder EXCEPT ![s] = w],
         ref' = [ref EXCEPT ![w] = s],
         title' = [title EXCEPT ![w] = t],
         pc' = [pc EXCEPT ![w] = p],
         queue' = queue
  PROVE  /\ table' \in [Titles -> Slots \cup {None}]
         /\ HandlesAreTabled' /\ TableInjective' /\ HoldersHold' /\ QueuesQueue'
<1> USE WalkersAssumption
<1>0. /\ table \in [Titles -> Slots \cup {None}]
      /\ holder \in [Slots -> Walkers \cup {None}]
      /\ queue \in [Slots -> Seq(Operators)]
      /\ ref \in [Walkers -> Slots \cup {None}]
      /\ pc \in [Walkers -> Phases]
      /\ title \in [Walkers -> Titles \cup {None}]
      /\ HandlesAreTabled /\ TableInjective /\ HoldersHold /\ QueuesQueue
  BY DEF LockInv, TypeOK
<1>1. /\ table' \in [Titles -> Slots \cup {None}] /\ TableInjective'
      /\ table'[t] = s
      /\ \A u \in Titles : table[u] # None /\ Live(table[u]) => table'[u] = table[u]
  BY LookupKeepsTable
<1>2. HandlesAreTabled'
  <2> SUFFICES ASSUME NEW v \in Walkers
               PROVE  /\ ref'[v] # None <=> pc'[v] \in {"waiting", "locked", "walking", "dropping"}
                      /\ ref'[v] # None => title'[v] \in Titles /\ table'[title'[v]] = ref'[v]
                      /\ pc'[v] = "tried" => title'[v] \in Titles
                      /\ pc'[v] \in {"tried", "waiting"} => v \in Operators
                      /\ pc'[v] = "locked" => v \in Background
    BY DEF HandlesAreTabled
  <2>1. CASE v = w
    <3>1. ref'[v] = s /\ pc'[v] = p /\ title'[v] = t /\ s # None
      BY <1>0, <2>1
    <3> QED
      BY <1>1, <2>1, <3>1
  <2>2. CASE v # w
    <3>1. ref'[v] = ref[v] /\ pc'[v] = pc[v] /\ title'[v] = title[v]
      BY <1>0, <2>2
    <3>2. ref[v] # None => table'[title[v]] = ref[v]
      BY <1>0, <1>1 DEF HandlesAreTabled, Live
    <3> QED
      BY <1>0, <3>1, <3>2 DEF HandlesAreTabled
  <2> QED
    BY <2>1, <2>2
<1>3. holder[s] = None /\ queue[s] = <<>> /\ ~Inside(w)
  BY <1>0 DEF Free, HandlesAreTabled, Inside
<1>4. HoldersHold'
  <2>1. \A v \in Walkers : v # w => ref'[v] = ref[v] /\ pc'[v] = pc[v]
    BY <1>0
  <2>2. \A r \in Slots : holder[r] # w
    BY <1>0 DEF HoldersHold
  <2>3. ref'[w] = s /\ pc'[w] = p /\ holder'[s] = w
    BY <1>0
  <2>4. \A r \in Slots : r # s => holder'[r] = holder[r]
    BY <1>0
  <2>5. \A v \in Walkers : Inside(v) => ref[v] \in Slots /\ holder[ref[v]] = v /\ ref[v] # s
    BY <1>0, <1>3 DEF HoldersHold, Inside, HandlesAreTabled, Walkers
  <2>6. \A v \in Walkers : Inside(v)' => holder'[ref'[v]] = v
    BY <2>1, <2>3, <2>4, <2>5 DEF Inside
  <2> QED
    BY <1>0, <2>1, <2>2, <2>3, <2>4, <2>6 DEF HoldersHold
<1>5. QueuesQueue'
  <2>1. \A r \in Slots : \A i \in 1..Len(queue[r]) :
           /\ r # s
           /\ queue[r][i] # w
           /\ queue[r][i] \in Operators
    BY <1>0, <1>3 DEF QueuesQueue
  <2> QED
    BY <1>0, <2>1 DEF QueuesQueue, Walkers
<1> QED
  BY <1>1, <1>2, <1>4, <1>5

\* An operator looks its title up, finds the mutex taken, and joins its queue.
LEMMA QueueStep ==
  ASSUME LockInv, NEW o \in Operators, NEW s \in Slots, pc[o] = "tried",
         SlotFor(title[o], s), ~Free(s),
         table' = TableAfter(title[o], s),
         ref' = [ref EXCEPT ![o] = s],
         queue' = [queue EXCEPT ![s] = Append(queue[s], o)],
         pc' = [pc EXCEPT ![o] = "waiting"],
         UNCHANGED <<holder, title>>
  PROVE  /\ table' \in [Titles -> Slots \cup {None}]
         /\ queue' \in [Slots -> Seq(Operators)]
         /\ HandlesAreTabled' /\ TableInjective' /\ HoldersHold' /\ QueuesQueue'
<1> USE WalkersAssumption
<1>0. /\ table \in [Titles -> Slots \cup {None}]
      /\ holder \in [Slots -> Walkers \cup {None}]
      /\ queue \in [Slots -> Seq(Operators)]
      /\ ref \in [Walkers -> Slots \cup {None}]
      /\ pc \in [Walkers -> Phases]
      /\ HandlesAreTabled /\ TableInjective /\ HoldersHold /\ QueuesQueue
      /\ o \in Walkers
  BY DEF LockInv, TypeOK, Walkers
<1>1. title[o] \in Titles /\ ref[o] = None
  BY <1>0 DEF HandlesAreTabled
<1>2. /\ table' \in [Titles -> Slots \cup {None}] /\ TableInjective'
      /\ table'[title[o]] = s
      /\ \A u \in Titles : table[u] # None /\ Live(table[u]) => table'[u] = table[u]
  BY <1>0, <1>1, LookupKeepsTable
<1>3. HandlesAreTabled'
  BY <1>0, <1>1, <1>2 DEF HandlesAreTabled, Live, Phases
<1>4. HoldersHold'
  BY <1>0, <1>1 DEF HoldersHold, Inside, HandlesAreTabled, Phases
<1>5. queue' \in [Slots -> Seq(Operators)]
  BY <1>0
<1>6. QueuesQueue'
  <2> SUFFICES ASSUME NEW r \in Slots, NEW i \in 1..Len(queue'[r])
               PROVE  /\ ref'[queue'[r][i]] = r
                      /\ pc'[queue'[r][i]] = "waiting"
                      /\ holder[r] # queue'[r][i]
                      /\ \A j \in 1..Len(queue'[r]) : queue'[r][i] = queue'[r][j] => i = j
    BY DEF QueuesQueue
  <2> DEFINE q == queue[s]
  <2>1. \A v \in Slots : /\ holder[v] # o
                         /\ \A k \in 1..Len(queue[v]) : /\ queue[v][k] # o
                                                        /\ queue[v][k] \in Walkers
    BY <1>0, <1>1 DEF QueuesQueue, HoldersHold, Walkers
  <2>2. CASE r = s
    <3>1. /\ queue'[r] = Append(q, o) /\ Len(q) \in Nat
          /\ Len(queue'[r]) = Len(q) + 1 /\ queue'[r][Len(q) + 1] = o
          /\ \A k \in 1..Len(q) : queue'[r][k] = q[k]
      BY <1>0, <2>2
    <3>2. CASE i = Len(q) + 1
      BY <1>0, <2>1, <2>2, <3>1, <3>2
    <3>3. CASE i \in 1..Len(q)
      <4>1. /\ ref[q[i]] = s /\ pc[q[i]] = "waiting" /\ holder[s] # q[i]
            /\ \A j \in 1..Len(q) : q[i] = q[j] => i = j
        BY <1>0, <3>3 DEF QueuesQueue
      <4>2. q[i] # o /\ q[i] \in Walkers /\ queue'[r][i] = q[i]
        BY <2>1, <3>1, <3>3
      <4>3. ref'[q[i]] = s /\ pc'[q[i]] = "waiting"
        BY <1>0, <4>1, <4>2
      <4>4. \A j \in 1..Len(queue'[r]) : queue'[r][i] = queue'[r][j] => i = j
        BY <3>1, <3>3, <4>1, <4>2
      <4> QED
        BY <2>2, <4>1, <4>2, <4>3, <4>4
    <3> QED
      BY <3>1, <3>2, <3>3
  <2>3. CASE r # s
    <3>1. queue'[r] = queue[r]
      BY <1>0, <2>3
    <3>2. queue[r][i] # o /\ queue[r][i] \in Walkers
      BY <2>1, <3>1
    <3> QED
      BY <1>0, <3>1, <3>2 DEF QueuesQueue
  <2> QED
    BY <2>2, <2>3
<1> QED
  BY <1>2, <1>3, <1>4, <1>5, <1>6

\* The length of a concatenation.
LEMMA ConcatLength ==
  ASSUME NEW S, NEW a \in Seq(S), NEW b \in Seq(S)
  PROVE  a \o b \in Seq(S) /\ Len(a \o b) = Len(a) + Len(b)
  BY ConcatProperties

\* Removing a member of a sequence without repetitions leaves the others, and
\* still no repetitions.
LEMMA RemoveFacts ==
  ASSUME NEW S, NEW q \in Seq(S), NEW i \in 1..Len(q),
         \A x, y \in 1..Len(q) : q[x] = q[y] => x = y
  PROVE  LET n == SubSeq(q, 1, i - 1) \o SubSeq(q, i + 1, Len(q))
         IN  /\ n \in Seq(S)
             /\ \A x \in 1..Len(n) : n[x] # q[i] /\ \E z \in 1..Len(q) : n[x] = q[z]
             /\ \A x, y \in 1..Len(n) : n[x] = n[y] => x = y
             /\ \A z \in 1..Len(q) : z # i => \E x \in 1..Len(n) : n[x] = q[z]
<1> DEFINE a == SubSeq(q, 1, i - 1)
           b == SubSeq(q, i + 1, Len(q))
           n == a \o b
<1>1. /\ a \in Seq(S) /\ Len(a) = i - 1
      /\ \A k \in 1..(i - 1) : a[k] = q[k]
  OBVIOUS
<1>2. /\ b \in Seq(S) /\ Len(b) = Len(q) - i
      /\ \A k \in 1..(Len(q) - i) : b[k] = q[k + i]
  OBVIOUS
<1> HIDE DEF a, b
<1>3. n \in Seq(S) /\ Len(n) = Len(q) - 1 /\ Len(q) \in Nat
  <2>1. n \in Seq(S) /\ Len(n) = Len(a) + Len(b)
    BY <1>1, <1>2, ConcatLength
  <2>2. Len(q) \in Nat /\ i \in Nat
    OBVIOUS
  <2> QED
    BY <1>1, <1>2, <2>1, <2>2
<1>4. ASSUME NEW k \in 1..Len(n)
      PROVE  n[k] = IF k < i THEN q[k] ELSE q[k + 1]
  <2>1. CASE k < i
    BY <1>1, <1>2, <1>3, <2>1
  <2>2. CASE k >= i
    <3>1. n[k] = b[k - (i - 1)] /\ k - (i - 1) \in 1..(Len(q) - i)
      BY <1>1, <1>2, <1>3, <2>2
    <3> QED
      BY <1>2, <2>2, <3>1
  <2> QED
    BY <1>3, <2>1, <2>2
<1>5. \A k \in 1..Len(n) : k \in 1..Len(q) /\ k + 1 \in 1..Len(q)
  BY <1>3
<1> HIDE DEF n
<1> DEFINE at(k) == IF k < i THEN k ELSE k + 1
<1>i. i \in Int /\ \A k \in 1..Len(n) : k \in Int
  BY <1>3
<1>a. ASSUME NEW k \in 1..Len(n)
      PROVE  n[k] = q[at(k)] /\ at(k) \in 1..Len(q) /\ at(k) # i
  <2>1. CASE k < i
    <3>1. at(k) = k
      BY <2>1
    <3>2. n[k] = q[k]
      BY <1>4, <2>1
    <3>3. k \in 1..Len(q) /\ k # i
      BY <1>5, <1>i, <2>1
    <3> QED
      BY <3>1, <3>2, <3>3
  <2>2. CASE ~(k < i)
    <3>1. at(k) = k + 1
      BY <2>2
    <3>2. n[k] = q[k + 1]
      BY <1>4, <2>2
    <3>3. k + 1 \in 1..Len(q) /\ k + 1 # i
      BY <1>5, <1>i, <2>2
    <3> QED
      BY <3>1, <3>2, <3>3
  <2> QED
    BY <2>1, <2>2
<1>b. ASSUME NEW k \in 1..Len(n), NEW l \in 1..Len(n), at(k) = at(l)
      PROVE  k = l
  BY <1>i, <1>b
<1>c. ASSUME NEW z \in 1..Len(q), z # i
      PROVE  \E x \in 1..Len(n) : n[x] = q[z]
  <2>1. CASE z < i
    <3>1. z \in 1..Len(n)
      BY <1>3, <2>1
    <3> QED
      BY <1>4, <2>1, <3>1
  <2>2. CASE z > i
    <3>1. z - 1 \in 1..Len(n) /\ ~(z - 1 < i) /\ (z - 1) + 1 = z
      BY <1>3, <2>2
    <3> QED
      BY <1>4, <3>1
  <2> QED
    BY <1>c, <1>3, <2>1, <2>2
<1> HIDE DEF at
<1>6. ASSUME NEW x \in 1..Len(n) PROVE n[x] # q[i] /\ \E z \in 1..Len(q) : n[x] = q[z]
  <2>1. n[x] = q[at(x)] /\ at(x) \in 1..Len(q) /\ at(x) # i
    BY <1>a
  <2> QED
    BY <2>1
<1>7. ASSUME NEW x \in 1..Len(n), NEW y \in 1..Len(n), n[x] = n[y] PROVE x = y
  <2>1. /\ n[x] = q[at(x)] /\ at(x) \in 1..Len(q)
        /\ n[y] = q[at(y)] /\ at(y) \in 1..Len(q)
    BY <1>a
  <2>2. at(x) = at(y)
    BY <1>7, <2>1
  <2> QED
    BY <1>b, <2>2
<1> QED
  BY <1>3, <1>6, <1>7, <1>c DEF n, a, b

\* A waiting operator that the mutex was not handed to leaves the queue.
LEMMA LeaveQueueStep ==
  ASSUME LockInv, NEW o \in Operators, NEW s \in Slots, pc[o] = "waiting", ref[o] = s,
         holder[s] # o,
         NEW n \in Seq(Operators),
         \A x \in 1..Len(n) : n[x] # o /\ \E z \in 1..Len(queue[s]) : n[x] = queue[s][z],
         \A x, y \in 1..Len(n) : n[x] = n[y] => x = y,
         queue' = [queue EXCEPT ![s] = n],
         pc' = [pc EXCEPT ![o] = "dropping"],
         UNCHANGED <<table, holder, ref, title>>
  PROVE  /\ queue' \in [Slots -> Seq(Operators)]
         /\ HandlesAreTabled' /\ TableInjective' /\ HoldersHold' /\ QueuesQueue'
<1> USE WalkersAssumption
<1>0. /\ holder \in [Slots -> Walkers \cup {None}]
      /\ queue \in [Slots -> Seq(Operators)]
      /\ ref \in [Walkers -> Slots \cup {None}]
      /\ pc \in [Walkers -> Phases]
      /\ HandlesAreTabled /\ TableInjective /\ HoldersHold /\ QueuesQueue
      /\ o \in Walkers
  BY DEF LockInv, TypeOK, Walkers
<1>1. HandlesAreTabled' /\ TableInjective'
  BY <1>0 DEF HandlesAreTabled, TableInjective, Live, Phases
<1>2. HoldersHold'
  BY <1>0 DEF HoldersHold, Inside, Phases
<1>3. queue' \in [Slots -> Seq(Operators)]
  BY <1>0
<1>4. QueuesQueue'
  <2> SUFFICES ASSUME NEW r \in Slots, NEW k \in 1..Len(queue'[r])
               PROVE  /\ ref[queue'[r][k]] = r
                      /\ pc'[queue'[r][k]] = "waiting"
                      /\ holder[r] # queue'[r][k]
                      /\ \A j \in 1..Len(queue'[r]) : queue'[r][k] = queue'[r][j] => k = j
    BY DEF QueuesQueue
  <2>1. CASE r = s
    <3>1. queue'[r] = n
      BY <1>0, <2>1
    <3>2. PICK z \in 1..Len(queue[s]) : n[k] = queue[s][z]
      BY <3>1
    <3>3. ref[n[k]] = s /\ pc[n[k]] = "waiting" /\ holder[s] # n[k] /\ n[k] # o
      BY <1>0, <3>1, <3>2 DEF QueuesQueue
    <3>4. n[k] \in Walkers
      BY <3>1 DEF Walkers
    <3> QED
      BY <1>0, <2>1, <3>1, <3>3, <3>4
  <2>2. CASE r # s
    <3>1. queue'[r] = queue[r]
      BY <1>0, <2>2
    <3>2. ref[queue[r][k]] = r /\ pc[queue[r][k]] = "waiting" /\ queue[r][k] # o
      BY <1>0, <2>2, <3>1 DEF QueuesQueue
    <3>3. queue[r][k] \in Walkers
      BY <1>0, <3>1 DEF Walkers
    <3> QED
      BY <1>0, <3>1, <3>2, <3>3 DEF QueuesQueue
  <2> QED
    BY <2>1, <2>2
<1> QED
  BY <1>1, <1>2, <1>3, <1>4

-----------------------------------------------------------------------------
\* Every step of the table, the walkers and the RSS visits keeps the invariant.
LEMMA NextLock == LockInv /\ [Next]_vars => LockInv'
<1> SUFFICES ASSUME LockInv, [Next]_vars PROVE LockInv'
  OBVIOUS
<1> USE WalkersAssumption, MaxRssAssumption
<1> DEFINE Shape == HandlesAreTabled /\ TableInjective /\ HoldersHold /\ QueuesQueue
<1>0. TypeOK /\ Shape
  BY DEF LockInv
<1>1. ASSUME NEW o \in Operators, NEW t \in Titles, NEW s \in Slots, TryAcquire(o, t, s)
      PROVE  LockInv'
  <2>1. o \in Walkers /\ ref[o] = None
    BY <1>0, <1>1 DEF Walkers, TryAcquire, HandlesAreTabled
  <2>2. CASE Free(s)
    <3>1. table' \in [Titles -> Slots \cup {None}] /\ Shape'
      BY <1>1, <2>1, <2>2, TakeStep DEF TryAcquire
    <3>2. /\ holder' = [holder EXCEPT ![s] = o] /\ yield' = [yield EXCEPT ![s] = None]
          /\ ref' = [ref EXCEPT ![o] = s] /\ pc' = [pc EXCEPT ![o] = "walking"]
          /\ title' = [title EXCEPT ![o] = t]
          /\ UNCHANGED <<queue, token, cancelled, rss, cycle, rssYield>>
      BY <1>1, <2>2 DEF TryAcquire, prioVars
    <3>3. TypeOK'
      BY <1>0, <2>1, <3>1, <3>2 DEF TypeOK, Phases
    <3> QED
      BY <3>1, <3>3 DEF LockInv
  <2>3. CASE ~Free(s)
    <3>1. /\ table' = TableAfter(t, s) /\ pc' = [pc EXCEPT ![o] = "tried"]
          /\ title' = [title EXCEPT ![o] = t] /\ pc[o] = "idle" /\ SlotFor(t, s)
          /\ UNCHANGED <<holder, queue, yield, ref, token, cancelled, prioVars>>
      BY <1>1, <2>3 DEF TryAcquire
    <3>2. /\ table' \in [Titles -> Slots \cup {None}] /\ TableInjective'
          /\ \A u \in Titles : table[u] # None /\ Live(table[u]) => table'[u] = table[u]
      BY <3>1, LookupKeepsTable
    <3>3. TypeOK'
      BY <1>0, <2>1, <3>1, <3>2 DEF TypeOK, Phases, prioVars
    <3>4. HandlesAreTabled'
      <4>1. \A w \in Walkers : w # o => title'[w] = title[w] /\ pc'[w] = pc[w]
        BY <1>0, <3>1 DEF TypeOK
      <4>2. title'[o] = t /\ pc'[o] = "tried"
        BY <1>0, <2>1, <3>1 DEF TypeOK
      <4>3. \A w \in Walkers : ref[w] # None => Live(ref[w])
        BY DEF Live
      <4> QED
        BY <1>0, <2>1, <3>1, <3>2, <4>1, <4>2, <4>3 DEF HandlesAreTabled
    <3>5. HoldersHold' /\ QueuesQueue'
      BY <1>0, <3>1 DEF TypeOK, HoldersHold, QueuesQueue, Inside, Walkers, Phases
    <3> QED
      BY <3>2, <3>3, <3>4, <3>5 DEF LockInv
  <2> QED
    BY <2>2, <2>3
<1>2. ASSUME NEW o \in Operators, NEW s \in Slots, Acquire(o, s)
      PROVE  LockInv'
  <2>1. o \in Walkers /\ ref[o] = None /\ title[o] \in Titles
    BY <1>0, <1>2 DEF Walkers, Acquire, HandlesAreTabled
  <2>2. cancelled' \subseteq Tokens
    BY <1>0, <1>2 DEF Acquire, Yield, TypeOK
  <2>3. CASE Free(s)
    <3>1. title' = [title EXCEPT ![o] = title[o]]
      BY <1>0, <1>2, <2>1 DEF Acquire, TypeOK
    <3>2. table' \in [Titles -> Slots \cup {None}] /\ Shape'
      BY <1>2, <2>1, <2>3, <3>1, TakeStep DEF Acquire
    <3>3. /\ holder' = [holder EXCEPT ![s] = o] /\ yield' = [yield EXCEPT ![s] = None]
          /\ ref' = [ref EXCEPT ![o] = s] /\ pc' = [pc EXCEPT ![o] = "walking"]
          /\ UNCHANGED <<queue, title, token, rss, cycle, rssYield>>
      BY <1>2, <2>3 DEF Acquire, prioVars
    <3>4. TypeOK'
      BY <1>0, <2>1, <2>2, <3>2, <3>3 DEF TypeOK, Phases
    <3> QED
      BY <3>2, <3>4 DEF LockInv
  <2>4. CASE ~Free(s)
    <3>1. /\ table' \in [Titles -> Slots \cup {None}]
          /\ queue' \in [Slots -> Seq(Operators)] /\ Shape'
      BY <1>2, <2>4, QueueStep DEF Acquire
    <3>2. TypeOK'
      BY <1>0, <1>2, <2>1, <2>2, <2>4, <3>1 DEF TypeOK, Acquire, Phases, prioVars
    <3> QED
      BY <3>1, <3>2 DEF LockInv
  <2> QED
    BY <2>3, <2>4
<1>3. ASSUME NEW o \in Operators, Resume(o) \/ CancelBeforeWait(o)
      PROVE  LockInv'
  <2>0. o \in Walkers
    BY DEF Walkers
  <2>1. TypeOK'
    BY <1>0, <1>3, <2>0 DEF TypeOK, Resume, CancelBeforeWait, Phases, slotVars, prioVars
  <2>2. HandlesAreTabled' /\ TableInjective'
    BY <1>0, <1>3, <2>0 DEF TypeOK, Resume, CancelBeforeWait, HandlesAreTabled,
         TableInjective, Live, slotVars, prioVars
  <2>3. \A s \in Slots : \A i \in 1..Len(queue[s]) : queue[s][i] # o
    BY <1>0, <1>3, <2>0 DEF TypeOK, Resume, CancelBeforeWait, QueuesQueue
  <2>4. HoldersHold'
    BY <1>0, <1>3, <2>0 DEF TypeOK, Resume, CancelBeforeWait, HoldersHold, Inside,
         HandlesAreTabled, slotVars, prioVars
  <2>5. QueuesQueue'
    BY <1>0, <1>3, <2>3 DEF TypeOK, Resume, CancelBeforeWait, QueuesQueue, Walkers,
         slotVars, prioVars
  <2> QED
    BY <2>1, <2>2, <2>4, <2>5 DEF LockInv
<1>4. ASSUME NEW o \in Operators, AbandonWait(o)
      PROVE  LockInv'
  <2>0. o \in Walkers /\ ref[o] \in Slots
    BY <1>0, <1>4 DEF Walkers, AbandonWait, HandlesAreTabled, TypeOK
  <2>1. /\ holder' \in [Slots -> Walkers \cup {None}]
        /\ queue' \in [Slots -> Seq(Operators)]
        /\ Shape'
    <3>1. CASE holder[ref[o]] = o /\ Unlock(ref[o])
      BY <1>4, <2>0, <3>1, UnlockStep DEF AbandonWait
    <3>2. CASE \E i \in 1..Len(queue[ref[o]]) :
                  /\ queue[ref[o]][i] = o
                  /\ queue' = [queue EXCEPT ![ref[o]] =
                                 SubSeq(queue[ref[o]], 1, i - 1)
                                   \o SubSeq(queue[ref[o]], i + 1, Len(queue[ref[o]]))]
                  /\ UNCHANGED holder
      <4> DEFINE q == queue[ref[o]]
      <4>1. PICK i \in 1..Len(q) :
                  /\ q[i] = o
                  /\ queue' = [queue EXCEPT ![ref[o]] =
                                 SubSeq(q, 1, i - 1) \o SubSeq(q, i + 1, Len(q))]
                  /\ UNCHANGED holder
        BY <3>2
      <4>2. /\ q \in Seq(Operators)
            /\ \A x, y \in 1..Len(q) : q[x] = q[y] => x = y
            /\ holder[ref[o]] # o
        BY <1>0, <2>0, <4>1 DEF TypeOK, QueuesQueue
      <4> DEFINE n == SubSeq(q, 1, i - 1) \o SubSeq(q, i + 1, Len(q))
      <4> HIDE DEF q
      <4>3. /\ n \in Seq(Operators)
            /\ \A x \in 1..Len(n) : n[x] # o /\ \E z \in 1..Len(q) : n[x] = q[z]
            /\ \A x, y \in 1..Len(n) : n[x] = n[y] => x = y
        <5>1. /\ n \in Seq(Operators)
              /\ \A x \in 1..Len(n) : n[x] # q[i] /\ \E z \in 1..Len(q) : n[x] = q[z]
              /\ \A x, y \in 1..Len(n) : n[x] = n[y] => x = y
          BY <4>2, RemoveFacts
        <5> QED
          BY <4>1, <5>1
      <4>4. queue' = [queue EXCEPT ![ref[o]] = n]
        BY <4>1 DEF q
      <4> HIDE DEF n
      <4> QED
        BY <1>0, <1>4, <2>0, <4>1, <4>2, <4>3, <4>4, LeaveQueueStep DEF AbandonWait, TypeOK, q
    <3> QED
      BY <1>4, <3>1, <3>2 DEF AbandonWait
  <2>2. TypeOK'
    BY <1>0, <1>4, <2>0, <2>1 DEF TypeOK, AbandonWait, Phases, prioVars
  <2> QED
    BY <2>1, <2>2 DEF LockInv
<1>5. ASSUME NEW w \in Walkers, EndWalk(w)
      PROVE  LockInv'
  <2>1. ref[w] \in Slots /\ holder[ref[w]] = w
    BY <1>0, <1>5 DEF EndWalk, TypeOK, HandlesAreTabled, HoldersHold, Inside
  <2>2. /\ holder' \in [Slots -> Walkers \cup {None}]
        /\ queue' \in [Slots -> Seq(Operators)] /\ Shape'
    BY <1>5, <2>1, UnlockStep DEF EndWalk
  <2>3. TypeOK'
    BY <1>0, <1>5, <2>2 DEF TypeOK, EndWalk, Phases, prioVars
  <2> QED
    BY <2>2, <2>3 DEF LockInv
<1>6. ASSUME NEW w \in Walkers, DropSlot(w)
      PROVE  LockInv'
  <2>1. TypeOK'
    BY <1>0, <1>6 DEF TypeOK, DropSlot, Phases, slotVars, prioVars
  <2>2. HandlesAreTabled' /\ TableInjective'
    BY <1>0, <1>6 DEF TypeOK, DropSlot, HandlesAreTabled, TableInjective, Live,
         slotVars, prioVars
  <2>3. \A s \in Slots : /\ holder[s] # w
                         /\ \A i \in 1..Len(queue[s]) : queue[s][i] # w
    BY <1>0, <1>6 DEF TypeOK, DropSlot, QueuesQueue, HoldersHold
  <2>4. HoldersHold'
    BY <1>0, <1>6, <2>3 DEF TypeOK, DropSlot, HoldersHold, Inside, slotVars, prioVars
  <2>5. QueuesQueue'
    BY <1>0, <1>6, <2>3 DEF TypeOK, DropSlot, QueuesQueue, Walkers, slotVars, prioVars
  <2> QED
    BY <2>1, <2>2, <2>4, <2>5 DEF LockInv
<1>7. ASSUME NEW w \in Background, NEW t \in Titles, NEW s \in Slots, NEW tk \in Tokens,
             TryAcquireBackground(w, t, s, tk)
      PROVE  LockInv'
  <2>1. w \in Walkers /\ ref[w] = None
    BY <1>0, <1>7 DEF Walkers, TryAcquireBackground, HandlesAreTabled
  <2>2. table' \in [Titles -> Slots \cup {None}] /\ Shape'
    BY <1>7, <2>1, TakeStep DEF TryAcquireBackground
  <2>3. TypeOK'
    BY <1>0, <1>7, <2>1, <2>2 DEF TypeOK, TryAcquireBackground, Phases, prioVars
  <2> QED
    BY <2>2, <2>3 DEF LockInv
<1>8. ASSUME NEW w \in Background, Dispatch(w)
      PROVE  LockInv'
  <2>0. w \in Walkers /\ ref[w] \in Slots /\ holder[ref[w]] = w
    BY <1>0, <1>8 DEF Walkers, Dispatch, TypeOK, HandlesAreTabled, HoldersHold, Inside
  <2>1. CASE ~rssYield
    <3>1. TypeOK'
      BY <1>0, <1>8, <2>0, <2>1 DEF TypeOK, Dispatch, Phases, prioVars
    <3>2. HandlesAreTabled' /\ TableInjective'
      BY <1>0, <1>8, <2>0, <2>1 DEF TypeOK, Dispatch, HandlesAreTabled, TableInjective, Live
    <3>3. HoldersHold'
      <4>1. /\ UNCHANGED <<holder, ref>> /\ pc[w] = "locked"
            /\ pc' = [pc EXCEPT ![w] = "walking"] /\ pc \in [Walkers -> Phases]
        BY <1>0, <1>8, <2>1 DEF Dispatch, TypeOK
      <4> QED
        BY <1>0, <2>0, <4>1 DEF HoldersHold, Inside
    <3>4. QueuesQueue'
      BY <1>0, <1>8, <2>0, <2>1 DEF TypeOK, Dispatch, QueuesQueue, Walkers
    <3> QED
      BY <3>1, <3>2, <3>3, <3>4 DEF LockInv
  <2>2. CASE rssYield
    <3>1. /\ holder' \in [Slots -> Walkers \cup {None}]
          /\ queue' \in [Slots -> Seq(Operators)] /\ Shape'
      BY <1>8, <2>0, <2>2, UnlockStep DEF Dispatch
    <3>2. TypeOK'
      BY <1>0, <1>8, <2>0, <2>2, <3>1 DEF TypeOK, Dispatch, Phases, prioVars
    <3> QED
      BY <3>1, <3>2 DEF LockInv
  <2> QED
    BY <2>1, <2>2
<1>9. ASSUME BeginCycle \/ EndCycle \/ BeginRss \/ EndRss \/ UNCHANGED vars
      PROVE  LockInv'
  <2>1. UNCHANGED <<table, holder, queue, ref, pc, title>>
    BY <1>9 DEF BeginCycle, EndCycle, BeginRss, EndRss, vars, slotVars, walkVars
  <2>2. Shape'
    BY <1>0, <2>1 DEF HandlesAreTabled, TableInjective, HoldersHold, QueuesQueue, Live, Inside
  <2>3. rss' \in 0..MaxRss
    BY <1>0, <1>9 DEF TypeOK, BeginCycle, EndCycle, BeginRss, EndRss, vars
  <2>4. cycle' \in BOOLEAN /\ rssYield' \in BOOLEAN
    BY <1>0, <1>9 DEF TypeOK, BeginCycle, EndCycle, BeginRss, EndRss, vars
  <2>5. UNCHANGED <<yield, token, cancelled>>
    BY <1>9 DEF BeginCycle, EndCycle, BeginRss, EndRss, vars, slotVars, walkVars
  <2>6. TypeOK'
    BY <1>0, <2>1, <2>3, <2>4, <2>5 DEF TypeOK
  <2> QED
    BY <2>2, <2>6 DEF LockInv
<1> QED
  BY <1>1, <1>2, <1>3, <1>4, <1>5, <1>6, <1>7, <1>8, <1>9
     DEF Next, OperatorStep, BackgroundStep, Walkers

\* The lock invariant holds of every behaviour.
LEMMA LockHolds == Spec => []LockInv
  BY InitLock, NextLock, PTL DEF Spec

-----------------------------------------------------------------------------
(* No wakeup is lost.                                                       *)

\* The facts about locks that the lemmas below use.
LEMMA LockFacts ==
  ASSUME LockInv
  PROVE  /\ holder \in [Slots -> Walkers \cup {None}]
         /\ queue \in [Slots -> Seq(Operators)]
         /\ yield \in [Slots -> Tokens \cup {None}]
         /\ ref \in [Walkers -> Slots \cup {None}]
         /\ pc \in [Walkers -> Phases]
         /\ title \in [Walkers -> Titles \cup {None}]
         /\ token \in [Background -> Tokens \cup {None}]
         /\ \A o \in Operators : o \in Walkers /\ o \notin Background
         /\ \A w \in Background : w \in Walkers /\ w \notin Operators
         /\ \A w \in Walkers : pc[w] \in {"waiting", "locked", "walking", "dropping"} => ref[w] \in Slots
         /\ \A w \in Walkers : pc[w] \in {"idle", "tried"} => ref[w] = None
         /\ \A w \in Walkers : Inside(w) => ref[w] \in Slots /\ holder[ref[w]] = w
         /\ \A r \in Slots, w \in Walkers :
               holder[r] = w => ref[w] = r /\ pc[w] \in {"waiting", "locked", "walking"}
         /\ \A w \in Background : pc[w] \notin {"tried", "waiting"}
  BY WalkersAssumption
     DEF LockInv, TypeOK, HandlesAreTabled, HoldersHold, Inside, Walkers

\* A step that leaves mutexes and queues alone and makes nobody wait.
LEMMA WaitersStay ==
  ASSUME WaitersQueue, UNCHANGED <<holder, queue>>,
         \A o \in Operators : pc'[o] = "waiting" => pc[o] = "waiting" /\ ref'[o] = ref[o]
  PROVE  WaitersQueue'
  BY DEF WaitersQueue

\* Nobody waits for a free mutex, so taking one passes nobody over.
LEMMA WaitersTake ==
  ASSUME LockInv, WaitersQueue, NEW w \in Walkers, NEW s \in Slots, NEW p,
         Free(s), ref[w] = None, p # "waiting",
         holder' = [holder EXCEPT ![s] = w],
         ref' = [ref EXCEPT ![w] = s],
         pc' = [pc EXCEPT ![w] = p],
         queue' = queue
  PROVE  /\ WaitersQueue'
         /\ \A o \in Operators : pc[o] = "waiting" => ref[o] # s
<1> USE LockFacts, WalkersAssumption
<1>1. ASSUME NEW o \in Operators, pc[o] = "waiting" PROVE ref[o] # s /\ o # w
  <2>1. holder[s] = None /\ queue[s] = <<>>
    BY DEF Free
  <2>2. ref[o] \in Slots
    BY <1>1
  <2>3. ref[o] # s
    BY <1>1, <2>1 DEF WaitersQueue
  <2> QED
    BY <2>2, <2>3
<1>2. ASSUME NEW o \in Operators, pc'[o] = "waiting"
      PROVE  pc[o] = "waiting" /\ ref'[o] = ref[o] /\ holder'[ref[o]] = holder[ref[o]]
  <2>1. o # w /\ pc[o] = "waiting"
    BY <1>2
  <2>2. ref[o] # s /\ ref[o] \in Slots
    BY <1>1, <2>1
  <2> QED
    BY <2>1, <2>2
<1>3. WaitersQueue'
  BY <1>2 DEF WaitersQueue
<1> QED
  BY <1>1, <1>3

\* An operator that finds the mutex taken joins the queue behind the others.
LEMMA WaitersJoin ==
  ASSUME LockInv, WaitersQueue, NEW o \in Operators, NEW s \in Slots, pc[o] = "tried",
         ref' = [ref EXCEPT ![o] = s],
         queue' = [queue EXCEPT ![s] = Append(queue[s], o)],
         pc' = [pc EXCEPT ![o] = "waiting"],
         holder' = holder
  PROVE  WaitersQueue'
<1> USE LockFacts
<1> SUFFICES ASSUME NEW p \in Operators, pc'[p] = "waiting", holder[ref'[p]] # p
             PROVE  \E i \in 1..Len(queue'[ref'[p]]) : queue'[ref'[p]][i] = p
  BY DEF WaitersQueue
<1>1. /\ queue'[s] = Append(queue[s], o) /\ Len(queue[s]) \in Nat
      /\ Len(queue'[s]) = Len(queue[s]) + 1
      /\ queue'[s][Len(queue[s]) + 1] = o
      /\ \A i \in 1..Len(queue[s]) : queue'[s][i] = queue[s][i]
      /\ \A r \in Slots : r # s => queue'[r] = queue[r]
  OBVIOUS
<1>2. CASE p = o
  <2>1. ref'[p] = s /\ Len(queue[s]) + 1 \in 1..Len(queue'[s])
    BY <1>1, <1>2
  <2> QED
    BY <1>1, <1>2, <2>1
<1>3. CASE p # o
  <2>1. pc[p] = "waiting" /\ ref'[p] = ref[p] /\ ref[p] \in Slots
    BY <1>3
  <2>2. PICK i \in 1..Len(queue[ref[p]]) : queue[ref[p]][i] = p
    BY <2>1 DEF WaitersQueue
  <2>3. i \in 1..Len(queue'[ref[p]]) /\ queue'[ref[p]][i] = p
    <3>1. CASE ref[p] = s
      BY <1>1, <2>2, <3>1
    <3>2. CASE ref[p] # s
      BY <1>1, <2>1, <2>2, <3>2
    <3> QED
      BY <3>1, <3>2
  <2> QED
    BY <2>1, <2>3
<1> QED
  BY <1>2, <1>3

\* Unlocking hands the mutex to the first in the queue and keeps the rest.
LEMMA WaitersUnlock ==
  ASSUME LockInv, WaitersQueue, NEW w \in Walkers, NEW s \in Slots,
         ref[w] = s, holder[s] = w, Unlock(s),
         pc' = [pc EXCEPT ![w] = "dropping"], ref' = ref
  PROVE  /\ WaitersQueue'
         /\ holder'[s] \in Operators \cup {None}
         /\ \A r \in Slots : r # s => holder'[r] = holder[r]
<1> USE LockFacts, WalkersAssumption
<1> DEFINE q == queue[s]
<1>1. q \in Seq(Operators)
  OBVIOUS
<1>2. ASSUME NEW p \in Operators, pc'[p] = "waiting"
      PROVE  p # w /\ pc[p] = "waiting" /\ ref[p] \in Slots
  BY <1>2
<1>3. CASE q = <<>>
  <2>1. holder' = [holder EXCEPT ![s] = None] /\ queue' = queue
    BY <1>3 DEF Unlock
  <2>2. ASSUME NEW p \in Operators, pc'[p] = "waiting" PROVE ref[p] # s
    BY <1>2, <1>3, <2>2 DEF WaitersQueue
  <2>3. WaitersQueue'
    BY <1>2, <2>1, <2>2 DEF WaitersQueue
  <2> QED
    BY <2>1, <2>3
<1>4. CASE q # <<>>
  <2>1. /\ holder' = [holder EXCEPT ![s] = Head(q)]
        /\ queue' = [queue EXCEPT ![s] = Tail(q)]
    BY <1>4 DEF Unlock
  <2>2. /\ holder'[s] = q[1] /\ q[1] \in Operators /\ queue'[s] = Tail(q)
        /\ \A r \in Slots : r # s => holder'[r] = holder[r] /\ queue'[r] = queue[r]
    BY <1>1, <1>4, <2>1
  <2> HIDE DEF q
  <2>3. ASSUME NEW i \in 1..Len(q), i # 1
        PROVE  i - 1 \in 1..Len(Tail(q)) /\ Tail(q)[i - 1] = q[i]
    BY <1>1, <2>3
  <2>4. ASSUME NEW p \in Operators, pc'[p] = "waiting"
        PROVE  \/ holder'[ref'[p]] = p
               \/ \E i \in 1..Len(queue'[ref'[p]]) : queue'[ref'[p]][i] = p
    <3>0. ref'[p] = ref[p]
      OBVIOUS
    <3>1. CASE ref[p] = s
      <4>1. PICK i \in 1..Len(q) : q[i] = p
        BY <1>2, <2>4, <3>1 DEF WaitersQueue, q
      <4>2. CASE i = 1
        BY <2>2, <3>0, <3>1, <4>1, <4>2
      <4>3. CASE i # 1
        <5>1. i - 1 \in 1..Len(Tail(q)) /\ Tail(q)[i - 1] = p
          BY <2>3, <4>1, <4>3
        <5>2. queue'[ref'[p]] = Tail(q)
          BY <2>2, <3>0, <3>1
        <5> QED
          BY <5>1, <5>2
      <4> QED
        BY <4>2, <4>3
    <3>2. CASE ref[p] # s
      BY <1>2, <2>2, <2>4, <3>0, <3>2 DEF WaitersQueue
    <3> QED
      BY <3>1, <3>2
  <2>5. WaitersQueue'
    BY <2>4 DEF WaitersQueue
  <2> QED
    BY <2>2, <2>5
<1> QED
  BY <1>3, <1>4

\* An operator that leaves the queue takes nobody with it.
LEMMA WaitersLeave ==
  ASSUME LockInv, WaitersQueue, NEW o \in Operators, NEW s \in Slots, ref[o] = s,
         NEW n,
         \A z \in 1..Len(queue[s]) :
            queue[s][z] # o => \E x \in 1..Len(n) : n[x] = queue[s][z],
         queue' = [queue EXCEPT ![s] = n],
         pc' = [pc EXCEPT ![o] = "dropping"],
         UNCHANGED <<holder, ref>>
  PROVE  WaitersQueue'
<1> USE LockFacts
<1>1. queue'[s] = n /\ \A r \in Slots : r # s => queue'[r] = queue[r]
  OBVIOUS
<1> SUFFICES ASSUME NEW p \in Operators, pc'[p] = "waiting", holder[ref[p]] # p
             PROVE  \E i \in 1..Len(queue'[ref[p]]) : queue'[ref[p]][i] = p
  BY DEF WaitersQueue
<1>2. p # o /\ pc[p] = "waiting" /\ ref[p] \in Slots
  OBVIOUS
<1>3. PICK z \in 1..Len(queue[ref[p]]) : queue[ref[p]][z] = p
  BY <1>2 DEF WaitersQueue
<1>4. CASE ref[p] = s
  BY <1>1, <1>2, <1>3, <1>4
<1>5. CASE ref[p] # s
  BY <1>1, <1>2, <1>3, <1>5
<1> QED
  BY <1>4, <1>5

-----------------------------------------------------------------------------
(* Yield tokens.                                                            *)

\* A step that leaves the background walks alone, and forgets the token of a
\* live slot only if it cancels it or nobody holds the slot's mutex.
LEMMA TokensStay ==
  ASSUME LockInv, TokensAgree, YieldReaches, token' = token,
         \A w \in Background : pc'[w] = pc[w] /\ ref'[w] = ref[w],
         cancelled \subseteq cancelled',
         \A s \in Slots : yield'[s] = None \/ (yield'[s] = yield[s] /\ (Live(s)' => Live(s))),
         \A s \in Slots : \/ yield'[s] = yield[s]
                          \/ holder[s] = None
                          \/ Live(s) => yield[s] \in cancelled' \cup {None}
  PROVE  TokensAgree' /\ YieldReaches'
<1> USE LockFacts, WalkersAssumption
<1>1. \A w \in Background : Inside(w)' <=> Inside(w)
  BY DEF Inside
<1>2. TokensAgree'
  BY <1>1 DEF TokensAgree
<1>3. ASSUME NEW w \in Background, Inside(w)
      PROVE  yield'[ref[w]] = token[w] \/ token[w] \in cancelled'
  <2>1. ref[w] \in Slots /\ holder[ref[w]] = w /\ holder[ref[w]] # None /\ Live(ref[w])
    BY <1>3 DEF Live
  <2>2. token[w] # None
    BY <1>3 DEF TokensAgree
  <2>3. yield[ref[w]] = token[w] \/ token[w] \in cancelled
    BY <1>3 DEF YieldReaches
  <2> QED
    BY <2>1, <2>2, <2>3
<1>4. YieldReaches'
  BY <1>1, <1>3 DEF YieldReaches
<1> QED
  BY <1>2, <1>4

\* A background walk that lets go of its title drops its token.
LEMMA TokensRelease ==
  ASSUME LockInv, TokensAgree, YieldReaches, NEW w \in Background,
         pc' = [pc EXCEPT ![w] = "dropping"],
         token' = [token EXCEPT ![w] = None],
         UNCHANGED <<yield, ref, cancelled>>
  PROVE  TokensAgree' /\ YieldReaches'
<1> USE LockFacts, WalkersAssumption
<1>1. \A v \in Background : v # w => token'[v] = token[v] /\ pc'[v] = pc[v]
  OBVIOUS
<1>2. token'[w] = None /\ pc'[w] = "dropping"
  OBVIOUS
<1>3. TokensAgree'
  BY <1>1, <1>2 DEF TokensAgree, Inside, Live
<1>4. YieldReaches'
  BY <1>1, <1>2 DEF YieldReaches, Inside
<1> QED
  BY <1>3, <1>4

\* A step that hands no mutex to a background walk and makes nobody wait.
LEMMA BehindStay ==
  ASSUME LockInv, HolderBehindQueueYields,
         cancelled \subseteq cancelled',
         \A s \in Slots : holder'[s] = holder[s] \/ holder'[s] \notin Background,
         \A w \in Background : token'[w] = token[w] \/ \A s \in Slots : holder'[s] # w,
         \A o \in Operators : pc'[o] = "waiting" => pc[o] = "waiting" /\ ref'[o] = ref[o]
  PROVE  HolderBehindQueueYields'
<1> SUFFICES ASSUME NEW o \in Operators, pc'[o] = "waiting",
                    NEW w \in Background, holder'[ref'[o]] = w
             PROVE  token'[w] \in cancelled'
  BY DEF HolderBehindQueueYields
<1>1. pc[o] = "waiting" /\ ref'[o] = ref[o] /\ ref[o] \in Slots
  BY LockFacts
<1>2. holder[ref[o]] = w
  BY <1>1
<1>3. token[w] \in cancelled /\ token'[w] = token[w]
  BY <1>1, <1>2 DEF HolderBehindQueueYields
<1> QED
  BY <1>3

\* Everything besides the lock invariant.
Tokened == WaitersQueue /\ TokensAgree /\ YieldReaches /\ HolderBehindQueueYields

\* Two names for what an operator's step leaves alone.
LEMMA OperatorOnly ==
  ASSUME LockInv, NEW o \in Operators
  PROVE  /\ \A p : pc' = [pc EXCEPT ![o] = p] =>
               \A w \in Background : pc'[w] = pc[w]
         /\ \A s : ref' = [ref EXCEPT ![o] = s] =>
               \A w \in Background : ref'[w] = ref[w]
  BY LockFacts

LEMMA TryAcquireTokened ==
  ASSUME LockInv, Tokened, NEW o \in Operators, NEW t \in Titles, NEW s \in Slots,
         TryAcquire(o, t, s)
  PROVE  Tokened'
<1> USE LockFacts, WalkersAssumption
<1>1. pc[o] = "idle" /\ ref[o] = None /\ UNCHANGED <<queue, token, cancelled>>
  BY DEF TryAcquire
<1>2. CASE Free(s)
  <2>1. /\ holder' = [holder EXCEPT ![s] = o] /\ yield' = [yield EXCEPT ![s] = None]
        /\ ref' = [ref EXCEPT ![o] = s] /\ pc' = [pc EXCEPT ![o] = "walking"]
    BY <1>2 DEF TryAcquire
  <2>2. WaitersQueue'
    BY <1>1, <1>2, <2>1, WaitersTake DEF Tokened
  <2>3. \A r \in Slots : \/ r = s /\ yield'[r] = None /\ holder[r] = None
                         \/ r # s /\ yield'[r] = yield[r] /\ (Live(r)' => Live(r))
    BY <1>2, <2>1 DEF Live, Free
  <2>4. TokensAgree' /\ YieldReaches'
    BY <1>1, <2>1, <2>3, OperatorOnly, TokensStay DEF Tokened
  <2>5. \A p \in Operators : pc'[p] = "waiting" => pc[p] = "waiting" /\ ref'[p] = ref[p]
    BY <2>1
  <2>6. HolderBehindQueueYields'
    BY <1>1, <2>1, <2>5, BehindStay DEF Tokened
  <2> QED
    BY <2>2, <2>4, <2>6 DEF Tokened
<1>3. CASE ~Free(s)
  <2>1. pc' = [pc EXCEPT ![o] = "tried"] /\ UNCHANGED <<holder, yield, ref>>
    BY <1>3 DEF TryAcquire
  <2>2. \A p \in Operators : pc'[p] = "waiting" => pc[p] = "waiting" /\ ref'[p] = ref[p]
    BY <2>1
  <2>3. TokensAgree' /\ YieldReaches'
    BY <1>1, <2>1, OperatorOnly, TokensStay DEF Tokened, Live
  <2> QED
    BY <1>1, <2>1, <2>2, <2>3, WaitersStay, BehindStay DEF Tokened
<1> QED
  BY <1>2, <1>3

LEMMA AcquireTokened ==
  ASSUME LockInv, Tokened, NEW o \in Operators, NEW s \in Slots, Acquire(o, s)
  PROVE  Tokened'
<1> USE LockFacts, WalkersAssumption
<1>1. /\ pc[o] = "tried" /\ ref[o] = None /\ token' = token
      /\ cancelled' = cancelled \cup ({Yield(s)} \ {None})
      /\ yield' = [yield EXCEPT ![s] = None]
      /\ ref' = [ref EXCEPT ![o] = s]
  BY DEF Acquire
<1>2. \A r \in Slots : \/ r = s /\ yield'[r] = None
                                /\ (Live(r) => yield[r] \in cancelled' \cup {None})
                       \/ r # s /\ yield'[r] = yield[r] /\ (Live(r)' => Live(r))
  BY <1>1 DEF Live, Yield
<1>3. ASSUME NEW p, pc' = [pc EXCEPT ![o] = p] PROVE TokensAgree' /\ YieldReaches'
  BY <1>1, <1>2, <1>3, OperatorOnly, TokensStay DEF Tokened
<1>4. CASE Free(s)
  <2>1. /\ holder' = [holder EXCEPT ![s] = o] /\ pc' = [pc EXCEPT ![o] = "walking"]
        /\ queue' = queue
    BY <1>4 DEF Acquire
  <2>2. WaitersQueue'
    BY <1>1, <1>4, <2>1, WaitersTake DEF Tokened
  <2>3. \A p \in Operators : pc'[p] = "waiting" => pc[p] = "waiting" /\ ref'[p] = ref[p]
    BY <1>1, <2>1
  <2>4. HolderBehindQueueYields'
    BY <1>1, <2>1, <2>3, BehindStay DEF Tokened
  <2> QED
    BY <1>3, <2>1, <2>2, <2>4 DEF Tokened
<1>5. CASE ~Free(s)
  <2>1. /\ queue' = [queue EXCEPT ![s] = Append(queue[s], o)]
        /\ pc' = [pc EXCEPT ![o] = "waiting"] /\ holder' = holder
    BY <1>5 DEF Acquire
  <2>2. WaitersQueue'
    BY <1>1, <2>1, WaitersJoin DEF Tokened
  <2>3. ASSUME NEW w \in Background, holder[s] = w PROVE token[w] \in cancelled'
    <3>1. Inside(w) /\ ref[w] = s
      BY <2>3 DEF Inside
    <3>2. Live(s) /\ token[w] # None
      BY <3>1 DEF Live, Tokened, TokensAgree
    <3>3. yield[s] = token[w] \/ token[w] \in cancelled
      BY <3>1 DEF Tokened, YieldReaches
    <3> QED
      BY <1>1, <3>2, <3>3 DEF Yield
  <2>4. ASSUME NEW p \in Operators, pc'[p] = "waiting",
               NEW w \in Background, holder'[ref'[p]] = w
        PROVE  token'[w] \in cancelled'
    <3>1. CASE p = o
      BY <1>1, <2>1, <2>3, <2>4, <3>1
    <3>2. CASE p # o
      <4>1. pc[p] = "waiting" /\ ref'[p] = ref[p] /\ ref[p] \in Slots
        BY <1>1, <2>1, <2>4, <3>2
      <4> QED
        BY <1>1, <2>1, <2>4, <4>1 DEF Tokened, HolderBehindQueueYields
    <3> QED
      BY <3>1, <3>2
  <2>5. HolderBehindQueueYields'
    BY <2>4 DEF HolderBehindQueueYields
  <2> QED
    BY <1>3, <2>1, <2>2, <2>5 DEF Tokened
<1> QED
  BY <1>4, <1>5

\* Steps of one walker that neither lock, queue nor cancel.
LEMMA PlainTokened ==
  ASSUME LockInv, Tokened, NEW w \in Walkers,
         \/ w \in Operators /\ (Resume(w) \/ CancelBeforeWait(w))
         \/ DropSlot(w)
  PROVE  Tokened'
<1> USE LockFacts, WalkersAssumption
<1>1. UNCHANGED <<holder, queue, yield, token, cancelled>>
  BY DEF Resume, CancelBeforeWait, DropSlot, slotVars, prioVars
<1>2. PICK p \in {"walking", "idle"} : pc' = [pc EXCEPT ![w] = p]
  BY DEF Resume, CancelBeforeWait, DropSlot
<1>3. ref' = ref \/ ref' = [ref EXCEPT ![w] = None]
  BY DEF Resume, CancelBeforeWait, DropSlot
<1>4. \A v \in Walkers : v # w => pc'[v] = pc[v] /\ ref'[v] = ref[v]
  BY <1>2, <1>3
<1>5. \A s \in Slots : Live(s)' => Live(s)
  BY <1>3 DEF Live
<1>6. \A o \in Operators : pc'[o] = "waiting" => pc[o] = "waiting" /\ ref'[o] = ref[o]
  BY <1>2, <1>4
<1>7. WaitersQueue' /\ HolderBehindQueueYields'
  BY <1>1, <1>6, WaitersStay, BehindStay DEF Tokened
<1>8. TokensAgree' /\ YieldReaches'
  <2>1. CASE w \in Operators
    BY <1>1, <1>4, <1>5, <2>1, TokensStay DEF Tokened
  <2>2. CASE w \notin Operators
    <3>1. /\ w \in Background /\ pc[w] = "dropping" /\ pc' = [pc EXCEPT ![w] = "idle"]
          /\ ref' = [ref EXCEPT ![w] = None]
      BY <2>2 DEF DropSlot, Walkers
    <3>2. ~Inside(w) /\ ~Inside(w)' /\ token[w] = None
      BY <3>1 DEF Inside, Tokened, TokensAgree
    <3>3. \A v \in Background : Inside(v)' <=> Inside(v)
      BY <1>4, <3>2 DEF Inside
    <3>4. TokensAgree'
      BY <1>1, <1>4, <1>5, <3>2, <3>3 DEF Tokened, TokensAgree
    <3>5. YieldReaches'
      BY <1>1, <1>4, <3>2, <3>3 DEF Tokened, YieldReaches
    <3> QED
      BY <3>4, <3>5
  <2> QED
    BY <2>1, <2>2
<1> QED
  BY <1>7, <1>8 DEF Tokened

\* The mutex of a walker that lets go passes to an operator or is free.
LEMMA UnlockTokened ==
  ASSUME LockInv, Tokened, NEW w \in Walkers, NEW s \in Slots,
         ref[w] = s, holder[s] = w, Unlock(s),
         pc' = [pc EXCEPT ![w] = "dropping"],
         token' = [b \in Background |-> IF b = w THEN None ELSE token[b]],
         UNCHANGED <<yield, ref, cancelled>>
  PROVE  Tokened'
<1>0. WaitersQueue /\ ref' = ref
  BY DEF Tokened
<1>1. /\ WaitersQueue' /\ holder'[s] \in Operators \cup {None}
      /\ \A r \in Slots : r # s => holder'[r] = holder[r]
  BY <1>0, WaitersUnlock
<1> USE LockFacts, WalkersAssumption
<1>2. TokensAgree' /\ YieldReaches'
  <2>1. CASE w \in Background
    <3>1. token' = [token EXCEPT ![w] = None]
      BY <2>1
    <3> QED
      BY <2>1, <3>1, TokensRelease DEF Tokened
  <2>2. CASE w \notin Background
    <3>1. token' = token
      BY <2>2
    <3>2. \A v \in Background : pc'[v] = pc[v] /\ ref'[v] = ref[v]
      BY <2>2
    <3> QED
      BY <3>1, <3>2, TokensStay DEF Tokened, Live
  <2> QED
    BY <2>1, <2>2
<1>3. \A o \in Operators : pc'[o] = "waiting" => pc[o] = "waiting" /\ ref'[o] = ref[o]
  OBVIOUS
<1>4. \A r \in Slots : holder'[r] # w \/ w \notin Background
  BY <1>1
<1>5. \A r \in Slots : holder'[r] = holder[r] \/ holder'[r] \notin Background
  BY <1>1
<1>6. HolderBehindQueueYields'
  BY <1>3, <1>4, <1>5, BehindStay DEF Tokened
<1> QED
  BY <1>1, <1>2, <1>6 DEF Tokened

LEMMA AbandonTokened ==
  ASSUME LockInv, Tokened, NEW o \in Operators, AbandonWait(o)
  PROVE  Tokened'
<1>1. /\ o \in Walkers /\ ref[o] \in Slots
      /\ pc' = [pc EXCEPT ![o] = "dropping"]
      /\ UNCHANGED <<yield, ref, token, cancelled>>
  BY LockFacts DEF AbandonWait
<1>2. CASE holder[ref[o]] = o /\ Unlock(ref[o])
  <2>1. token' = [b \in Background |-> IF b = o THEN None ELSE token[b]]
    BY <1>1, LockFacts
  <2> QED
    BY <1>1, <1>2, <2>1, UnlockTokened
<1>3. CASE \E i \in 1..Len(queue[ref[o]]) :
              /\ queue[ref[o]][i] = o
              /\ queue' = [queue EXCEPT ![ref[o]] =
                             SubSeq(queue[ref[o]], 1, i - 1)
                               \o SubSeq(queue[ref[o]], i + 1, Len(queue[ref[o]]))]
              /\ UNCHANGED holder
  <2> DEFINE q == queue[ref[o]]
  <2>1. PICK i \in 1..Len(q) :
              /\ q[i] = o
              /\ queue' = [queue EXCEPT ![ref[o]] =
                             SubSeq(q, 1, i - 1) \o SubSeq(q, i + 1, Len(q))]
              /\ UNCHANGED holder
    BY <1>3
  <2>2. q \in Seq(Operators) /\ \A x, y \in 1..Len(q) : q[x] = q[y] => x = y
    BY <1>1, LockFacts DEF LockInv, QueuesQueue
  <2> DEFINE n == SubSeq(q, 1, i - 1) \o SubSeq(q, i + 1, Len(q))
  <2>3. queue' = [queue EXCEPT ![ref[o]] = n]
    BY <2>1
  <2> HIDE DEF q
  <2>4. \A z \in 1..Len(q) : z # i => \E x \in 1..Len(n) : n[x] = q[z]
    BY <2>2, RemoveFacts
  <2>5. \A z \in 1..Len(q) : q[z] # o => \E x \in 1..Len(n) : n[x] = q[z]
    BY <2>1, <2>4
  <2> HIDE DEF n
  <2>6. WaitersQueue'
    <3>1. /\ WaitersQueue
          /\ \A z \in 1..Len(queue[ref[o]]) :
               queue[ref[o]][z] # o => \E x \in 1..Len(n) : n[x] = queue[ref[o]][z]
      BY <2>5 DEF Tokened, q
    <3>2. /\ ref[o] \in Slots /\ pc' = [pc EXCEPT ![o] = "dropping"]
          /\ UNCHANGED <<holder, ref>>
      BY <1>1, <2>1
    <3> QED
      BY <2>3, <3>1, <3>2, WaitersLeave
  <2>7. \A p \in Operators : pc'[p] = "waiting" => pc[p] = "waiting" /\ ref'[p] = ref[p]
    BY <1>1, LockFacts
  <2>8. HolderBehindQueueYields'
    BY <1>1, <2>1, <2>7, BehindStay DEF Tokened
  <2>9. TokensAgree' /\ YieldReaches'
    BY <1>1, OperatorOnly, TokensStay DEF Tokened, Live
  <2> QED
    BY <2>6, <2>8, <2>9 DEF Tokened
<1> QED
  BY <1>2, <1>3 DEF AbandonWait

\* A background walk takes a title nobody waits for, under a token nobody has.
LEMMA BackgroundTokened ==
  ASSUME LockInv, Tokened, NEW w \in Background, NEW t \in Titles, NEW s \in Slots,
         NEW tk \in Tokens, TryAcquireBackground(w, t, s, tk)
  PROVE  Tokened'
<1> USE LockFacts, WalkersAssumption
<1>1. /\ pc[w] = "idle" /\ ref[w] = None /\ Free(s) /\ FreshToken(tk) /\ tk # None
      /\ holder' = [holder EXCEPT ![s] = w] /\ yield' = [yield EXCEPT ![s] = tk]
      /\ ref' = [ref EXCEPT ![w] = s] /\ token' = [token EXCEPT ![w] = tk]
      /\ cancelled' = cancelled \ {tk} /\ pc' = [pc EXCEPT ![w] = "locked"]
      /\ queue' = queue
  BY DEF TryAcquireBackground
<1>2. WaitersQueue' /\ \A o \in Operators : pc[o] = "waiting" => ref[o] # s
  BY <1>1, WaitersTake DEF Tokened
<1>3. /\ token'[w] = tk /\ pc'[w] = "locked" /\ ref'[w] = s /\ yield'[s] = tk
      /\ \A v \in Background : v # w =>
            token'[v] = token[v] /\ pc'[v] = pc[v] /\ ref'[v] = ref[v] /\ token[v] # tk
      /\ \A r \in Slots : r # s => yield'[r] = yield[r] /\ (Live(r)' <=> Live(r))
      /\ \A r \in Slots : Live(r) => yield[r] # tk
  BY <1>1 DEF FreshToken, Live
<1>4. \A v \in Background : v # w /\ Inside(v) => ref[v] # s /\ ref[v] \in Slots
  BY <1>1 DEF Free
<1>5. Inside(w)' /\ \A v \in Background : v # w => (Inside(v)' <=> Inside(v))
  BY <1>3 DEF Inside
<1>6. TokensAgree'
  <2>1. \A v \in Background : token'[v] # None <=> Inside(v)'
    BY <1>1, <1>3, <1>5 DEF Tokened, TokensAgree
  <2>2. \A u, v \in Background : token'[u] # None /\ token'[u] = token'[v] => u = v
    BY <1>1, <1>3 DEF Tokened, TokensAgree
  <2>3. ASSUME NEW v \in Background, NEW r \in Slots, Live(r)', yield'[r] # None,
               yield'[r] = token'[v]
        PROVE  ref'[v] = r
    <3>1. CASE r = s
      BY <1>3, <2>3, <3>1
    <3>2. CASE r # s
      BY <1>3, <2>3, <3>2 DEF Tokened, TokensAgree
    <3> QED
      BY <3>1, <3>2
  <2> QED
    BY <2>1, <2>2, <2>3 DEF TokensAgree
<1>7. YieldReaches'
  <2> SUFFICES ASSUME NEW v \in Background, Inside(v)'
               PROVE  yield'[ref'[v]] = token'[v] \/ token'[v] \in cancelled'
    BY DEF YieldReaches
  <2>1. CASE v = w
    BY <1>3, <2>1
  <2>2. CASE v # w
    <3>1. /\ Inside(v) /\ ref'[v] = ref[v] /\ yield'[ref[v]] = yield[ref[v]]
          /\ token'[v] = token[v] /\ token[v] # tk
      BY <1>3, <1>4, <1>5, <2>2
    <3> QED
      BY <1>1, <3>1 DEF Tokened, YieldReaches
  <2> QED
    BY <2>1, <2>2
<1>8. HolderBehindQueueYields'
  <2> SUFFICES ASSUME NEW o \in Operators, pc'[o] = "waiting",
                      NEW v \in Background, holder'[ref'[o]] = v
               PROVE  token'[v] \in cancelled'
    BY DEF HolderBehindQueueYields
  <2>1. pc[o] = "waiting" /\ ref'[o] = ref[o] /\ ref[o] \in Slots /\ ref[o] # s
    BY <1>1, <1>2
  <2>2. holder[ref[o]] = v /\ v # w
    BY <1>1, <2>1
  <2>3. token[v] \in cancelled /\ token'[v] = token[v] /\ token[v] # tk
    BY <1>3, <2>1, <2>2 DEF Tokened, HolderBehindQueueYields
  <2> QED
    BY <1>1, <2>3
<1> QED
  BY <1>2, <1>6, <1>7, <1>8 DEF Tokened

\* The second look at rss_yield: the walk starts, or its title is given back.
LEMMA DispatchTokened ==
  ASSUME LockInv, Tokened, NEW w \in Background, Dispatch(w)
  PROVE  Tokened'
<1>z. UNCHANGED <<yield, ref, cancelled>>
  BY DEF Dispatch
<1>y. w \in Walkers /\ ref[w] \in Slots /\ holder[ref[w]] = w
  BY LockFacts DEF Dispatch, Inside
<1>2. CASE rssYield
  <2>1. /\ Unlock(ref[w]) /\ pc' = [pc EXCEPT ![w] = "dropping"]
        /\ token' = [token EXCEPT ![w] = None]
    BY <1>2 DEF Dispatch
  <2>2. token' = [b \in Background |-> IF b = w THEN None ELSE token[b]]
    BY <2>1, LockFacts
  <2> QED
    BY <1>y, <1>z, <2>1, <2>2, UnlockTokened
<1> USE LockFacts, WalkersAssumption
<1>0. /\ w \in Walkers /\ pc[w] = "locked" /\ Inside(w)
      /\ UNCHANGED <<yield, ref, cancelled>>
  BY DEF Dispatch, Inside
<1>1. CASE ~rssYield
  <2>1. pc' = [pc EXCEPT ![w] = "walking"] /\ UNCHANGED <<holder, queue, token>>
    BY <1>1 DEF Dispatch
  <2>2. \A o \in Operators : pc'[o] = "waiting" => pc[o] = "waiting" /\ ref'[o] = ref[o]
    BY <1>0, <2>1
  <2>3. \A v \in Background : Inside(v)' <=> Inside(v)
    BY <1>0, <2>1 DEF Inside
  <2>4. TokensAgree' /\ YieldReaches'
    BY <1>0, <2>1, <2>3 DEF Tokened, TokensAgree, YieldReaches, Live
  <2> QED
    BY <1>0, <2>1, <2>2, <2>4, WaitersStay, BehindStay DEF Tokened
<1> QED
  BY <1>1, <1>2

\* Every step keeps the tokens and the queues in agreement.
LEMMA NextTokened == LockInv /\ Tokened /\ [Next]_vars => Tokened'
<1> SUFFICES ASSUME LockInv, Tokened, [Next]_vars PROVE Tokened'
  OBVIOUS
<1>1. ASSUME NEW w \in Walkers, EndWalk(w) PROVE Tokened'
  <2>1. ref[w] \in Slots /\ holder[ref[w]] = w
    BY <1>1, LockFacts DEF EndWalk, Inside
  <2> QED
    BY <1>1, <2>1, UnlockTokened DEF EndWalk
<1>2. ASSUME BeginCycle \/ EndCycle \/ BeginRss \/ EndRss \/ UNCHANGED vars PROVE Tokened'
  <2>1. UNCHANGED <<holder, queue, yield, ref, pc, token, cancelled>>
    BY <1>2 DEF BeginCycle, EndCycle, BeginRss, EndRss, vars, slotVars, walkVars
  <2> QED
    BY <2>1 DEF Tokened, WaitersQueue, TokensAgree, YieldReaches, HolderBehindQueueYields,
         Live, Inside
<1>3. ASSUME NEW o \in Operators, OperatorStep(o) PROVE Tokened'
  BY <1>1, <1>3, TryAcquireTokened, AcquireTokened, PlainTokened, AbandonTokened
     DEF OperatorStep, Walkers
<1>4. ASSUME NEW w \in Background, BackgroundStep(w) PROVE Tokened'
  BY <1>1, <1>4, BackgroundTokened, DispatchTokened, PlainTokened DEF BackgroundStep, Walkers
<1> QED
  BY <1>2, <1>3, <1>4 DEF Next

-----------------------------------------------------------------------------
(* RSS visits and the cycle.                                                *)

LEMMA NextCycle == LockInv /\ CycleKnowsRss /\ [Next]_vars => CycleKnowsRss'
<1> SUFFICES ASSUME LockInv, CycleKnowsRss, [Next]_vars PROVE CycleKnowsRss'
  OBVIOUS
<1> USE LockFacts, WalkersAssumption
<1>1. ASSUME UNCHANGED prioVars,
             \A w \in Background : pc'[w] # "idle" => pc[w] # "idle" \/ cycle
      PROVE  CycleKnowsRss'
  BY <1>1 DEF CycleKnowsRss, prioVars
<1>2. ASSUME NEW o \in Operators, OperatorStep(o) PROVE CycleKnowsRss'
  <2>1. UNCHANGED prioVars
    BY <1>2 DEF OperatorStep, TryAcquire, Acquire, CancelBeforeWait, Resume, AbandonWait,
         EndWalk, DropSlot
  <2>2. \E p : pc' = [pc EXCEPT ![o] = p]
    BY <1>2 DEF OperatorStep, TryAcquire, Acquire, CancelBeforeWait, Resume, AbandonWait,
         EndWalk, DropSlot
  <2> QED
    BY <1>1, <2>1, <2>2
<1>3. ASSUME NEW v \in Background, BackgroundStep(v) PROVE CycleKnowsRss'
  <2>1. UNCHANGED prioVars
    BY <1>3 DEF BackgroundStep, TryAcquireBackground, Dispatch, EndWalk, DropSlot
  <2>2. \E p : pc' = [pc EXCEPT ![v] = p]
    BY <1>3 DEF BackgroundStep, TryAcquireBackground, Dispatch, EndWalk, DropSlot
  <2>3. pc[v] # "idle" \/ cycle
    BY <1>3 DEF BackgroundStep, TryAcquireBackground, Dispatch, EndWalk, DropSlot
  <2> QED
    BY <1>1, <2>1, <2>2, <2>3
<1>4. ASSUME BeginCycle \/ EndCycle \/ BeginRss \/ EndRss \/ UNCHANGED vars
      PROVE  CycleKnowsRss'
  <2>1. rss \in Nat /\ cycle \in BOOLEAN /\ rssYield \in BOOLEAN
    BY MaxRssAssumption DEF LockInv, TypeOK
  <2>2. pc' = pc
    BY <1>4 DEF BeginCycle, EndCycle, BeginRss, EndRss, vars, walkVars
  <2> QED
    BY <1>4, <2>1, <2>2 DEF CycleKnowsRss, BeginCycle, EndCycle, BeginRss, EndRss, vars
<1> QED
  BY <1>2, <1>3, <1>4 DEF Next

-----------------------------------------------------------------------------
(* The theorems.                                                            *)

LEMMA InitIInv == Init => IInv
<1> SUFFICES ASSUME Init PROVE IInv
  OBVIOUS
<1>1. LockInv
  BY InitLock
<1>2. WaitersQueue /\ HolderBehindQueueYields
  BY LockFacts, <1>1 DEF Init, WaitersQueue, HolderBehindQueueYields
<1>3. TokensAgree /\ YieldReaches
  BY LockFacts, <1>1 DEF Init, TokensAgree, YieldReaches, Inside
<1>4. CycleKnowsRss
  BY LockFacts, <1>1 DEF Init, CycleKnowsRss
<1> QED
  BY <1>1, <1>2, <1>3, <1>4 DEF IInv

\* The inductive invariant holds of every behaviour; its first conjunct is the
\* type invariant of the module.
THEOREM IInvHolds == Spec => []IInv
<1>1. IInv /\ [Next]_vars => IInv'
  BY NextLock, NextTokened, NextCycle DEF IInv, Tokened
<1> QED
  BY InitIInv, <1>1, PTL DEF Spec

\* At most one walk over a title exists at a time: the guarantee that keeps a
\* walk's claims arbitration honest (AcquisitionTitleWalkLocks), although slots
\* die with their last strong handle and are replaced.
THEOREM OneWalkPerTitleHolds == Spec => []OneWalkPerTitle
<1>1. LockInv => OneWalkPerTitle
  <2> SUFFICES ASSUME LockInv, NEW v \in Walkers, NEW w \in Walkers,
                      Inside(v), Inside(w), title[v] = title[w]
               PROVE  v = w
    BY DEF OneWalkPerTitle
  <2>1. ref[v] = ref[w]
    BY WalkersAssumption DEF LockInv, TypeOK, HandlesAreTabled, Inside
  <2> QED
    BY <2>1 DEF LockInv, HoldersHold
<1>2. IInv => LockInv
  BY DEF IInv
<1> QED
  BY <1>1, <1>2, IInvHolds, PTL

\* Whoever an operator is queued behind in the background has been told to
\* yield: acquire() finds the token of the very walk that holds the mutex.
THEOREM YieldTheorem == Spec => []HolderBehindQueueYields
<1>1. IInv => HolderBehindQueueYields
  BY DEF IInv
<1> QED
  BY <1>1, IInvHolds, PTL

\* A walk is cancelled only by an operator that asks for the title it holds.
THEOREM CancelTheorem == Spec => CancelsOnlyTheHolder
<1>1. ASSUME IInv, [Next]_vars, NEW w \in Background, token[w] # None,
             token[w] = token'[w], token[w] \in cancelled' \ cancelled
      PROVE  \E o \in Operators : /\ pc[o] = "tried"
                                  /\ title[o] = title[w]
                                  /\ pc'[o] = "waiting"
                                  /\ Inside(w)
  <2>0. LockInv /\ TokensAgree
    BY <1>1 DEF IInv
  <2>1. PICK o \in Operators, s \in Slots : Acquire(o, s)
    <3>1. ASSUME NEW o \in Operators, OperatorStep(o)
          PROVE  cancelled' = cancelled \/ \E s \in Slots : Acquire(o, s)
      BY <3>1 DEF OperatorStep, TryAcquire, CancelBeforeWait, Resume, AbandonWait, EndWalk,
           DropSlot
    <3>2. ASSUME NEW v \in Background, BackgroundStep(v) PROVE cancelled' \subseteq cancelled
      BY <3>2 DEF BackgroundStep, TryAcquireBackground, Dispatch, EndWalk, DropSlot
    <3>3. ASSUME BeginCycle \/ EndCycle \/ BeginRss \/ EndRss \/ UNCHANGED vars
          PROVE  cancelled' = cancelled
      BY <3>3 DEF BeginCycle, EndCycle, BeginRss, EndRss, vars
    <3> QED
      BY <1>1, <3>1, <3>2, <3>3 DEF Next
  <2>2. /\ pc[o] = "tried" /\ SlotFor(title[o], s)
        /\ cancelled' = cancelled \cup ({Yield(s)} \ {None})
    BY <2>1 DEF Acquire
  <2>3. Live(s) /\ yield[s] = token[w]
    BY <1>1, <2>2 DEF Yield
  <2>4. ref[w] = s /\ Inside(w)
    BY <1>1, <2>0, <2>3 DEF TokensAgree
  <2>5. title[o] \in Titles
    BY <2>0, <2>2, LockFacts DEF LockInv, HandlesAreTabled
  <2>6. title[w] = title[o]
    BY <2>0, <2>2, <2>4, <2>5, LookupFacts, LockFacts
  <2>7. holder[s] = w /\ ~Free(s)
    BY <2>0, <2>4, LockFacts, WalkersAssumption DEF Free
  <2>8. pc'[o] = "waiting"
    BY <2>0, <2>1, <2>7, LockFacts DEF Acquire
  <2> QED
    BY <2>2, <2>4, <2>6, <2>8
<1>2. IInv /\ [Next]_vars =>
        [\A w \in Background :
          /\ token[w] # None
          /\ token[w] = token'[w]
          /\ token[w] \in cancelled' \ cancelled
          => \E o \in Operators : /\ pc[o] = "tried"
                                  /\ title[o] = title[w]
                                  /\ pc'[o] = "waiting"
                                  /\ Inside(w)]_vars
  BY <1>1
<1> QED
  BY <1>2, IInvHolds, PTL DEF Spec, CancelsOnlyTheHolder

\* No background walk starts beside an RSS visit, whenever the visit began.
THEOREM RssTheorem == Spec => NoWalkStartsUnderRss
<1>1. ASSUME IInv, [Next]_vars, NEW w \in Background, pc[w] # "walking", pc'[w] = "walking"
      PROVE  rss = 0
  <2> USE WalkersAssumption
  <2>0. LockInv /\ CycleKnowsRss
    BY <1>1 DEF IInv
  <2>1. ASSUME NEW o \in Operators, OperatorStep(o) PROVE FALSE
    <3>1. \E p : pc' = [pc EXCEPT ![o] = p]
      BY <2>1 DEF OperatorStep, TryAcquire, Acquire, CancelBeforeWait, Resume, AbandonWait,
           EndWalk, DropSlot
    <3> QED
      BY <1>1, <2>0, <3>1, LockFacts
  <2>2. ASSUME NEW v \in Background, BackgroundStep(v) PROVE rss = 0
    <3>1. \E p : pc' = [pc EXCEPT ![v] = p]
      BY <2>2 DEF BackgroundStep, TryAcquireBackground, Dispatch, EndWalk, DropSlot
    <3>2. v = w
      BY <1>1, <2>0, <3>1, LockFacts
    <3>3. ~rssYield /\ pc[w] = "locked"
      BY <1>1, <2>0, <2>2, <3>2, LockFacts
         DEF BackgroundStep, TryAcquireBackground, Dispatch, EndWalk, DropSlot
    <3>4. cycle
      BY <2>0, <3>3 DEF CycleKnowsRss
    <3>5. rss \in Nat
      BY <2>0, MaxRssAssumption DEF LockInv, TypeOK
    <3> QED
      BY <2>0, <3>3, <3>4, <3>5 DEF CycleKnowsRss
  <2>3. ASSUME BeginCycle \/ EndCycle \/ BeginRss \/ EndRss \/ UNCHANGED vars PROVE FALSE
    BY <1>1, <2>3 DEF BeginCycle, EndCycle, BeginRss, EndRss, vars, walkVars
  <2> QED
    BY <1>1, <2>1, <2>2, <2>3 DEF Next
<1>2. IInv /\ [Next]_vars =>
        [\A w \in Background : pc[w] # "walking" /\ pc'[w] = "walking" => rss = 0]_vars
  BY <1>1
<1> QED
  BY <1>2, IInvHolds, PTL DEF Spec, NoWalkStartsUnderRss

=============================================================================
