--------------------- MODULE DownloadQueueCommands_proofs ---------------------
(***************************************************************************)
(* Proofs about download identities and delete commands.  Every step of the *)
(* system changes the bindings in one of six ways (Shape): not at all, a    *)
(* download becomes known or is forgotten, some downloads are finished with,*)
(* a free item is taken, or a download moves to a free item.  Each way      *)
(* keeps the registry in order and is a step of DownloadIdentity; what      *)
(* remains for an action is to see which way it goes and what it does to    *)
(* the commands and to the pass.                                            *)
(***************************************************************************)
EXTENDS DownloadQueueCommands, TLAPS

-----------------------------------------------------------------------------
(* The bindings of a registry d, and how they change to those of e          *)

InOrder(d) ==
    /\ d \in [Ids -> Downloads]
    /\ \A i \in Ids : /\ d[i].bind \in {"unbound", "bound"} => ~d[i].over
                      /\ d[i].bind = "bound" => d[i].item \in Items
                      /\ d[i].bind = "ended" => d[i].over \/ i \in Orphans
                      /\ d[i].bind \in {"none", "unbound"} => d[i].item = None /\ d[i].left = {}
    /\ \A i, j \in Ids : /\ d[i].bind = "bound" /\ d[j].bind = "bound"
                         /\ d[i].item = d[j].item
                         => i = j

\* Two downloads that differ in nothing a binding shows.
Alike(x, y) == /\ y.bind = x.bind /\ y.item = x.item /\ y.left = x.left
               /\ y.over <=> x.over
Same(d, e, i) == Alike(d[i], e[i])

Finished(d, e, i) == /\ e[i].over /\ e[i].item = d[i].item /\ e[i].left = d[i].left
                     /\ e[i].bind = "ended" \/ (e[i].bind = "none" /\ d[i].bind = "none")

Quiet(d, e) == \A o \in Ids : Same(d, e, o)

KnowShape(d, e, i) ==
    /\ d[i].bind = "none" /\ ~d[i].over
    /\ e[i].bind = "unbound" /\ ~e[i].over /\ e[i].item = None /\ e[i].left = {}
    /\ \A o \in Ids \ {i} : Same(d, e, o)

ForgetShape(d, e, i) ==
    /\ d[i].bind = "unbound"
    /\ e[i].bind = "none" /\ ~e[i].over /\ e[i].item = None /\ e[i].left = {}
    /\ \A o \in Ids \ {i} : Same(d, e, o)

FinishShape(d, e, S) ==
    /\ \A o \in S : Finished(d, e, o)
    /\ \A o \in Ids \ S : Same(d, e, o)

TakeShape(d, e, S, i, k) ==
    /\ i \notin S /\ ~d[i].over /\ d[i].bind # "bound"
    /\ e[i].bind = "bound" /\ e[i].item = k /\ ~e[i].over /\ e[i].left = d[i].left
    /\ \A o \in S : Finished(d, e, o)
    /\ \A o \in Ids \ (S \cup {i}) : Same(d, e, o)
    /\ \A o \in Ids : d[o].bind = "bound" /\ d[o].item = k => o \in S

MoveShape(d, e, i, k) ==
    /\ d[i].bind = "bound" /\ e[i].bind = "bound" /\ e[i].item = k /\ ~e[i].over
    /\ e[i].left = d[i].left \cup {d[i].item}
    /\ \A o \in Ids \ {i} : Same(d, e, o)
    /\ \A o \in Ids : ~(d[o].bind = "bound" /\ d[o].item = k)

Shape(d, e) ==
    \/ Quiet(d, e)
    \/ \E i \in Ids : KnowShape(d, e, i) \/ ForgetShape(d, e, i)
    \/ \E S \in SUBSET Ids : FinishShape(d, e, S)
    \/ \E i \in Ids, k \in Items : MoveShape(d, e, i, k)
    \/ \E S \in SUBSET Ids, i \in Ids, k \in Items : TakeShape(d, e, S, i, k)

\* What is over stays over, and an item is held until its holder is over or has
\* moved away from it.
Grows(d, e) ==
    \A i \in Ids :
       /\ d[i].over => e[i].over
       /\ d[i].left \subseteq e[i].left
       /\ d[i].bind = "bound" => \/ e[i].over
                                 \/ d[i].item \in e[i].left
                                 \/ e[i].bind = "bound" /\ e[i].item = d[i].item

LEMMA ShapeInOrder ==
  ASSUME NEW d, NEW e, InOrder(d), e \in [Ids -> Downloads], Shape(d, e)
  PROVE  InOrder(e) /\ Grows(d, e)
<1>1. CASE Quiet(d, e)
  BY <1>1 DEF InOrder, Grows, Quiet, Same, Alike
<1>2. ASSUME NEW i \in Ids, KnowShape(d, e, i) PROVE InOrder(e) /\ Grows(d, e)
  BY <1>2 DEF InOrder, Grows, KnowShape, Same, Alike
<1>3. ASSUME NEW i \in Ids, ForgetShape(d, e, i) PROVE InOrder(e) /\ Grows(d, e)
  BY <1>3 DEF InOrder, Grows, ForgetShape, Same, Alike
<1>4. ASSUME NEW S \in SUBSET Ids, FinishShape(d, e, S) PROVE InOrder(e) /\ Grows(d, e)
  BY <1>4 DEF InOrder, Grows, FinishShape, Finished, Same, Alike
<1>5. ASSUME NEW S \in SUBSET Ids, NEW i \in Ids, NEW k \in Items, TakeShape(d, e, S, i, k)
      PROVE  InOrder(e) /\ Grows(d, e)
  BY <1>5 DEF InOrder, Grows, TakeShape, Finished, Same, Alike
<1>6. ASSUME NEW i \in Ids, NEW k \in Items, MoveShape(d, e, i, k)
      PROVE  InOrder(e) /\ Grows(d, e)
  BY <1>6 DEF InOrder, Grows, MoveShape, Same, Alike
<1>. QED
  BY <1>1, <1>2, <1>3, <1>4, <1>5, <1>6 DEF Shape

-----------------------------------------------------------------------------
(* Holders                                                                  *)

BoundIn(d, k) == {i \in Ids : d[i].bind = "bound" /\ d[i].item = k}
HolderIn(d, k) == IF BoundIn(d, k) = {} THEN None ELSE CHOOSE i \in BoundIn(d, k) : TRUE

\* h gives the holder of every item.
Holders(d, h) ==
    \A k \in Items : /\ h[k] \in Ids \cup {None}
                     /\ \A i \in Ids : h[k] = i <=> d[i].bind = "bound" /\ d[i].item = k

LEMMA HolderInFacts ==
  ASSUME NEW d, InOrder(d), NEW k
  PROVE  /\ HolderIn(d, k) \in Ids \cup {None}
         /\ \A i \in Ids : HolderIn(d, k) = i <=> d[i].bind = "bound" /\ d[i].item = k
<1>1. CASE BoundIn(d, k) = {}
  BY <1>1, NoneAssumption DEF HolderIn, BoundIn
<1>2. CASE BoundIn(d, k) # {}
  <2>1. HolderIn(d, k) \in BoundIn(d, k)
    BY <1>2 DEF HolderIn
  <2>. QED
    BY <2>1 DEF BoundIn, InOrder
<1>. QED
  BY <1>1, <1>2

LEMMA InOrderNow == IInv => InOrder(dl)
BY DEF IInv, TypeOK, BindingsAgree, OneHolderPerItem, InOrder

LEMMA InOrderNext ==
  ASSUME InOrder(dl') PROVE BindingsAgree' /\ OneHolderPerItem'
BY DEF BindingsAgree, OneHolderPerItem, InOrder

LEMMA HoldersNow ==
  ASSUME InOrder(dl) PROVE Holders(dl, Holder)
<1>1. \A k \in Items : Holder[k] = HolderIn(dl, k)
  BY DEF Holder, HolderOf, Bound, HolderIn, BoundIn
<1>. QED
  BY <1>1, HolderInFacts DEF Holders

LEMMA HoldersNext ==
  ASSUME InOrder(dl') PROVE Holders(dl', Holder')
<1>1. \A k \in Items : Holder'[k] = HolderIn(dl', k)
  BY DEF Holder, HolderOf, Bound, HolderIn, BoundIn
<1>. QED
  BY <1>1, HolderInFacts DEF Holders

\* HolderOf, for a lookup.
LEMMA Lookup ==
  ASSUME InOrder(dl), NEW k
  PROVE  /\ HolderOf(k) \in Ids \cup {None}
         /\ \A i \in Ids : HolderOf(k) = i <=> dl[i].bind = "bound" /\ dl[i].item = k
         /\ HolderOf(k) = None => \A i \in Ids : ~(dl[i].bind = "bound" /\ dl[i].item = k)
<1>1. HolderOf(k) = HolderIn(dl, k)
  BY DEF HolderOf, Bound, HolderIn, BoundIn
<1>. QED
  BY <1>1, HolderInFacts, NoneAssumption

-----------------------------------------------------------------------------
(* Every way the bindings change is a step of DownloadIdentity              *)

LifeIn(d, i) == IF d[i].over THEN "over" ELSE IF d[i].bind = "none" THEN "unknown" ELSE "live"

LEMMA LifeFacts ==
  /\ Life = [i \in Ids |-> LifeIn(dl, i)]
  /\ Life' = [i \in Ids |-> LifeIn(dl', i)]
BY DEF Life, LifeIn

LEMMA HolderIsFunction ==
  /\ Holder = [k \in Items |-> Holder[k]]
  /\ Holder' = [k \in Items |-> Holder'[k]]
BY DEF Holder

LEMMA QuietRefines ==
  ASSUME InOrder(dl), InOrder(dl'), Quiet(dl, dl')
  PROVE  UNCHANGED Identity!vars
<1>1. \A i \in Ids : LifeIn(dl', i) = LifeIn(dl, i)
  BY DEF Quiet, Same, Alike, LifeIn
<1>2. \A k \in Items : Holder'[k] = Holder[k]
  BY HoldersNow, HoldersNext, NoneAssumption DEF Quiet, Same, Alike, Holders
<1>. QED
  BY <1>1, <1>2, LifeFacts, HolderIsFunction DEF Identity!vars

LEMMA KnowRefines ==
  ASSUME InOrder(dl), InOrder(dl'), NEW i \in Ids, KnowShape(dl, dl', i)
  PROVE  Identity!Know(i)
<1>1. /\ LifeIn(dl, i) = "unknown" /\ LifeIn(dl', i) = "live"
      /\ \A o \in Ids \ {i} : LifeIn(dl', o) = LifeIn(dl, o)
  BY DEF KnowShape, Same, Alike, LifeIn
<1>2. \A k \in Items : Holder'[k] = Holder[k]
  BY HoldersNow, HoldersNext, NoneAssumption DEF KnowShape, Same, Alike, Holders
<1>3. Life' = [Life EXCEPT ![i] = "live"]
  BY <1>1, LifeFacts
<1>. QED
  BY <1>1, <1>2, <1>3, LifeFacts, HolderIsFunction DEF Identity!Know

LEMMA ForgetRefines ==
  ASSUME InOrder(dl), InOrder(dl'), NEW i \in Ids, ForgetShape(dl, dl', i)
  PROVE  Identity!Forget(i)
<1>1. /\ LifeIn(dl, i) = "live" /\ LifeIn(dl', i) = "unknown"
      /\ \A o \in Ids \ {i} : LifeIn(dl', o) = LifeIn(dl, o)
  BY DEF ForgetShape, Same, Alike, LifeIn, InOrder
<1>2. \A k \in Items : Holder'[k] = Holder[k] /\ Holder[k] # i
  BY HoldersNow, HoldersNext, NoneAssumption DEF ForgetShape, Same, Alike, Holders
<1>3. Life' = [Life EXCEPT ![i] = "unknown"]
  BY <1>1, LifeFacts
<1>. QED
  BY <1>1, <1>2, <1>3, LifeFacts, HolderIsFunction DEF Identity!Forget, Identity!Holds

LEMMA FinishRefines ==
  ASSUME InOrder(dl), InOrder(dl'), NEW S \in SUBSET Ids, FinishShape(dl, dl', S)
  PROVE  Identity!Finish(S)
<1>1. \A o \in Ids : LifeIn(dl', o) = IF o \in S THEN "over" ELSE LifeIn(dl, o)
  BY DEF FinishShape, Finished, Same, Alike, LifeIn
<1>2. \A k \in Items : Holder'[k] = IF Holder[k] \in S THEN None ELSE Holder[k]
  BY HoldersNow, HoldersNext, NoneAssumption DEF FinishShape, Finished, Same, Alike, Holders
<1>3. Life' = [o \in Ids |-> IF o \in S THEN "over" ELSE Life[o]]
  BY <1>1, LifeFacts
<1>4. Holder' = Identity!Freed(S)
  BY <1>2, HolderIsFunction DEF Identity!Freed
<1>. QED
  BY <1>3, <1>4 DEF Identity!Finish

LEMMA MoveRefines ==
  ASSUME InOrder(dl), InOrder(dl'), NEW i \in Ids, NEW k \in Items, MoveShape(dl, dl', i, k)
  PROVE  Identity!Move(i, k)
<1>1. \A o \in Ids : LifeIn(dl', o) = LifeIn(dl, o)
  BY DEF MoveShape, Same, Alike, LifeIn, InOrder
<1>2. LifeIn(dl, i) = "live"
  BY DEF MoveShape, LifeIn, InOrder
<1>3. Life' = Life /\ Life[i] = "live"
  BY <1>1, <1>2, LifeFacts
<1>4. dl[i].item \in Items /\ Holder[dl[i].item] = i
  BY HoldersNow DEF MoveShape, Holders, InOrder
<1>5. Holder[k] = None
  BY HoldersNow DEF MoveShape, Holders
<1>6. Holder'[k] = i
  BY HoldersNext DEF MoveShape, Holders
<1>7. \A l \in Items : l # k => Holder'[l] = IF Holder[l] \in {i} THEN None ELSE Holder[l]
  BY HoldersNow, HoldersNext, NoneAssumption DEF MoveShape, Same, Alike, Holders
<1>8. Holder' = [Identity!Freed({i}) EXCEPT ![k] = i]
  BY <1>6, <1>7, HolderIsFunction DEF Identity!Freed
<1>. QED
  BY <1>3, <1>4, <1>5, <1>8 DEF Identity!Move, Identity!Holds

LEMMA TakeRefines ==
  ASSUME InOrder(dl), InOrder(dl'), NEW S \in SUBSET Ids, NEW i \in Ids, NEW k \in Items,
         TakeShape(dl, dl', S, i, k)
  PROVE  Identity!Take(S, i, k)
<1>1. \A o \in Ids : LifeIn(dl', o) = IF o = i THEN "live"
                                      ELSE IF o \in S THEN "over" ELSE LifeIn(dl, o)
  BY DEF TakeShape, Finished, Same, Alike, LifeIn
<1>2. \A l \in Items : Identity!Freed(S)[l] = IF Holder[l] \in S THEN None ELSE Holder[l]
  BY DEF Identity!Freed
<1>3. Holder'[k] = i
  BY HoldersNext DEF TakeShape, Holders
<1>4. \A l \in Items : l # k => Holder'[l] = Identity!Freed(S)[l]
  BY <1>2, HoldersNow, HoldersNext, NoneAssumption DEF TakeShape, Finished, Same, Alike, Holders
<1>5. Holder' = [Identity!Freed(S) EXCEPT ![k] = i]
  BY <1>3, <1>4, HolderIsFunction DEF Identity!Freed
<1>6. Identity!Freed(S)[k] = None
  BY <1>2, HoldersNow DEF TakeShape, Holders
<1>7. Life[i] # "over" /\ ~Identity!Holds(i)
  BY LifeFacts, HoldersNow DEF LifeIn, TakeShape, Holders, Identity!Holds
<1>8. Life' = [o \in Ids |-> IF o = i THEN "live" ELSE IF o \in S THEN "over" ELSE Life[o]]
  BY <1>1, LifeFacts
<1>9. i \notin S
  BY DEF TakeShape
<1>. QED
  BY <1>5, <1>6, <1>7, <1>8, <1>9 DEF Identity!Take

LEMMA ShapeRefines ==
  ASSUME InOrder(dl), InOrder(dl'), Shape(dl, dl')
  PROVE  [Identity!Next]_(Identity!vars)
BY QuietRefines, KnowRefines, ForgetRefines, FinishRefines, TakeRefines, MoveRefines
   DEF Shape, Identity!Next

-----------------------------------------------------------------------------
(* The registry's operators                                                 *)

LEMMA NoDownloadFacts ==
  /\ NoDownload \in Downloads /\ NoDownload.bind = "none" /\ NoDownload.item = None
  /\ ~NoDownload.over /\ ~NoDownload.sub /\ NoDownload.left = {}
BY DEF NoDownload, Downloads

LEMMA KnownFact == Known \in SUBSET Commands
BY DEF Known

LEMMA BindToFacts ==
  ASSUME NEW d \in [Ids -> Downloads], NEW i \in Ids, NEW k \in Items, NEW C \in SUBSET Commands
  PROVE  /\ BindTo(d, i, k, C) \in [Ids -> Downloads]
         /\ BindTo(d, i, k, C)[i].bind = "bound" /\ BindTo(d, i, k, C)[i].item = k
         /\ BindTo(d, i, k, C)[i].left = d[i].left
         /\ BindTo(d, i, k, C)[i].over <=> d[i].over
         /\ \A o \in Ids \ {i} : BindTo(d, i, k, C)[o] = d[o]
<1>. DEFINE r == [d[i] EXCEPT !.bind = "bound", !.item = k, !.late = C]
<1>1. d[i] \in Downloads
  OBVIOUS
<1>2. r \in Downloads
  BY <1>1 DEF Downloads
<1>3. BindTo(d, i, k, C) = [d EXCEPT ![i] = r]
  BY DEF BindTo
<1>4. r.bind = "bound" /\ r.item = k /\ r.left = d[i].left /\ (r.over <=> d[i].over)
  BY <1>1 DEF Downloads
<1>. QED
  <2>. HIDE DEF r
  <2>. QED
    BY <1>2, <1>3, <1>4

LEMMA MintFacts ==
  ASSUME NEW d \in [Ids -> Downloads], NEW i \in Ids, NEW k \in Items,
         NEW s \in {"open", "ignored"}, NEW C \in SUBSET Commands
  PROVE  /\ Mint(d, i, k, s, C) \in [Ids -> Downloads]
         /\ Mint(d, i, k, s, C)[i].bind = "bound" /\ Mint(d, i, k, s, C)[i].item = k
         /\ ~Mint(d, i, k, s, C)[i].over /\ Mint(d, i, k, s, C)[i].left = {}
         /\ \A o \in Ids \ {i} : Mint(d, i, k, s, C)[o] = d[o]
BY DEF Mint, Downloads, NoDownload

LEMMA EndFacts ==
  ASSUME NEW d \in [Ids -> Downloads], NEW i \in Ids
  PROVE  /\ End(d, i) \in [Ids -> Downloads]
         /\ Finished(d, End(d, i), i)
         /\ \A o \in Ids \ {i} : End(d, i)[o] = d[o]
<1>. DEFINE b == IF d[i].bind \in {"bound", "unbound"} THEN "ended" ELSE d[i].bind
            r == [d[i] EXCEPT !.bind = b, !.over = TRUE]
<1>1. d[i] \in Downloads
  OBVIOUS
<1>2. b = "ended" \/ (b = "none" /\ d[i].bind = "none")
  BY <1>1 DEF Downloads
<1>3. End(d, i) = [d EXCEPT ![i] = r]
  BY DEF End
<1>. HIDE DEF b
<1>4. r \in Downloads /\ r.bind = b /\ r.over /\ r.item = d[i].item /\ r.left = d[i].left
  BY <1>1, <1>2 DEF Downloads
<1>. HIDE DEF r
<1>. QED
  BY <1>2, <1>3, <1>4 DEF Finished

LEMMA EndBindingFacts ==
  ASSUME NEW d \in [Ids -> Downloads], NEW i \in Ids
  PROVE  /\ EndBinding(d, i) \in [Ids -> Downloads]
         /\ Quiet(d, EndBinding(d, i)) \/ FinishShape(d, EndBinding(d, i), {i})
BY EndFacts DEF EndBinding, Quiet, Same, Alike, FinishShape

\* A download that holds nothing and is not over takes a free item.
LEMMA BindFree ==
  ASSUME InOrder(dl), NEW i \in Ids, NEW k \in Items, NEW C \in SUBSET Commands,
         HolderOf(k) = None, dl[i].bind = "unbound" \/ Rebinds(i)
  PROVE  BindTo(dl, i, k, C) \in [Ids -> Downloads] /\ Shape(dl, BindTo(dl, i, k, C))
<1>1. dl \in [Ids -> Downloads] /\ ~dl[i].over /\ dl[i].bind # "bound"
  BY DEF InOrder, Rebinds
<1>2. TakeShape(dl, BindTo(dl, i, k, C), {}, i, k)
  BY <1>1, BindToFacts, Lookup DEF TakeShape, Same, Alike
<1>. QED
  BY <1>1, <1>2, BindToFacts DEF Shape

LEMMA MintFree ==
  ASSUME InOrder(dl), NEW i \in Ids, NEW k \in Items, NEW s \in {"open", "ignored"},
         NEW C \in SUBSET Commands, HolderOf(k) = None, dl[i] = NoDownload
  PROVE  Mint(dl, i, k, s, C) \in [Ids -> Downloads] /\ Shape(dl, Mint(dl, i, k, s, C))
<1>1. dl \in [Ids -> Downloads] /\ ~dl[i].over /\ dl[i].bind # "bound" /\ dl[i].left = {}
  BY NoDownloadFacts DEF InOrder
<1>2. TakeShape(dl, Mint(dl, i, k, s, C), {}, i, k)
  BY <1>1, MintFacts, Lookup DEF TakeShape, Same, Alike
<1>. QED
  BY <1>1, <1>2, MintFacts DEF Shape

LEMMA EndShape ==
  ASSUME InOrder(dl), NEW i \in Ids
  PROVE  EndBinding(dl, i) \in [Ids -> Downloads] /\ Shape(dl, EndBinding(dl, i))
BY EndBindingFacts DEF InOrder, Shape

LEMMA StaysShape ==
  ASSUME UNCHANGED dl PROVE Shape(dl, dl')
BY DEF Shape, Quiet, Same, Alike

-----------------------------------------------------------------------------
(* What a step of the registry leaves in order                              *)

LEMMA NamedStays ==
  ASSUME Grows(dl, dl'), NEW i \in Ids, NEW k, Named(i, k)
  PROVE  Named(i, k)'
BY DEF Named, Grows

LEMMA RequestsStay ==
  ASSUME IInv, Grows(dl, dl'), asked' \subseteq asked, cmd' = cmd
  PROVE  RequestsAgree' /\ CompletedDeleteIsOver'
<1>1. \A i \in Ids, k \in Items \cup {None} : Named(i, k) => Named(i, k)'
  BY NamedStays
<1>2. /\ \A r \in asked : r.id \in Ids \cup {None} /\ r.item \in Items
      /\ \A c \in Commands : cmd[c].id \in Ids \cup {None} /\ cmd[c].item \in Items \cup {None}
                             /\ cmd[c].own \in BOOLEAN
  BY DEF IInv, TypeOK, Requests, Rows
<1>3. RequestsAgree'
  BY <1>1, <1>2 DEF RequestsAgree, IInv
<1>4. \A c \in Commands : cmd[c].own => cmd[c].id \in Ids
  BY <1>2 DEF RequestsAgree, IInv
<1>5. CompletedDeleteIsOver'
  BY <1>4 DEF CompletedDeleteIsOver, IInv, Grows
<1>. QED
  BY <1>3, <1>5

LEMMA PassStays ==
  ASSUME IInv, Grows(dl, dl'), cmd' = cmd, exec' = exec
  PROVE  PassAgrees'
<1>1. exec.id \in Ids \cup {None}
  BY DEF IInv, TypeOK
<1>2. exec.id # None => (dl[exec.id].over => dl'[exec.id].over)
  BY <1>1 DEF Grows
<1>. QED
  BY <1>2 DEF PassAgrees, IInv, Working

LEMMA RegistryStep ==
  ASSUME IInv, dl' \in [Ids -> Downloads], Shape(dl, dl')
  PROVE  BindingsAgree' /\ OneHolderPerItem' /\ Grows(dl, dl')
BY InOrderNow, ShapeInOrder, InOrderNext

\* Commands, requests and the pass are left alone.
LEMMA RegistryOnly ==
  ASSUME IInv, dl' \in [Ids -> Downloads], Shape(dl, dl'),
         job' \in [Items -> JobsOf \cup {None}], accepting' \subseteq [id : Ids, item : Items],
         obs' \subseteq Observations, ObservationsAgree', purging' \subseteq Purged,
         retries' \subseteq Retries, AnswersAgree',
         UNCHANGED <<cmd, asked, exec>>
  PROVE  IInv'
<1>1. BindingsAgree' /\ OneHolderPerItem' /\ Grows(dl, dl')
  BY RegistryStep
<1>2. RequestsAgree' /\ CompletedDeleteIsOver' /\ PassAgrees'
  BY <1>1, RequestsStay, PassStays
<1>3. TypeOK'
  BY DEF TypeOK, IInv
<1>. QED
  BY <1>1, <1>2, <1>3 DEF IInv
-----------------------------------------------------------------------------
(* Grabs, the client and the observer                                       *)

\* What every step is shown to do.
Fine == IInv' /\ dl' \in [Ids -> Downloads] /\ Shape(dl, dl')

LEMMA TypesOfObservations ==
  ASSUME IInv, NEW o \in obs
  PROVE  /\ o \in Observations /\ o.item \in Items /\ o.tok \in Ids \cup {None}
         /\ o.other \in Ids \cup {None} /\ o.seen \in SUBSET Commands
         /\ o.st \in {"conflict", "proven"} => o.other \in Ids
BY DEF IInv, TypeOK, Observations, ObservationsAgree

LEMMA SubmitStep ==
  ASSUME IInv, NEW i \in Ids, NEW k \in Items, Submit(i, k)
  PROVE  Fine
<1>. DEFINE n == [NoDownload EXCEPT !.bind = "unbound", !.sub = TRUE]
<1>1. n \in Downloads /\ n.bind = "unbound" /\ ~n.over /\ n.item = None /\ n.left = {}
  BY DEF NoDownload, Downloads
<1>2. dl \in [Ids -> Downloads] /\ dl' = [dl EXCEPT ![i] = n]
  BY DEF Submit, IInv, TypeOK
<1>3. dl[i].bind = "none" /\ ~dl[i].over
  BY NoDownloadFacts DEF Submit, Fresh
<1>4. dl' \in [Ids -> Downloads] /\ KnowShape(dl, dl', i)
  <2>. HIDE DEF n
  <2>. QED
    BY <1>1, <1>2, <1>3 DEF KnowShape, Same, Alike
<1>5. Shape(dl, dl')
  BY <1>4 DEF Shape
<1>6. job' \in [Items -> JobsOf \cup {None}]
  <2>1. PICK t \in Tagging : job' = [job EXCEPT ![k] = [dl |-> i, tok |-> t, place |-> "queue"]]
    BY DEF Submit
  <2>2. [dl |-> i, tok |-> t, place |-> "queue"] \in JobsOf
    BY SwitchesAssumption DEF JobsOf
  <2>. QED
    BY <2>1, <2>2 DEF IInv, TypeOK
<1>7. IInv'
  BY <1>4, <1>5, <1>6, RegistryOnly DEF Submit, IInv, TypeOK, ObservationsAgree, AnswersAgree
<1>. QED
  BY <1>4, <1>5, <1>7 DEF Fine

\* One download changes in ways its binding does not show.
LEMMA ChangedQuietly ==
  ASSUME NEW d \in [Ids -> Downloads], NEW e, NEW i \in Ids, NEW n \in Downloads,
         e = [d EXCEPT ![i] = n], Alike(d[i], n)
  PROVE  e \in [Ids -> Downloads] /\ Shape(d, e)
<1>1. e \in [Ids -> Downloads] /\ Quiet(d, e)
  BY DEF Quiet, Same, Alike
<1>. QED
  BY <1>1 DEF Shape

\* The holder of the item keeps it, and the intent is withdrawn.
LEMMA Withdrawn ==
  ASSUME InOrder(dl), NEW i \in Ids, NEW e,
         e = [dl EXCEPT ![i] = IF dl[i].bind = "unbound" THEN NoDownload ELSE dl[i]]
  PROVE  e \in [Ids -> Downloads] /\ Shape(dl, e)
<1>1. dl \in [Ids -> Downloads]
  BY DEF InOrder
<1>2. CASE dl[i].bind = "unbound"
  <2>1. e \in [Ids -> Downloads] /\ ForgetShape(dl, e, i)
    BY <1>1, <1>2, NoDownloadFacts DEF ForgetShape, Same, Alike
  <2>. QED
    BY <2>1 DEF Shape
<1>3. CASE dl[i].bind # "unbound"
  BY <1>1, <1>3 DEF Shape, Quiet, Same, Alike
<1>. QED
  BY <1>2, <1>3

LEMMA AcceptedShape ==
  ASSUME InOrder(dl), NEW i \in Ids, NEW k \in Items
  PROVE  Accepted(i, k) \in [Ids -> Downloads] /\ Shape(dl, Accepted(i, k))
<1>. DEFINE h == HolderOf(k)
<1>0. dl \in [Ids -> Downloads] /\ h \in Ids \cup {None}
  BY Lookup DEF InOrder
<1>1. CASE h \notin {None, i} /\ dl[h].state = "open"
  <2>1. Accepted(i, k) = [dl EXCEPT ![i] = IF dl[i].bind = "unbound" THEN NoDownload ELSE dl[i]]
    BY <1>1 DEF Accepted, Adopts
  <2>. QED
    BY <2>1, Withdrawn
<1>2. CASE h \notin {None, i} /\ dl[h].state # "open" /\ dl[i].bind = "unbound"
  <2>1. Accepted(i, k) = BindTo(End(dl, h), i, k, Known)
    BY <1>2 DEF Accepted, Adopts
  <2>2. h \in Ids /\ h # i /\ \A o \in Ids : dl[o].bind = "bound" /\ dl[o].item = k => o \in {h}
    BY <1>0, <1>2, Lookup
  <2>3. ~dl[i].over /\ dl[i].bind # "bound"
    BY <1>2 DEF InOrder
  <2>4. /\ End(dl, h) \in [Ids -> Downloads] /\ Finished(dl, End(dl, h), h)
        /\ \A o \in Ids \ {h} : End(dl, h)[o] = dl[o]
    BY <1>0, <2>2, EndFacts
  <2>5. /\ Accepted(i, k) \in [Ids -> Downloads]
        /\ Accepted(i, k)[i].bind = "bound" /\ Accepted(i, k)[i].item = k
        /\ Accepted(i, k)[i].left = dl[i].left
        /\ Accepted(i, k)[i].over <=> dl[i].over
        /\ \A o \in Ids \ {i} : Accepted(i, k)[o] = End(dl, h)[o]
    BY <2>1, <2>2, <2>4, BindToFacts, KnownFact
  <2>6. TakeShape(dl, Accepted(i, k), {h}, i, k)
    <3>. HIDE DEF h
    <3>. QED
      BY <2>2, <2>3, <2>4, <2>5 DEF TakeShape, Same, Alike, Finished
  <2>. QED
    <3>. HIDE DEF h
    <3>. QED
      BY <2>2, <2>5, <2>6 DEF Shape
<1>3. CASE h = i
  <2>. DEFINE n == [dl[i] EXCEPT !.sub = TRUE]
  <2>1. Accepted(i, k) = [dl EXCEPT ![i] = n]
    BY <1>3, NoneAssumption DEF Accepted, Adopts
  <2>2. dl[i] \in Downloads
    BY <1>0
  <2>3. n \in Downloads /\ Alike(dl[i], n)
    BY <2>2 DEF Downloads, Alike
  <2>. HIDE DEF n
  <2>. QED
    BY <1>0, <2>1, <2>3, ChangedQuietly
<1>4. CASE h = None /\ dl[i].bind = "unbound"
  <2>1. Accepted(i, k) = BindTo(dl, i, k, Known)
    BY <1>4, NoneAssumption DEF Accepted, Adopts
  <2>. QED
    BY <1>4, <2>1, BindFree, KnownFact
<1>5. CASE \/ h = None /\ dl[i].bind # "unbound"
           \/ h \notin {None, i} /\ dl[h].state # "open" /\ dl[i].bind # "unbound"
  <2>1. Accepted(i, k) = dl
    BY <1>5, NoneAssumption DEF Accepted, Adopts
  <2>. QED
    BY <1>0, <2>1 DEF Shape, Quiet, Same, Alike
<1>. QED
  BY <1>1, <1>2, <1>3, <1>4, <1>5

LEMMA RecordAcceptedStep ==
  ASSUME IInv, NEW a \in accepting, RecordAccepted(a)
  PROVE  Fine
<1>1. a.id \in Ids /\ a.item \in Items
  BY DEF IInv, TypeOK
<1>2. dl' \in [Ids -> Downloads] /\ Shape(dl, dl')
  BY <1>1, InOrderNow, AcceptedShape DEF RecordAccepted
<1>3. HolderOf(a.item) # None => HolderOf(a.item) \in Ids
  BY InOrderNow, Lookup
<1>4. accepting' \subseteq [id : Ids, item : Items]
  BY <1>1, <1>3 DEF RecordAccepted, Adopts, IInv, TypeOK
<1>5. IInv'
  BY <1>2, <1>4, RegistryOnly DEF RecordAccepted, IInv, TypeOK, ObservationsAgree, AnswersAgree
<1>. QED
  BY <1>2, <1>5 DEF Fine

\* The bindings stay as they are, and so do commands, requests and the pass.
LEMMA ElsewhereStep ==
  ASSUME IInv, UNCHANGED <<dl, cmd, asked, exec, purging, accepting>>,
         job' \in [Items -> JobsOf \cup {None}], obs' \subseteq Observations, ObservationsAgree',
         retries' \subseteq Retries, AnswersAgree'
  PROVE  Fine
<1>1. dl' \in [Ids -> Downloads] /\ Shape(dl, dl')
  BY StaysShape DEF IInv, TypeOK
<1>. QED
  BY <1>1, RegistryOnly DEF Fine, IInv, TypeOK

LEMMA ClientStep ==
  ASSUME IInv, NEW k \in Items, Appear(k) \/ Move(k)
  PROVE  Fine
<1>1. CASE Appear(k)
  <2>1. \E j \in JobsOf : job' = [job EXCEPT ![k] = j]
    <3>1. [dl |-> None, tok |-> FALSE, place |-> "queue"] \in JobsOf
      BY SwitchesAssumption DEF JobsOf
    <3>2. \A i \in Orphans : [dl |-> i, tok |-> TRUE, place |-> "queue"] \in JobsOf
      BY SwitchesAssumption, OrphansAssumption DEF JobsOf
    <3>. QED
      BY <1>1, <3>1, <3>2 DEF Appear
  <2>. QED
    BY <1>1, <2>1, ElsewhereStep DEF Appear, IInv, TypeOK, ObservationsAgree, AnswersAgree
<1>2. CASE Move(k)
  <2>1. job[k] \in JobsOf
    BY <1>2 DEF Move, IInv, TypeOK
  <2>2. "history" \in Places => [job[k] EXCEPT !.place = "history"] \in JobsOf
    BY <2>1 DEF JobsOf
  <2>3. \/ job' = [job EXCEPT ![k] = None]
        \/ "history" \in Places /\ job' = [job EXCEPT ![k] = [job[k] EXCEPT !.place = "history"]]
    BY <1>2 DEF Move
  <2>4. job' \in [Items -> JobsOf \cup {None}]
    BY <2>2, <2>3 DEF IInv, TypeOK
  <2>. QED
    BY <1>2, <2>4, ElsewhereStep DEF Move, IInv, TypeOK, ObservationsAgree, AnswersAgree
<1>. QED
  BY <1>1, <1>2

LEMMA ListStep ==
  ASSUME IInv, List
  PROVE  Fine
<1>1. \A k \in Items : job[k] # None =>
         /\ (IF job[k].tok THEN job[k].dl ELSE None) \in Ids \cup {None}
  BY DEF IInv, TypeOK, JobsOf
<1>2. ASSUME NEW o \in obs'
      PROVE  o \in Observations /\ o.st = "seen"
  <2>1. PICK k \in Items : /\ job[k] # None
                           /\ o = [item |-> k, st |-> "seen", other |-> None,
                                   tok |-> IF job[k].tok THEN job[k].dl ELSE None, seen |-> Known]
    BY <1>2 DEF List
  <2>. QED
    BY <1>1, <2>1, KnownFact DEF Observations
<1>. QED
  BY <1>2, ElsewhereStep DEF List, IInv, TypeOK, ObservationsAgree, AnswersAgree

\* An observation is left out, or moves on.
LEMMA ObservationsMove ==
  ASSUME IInv, NEW o \in obs, NEW N, obs' = (obs \ {o}) \cup N,
         \A n \in N : n \in Observations /\ (n.st \in {"conflict", "proven"} => n.other # None)
  PROVE  obs' \subseteq Observations /\ ObservationsAgree'
BY DEF IInv, TypeOK, ObservationsAgree

LEMMA ResolveStep ==
  ASSUME IInv, NEW o \in obs, Resolve(o)
  PROVE  Fine
<1>0. InOrder(dl) /\ dl \in [Ids -> Downloads]
  BY InOrderNow DEF IInv, TypeOK
<1>1. /\ o.item \in Items /\ o.tok \in Ids \cup {None} /\ o \in Observations
      /\ o.seen \in SUBSET Commands
  BY TypesOfObservations
<1>2. ASSUME ResolveHeld(o)
      PROVE  dl' \in [Ids -> Downloads] /\ Shape(dl, dl')
  <2>. DEFINE h == HolderOf(o.item)
              n == [dl[h] EXCEPT !.late = dl[h].late \cup o.seen]
  <2>1. h \in Ids
    BY <1>0, <1>2, Lookup DEF ResolveHeld
  <2>2. dl' = dl \/ dl' = [dl EXCEPT ![h] = n]
    BY <1>2 DEF ResolveHeld
  <2>3. n \in Downloads /\ Alike(dl[h], n)
    <3>1. dl[h] \in Downloads
      BY <1>0, <2>1
    <3>. HIDE DEF h
    <3>. QED
      BY <1>1, <3>1 DEF Downloads, Alike
  <2>. QED
    <3>. HIDE DEF h, n
    <3>. QED
      BY <1>0, <2>1, <2>2, <2>3, ChangedQuietly, StaysShape
<1>3. ASSUME ResolveToken(o)
      PROVE  dl' \in [Ids -> Downloads] /\ Shape(dl, dl')
  <2>1. o.tok \in Ids /\ HolderOf(o.item) = None
    BY <1>1, <1>3 DEF ResolveToken
  <2>2. CASE dl[o.tok].bind = "unbound" \/ Rebinds(o.tok)
    <3>1. dl' = BindTo(dl, o.tok, o.item, o.seen)
      BY <1>3, <2>2, NoDownloadFacts DEF ResolveToken, Rebinds
    <3>. QED
      BY <1>0, <1>1, <2>1, <2>2, <3>1, BindFree
  <2>3. CASE ~(dl[o.tok].bind = "unbound" \/ Rebinds(o.tok)) /\ dl[o.tok] = NoDownload
    <3>1. dl' = Mint(dl, o.tok, o.item, "open", o.seen)
      BY <1>3, <2>3 DEF ResolveToken
    <3>. QED
      BY <1>0, <1>1, <2>1, <2>3, <3>1, MintFree
  <2>4. CASE ~(dl[o.tok].bind = "unbound" \/ Rebinds(o.tok)) /\ dl[o.tok] # NoDownload
    <3>1. dl' = dl
      BY <1>3, <2>4 DEF ResolveToken
    <3>. QED
      BY <1>0, <3>1, StaysShape
  <2>. QED
    BY <2>2, <2>3, <2>4
<1>4. ASSUME ResolveNamed(o)
      PROVE  dl' \in [Ids -> Downloads] /\ Shape(dl, dl')
  <2>1. HolderOf(o.item) = None
    BY <1>4 DEF ResolveNamed
  <2>2. \/ \E i \in Ids : dl[i].bind = "unbound" /\ dl' = BindTo(dl, i, o.item, o.seen)
        \/ dl' = dl
        \/ \E i \in Ids : dl[i] = NoDownload /\ dl' = Mint(dl, i, o.item, "open", o.seen)
    BY <1>4 DEF ResolveNamed, Fresh
  <2>. QED
    BY <1>0, <1>1, <2>1, <2>2, BindFree, MintFree, StaysShape
<1>5. dl' \in [Ids -> Downloads] /\ Shape(dl, dl')
  BY <1>0, <1>2, <1>3, <1>4, StaysShape DEF Resolve
<1>6. obs' \subseteq Observations /\ ObservationsAgree'
  <2>. DEFINE n == [o EXCEPT !.st = "conflict", !.other = HolderOf(o.item)]
  <2>1. Conflicting(o) => n \in Observations /\ n.other # None
    <3>1. HolderOf(o.item) \in Ids \cup {None}
      BY <1>0, Lookup
    <3>2. Conflicting(o) => HolderOf(o.item) # None
      BY DEF Conflicting
    <3>. QED
      BY <1>1, <3>1, <3>2 DEF Observations
  <2>2. \/ obs' = obs \ {o}
        \/ Conflicting(o) /\ obs' = (obs \ {o}) \cup {n}
    BY DEF Resolve
  <2>. HIDE DEF n
  <2>3. CASE obs' = obs \ {o}
    BY <2>3 DEF IInv, TypeOK, ObservationsAgree
  <2>4. CASE Conflicting(o) /\ obs' = (obs \ {o}) \cup {n}
    BY <2>1, <2>4, ObservationsMove
  <2>. QED
    BY <2>2, <2>3, <2>4
<1>7. IInv'
  BY <1>5, <1>6, RegistryOnly DEF Resolve, IInv, TypeOK, AnswersAgree
<1>. QED
  BY <1>5, <1>7 DEF Fine

LEMMA ProveStaleStep ==
  ASSUME IInv, NEW o \in obs, ProveStale(o)
  PROVE  Fine
<1>1. o \in Observations /\ o.other # None
  BY TypesOfObservations, NoneAssumption DEF ProveStale
<1>. DEFINE p == [o EXCEPT !.st = "proven"]
<1>2. p \in Observations /\ p.other # None
  BY <1>1 DEF Observations
<1>3. obs' \subseteq Observations /\ ObservationsAgree'
  <2>1. CASE obs' = obs \ {o}
    BY <2>1 DEF IInv, TypeOK, ObservationsAgree
  <2>2. CASE obs' = (obs \ {o}) \cup {p}
    <3>. HIDE DEF p
    <3>. QED
      BY <1>2, <2>2, ObservationsMove
  <2>. QED
    BY <2>1, <2>2 DEF ProveStale
<1>. QED
  BY <1>3, ElsewhereStep DEF ProveStale, IInv, TypeOK, AnswersAgree

LEMMA HealStep ==
  ASSUME IInv, NEW o \in obs, Heal(o)
  PROVE  Fine
<1>1. o \in Observations /\ o.other \in Ids
  BY TypesOfObservations DEF Heal
<1>. DEFINE p == [o EXCEPT !.st = "again"]
<1>2. p \in Observations /\ p.st = "again"
  BY <1>1 DEF Observations
<1>3. obs' \subseteq Observations /\ ObservationsAgree'
  <2>1. CASE obs' = obs \ {o}
    BY <2>1 DEF IInv, TypeOK, ObservationsAgree
  <2>2. CASE obs' = (obs \ {o}) \cup {p}
    <3>. HIDE DEF p
    <3>. QED
      BY <1>2, <2>2, ObservationsMove
  <2>. QED
    BY <2>1, <2>2 DEF Heal
<1>4. dl' \in [Ids -> Downloads] /\ Shape(dl, dl')
  BY <1>1, InOrderNow, EndShape DEF Heal
<1>5. IInv'
  BY <1>3, <1>4, RegistryOnly DEF Heal, IInv, TypeOK, AnswersAgree
<1>. QED
  BY <1>4, <1>5 DEF Fine

LEMMA RetireAbsentStep ==
  ASSUME IInv, NEW i \in Ids, RetireAbsent(i)
  PROVE  Fine
<1>1. dl' \in [Ids -> Downloads] /\ Shape(dl, dl')
  BY InOrderNow, EndShape DEF RetireAbsent
<1>2. IInv'
  BY <1>1, RegistryOnly DEF RetireAbsent, IInv, TypeOK, ObservationsAgree, AnswersAgree
<1>. QED
  BY <1>1, <1>2 DEF Fine

\* A step that changes one download, and in it nothing a binding shows.
LEMMA QuietStep ==
  ASSUME IInv, NEW i \in Ids, NEW n \in Downloads, dl' = [dl EXCEPT ![i] = n], Alike(dl[i], n),
         UNCHANGED <<job, accepting, obs, cmd, asked, exec>>,
         purging' \subseteq purging, retries' \subseteq Retries, AnswersAgree'
  PROVE  Fine
<1>1. dl' \in [Ids -> Downloads] /\ Shape(dl, dl')
  BY ChangedQuietly DEF IInv, TypeOK
<1>2. IInv'
  BY <1>1, RegistryOnly DEF IInv, TypeOK, ObservationsAgree
<1>. QED
  BY <1>1, <1>2 DEF Fine

LEMMA SettleStep ==
  ASSUME IInv, NEW i \in Ids, Settle(i)
  PROVE  Fine
<1>1. dl[i] \in Downloads
  BY DEF IInv, TypeOK
<1>2. PICK s \in Outcomes \cup {"failed"} : dl' = [dl EXCEPT ![i].state = s]
  BY DEF Settle
<1>. DEFINE n == [dl[i] EXCEPT !.state = s]
<1>3. n \in Downloads /\ Alike(dl[i], n)
  BY <1>1, SwitchesAssumption DEF Downloads, Alike
<1>4. dl' = [dl EXCEPT ![i] = n]
  BY <1>2
<1>. HIDE DEF n
<1>. QED
  BY <1>3, <1>4, QuietStep DEF Settle, IInv, TypeOK, AnswersAgree

-----------------------------------------------------------------------------
(* Password retries                                                         *)

LEMMA TypesOfRetries ==
  ASSUME IInv, NEW r \in retries
  PROVE  /\ r \in Retries /\ r.id \in Ids /\ r.item \in Items /\ r.to \in Items \cup {None}
         /\ r.answer = "accepted" => r.to \in Items
BY DEF IInv, TypeOK, Retries, AnswersAgree

LEMMA ClaimRetryStep ==
  ASSUME IInv, NEW i \in Ids, ClaimRetry(i)
  PROVE  Fine
<1>1. dl[i] \in Downloads /\ dl[i].item \in Items
  BY DEF ClaimRetry, IInv, TypeOK, BindingsAgree
<1>. DEFINE n == [dl[i] EXCEPT !.retry = "claimed"]
            mine == [id |-> i, item |-> dl[i].item, mine |-> TRUE, to |-> None, answer |-> "sent"]
            Disowned(r) == IF r.id = i THEN [r EXCEPT !.mine = FALSE] ELSE r
<1>2. n \in Downloads /\ Alike(dl[i], n)
  BY <1>1 DEF Downloads, Alike
<1>3. dl' = [dl EXCEPT ![i] = n] /\ retries' = {Disowned(r) : r \in retries} \cup {mine}
  BY DEF ClaimRetry
<1>4. mine \in Retries /\ mine.answer = "sent"
  BY <1>1 DEF Retries
<1>5. ASSUME NEW r \in retries
      PROVE  Disowned(r) \in Retries /\ (Disowned(r).answer = "accepted" => Disowned(r).to \in Items)
  <2>1. r \in Retries /\ (r.answer = "accepted" => r.to \in Items)
    BY TypesOfRetries
  <2>2. CASE r.id = i
    <3>1. [r EXCEPT !.mine = FALSE] \in Retries /\ [r EXCEPT !.mine = FALSE].to = r.to
          /\ [r EXCEPT !.mine = FALSE].answer = r.answer
      BY <2>1 DEF Retries
    <3>. QED
      BY <2>1, <2>2, <3>1
  <2>3. CASE r.id # i
    BY <2>1, <2>3
  <2>. QED
    BY <2>2, <2>3
<1>. HIDE DEF n, mine, Disowned
<1>6. retries' \subseteq Retries /\ AnswersAgree'
  BY <1>3, <1>4, <1>5 DEF AnswersAgree
<1>. QED
  BY <1>2, <1>3, <1>6, QuietStep DEF ClaimRetry

LEMMA RetryJobStep ==
  ASSUME IInv, NEW r \in retries, RetryJob(r)
  PROVE  Fine
<1>0. /\ r \in Retries /\ r.item \in Items /\ job \in [Items -> JobsOf \cup {None}]
  BY TypesOfRetries DEF IInv, TypeOK
<1>1. \E n \in Retries : /\ retries' = (retries \ {r}) \cup {n}
                         /\ n.answer = "accepted" => n.to \in Items
  <2>1. CASE \E a \in {"refused", "uncertain"} :
                retries' = (retries \ {r}) \cup {[r EXCEPT !.answer = a]}
    <3>1. PICK a \in {"refused", "uncertain"} :
             retries' = (retries \ {r}) \cup {[r EXCEPT !.answer = a]}
      BY <2>1
    <3>2. [r EXCEPT !.answer = a] \in Retries /\ [r EXCEPT !.answer = a].answer = a
      BY <1>0 DEF Retries
    <3>. QED
      BY <3>1, <3>2
  <2>2. CASE \E k \in Items, a \in {"accepted", "uncertain"} :
                retries' = (retries \ {r}) \cup
                   {[r EXCEPT !.answer = a, !.to = IF a = "accepted" THEN k ELSE None]}
    <3>1. PICK k \in Items, a \in {"accepted", "uncertain"} :
             retries' = (retries \ {r}) \cup
                {[r EXCEPT !.answer = a, !.to = IF a = "accepted" THEN k ELSE None]}
      BY <2>2
    <3>. DEFINE n == [r EXCEPT !.answer = a, !.to = IF a = "accepted" THEN k ELSE None]
    <3>2. n \in Retries /\ n.answer = a /\ n.to = IF a = "accepted" THEN k ELSE None
      BY <1>0 DEF Retries
    <3>. QED
      <4>. HIDE DEF n
      <4>. QED
        BY <3>1, <3>2 DEF n
  <2>. QED
    BY <2>1, <2>2 DEF RetryJob
<1>2. retries' \subseteq Retries /\ AnswersAgree'
  BY <1>1 DEF IInv, TypeOK, AnswersAgree
<1>3. job' \in [Items -> JobsOf \cup {None}]
  <2>1. CASE UNCHANGED job
    BY <1>0, <2>1
  <2>2. ASSUME NEW k \in Items, job[r.item] # None,
               job' = [[job EXCEPT ![r.item] = None]
                          EXCEPT ![k] = [job[r.item] EXCEPT !.place = "queue"]]
        PROVE  job' \in [Items -> JobsOf \cup {None}]
    <3>1. job[r.item] \in JobsOf
      BY <1>0, <2>2
    <3>2. [job[r.item] EXCEPT !.place = "queue"] \in JobsOf
      BY <3>1, SwitchesAssumption DEF JobsOf
    <3>. QED
      BY <1>0, <2>2, <3>2
  <2>. QED
    BY <2>1, <2>2 DEF RetryJob
<1>. QED
  BY <1>2, <1>3, ElsewhereStep DEF RetryJob, IInv, TypeOK, ObservationsAgree

\* The binding of a retried download stays, or moves to the item of the answer.
LEMMA AnsweredShape ==
  ASSUME IInv, NEW r \in retries, Owns(r), r.answer = "accepted", MayMove(r), NEW t,
         t \in {"same", "moved"},
         dl' = [dl EXCEPT ![r.id].item = r.to, ![r.id].over = FALSE, ![r.id].state = "failed",
                          ![r.id].retry = t, ![r.id].left = dl[r.id].left \cup ({r.item} \ {r.to})]
  PROVE  dl' \in [Ids -> Downloads] /\ Shape(dl, dl')
<1>. DEFINE i == r.id
            n == [dl[i] EXCEPT !.item = r.to, !.over = FALSE, !.state = "failed", !.retry = t,
                               !.left = dl[i].left \cup ({r.item} \ {r.to})]
<1>0. /\ i \in Ids /\ r.item \in Items /\ r.to \in Items /\ dl \in [Ids -> Downloads]
      /\ InOrder(dl)
  BY TypesOfRetries, InOrderNow DEF IInv, TypeOK
<1>1. dl[i] \in Downloads /\ dl[i].bind = "bound" /\ dl[i].item = r.item /\ ~dl[i].over
  BY <1>0 DEF Owns, MayMove, InOrder
<1>2. /\ n \in Downloads /\ n.bind = "bound" /\ n.item = r.to /\ ~n.over
      /\ n.left = dl[i].left \cup ({r.item} \ {r.to})
  BY <1>0, <1>1 DEF Downloads
<1>3. dl' = [dl EXCEPT ![i] = n]
  OBVIOUS
<1>4. HolderOf(r.to) \in {None, i}
  BY DEF MayMove
<1>. HIDE DEF n, i
<1>5. dl' \in [Ids -> Downloads] /\ dl'[i] = n /\ \A o \in Ids \ {i} : dl'[o] = dl[o]
  <2>. SUFFICES ASSUME NEW e, e = [dl EXCEPT ![i] = n]
                PROVE  e \in [Ids -> Downloads] /\ e[i] = n /\ \A o \in Ids \ {i} : e[o] = dl[o]
    BY <1>3, Zenon
  <2>. QED
    BY <1>0, <1>2
<1>6. CASE r.to = r.item
  <2>1. Alike(dl[i], n)
    BY <1>1, <1>2, <1>6 DEF Alike
  <2>. QED
    BY <1>0, <1>2, <1>3, <2>1, ChangedQuietly
<1>7. CASE r.to # r.item
  <2>1. n.left = dl[i].left \cup {dl[i].item}
    BY <1>1, <1>2, <1>7
  <2>2. HolderOf(r.to) = None
    BY <1>0, <1>1, <1>4, <1>7, Lookup
  <2>3. \A o \in Ids : ~(dl[o].bind = "bound" /\ dl[o].item = r.to)
    BY <1>0, <2>2, Lookup
  <2>4. MoveShape(dl, dl', i, r.to)
    BY <1>1, <1>2, <1>5, <2>1, <2>3 DEF MoveShape, Same, Alike
  <2>. QED
    BY <1>0, <1>5, <2>4 DEF Shape
<1>. QED
  BY <1>6, <1>7

LEMMA FinishRetryStep ==
  ASSUME IInv, NEW r \in retries, FinishRetry(r)
  PROVE  Fine
<1>0. dl \in [Ids -> Downloads] /\ r.id \in Ids
  BY TypesOfRetries DEF IInv, TypeOK
<1>1. dl' \in [Ids -> Downloads] /\ Shape(dl, dl')
  <2>1. CASE /\ Owns(r) /\ r.answer = "accepted" /\ MayMove(r)
             /\ dl' = [dl EXCEPT ![r.id].item = r.to, ![r.id].over = FALSE, ![r.id].state = "failed",
                                 ![r.id].retry = IF r.to # r.item THEN "moved" ELSE "same",
                                 ![r.id].left = dl[r.id].left \cup ({r.item} \ {r.to})]
    <3>. DEFINE t == IF r.to # r.item THEN "moved" ELSE "same"
    <3>1. t \in {"same", "moved"}
      OBVIOUS
    <3>2. dl' = [dl EXCEPT ![r.id].item = r.to, ![r.id].over = FALSE, ![r.id].state = "failed",
                           ![r.id].retry = t,
                           ![r.id].left = dl[r.id].left \cup ({r.item} \ {r.to})]
      BY <2>1
    <3>. HIDE DEF t
    <3>. QED
      BY <2>1, <3>1, <3>2, AnsweredShape
  <2>2. CASE dl' = [dl EXCEPT ![r.id].state = "failed", ![r.id].retry = "none"]
    <3>. DEFINE n == [dl[r.id] EXCEPT !.state = "failed", !.retry = "none"]
    <3>1. dl[r.id] \in Downloads
      BY <1>0
    <3>2. n \in Downloads /\ Alike(dl[r.id], n)
      BY <3>1 DEF Downloads, Alike
    <3>3. dl' = [dl EXCEPT ![r.id] = n]
      BY <2>2
    <3>. HIDE DEF n
    <3>. QED
      BY <1>0, <3>2, <3>3, ChangedQuietly
  <2>3. CASE UNCHANGED dl
    BY <1>0, <2>3, StaysShape
  <2>. QED
    BY <2>1, <2>2, <2>3 DEF FinishRetry
<1>2. IInv'
  BY <1>1, RegistryOnly DEF FinishRetry, IInv, TypeOK, ObservationsAgree, AnswersAgree
<1>. QED
  BY <1>1, <1>2 DEF Fine

LEMMA ObserveRetryStep ==
  ASSUME IInv, NEW i \in Ids, ObserveRetry(i)
  PROVE  Fine
<1>1. dl[i] \in Downloads /\ ~dl[i].over
  BY DEF ObserveRetry, Awaited, IInv, TypeOK, BindingsAgree
<1>2. PICK t \in {"confirmed", "none"} :
         dl' = [dl EXCEPT ![i].state = "open", ![i].retry = t, ![i].over = FALSE]
  BY DEF ObserveRetry
<1>. DEFINE n == [dl[i] EXCEPT !.state = "open", !.retry = t, !.over = FALSE]
<1>3. n \in Downloads /\ Alike(dl[i], n)
  BY <1>1 DEF Downloads, Alike
<1>4. dl' = [dl EXCEPT ![i] = n]
  BY <1>2
<1>. HIDE DEF n
<1>. QED
  BY <1>3, <1>4, QuietStep DEF ObserveRetry, IInv, TypeOK, AnswersAgree

-----------------------------------------------------------------------------
(* Purges, and the deletion of the client                                   *)

LEMMA DropPurgedStep ==
  ASSUME IInv, NEW p \in purging, DropPurged(p)
  PROVE  Fine
<1>1. p.id \in Ids /\ dl[p.id] \in Downloads
  BY DEF IInv, TypeOK, Purged
<1>. DEFINE n == [dl[p.id] EXCEPT !.sub = FALSE, !.state = "open", !.retry = "none"]
<1>2. n \in Downloads /\ Alike(dl[p.id], n)
  BY <1>1 DEF Downloads, Alike
<1>3. dl' = [dl EXCEPT ![p.id] = n]
  BY DEF DropPurged
<1>. HIDE DEF n
<1>. QED
  BY <1>1, <1>2, <1>3, QuietStep DEF DropPurged, IInv, TypeOK, AnswersAgree

LEMMA RetirePurgedStep ==
  ASSUME IInv, NEW p \in purging, RetirePurged(p)
  PROVE  Fine
<1>0. dl \in [Ids -> Downloads] /\ p.id \in Ids
  BY DEF IInv, TypeOK, Purged
<1>. DEFINE e == End(dl, p.id)
            n == [e[p.id] EXCEPT !.retry = "none"]
<1>1. /\ e \in [Ids -> Downloads] /\ Finished(dl, e, p.id)
      /\ \A o \in Ids \ {p.id} : e[o] = dl[o]
  BY <1>0, EndFacts
<1>2. dl' = [e EXCEPT ![p.id] = n]
  BY DEF RetirePurged
<1>. HIDE DEF e
<1>3. e[p.id] \in Downloads
  BY <1>0, <1>1
<1>4. n \in Downloads /\ Alike(e[p.id], n)
  BY <1>3 DEF Downloads, Alike
<1>. HIDE DEF n
<1>5. dl' \in [Ids -> Downloads] /\ FinishShape(dl, dl', {p.id})
  BY <1>0, <1>1, <1>2, <1>4 DEF FinishShape, Finished, Same, Alike
<1>6. Shape(dl, dl')
  BY <1>0, <1>5 DEF Shape
<1>7. IInv'
  BY <1>5, <1>6, RegistryOnly DEF RetirePurged, IInv, TypeOK, ObservationsAgree, AnswersAgree
<1>. QED
  BY <1>5, <1>6, <1>7 DEF Fine

LEMMA DeleteClientStep ==
  ASSUME IInv, DeleteClient
  PROVE  Fine
<1>0. dl \in [Ids -> Downloads]
  BY DEF IInv, TypeOK
<1>. DEFINE S == {i \in Ids : dl[i].bind # "none"}
<1>1. dl' = [i \in Ids |-> IF dl[i].bind = "none" THEN dl[i] ELSE End(dl, i)[i]]
  BY DEF DeleteClient
<1>2. ASSUME NEW i \in Ids
      PROVE  /\ dl'[i] \in Downloads
             /\ IF i \in S THEN Finished(dl, dl', i) ELSE Same(dl, dl', i)
  <2>1. CASE dl[i].bind = "none"
    BY <1>0, <1>1, <2>1 DEF Same, Alike
  <2>2. CASE dl[i].bind # "none"
    <3>1. dl'[i] = End(dl, i)[i] /\ End(dl, i)[i] \in Downloads /\ Finished(dl, End(dl, i), i)
      BY <1>0, <1>1, <2>2, EndFacts
    <3>. QED
      BY <2>2, <3>1 DEF Finished
  <2>. QED
    BY <2>1, <2>2
<1>3. dl' \in [Ids -> Downloads] /\ FinishShape(dl, dl', S)
  BY <1>1, <1>2 DEF FinishShape
<1>4. Shape(dl, dl')
  BY <1>3 DEF Shape
<1>5. IInv'
  BY <1>3, <1>4, RegistryOnly DEF DeleteClient, IInv, TypeOK, ObservationsAgree, AnswersAgree
<1>. QED
  BY <1>3, <1>4, <1>5 DEF Fine

-----------------------------------------------------------------------------
(* Delete commands                                                          *)

LEMMA TypesOfRows ==
  ASSUME IInv
  PROVE  /\ \A c \in Commands :
              /\ cmd[c] \in Rows /\ cmd[c].id \in Ids \cup {None}
              /\ cmd[c].item \in Items \cup {None} /\ cmd[c].own \in BOOLEAN
              /\ cmd[c].status \in {"none", "queued", "running", "completed"}
         /\ \A c \in Commands : cmd[c].status # "none" => cmd[c].item \in Items
         /\ exec.id \in Ids \cup {None} /\ exec.c \in 0 .. MaxCommands
         /\ \A s \in exec.todo : s.c \in Commands /\ s.id \in Ids \cup {None}
BY DEF IInv, TypeOK, Rows, RequestsAgree, Snapshots

LEMMA AskStep ==
  ASSUME IInv, NEW k \in Items, NEW p \in Places, Ask(k, p)
  PROVE  Fine
<1>1. PICK h \in {HolderOf(k)} \cup (IF Faults THEN {None} ELSE {}) :
         asked' = asked \cup {[item |-> k, place |-> p, id |-> h]}
  BY DEF Ask
<1>2. h \in Ids \cup {None} /\ (h # None => Named(h, k))
  BY InOrderNow, Lookup DEF Named
<1>. DEFINE r == [item |-> k, place |-> p, id |-> h]
<1>3. r \in Requests /\ r.id = h /\ r.item = k
  BY <1>2 DEF Requests
<1>4. UNCHANGED <<dl, job, accepting, obs, cmd, purging, retries, exec>> /\ asked' = asked \cup {r}
  BY <1>1 DEF Ask
<1>. HIDE DEF r
<1>5. TypeOK'
  BY <1>3, <1>4 DEF IInv, TypeOK
<1>6. \A i, l : Named(i, l)' <=> Named(i, l)
  BY <1>4 DEF Named
<1>7. RequestsAgree'
  BY <1>2, <1>3, <1>4, <1>6 DEF RequestsAgree, IInv
<1>8. /\ BindingsAgree' /\ OneHolderPerItem' /\ PassAgrees' /\ CompletedDeleteIsOver'
      /\ ObservationsAgree' /\ AnswersAgree'
  BY <1>4 DEF IInv, BindingsAgree, OneHolderPerItem, PassAgrees, CompletedDeleteIsOver,
       ObservationsAgree, AnswersAgree
<1>9. dl' \in [Ids -> Downloads] /\ Shape(dl, dl')
  BY <1>4, StaysShape DEF IInv, TypeOK
<1>. QED
  BY <1>5, <1>7, <1>8, <1>9 DEF IInv, Fine

\* A command row is forgotten by the downloads' times of observation.
LEMMA LateShape ==
  ASSUME IInv, NEW c, dl' = [i \in Ids |-> [dl[i] EXCEPT !.late = dl[i].late \ {c}]]
  PROVE  dl' \in [Ids -> Downloads] /\ Shape(dl, dl')
<1>1. ASSUME NEW i \in Ids
      PROVE  dl'[i] \in Downloads /\ Same(dl, dl', i)
  <2>1. dl[i] \in Downloads
    BY DEF IInv, TypeOK
  <2>. DEFINE n == [dl[i] EXCEPT !.late = dl[i].late \ {c}]
  <2>2. n \in Downloads /\ Alike(dl[i], n)
    BY <2>1 DEF Downloads, Alike
  <2>3. dl'[i] = n
    OBVIOUS
  <2>. HIDE DEF n
  <2>. QED
    BY <2>2, <2>3 DEF Same
<1>2. dl' \in [Ids -> Downloads] /\ Quiet(dl, dl')
  BY <1>1 DEF Quiet
<1>. QED
  BY <1>2 DEF Shape

\* Rows a change may touch: those not in use, those whose download was not given
\* with the request.
LEMMA RowsChange ==
  ASSUME IInv, Grows(dl, dl'), exec' = exec, asked' \subseteq asked,
         cmd' \in [Commands -> Rows],
         \A c \in Commands :
            \/ cmd'[c] = cmd[c]
            \/ /\ cmd[c].status \in {"none", "completed"} /\ c # exec.c
               /\ cmd'[c].own => cmd'[c].id \in Ids /\ Named(cmd'[c].id, cmd'[c].item)
               /\ cmd'[c].status = "none" => ~cmd'[c].own
               /\ cmd'[c].status # "none" => cmd'[c].item \in Items
               /\ cmd'[c].status # "completed"
            \/ /\ ~cmd[c].own /\ ~cmd'[c].own
               /\ cmd'[c].status = cmd[c].status /\ cmd'[c].item = cmd[c].item
  PROVE  RequestsAgree' /\ PassAgrees' /\ CompletedDeleteIsOver'
<1>1. \A c \in Commands : /\ cmd[c].id \in Ids \cup {None}
                          /\ cmd[c].own => cmd[c].id \in Ids
                          /\ cmd[c].own => Named(cmd[c].id, cmd[c].item)
  BY TypesOfRows DEF IInv, RequestsAgree
<1>2. \A c \in Commands : /\ cmd'[c].own => cmd'[c].id \in Ids /\ Named(cmd'[c].id, cmd'[c].item)
                          /\ cmd'[c].status = "none" => ~cmd'[c].own
                          /\ cmd'[c].status # "none" => cmd'[c].item \in Items
  BY <1>1 DEF IInv, RequestsAgree
<1>3. \A c \in Commands : cmd'[c].own => Named(cmd[c].id, cmd[c].item)'
  BY <1>2 DEF Named, Grows
<1>4. \A r \in asked : r.id # None => r.id \in Ids /\ Named(r.id, r.item)
  BY DEF IInv, RequestsAgree, TypeOK, Requests
<1>5. \A r \in asked : r.id # None => Named(r.id, r.item)'
  BY <1>4 DEF Named, Grows
<1>6. RequestsAgree'
  BY <1>2, <1>3, <1>5, NoneAssumption DEF RequestsAgree
<1>7. CompletedDeleteIsOver'
  <2>1. \A c \in Commands : cmd'[c].status = "completed" /\ cmd'[c].own
           => /\ cmd[c].status = "completed" /\ cmd'[c].id = cmd[c].id /\ cmd[c].own
              /\ cmd'[c].item = cmd[c].item
    OBVIOUS
  <2>. QED
    BY <1>1, <2>1 DEF CompletedDeleteIsOver, IInv, Grows
<1>8. \A s \in exec.todo : /\ cmd'[s.c].status = "queued" /\ s.c # exec.c
                           /\ cmd'[s.c].own => s.id = cmd'[s.c].id
  BY TypesOfRows DEF IInv, PassAgrees
<1>9. exec.pc \in Working => /\ cmd'[exec.c].status # "none"
                             /\ cmd'[exec.c].own => exec.id = cmd'[exec.c].id
  BY DEF IInv, PassAgrees
<1>10. exec.id # None => (dl[exec.id].over => dl'[exec.id].over)
  BY TypesOfRows DEF Grows
<1>11. PassAgrees'
  BY <1>8, <1>9, <1>10 DEF IInv, PassAgrees, Working
<1>. QED
  BY <1>6, <1>7, <1>11

LEMMA QueuedStep ==
  ASSUME IInv, NEW r \in Requests, r.id # None => Named(r.id, r.item), Queued(r),
         exec' = exec, dl' = dl, asked' \subseteq asked
  PROVE  /\ cmd' \in [Commands -> Rows]
         /\ RequestsAgree' /\ PassAgrees' /\ CompletedDeleteIsOver'
<1>0. /\ r.id \in Ids \cup {None} /\ r.item \in Items /\ r.place \in Places
      /\ Grows(dl, dl')
  BY DEF Requests, Grows
<1>1. CASE Active(r.item, r.place) = {}
  <2>. DEFINE n == [status |-> "queued", item |-> r.item, place |-> r.place, id |-> r.id,
                    own |-> r.id # None]
  <2>1. PICK c \in Commands : cmd[c].status = "none" /\ cmd' = [cmd EXCEPT ![c] = n]
    BY <1>1 DEF Queued
  <2>2. n \in Rows /\ n.status = "queued" /\ n.item = r.item /\ n.id = r.id
    BY <1>0 DEF Rows
  <2>3. n.own => n.id \in Ids /\ Named(n.id, n.item)
    BY <1>0
  <2>. HIDE DEF n
  <2>6. cmd' \in [Commands -> Rows]
    BY <2>1, <2>2 DEF IInv, TypeOK
  <2>7. c # exec.c
    BY <2>1 DEF IInv, PassAgrees, Commands, TypeOK
  <2>8. \A d \in Commands : cmd'[d] = IF d = c THEN n ELSE cmd[d]
    BY <2>1 DEF IInv, TypeOK
  <2>. QED
    BY <1>0, <2>1, <2>2, <2>3, <2>6, <2>7, <2>8, RowsChange
<1>2. CASE Active(r.item, r.place) # {}
  <2>1. cmd' = [c \in Commands |-> IF c \in Active(r.item, r.place) /\ cmd[c].id = None
                                   THEN [cmd[c] EXCEPT !.id = r.id] ELSE cmd[c]]
    BY <1>2 DEF Queued
  <2>4. ASSUME NEW c \in Commands
        PROVE  /\ cmd'[c] \in Rows
               /\ \/ cmd'[c] = cmd[c]
                  \/ /\ ~cmd[c].own /\ ~cmd'[c].own
                     /\ cmd'[c].status = cmd[c].status /\ cmd'[c].item = cmd[c].item
    <3>1. cmd[c] \in Rows
      BY TypesOfRows
    <3>2. CASE cmd'[c] = cmd[c]
      BY <3>1, <3>2
    <3>3. CASE cmd[c].id = None /\ cmd'[c] = [cmd[c] EXCEPT !.id = r.id]
      <4>1. ~cmd[c].own
        BY <3>3 DEF IInv, RequestsAgree
      <4>2. /\ cmd'[c] \in Rows /\ (cmd'[c].own <=> cmd[c].own)
            /\ cmd'[c].status = cmd[c].status /\ cmd'[c].item = cmd[c].item
        BY <1>0, <3>1, <3>3 DEF Rows
      <4>. QED
        BY <4>1, <4>2
    <3>. QED
      BY <2>1, <3>2, <3>3
  <2>5. cmd' \in [Commands -> Rows]
    BY <2>1, <2>4
  <2>. QED
    BY <1>0, <2>4, <2>5, RowsChange
<1>. QED
  BY <1>1, <1>2

\* Nothing but the command table, the requests and the purges change.
LEMMA QueueFrame ==
  ASSUME IInv, cmd' \in [Commands -> Rows], RequestsAgree', PassAgrees', CompletedDeleteIsOver',
         UNCHANGED <<dl, job, accepting, obs, retries, exec>>, asked' \subseteq asked,
         purging' \subseteq Purged
  PROVE  Fine
<1>1. dl' \in [Ids -> Downloads] /\ Shape(dl, dl')
  BY StaysShape DEF IInv, TypeOK
<1>2. BindingsAgree' /\ OneHolderPerItem'
  BY <1>1, RegistryStep
<1>3. TypeOK'
  BY DEF IInv, TypeOK
<1>4. ObservationsAgree' /\ AnswersAgree'
  BY DEF IInv, ObservationsAgree, AnswersAgree
<1>. QED
  BY <1>1, <1>2, <1>3, <1>4 DEF IInv, Fine

LEMMA QueueDeleteStep ==
  ASSUME IInv, NEW r \in asked, QueueDelete(r)
  PROVE  Fine
<1>1. r \in Requests /\ (r.id # None => Named(r.id, r.item))
  BY DEF IInv, TypeOK, RequestsAgree
<1>2. /\ cmd' \in [Commands -> Rows]
      /\ RequestsAgree' /\ PassAgrees' /\ CompletedDeleteIsOver'
  BY <1>1, QueuedStep DEF QueueDelete
<1>. QED
  BY <1>2, QueueFrame DEF QueueDelete, IInv, TypeOK

LEMMA PurgeStep ==
  ASSUME IInv, NEW i \in Ids, NEW h \in {"merge", "retire", "keep"}, Purge(i, h)
  PROVE  Fine
<1>0. purging' \subseteq Purged /\ UNCHANGED <<dl, job, accepting, obs, retries, exec, asked>>
  BY DEF Purge, IInv, TypeOK, Purged
<1>1. CASE cmd' = cmd
  <2>1. Grows(dl, dl')
    BY <1>0 DEF Grows
  <2>2. RequestsAgree' /\ PassAgrees' /\ CompletedDeleteIsOver'
    BY <1>0, <1>1, <2>1, RequestsStay, PassStays
  <2>. QED
    BY <1>0, <1>1, <2>2, QueueFrame DEF IInv, TypeOK
<1>2. CASE /\ dl[i].item # None /\ dl[i].sub
           /\ Queued([item |-> dl[i].item, place |-> "queue", id |-> i])
  <2>. DEFINE r == [item |-> dl[i].item, place |-> "queue", id |-> i]
  <2>1. dl[i] \in Downloads /\ dl[i].item \in Items
    BY <1>2 DEF IInv, TypeOK, Downloads
  <2>2. r \in Requests /\ r.id = i /\ r.item = dl[i].item /\ Queued(r)
    BY <1>2, <2>1, SwitchesAssumption DEF Requests
  <2>3. Named(i, dl[i].item)
    BY <1>2, <2>1, NoneAssumption DEF Named, IInv, BindingsAgree, Downloads
  <2>. HIDE DEF r
  <2>4. /\ cmd' \in [Commands -> Rows]
        /\ RequestsAgree' /\ PassAgrees' /\ CompletedDeleteIsOver'
    BY <1>0, <2>2, <2>3, QueuedStep
  <2>. QED
    BY <1>0, <2>4, QueueFrame
<1>. QED
  BY <1>1, <1>2 DEF Purge

LEMMA PruneStep ==
  ASSUME IInv, NEW c \in Commands, Prune(c)
  PROVE  Fine
<1>1. dl' \in [Ids -> Downloads] /\ Shape(dl, dl')
  BY LateShape DEF Prune
<1>2. BindingsAgree' /\ OneHolderPerItem' /\ Grows(dl, dl')
  BY <1>1, RegistryStep
<1>3. NoCommand \in Rows /\ NoCommand.status = "none" /\ ~NoCommand.own
  BY SwitchesAssumption DEF NoCommand, Rows
<1>4. /\ cmd' = [cmd EXCEPT ![c] = NoCommand] /\ cmd[c].status = "completed" /\ c # exec.c
      /\ UNCHANGED <<job, accepting, asked, purging, retries, exec>>
  BY DEF Prune
<1>5. /\ cmd' \in [Commands -> Rows]
      /\ \A d \in Commands : cmd'[d] = IF d = c THEN NoCommand ELSE cmd[d]
  BY <1>3, <1>4 DEF IInv, TypeOK
<1>6. RequestsAgree' /\ PassAgrees' /\ CompletedDeleteIsOver'
  BY <1>2, <1>3, <1>4, <1>5, RowsChange
<1>7. obs' \subseteq Observations /\ ObservationsAgree'
  <2>1. ASSUME NEW o \in obs
        PROVE  /\ [o EXCEPT !.seen = o.seen \ {c}] \in Observations
               /\ [o EXCEPT !.seen = o.seen \ {c}].st \in {"conflict", "proven"}
                     => [o EXCEPT !.seen = o.seen \ {c}].other # None
    <3>1. o \in Observations /\ (o.st \in {"conflict", "proven"} => o.other # None)
      BY DEF IInv, TypeOK, ObservationsAgree
    <3>. QED
      BY <3>1 DEF Observations
  <2>2. obs' = {[o EXCEPT !.seen = o.seen \ {c}] : o \in obs}
    BY DEF Prune
  <2>. QED
    BY <2>1, <2>2 DEF ObservationsAgree
<1>8. TypeOK' /\ AnswersAgree'
  BY <1>1, <1>4, <1>5, <1>7 DEF IInv, TypeOK, AnswersAgree
<1>. QED
  BY <1>1, <1>2, <1>6, <1>7, <1>8 DEF IInv, Fine

-----------------------------------------------------------------------------
(* The delete poller                                                        *)

Execs == [pc : Steps, todo : SUBSET Snapshots, c : 0 .. MaxCommands,
          id : Ids \cup {None}, both : BOOLEAN]

\* Rows change in nothing but their status, and none comes or goes.
RowsKept ==
    /\ cmd' \in [Commands -> Rows]
    /\ \A d \in Commands : /\ cmd'[d].id = cmd[d].id /\ cmd'[d].item = cmd[d].item
                           /\ cmd'[d].own <=> cmd[d].own
                           /\ cmd'[d].status = "none" <=> cmd[d].status = "none"

LEMMA ExecType == IInv => exec \in Execs
BY DEF IInv, TypeOK, Execs

LEMMA RequestsKept ==
  ASSUME IInv, Grows(dl, dl'), RowsKept, asked' = asked
  PROVE  RequestsAgree'
<1>1. \A c \in Commands : cmd[c].own => cmd[c].id \in Ids /\ Named(cmd[c].id, cmd[c].item)
  BY TypesOfRows DEF IInv, RequestsAgree
<1>2. \A c \in Commands : cmd'[c].own => Named(cmd[c].id, cmd[c].item)'
  BY <1>1, NamedStays DEF RowsKept
<1>3. \A r \in asked : r.id # None => r.id \in Ids /\ Named(r.id, r.item)
  BY DEF IInv, RequestsAgree, TypeOK, Requests
<1>4. \A r \in asked : r.id # None => Named(r.id, r.item)'
  BY <1>3 DEF Named, Grows
<1>. QED
  BY <1>2, <1>4 DEF RequestsAgree, RowsKept, IInv

\* What is left to show of a step of the poller.
LEMMA PollerFrame ==
  ASSUME IInv, dl' \in [Ids -> Downloads], Shape(dl, dl'), RowsKept,
         job' \in [Items -> JobsOf \cup {None}], exec' \in Execs,
         UNCHANGED <<accepting, obs, asked, purging, retries>>,
         \A c \in Commands : cmd'[c].status = "completed" /\ cmd[c].own =>
            \/ cmd[c].status = "completed" \/ cmd[c].id \in Orphans \/ dl[cmd[c].id].over
            \/ cmd[c].item \in dl[cmd[c].id].left,
         PassAgrees'
  PROVE  Fine
<1>1. BindingsAgree' /\ OneHolderPerItem' /\ Grows(dl, dl')
  BY RegistryStep
<1>2. RequestsAgree'
  BY <1>1, RequestsKept
<1>3. CompletedDeleteIsOver'
  <2>1. \A c \in Commands : cmd[c].own => cmd[c].id \in Ids
    BY TypesOfRows DEF IInv, RequestsAgree
  <2>. QED
    BY <1>1, <2>1 DEF CompletedDeleteIsOver, IInv, RowsKept, Grows
<1>4. TypeOK'
  BY DEF IInv, TypeOK, RowsKept, Execs
<1>5. ObservationsAgree' /\ AnswersAgree'
  BY DEF IInv, ObservationsAgree, AnswersAgree
<1>. QED
  BY <1>1, <1>2, <1>3, <1>4, <1>5 DEF Fine, IInv

LEMMA SameRows ==
  ASSUME IInv, UNCHANGED cmd
  PROVE  RowsKept
BY DEF IInv, TypeOK, RowsKept

LEMMA MarkedFacts ==
  ASSUME IInv, NEW c \in Commands, cmd[c].status # "none",
         NEW s \in {"queued", "running", "completed"}, Marked(c, s)
  PROVE  /\ RowsKept /\ cmd'[c].status = s
         /\ \A d \in Commands \ {c} : cmd'[d] = cmd[d]
<1>. DEFINE n == [cmd[c] EXCEPT !.status = s]
<1>1. cmd[c] \in Rows
  BY TypesOfRows
<1>2. /\ n \in Rows /\ n.status = s /\ n.id = cmd[c].id /\ n.item = cmd[c].item
      /\ n.own <=> cmd[c].own
  BY <1>1 DEF Rows
<1>3. cmd' = [cmd EXCEPT ![c] = n] /\ cmd \in [Commands -> Rows]
  BY DEF Marked, IInv, TypeOK
<1>. HIDE DEF n
<1>. QED
  BY <1>2, <1>3 DEF RowsKept

LEMMA GotoFacts ==
  ASSUME IInv, NEW p \in Steps, Goto(p)
  PROVE  /\ exec' \in Execs /\ exec'.pc = p /\ exec'.todo = exec.todo /\ exec'.c = exec.c
         /\ exec'.id = exec.id
BY ExecType DEF Goto, Execs

LEMMA NextFacts ==
  ASSUME IInv, NextCommand
  PROVE  /\ exec' \in Execs /\ exec'.pc = "loop" /\ exec'.todo = exec.todo /\ exec'.c = 0
         /\ exec'.id = None
<1>1. exec.todo \in SUBSET Snapshots
  BY ExecType DEF Execs
<1>2. exec' = [pc |-> "loop", todo |-> exec.todo, c |-> 0, id |-> None, both |-> FALSE]
  BY DEF NextCommand, IdlePoller
<1>3. 0 \in 0 .. MaxCommands /\ "loop" \in Steps
  BY CommandsAssumption DEF Steps
<1>. QED
  BY <1>1, <1>2, <1>3 DEF Execs

LEMMA IdleFacts ==
  /\ IdlePoller \in Execs /\ IdlePoller.pc = "idle" /\ IdlePoller.todo = {} /\ IdlePoller.c = 0
  /\ IdlePoller.id = None
BY CommandsAssumption DEF IdlePoller, Execs, Steps

\* The pass goes on with the command in hand ...
LEMMA PassGoesOn ==
  ASSUME IInv, RowsKept, exec.pc \in Working, exec'.pc \in Working,
         exec'.todo = exec.todo, exec'.c = exec.c,
         \A d \in Commands \ {exec.c} : cmd'[d].status = cmd[d].status,
         cmd[exec.c].own => exec'.id = exec.id,
         exec'.pc \in {"check", "fence", "end"} => exec'.id # None,
         exec'.pc \in {"complete", "end"} /\ exec'.id # None => dl'[exec'.id].over
  PROVE  PassAgrees'
<1>1. \A s \in exec.todo : /\ s.c \in Commands /\ s.c # exec.c /\ cmd'[s.c].status = "queued"
                           /\ cmd'[s.c].own => s.id = cmd'[s.c].id
  BY TypesOfRows DEF IInv, PassAgrees, RowsKept
<1>2. /\ exec.c \in Commands /\ cmd'[exec.c].status # "none"
      /\ cmd'[exec.c].own => exec'.id = cmd'[exec.c].id
  BY DEF IInv, PassAgrees, RowsKept
<1>3. exec'.pc \notin {"idle", "list", "loop"}
  BY DEF Working
<1>. QED
  BY <1>1, <1>2, <1>3 DEF IInv, PassAgrees, Working

\* ... or leaves it.
LEMMA PassLeaves ==
  ASSUME IInv, RowsKept, NextCommand,
         \A d \in Commands \ {exec.c} : cmd'[d].status = cmd[d].status
  PROVE  exec' \in Execs /\ PassAgrees'
<1>1. \A s \in exec.todo : /\ s.c \in Commands /\ s.c # exec.c /\ cmd'[s.c].status = "queued"
                           /\ cmd'[s.c].own => s.id = cmd'[s.c].id
  BY TypesOfRows DEF IInv, PassAgrees, RowsKept
<1>2. \A s \in exec.todo : s.c # 0
  BY <1>1, CommandsAssumption DEF Commands
<1>. QED
  BY <1>1, <1>2, NextFacts DEF IInv, PassAgrees, Working

\* The process stops, or a pass ends.
LEMMA PassIdle ==
  ASSUME exec' = IdlePoller
  PROVE  PassAgrees' /\ exec' \in Execs
BY IdleFacts DEF PassAgrees, Working

LEMMA RecoverStep ==
  ASSUME IInv, Recover
  PROVE  Fine
<1>1. PICK S \in SUBSET {c \in Commands : cmd[c].status = "running"} :
         cmd' = [c \in Commands |-> IF c \in S THEN [cmd[c] EXCEPT !.status = "queued"]
                                    ELSE cmd[c]]
  BY DEF Recover
<1>2. ASSUME NEW c \in Commands
      PROVE  /\ cmd'[c] \in Rows /\ cmd'[c].id = cmd[c].id /\ cmd'[c].item = cmd[c].item
             /\ cmd'[c].own <=> cmd[c].own
             /\ cmd'[c].status = "none" <=> cmd[c].status = "none"
             /\ cmd'[c].status = "completed" => cmd[c].status = "completed"
  <2>1. cmd[c] \in Rows
    BY TypesOfRows
  <2>2. CASE c \in S
    <3>1. cmd'[c] = [cmd[c] EXCEPT !.status = "queued"] /\ cmd[c].status = "running"
      BY <1>1, <2>2
    <3>. QED
      BY <2>1, <3>1 DEF Rows
  <2>3. CASE c \notin S
    BY <1>1, <2>1, <2>3
  <2>. QED
    BY <2>2, <2>3
<1>3. RowsKept
  BY <1>1, <1>2 DEF RowsKept
<1>4. exec' \in Execs /\ exec'.pc = "list" /\ exec'.todo = {} /\ exec'.c = 0
  BY GotoFacts DEF Recover, Steps, IInv, PassAgrees, Working
<1>5. PassAgrees'
  BY <1>4 DEF PassAgrees, Working
<1>. QED
  BY <1>2, <1>3, <1>4, <1>5, StaysShape, PollerFrame DEF Recover, IInv, TypeOK

LEMMA ListPendingStep ==
  ASSUME IInv, ListPending
  PROVE  Fine
<1>. DEFINE L == {[c |-> d, id |-> cmd[d].id] : d \in {e \in Commands : cmd[e].status = "queued"}}
<1>0. exec.c = 0 /\ exec \in Execs
  BY ExecType DEF ListPending, IInv, PassAgrees, Working
<1>1. \A s \in L : /\ s \in Snapshots /\ s.c \in Commands /\ cmd[s.c].status = "queued"
                   /\ s.id = cmd[s.c].id
  BY TypesOfRows DEF Snapshots
<1>2. \A s, t \in L : s.c = t.c => s = t
  OBVIOUS
<1>3. CASE exec' = [exec EXCEPT !.pc = "loop", !.todo = L]
  <2>. HIDE DEF L
  <2>1. L \in SUBSET Snapshots /\ \A s \in L : s.c # 0
    BY <1>1, CommandsAssumption DEF Commands
  <2>2. exec' \in Execs /\ exec'.pc = "loop" /\ exec'.todo = L /\ exec'.c = 0
    BY <1>0, <1>3, <2>1 DEF Execs, Steps
  <2>3. cmd' = cmd
    BY DEF ListPending
  <2>4. PassAgrees'
    BY <1>1, <1>2, <2>1, <2>2, <2>3 DEF PassAgrees, Working
  <2>. QED
    BY <2>2, <2>4, SameRows, StaysShape, PollerFrame DEF ListPending, IInv, TypeOK
<1>4. CASE exec' = IdlePoller
  BY <1>4, PassIdle, SameRows, StaysShape, PollerFrame DEF ListPending, IInv, TypeOK
<1>. QED
  BY <1>3, <1>4 DEF ListPending

LEMMA TakeCommandStep ==
  ASSUME IInv, TakeCommand
  PROVE  Fine
<1>0. exec.c = 0 /\ exec \in Execs /\ exec.pc = "loop"
  BY ExecType DEF TakeCommand, IInv, PassAgrees, Working
<1>1. CASE exec' = IdlePoller /\ UNCHANGED cmd
  BY <1>1, PassIdle, SameRows, StaysShape, PollerFrame DEF TakeCommand, IInv, TypeOK
<1>2. ASSUME NEW s \in exec.todo, Marked(s.c, "running"),
             exec' = [exec EXCEPT !.todo = exec.todo \ {s}, !.c = s.c, !.id = s.id, !.pc = "identify"]
      PROVE  Fine
  <2>1. /\ s.c \in Commands /\ s.id \in Ids \cup {None} /\ cmd[s.c].status = "queued"
        /\ cmd[s.c].own => s.id = cmd[s.c].id
        /\ \A t \in exec.todo : t.c \in Commands /\ (s.c = t.c => s = t)
    BY TypesOfRows DEF IInv, PassAgrees
  <2>2. /\ RowsKept /\ cmd'[s.c].status = "running"
        /\ \A d \in Commands \ {s.c} : cmd'[d] = cmd[d]
    BY <1>2, <2>1, MarkedFacts
  <2>3. s.c \in 0 .. MaxCommands
    BY <2>1, CommandsAssumption DEF Commands
  <2>4. /\ exec' \in Execs /\ exec'.pc = "identify" /\ exec'.todo = exec.todo \ {s}
        /\ exec'.c = s.c /\ exec'.id = s.id
    BY <1>0, <1>2, <2>1, <2>3 DEF Execs, Steps
  <2>5. \A t \in exec.todo \ {s} : /\ t.c # s.c /\ cmd'[t.c] = cmd[t.c] /\ cmd[t.c].status = "queued"
                                   /\ cmd[t.c].own => t.id = cmd[t.c].id
                                   /\ \A u \in exec.todo : t.c = u.c => t = u
    BY <2>1, <2>2 DEF IInv, PassAgrees
  <2>6. cmd'[s.c].own => s.id = cmd'[s.c].id
    BY <2>1, <2>2 DEF RowsKept
  <2>7. PassAgrees'
    BY <2>1, <2>2, <2>4, <2>5, <2>6 DEF PassAgrees, Working, Steps
  <2>. QED
    BY <2>2, <2>4, <2>7, StaysShape, PollerFrame DEF TakeCommand, IInv, TypeOK, RowsKept
<1>3. ASSUME NEW s \in exec.todo, UNCHANGED cmd, exec' = [exec EXCEPT !.todo = exec.todo \ {s}]
      PROVE  Fine
  <2>1. /\ exec' \in Execs /\ exec'.pc = "loop" /\ exec'.todo = exec.todo \ {s} /\ exec'.c = 0
    BY <1>0, <1>3 DEF Execs
  <2>2. PassAgrees'
    BY <1>0, <1>3, <2>1 DEF IInv, PassAgrees, Working
  <2>. QED
    BY <1>3, <2>1, <2>2, SameRows, StaysShape, PollerFrame DEF TakeCommand, IInv, TypeOK
<1>. QED
  BY <1>1, <1>2, <1>3 DEF TakeCommand

LEMMA WorkingSteps ==
  /\ \A p \in {"identify", "check", "fence", "client", "finalize", "ignore",
                   "settle", "local", "complete", "end"} :
        p \in Working /\ p \in Steps
BY DEF Working, Steps

LEMMA IdentifyStep ==
  ASSUME IInv, Identify
  PROVE  Fine
<1>1. PICK h \in {HolderOf(Item)} \cup (IF Faults THEN {None} ELSE {}) :
         LET id == IF exec.id # None THEN exec.id
                   ELSE IF h # None /\ exec.c \notin dl[h].late THEN h ELSE None
         IN  exec' = [exec EXCEPT !.id = id, !.pc = IF id = None THEN "client" ELSE "check"]
  BY DEF Identify
<1>2. h \in Ids \cup {None}
  BY InOrderNow, Lookup
<1>3. PICK id \in Ids \cup {None} :
         /\ exec.id # None => id = exec.id
         /\ exec' = [exec EXCEPT !.id = id, !.pc = IF id = None THEN "client" ELSE "check"]
  BY <1>1, <1>2, TypesOfRows
<1>4. /\ exec' \in Execs /\ exec'.pc = (IF id = None THEN "client" ELSE "check")
      /\ exec'.todo = exec.todo /\ exec'.c = exec.c /\ exec'.id = id
  BY <1>3, ExecType DEF Execs, Steps
<1>5. exec.pc \in Working /\ exec'.pc \in Working
  BY <1>4, WorkingSteps DEF Identify
<1>6. cmd[exec.c].own => exec.id # None
  BY <1>5 DEF IInv, PassAgrees, RequestsAgree
<1>7. cmd' = cmd
  BY DEF Identify
<1>8. PassAgrees'
  BY <1>3, <1>4, <1>5, <1>6, <1>7, SameRows, PassGoesOn
<1>. QED
  BY <1>4, <1>7, <1>8, SameRows, StaysShape, PollerFrame DEF Identify, IInv, TypeOK

LEMMA CheckReboundStep ==
  ASSUME IInv, CheckRebound
  PROVE  Fine
<1>. DEFINE h == HolderOf(Item)
<1>0. /\ exec.pc = "check" /\ exec.pc \in Working /\ exec.id \in Ids /\ exec \in Execs
      /\ exec.c \in Commands /\ cmd[exec.c].status # "none" /\ h \in Ids \cup {None}
  BY ExecType, WorkingSteps, TypesOfRows, InOrderNow, Lookup DEF CheckRebound, IInv, PassAgrees
<1>1. CASE Goto("fence") /\ UNCHANGED cmd
  <2>. HIDE DEF h
  <2>1. /\ exec' \in Execs /\ exec'.pc = "fence" /\ exec'.todo = exec.todo /\ exec'.c = exec.c
        /\ exec'.id = exec.id
    BY <1>1, GotoFacts, WorkingSteps
  <2>2. PassAgrees'
    BY <1>0, <1>1, <2>1, SameRows, PassGoesOn, WorkingSteps, NoneAssumption
  <2>. QED
    BY <1>1, <2>1, <2>2, SameRows, StaysShape, PollerFrame DEF CheckRebound, IInv, TypeOK
<1>2. CASE Superseded(h) /\ Marked(exec.c, "completed") /\ NextCommand
  <2>1. /\ RowsKept /\ cmd'[exec.c].status = "completed"
        /\ \A d \in Commands \ {exec.c} : cmd'[d] = cmd[d]
    BY <1>0, <1>2, MarkedFacts
  <2>2. exec' \in Execs /\ PassAgrees'
    BY <1>2, <2>1, PassLeaves
  <2>3. cmd[exec.c].own => \/ cmd[exec.c].id \in Orphans \/ dl[cmd[exec.c].id].over
                            \/ cmd[exec.c].item \in dl[cmd[exec.c].id].left
    <3>1. h \in Ids /\ h # exec.id
      BY <1>0, <1>2 DEF Superseded
    <3>2. cmd[exec.c].own => cmd[exec.c].id = exec.id /\ Named(exec.id, Item)
      BY <1>0 DEF IInv, PassAgrees, RequestsAgree, Item
    <3>3. ~(dl[exec.id].bind = "bound" /\ dl[exec.id].item = Item)
      BY <1>0, <3>1, InOrderNow, Lookup
    <3>. QED
      BY <3>2, <3>3 DEF Named, Item
  <2>4. \A c \in Commands : cmd'[c].status = "completed" /\ cmd[c].own =>
            \/ cmd[c].status = "completed" \/ cmd[c].id \in Orphans \/ dl[cmd[c].id].over
            \/ cmd[c].item \in dl[cmd[c].id].left
    BY <2>1, <2>3
  <2>. QED
    BY <2>1, <2>2, <2>4, StaysShape, PollerFrame DEF CheckRebound, IInv, TypeOK
<1>3. CASE NextCommand /\ UNCHANGED cmd
  <2>1. exec' \in Execs /\ PassAgrees'
    BY <1>3, SameRows, PassLeaves
  <2>. QED
    BY <1>3, <2>1, SameRows, StaysShape, PollerFrame DEF CheckRebound, IInv, TypeOK
<1>. QED
  BY <1>1, <1>2, <1>3 DEF CheckRebound

LEMMA ReadFenceStep ==
  ASSUME IInv, ReadFence
  PROVE  Fine
<1>0. exec.pc = "fence" /\ exec.pc \in Working /\ exec.id \in Ids /\ exec \in Execs
  BY ExecType, WorkingSteps, TypesOfRows DEF ReadFence, IInv, PassAgrees
<1>1. PICK b \in BOOLEAN : exec' = [exec EXCEPT !.pc = "client", !.both = b]
  <2>1. (Fenced(dl, exec.id) /\ dl[exec.id].bind \in {"bound", "unbound"}) \in BOOLEAN
    OBVIOUS
  <2>. QED
    BY <2>1, Zenon DEF ReadFence
<1>2. /\ exec' \in Execs /\ exec'.pc = "client" /\ exec'.todo = exec.todo /\ exec'.c = exec.c
      /\ exec'.id = exec.id
  BY <1>0, <1>1 DEF Execs, Steps
<1>3. cmd' = cmd
  BY DEF ReadFence
<1>4. PassAgrees'
  BY <1>0, <1>2, <1>3, SameRows, PassGoesOn, WorkingSteps
<1>. QED
  BY <1>2, <1>3, <1>4, SameRows, StaysShape, PollerFrame DEF ReadFence, IInv, TypeOK

LEMMA ClientDeleteStep ==
  ASSUME IInv, ClientDelete
  PROVE  Fine
<1>1. job' \in [Items -> JobsOf \cup {None}]
  BY DEF ClientDelete, IInv, TypeOK
<1>2. exec.pc \in Working /\ Goto("finalize") /\ cmd' = cmd
  BY WorkingSteps DEF ClientDelete
<1>3. /\ exec' \in Execs /\ exec'.pc = "finalize" /\ exec'.todo = exec.todo /\ exec'.c = exec.c
      /\ exec'.id = exec.id
  BY <1>2, GotoFacts, WorkingSteps
<1>4. PassAgrees'
  BY <1>2, <1>3, SameRows, PassGoesOn, WorkingSteps
<1>. QED
  BY <1>1, <1>2, <1>3, <1>4, SameRows, StaysShape, PollerFrame DEF ClientDelete, IInv, TypeOK

\* The poller goes on to step p with the command in hand.
LEMMA GoesOn ==
  ASSUME IInv, dl' \in [Ids -> Downloads], Shape(dl, dl'), NEW p \in {"ignore", "settle", "local"},
         exec.pc \in Working, Goto(p), UNCHANGED <<job, accepting, obs, cmd, asked, purging, retries>>
  PROVE  Fine
<1>1. /\ exec' \in Execs /\ exec'.pc = p /\ exec'.todo = exec.todo /\ exec'.c = exec.c
      /\ exec'.id = exec.id /\ p \in Working
  BY GotoFacts, WorkingSteps
<1>2. PassAgrees'
  BY <1>1, SameRows, PassGoesOn
<1>. QED
  BY <1>1, <1>2, SameRows, PollerFrame DEF IInv, TypeOK

LEMMA FinalizeReadStep ==
  ASSUME IInv, FinalizeRead
  PROVE  Fine
BY GoesOn, WorkingSteps, StaysShape DEF FinalizeRead, IInv, TypeOK

\* A tracked state is written.
LEMMA StateWritten ==
  ASSUME IInv, NEW i \in Ids, dl' = [dl EXCEPT ![i].state = "ignored"]
  PROVE  dl' \in [Ids -> Downloads] /\ Shape(dl, dl')
<1>. DEFINE n == [dl[i] EXCEPT !.state = "ignored"]
<1>1. dl \in [Ids -> Downloads] /\ dl[i] \in Downloads
  BY DEF IInv, TypeOK
<1>2. n \in Downloads /\ Alike(dl[i], n)
  BY <1>1 DEF Downloads, Alike
<1>3. dl' = [dl EXCEPT ![i] = n]
  OBVIOUS
<1>. HIDE DEF n
<1>. QED
  BY <1>1, <1>2, <1>3, ChangedQuietly

LEMMA IgnoreIdentityStep ==
  ASSUME IInv, IgnoreIdentity
  PROVE  Fine
<1>1. Target \in Ids \cup {None}
  BY InOrderNow, Lookup, TypesOfRows DEF Target
<1>2. dl' \in [Ids -> Downloads] /\ Shape(dl, dl')
  <2>1. CASE dl' = dl
    BY <2>1, StaysShape DEF IInv, TypeOK
  <2>2. CASE Target # None /\ dl' = [dl EXCEPT ![Target].state = "ignored"]
    BY <1>1, <2>2, StateWritten
  <2>. QED
    BY <2>1, <2>2 DEF IgnoreIdentity
<1>. QED
  BY <1>2, GoesOn, WorkingSteps DEF IgnoreIdentity

LEMMA IgnoreItemStep ==
  ASSUME IInv, IgnoreItem
  PROVE  Fine
<1>1. HolderOf(Item) \in Ids \cup {None} /\ Item \in Items
  <2>1. exec.c \in Commands /\ cmd[exec.c].status # "none"
    BY WorkingSteps DEF IgnoreItem, IInv, PassAgrees
  <2>2. Item \in Items
    BY <2>1 DEF Item, IInv, RequestsAgree
  <2>. QED
    BY <2>2, InOrderNow, Lookup
<1>2. dl' \in [Ids -> Downloads] /\ Shape(dl, dl')
  <2>1. CASE dl' = dl
    BY <2>1, StaysShape DEF IInv, TypeOK
  <2>2. CASE HolderOf(Item) # None /\ dl' = [dl EXCEPT ![HolderOf(Item)].state = "ignored"]
    BY <1>1, <2>2, StateWritten
  <2>3. ASSUME NEW f \in Ids, HolderOf(Item) = None, Fresh(f),
               dl' = Mint(dl, f, Item, "ignored", Known)
        PROVE  dl' \in [Ids -> Downloads] /\ Shape(dl, dl')
    BY <1>1, <2>3, InOrderNow, MintFree, KnownFact DEF Fresh
  <2>. QED
    BY <2>1, <2>2, <2>3 DEF IgnoreItem
<1>. QED
  BY <1>2, GoesOn, WorkingSteps DEF IgnoreItem

\* A submission is deleted.
LEMMA SubDropped ==
  ASSUME NEW x \in Downloads
  PROVE  [x EXCEPT !.sub = FALSE] \in Downloads /\ Alike(x, [x EXCEPT !.sub = FALSE])
BY DEF Downloads, Alike

LEMMA LocallyDeletedShape ==
  ASSUME IInv, dl' = LocallyDeleted
  PROVE  /\ dl' \in [Ids -> Downloads] /\ Shape(dl, dl')
         /\ exec.id # None => dl'[exec.id].over
<1>0. dl \in [Ids -> Downloads] /\ exec.id \in Ids \cup {None}
  BY TypesOfRows DEF IInv, TypeOK
<1>1. CASE exec.id # None
  <2>. DEFINE e == End(dl, exec.id)
  <2>1. /\ exec.id \in Ids /\ e \in [Ids -> Downloads] /\ Finished(dl, e, exec.id)
        /\ \A o \in Ids \ {exec.id} : e[o] = dl[o]
    BY <1>0, <1>1, EndFacts
  <2>2. dl' = [e EXCEPT ![exec.id] = [e[exec.id] EXCEPT !.sub = FALSE]]
    BY <1>1 DEF LocallyDeleted
  <2>. HIDE DEF e
  <2>3. e[exec.id] \in Downloads
    BY <2>1
  <2>4. dl'[exec.id] = [e[exec.id] EXCEPT !.sub = FALSE] /\ \A o \in Ids \ {exec.id} : dl'[o] = dl[o]
    BY <2>1, <2>2
  <2>5. dl' \in [Ids -> Downloads]
    BY <2>1, <2>2, <2>3, SubDropped
  <2>6. FinishShape(dl, dl', {exec.id}) /\ dl'[exec.id].over
    <3>1. Alike(e[exec.id], dl'[exec.id])
      BY <2>3, <2>4, SubDropped
    <3>. QED
      BY <2>1, <2>4, <3>1 DEF FinishShape, Finished, Same, Alike
  <2>. QED
    BY <2>1, <2>5, <2>6 DEF Shape
<1>2. CASE exec.id = None
  <2>. DEFINE h == HolderOf(Item)
              d == IF h = None THEN dl ELSE End(dl, h)
  <2>1. h \in Ids \cup {None}
    BY InOrderNow, Lookup
  <2>2. /\ d \in [Ids -> Downloads]
        /\ IF h = None THEN d = dl
           ELSE h \in Ids /\ Finished(dl, d, h) /\ \A o \in Ids \ {h} : d[o] = dl[o]
    BY <1>0, <2>1, EndFacts
  <2>3. dl' = [i \in Ids |-> IF dl[i].item = Item THEN [d[i] EXCEPT !.sub = FALSE] ELSE d[i]]
    BY <1>2 DEF LocallyDeleted
  <2>. HIDE DEF d, h
  <2>4. ASSUME NEW i \in Ids
        PROVE  dl'[i] \in Downloads /\ Same(d, dl', i)
    <3>1. d[i] \in Downloads
      BY <2>2
    <3>2. CASE dl'[i] = d[i]
      BY <3>1, <3>2 DEF Same, Alike
    <3>3. CASE dl'[i] = [d[i] EXCEPT !.sub = FALSE]
      BY <3>1, <3>3, SubDropped DEF Same
    <3>. QED
      BY <2>3, <3>2, <3>3
  <2>5. dl' \in [Ids -> Downloads]
    BY <2>3, <2>4
  <2>6. CASE h = None
    BY <1>2, <2>2, <2>4, <2>5, <2>6 DEF Shape, Quiet
  <2>7. CASE h # None
    <3>1. FinishShape(dl, dl', {h})
      BY <2>2, <2>4, <2>7 DEF FinishShape, Finished, Same, Alike
    <3>. QED
      BY <1>2, <2>2, <2>5, <2>7, <3>1 DEF Shape
  <2>. QED
    BY <2>6, <2>7
<1>. QED
  BY <1>1, <1>2

LEMMA LocalDeleteStep ==
  ASSUME IInv, LocalDelete
  PROVE  Fine
<1>0. exec.pc \in Working /\ cmd' = cmd
  BY WorkingSteps DEF LocalDelete
<1>1. CASE dl' = LocallyDeleted /\ Goto("complete")
  <2>1. /\ dl' \in [Ids -> Downloads] /\ Shape(dl, dl')
        /\ exec.id # None => dl'[exec.id].over
    BY <1>1, LocallyDeletedShape
  <2>2. /\ exec' \in Execs /\ exec'.pc = "complete" /\ exec'.todo = exec.todo /\ exec'.c = exec.c
        /\ exec'.id = exec.id
    BY <1>1, GotoFacts, WorkingSteps
  <2>3. PassAgrees'
    BY <1>0, <2>1, <2>2, SameRows, PassGoesOn, WorkingSteps
  <2>. QED
    BY <1>0, <2>1, <2>2, <2>3, SameRows, PollerFrame DEF LocalDelete, IInv, TypeOK
<1>2. CASE UNCHANGED dl /\ NextCommand
  <2>1. exec' \in Execs /\ PassAgrees'
    BY <1>0, <1>2, SameRows, PassLeaves
  <2>. QED
    BY <1>0, <1>2, <2>1, SameRows, StaysShape, PollerFrame DEF LocalDelete, IInv, TypeOK
<1>. QED
  BY <1>1, <1>2 DEF LocalDelete

LEMMA CompleteStep ==
  ASSUME IInv, Complete
  PROVE  Fine
<1>0. /\ exec.pc = "complete" /\ exec.pc \in Working /\ exec.c \in Commands
      /\ cmd[exec.c].status # "none" /\ exec.id \in Ids \cup {None} /\ dl' = dl
      /\ cmd[exec.c].own => exec.id = cmd[exec.c].id
      /\ exec.id # None => dl[exec.id].over
  BY WorkingSteps, TypesOfRows DEF Complete, IInv, PassAgrees
<1>1. /\ RowsKept /\ \A d \in Commands \ {exec.c} : cmd'[d] = cmd[d]
  BY <1>0, MarkedFacts, SameRows DEF Complete
<1>2. cmd[exec.c].own => dl[cmd[exec.c].id].over
  BY <1>0 DEF IInv, RequestsAgree
<1>3. \A c \in Commands : cmd'[c].status = "completed" /\ cmd[c].own =>
         \/ cmd[c].status = "completed" \/ cmd[c].id \in Orphans \/ dl[cmd[c].id].over
  BY <1>1, <1>2
<1>4. exec' \in Execs /\ PassAgrees'
  <2>1. CASE exec.id = None
    BY <1>1, <2>1, PassLeaves DEF Complete
  <2>2. CASE exec.id # None
    <3>1. /\ exec' \in Execs /\ exec'.pc = "end" /\ exec'.todo = exec.todo /\ exec'.c = exec.c
          /\ exec'.id = exec.id
      BY <2>2, GotoFacts, WorkingSteps DEF Complete
    <3>. QED
      BY <1>0, <1>1, <2>2, <3>1, PassGoesOn, WorkingSteps
  <2>. QED
    BY <2>1, <2>2
<1>. QED
  BY <1>1, <1>3, <1>4, StaysShape, PollerFrame DEF Complete, IInv, TypeOK

LEMMA EndExecutedStep ==
  ASSUME IInv, EndExecuted
  PROVE  Fine
<1>0. exec.id \in Ids /\ NextCommand /\ cmd' = cmd
  BY TypesOfRows DEF EndExecuted, IInv, PassAgrees
<1>1. dl' \in [Ids -> Downloads] /\ Shape(dl, dl')
  BY <1>0, InOrderNow, EndShape, StaysShape DEF EndExecuted, IInv, TypeOK
<1>2. exec' \in Execs /\ PassAgrees'
  BY <1>0, SameRows, PassLeaves
<1>. QED
  BY <1>0, <1>1, <1>2, SameRows, PollerFrame DEF EndExecuted, IInv, TypeOK

LEMMA RestartStep ==
  ASSUME IInv, Restart
  PROVE  Fine
<1>1. dl' \in [Ids -> Downloads] /\ Shape(dl, dl')
  BY StaysShape DEF Restart, IInv, TypeOK
<1>2. BindingsAgree' /\ OneHolderPerItem' /\ Grows(dl, dl')
  BY <1>1, RegistryStep
<1>3. RequestsAgree' /\ CompletedDeleteIsOver'
  BY <1>2, RequestsStay DEF Restart
<1>4. PassAgrees' /\ exec' \in Execs
  BY PassIdle DEF Restart
<1>5. TypeOK'
  BY <1>1, <1>4 DEF Restart, IInv, TypeOK, Execs
<1>6. ObservationsAgree' /\ AnswersAgree'
  BY DEF Restart, ObservationsAgree, AnswersAgree
<1>. QED
  BY <1>1, <1>2, <1>3, <1>4, <1>5, <1>6 DEF Fine, IInv

-----------------------------------------------------------------------------
(* Every step                                                               *)

LEMMA PollerSteps ==
  ASSUME IInv, Poller
  PROVE  Fine
BY RecoverStep, ListPendingStep, TakeCommandStep, IdentifyStep, CheckReboundStep, ReadFenceStep,
   ClientDeleteStep, FinalizeReadStep, IgnoreIdentityStep, IgnoreItemStep, LocalDeleteStep,
   CompleteStep, EndExecutedStep
   DEF Poller

LEMMA ObserverSteps ==
  ASSUME IInv, Observer
  PROVE  Fine
BY ListStep, ResolveStep, ProveStaleStep, HealStep DEF Observer

LEMMA OtherSteps ==
  ASSUME IInv, Others
  PROVE  Fine
BY ClientStep, SubmitStep, AskStep, RecordAcceptedStep, RetireAbsentStep, SettleStep,
   ClaimRetryStep, RetryJobStep, FinishRetryStep, ObserveRetryStep, PurgeStep, RetirePurgedStep,
   DropPurgedStep, DeleteClientStep, QueueDeleteStep, PruneStep, RestartStep
   DEF Others

LEMMA StutterStep ==
  ASSUME IInv, UNCHANGED vars
  PROVE  Fine
<1>1. dl' \in [Ids -> Downloads] /\ Shape(dl, dl')
  BY StaysShape DEF vars, IInv, TypeOK
<1>. QED
  BY <1>1, RegistryOnly DEF Fine, vars, IInv, TypeOK, ObservationsAgree, AnswersAgree

LEMMA NextFine ==
  ASSUME IInv, [Next]_vars
  PROVE  Fine
BY PollerSteps, ObserverSteps, OtherSteps, StutterStep DEF Next

LEMMA InitFacts ==
  ASSUME Init
  PROVE  /\ dl \in [Ids -> Downloads]
         /\ \A i \in Ids : /\ ~dl[i].over /\ dl[i].bind \in {"none", "ended"}
                           /\ dl[i].bind = "ended" => i \in Orphans
                           /\ dl[i].item = None /\ dl[i].left = {}
<1>. DEFINE n == [NoDownload EXCEPT !.bind = "ended", !.sub = TRUE]
<1>1. n \in Downloads /\ n.bind = "ended" /\ ~n.over /\ n.item = None /\ n.left = {}
  BY DEF NoDownload, Downloads
<1>2. dl = [i \in Ids |-> IF i \in Orphans THEN n ELSE NoDownload]
  BY DEF Init
<1>. HIDE DEF n
<1>. QED
  BY <1>1, <1>2, NoDownloadFacts

LEMMA InitIInv == Init => IInv
<1>. SUFFICES ASSUME Init PROVE IInv
  OBVIOUS
<1>1. NoCommand \in Rows /\ NoCommand.status = "none" /\ ~NoCommand.own
  BY SwitchesAssumption DEF NoCommand, Rows
<1>2. cmd = [c \in Commands |-> NoCommand] /\ exec = IdlePoller
  BY DEF Init
<1>3. TypeOK
  BY <1>1, <1>2, InitFacts, IdleFacts DEF Init, TypeOK, Execs
<1>4. BindingsAgree /\ OneHolderPerItem
  BY InitFacts DEF BindingsAgree, OneHolderPerItem
<1>5. RequestsAgree /\ CompletedDeleteIsOver /\ ObservationsAgree /\ AnswersAgree
  BY <1>1, <1>2 DEF Init, RequestsAgree, CompletedDeleteIsOver, ObservationsAgree, AnswersAgree
<1>6. PassAgrees
  BY <1>2, IdleFacts DEF PassAgrees, Working
<1>. QED
  BY <1>3, <1>4, <1>5, <1>6 DEF IInv

LEMMA InitRefines == Init => Identity!Init
<1>. SUFFICES ASSUME Init PROVE Identity!Init
  OBVIOUS
<1>1. \A i \in Ids : LifeIn(dl, i) \in {"unknown", "live"}
  BY InitFacts DEF LifeIn
<1>2. Life \in [Ids -> {"unknown", "live"}]
  BY <1>1, LifeFacts
<1>3. \A k \in Items : Bound(k) = {}
  BY InitFacts DEF Bound
<1>4. Holder = [k \in Items |-> None]
  BY <1>3 DEF Holder, HolderOf
<1>. QED
  BY <1>2, <1>4 DEF Identity!Init

-----------------------------------------------------------------------------
(* Theorems                                                                 *)

\* The registry, the command table and the pass of the delete poller stay in
\* order for any number of downloads, items and commands, whatever fails and
\* whenever the process stops.
THEOREM InvariantHolds == Spec => []IInv
<1>1. IInv /\ [Next]_vars => IInv'
  BY NextFine DEF Fine
<1>. QED
  BY <1>1, InitIInv, PTL DEF Spec

\* No two downloads are actively bound to one item of the client: no order of
\* acceptances, observations, healed bindings and executed deletes relies on
\* the unique index of download_client_bindings.
THEOREM OneHolderTheorem == Spec => []OneHolderPerItem
<1>1. IInv => OneHolderPerItem
  BY DEF IInv
<1>. QED
  BY <1>1, InvariantHolds, PTL

\* A delete command that was queued for a download is marked completed only
\* when the registry has that download down as over, or a password retry has
\* moved it away from the command's item: then delete_locator_was_rebound may
\* find another download there.
THEOREM CompletedTheorem == Spec => []CompletedDeleteIsOver
<1>1. IInv => CompletedDeleteIsOver
  BY DEF IInv
<1>. QED
  BY <1>1, InvariantHolds, PTL

\* A download that is over stays over and is never bound again: neither
\* resolve_observation_tx, nor the acceptance of a grab, nor the answer of a
\* password retry, nor the finalization of another delete brings it back,
\* although finish_remote_password_retry clears terminal_at.
THEOREM DeletedTheorem == Spec => DeletedStaysDeleted
<1>1. ASSUME IInv, [Next]_vars
      PROVE  \A i \in Ids : dl[i].over => dl'[i].over /\ dl'[i].bind \notin {"bound", "unbound"}
  <2>1. IInv' /\ dl' \in [Ids -> Downloads] /\ Shape(dl, dl')
    BY <1>1, NextFine DEF Fine
  <2>2. Grows(dl, dl')
    BY <1>1, <2>1, RegistryStep
  <2>. QED
    BY <2>1, <2>2 DEF Grows, IInv, BindingsAgree
<1>. QED
  BY <1>1, InvariantHolds, PTL DEF Spec, DeletedStaysDeleted

\* The registry with all its callers implements DownloadIdentity: every step of
\* the observer, the submission path, the tracker, a purge and the delete
\* poller maps to a step of the abstract registry or to none.
THEOREM IdentityTheorem == Spec => ImplementsIdentity
<1>1. ASSUME IInv, [Next]_vars
      PROVE  [Identity!Next]_(Identity!vars)
  <2>1. IInv' /\ Shape(dl, dl')
    BY <1>1, NextFine DEF Fine
  <2>2. InOrder(dl) /\ InOrder(dl')
    BY <1>1, <2>1, InOrderNow DEF IInv, TypeOK, BindingsAgree, OneHolderPerItem, InOrder
  <2>. QED
    BY <2>1, <2>2, ShapeRefines
<1>. QED
  BY <1>1, InitRefines, InvariantHolds, PTL DEF Spec, ImplementsIdentity, Identity!Spec

=============================================================================
