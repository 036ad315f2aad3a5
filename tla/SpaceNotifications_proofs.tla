---------------------- MODULE SpaceNotifications_proofs ----------------------
(***************************************************************************)
(* Proofs about the delivery of disk-space events: the inductive invariant  *)
(* IInv, that a target is sent an event again only after a lost receipt, and*)
(* that targets hear of events in order.  The heart is that the pass in hand*)
(* works on the event right after the offset (PassAgrees), and that what is *)
(* given up stays given up.                                                 *)
(***************************************************************************)
EXTENDS SpaceNotifications, TLAPS

Entry == [inc : Nat, recovered : BOOLEAN]

LEMMA IdleFacts ==
  /\ Idle \in Passes
  /\ Idle.pc = "idle" /\ Idle.sent = None /\ ~Idle.failed
BY DEF Idle, Passes

LEMMA PassFields ==
  ASSUME NEW p \in Passes
  PROVE  /\ p.pc \in {"idle", "send", "record", "advance"} /\ p.at \in Nat /\ p.last \in Nat
         /\ p.todo \subseteq Targets /\ p.sent \in Targets \cup {None} /\ p.failed \in BOOLEAN
BY DEF Passes

LEMMA TakeUpFacts ==
  ASSUME NEW n \in Nat, NEW l \in Nat
  PROVE  /\ TakeUp(n, l) \in Passes
         /\ TakeUp(n, l).pc = "send" /\ TakeUp(n, l).at = n /\ TakeUp(n, l).last = l
         /\ TakeUp(n, l).todo = Targets /\ TakeUp(n, l).sent = None /\ ~TakeUp(n, l).failed
BY IdleFacts DEF TakeUp, Passes

\* What PassAgrees says of a pass p, in terms of the state around it.
Agrees(p) ==
    p.pc # "idle" =>
       /\ p.at = offset + 1 /\ p.at <= p.last /\ p.last <= Len(events)
       /\ p.sent # None => p.pc = "send" /\ p.sent \notin p.todo /\ got[<<p.at, p.sent>>] > 0
                           /\ <<p.at, p.sent>> \notin receipts
       /\ p.failed \/ \A t \in Targets : t \in p.todo \cup {p.sent} \/ <<p.at, t>> \in receipts
       /\ p.pc = "record" => p.failed
       /\ p.pc \in {"record", "advance"} => p.todo = {} /\ p.sent = None
       /\ p.pc = "advance" /\ p.failed => GivenUp(p.at)

LEMMA PassAgreesIsAgrees == PassAgrees <=> Agrees(pass)
BY DEF PassAgrees, Agrees, HasReceipt

\* The event in hand is one of the log.
LEMMA InHand ==
  ASSUME IInv, pass.pc # "idle"
  PROVE  pass.at \in Events /\ pass.at = offset + 1 /\ pass.at <= Len(events) /\ Len(events) \in Nat
<1>1. /\ pass.at \in Nat /\ pass.last \in Nat /\ offset \in Nat /\ Len(events) \in Nat
      /\ Len(events) <= MaxEvents
  BY PassFields DEF IInv, TypeOK
<1>2. pass.at = offset + 1 /\ pass.at <= pass.last /\ pass.last <= Len(events)
  BY PassAgreesIsAgrees DEF IInv, Agrees
<1>. QED
  BY <1>1, <1>2, BoundsAssumption DEF Events

\* A sending without a receipt is counted, for the target that was sent it.
LEMMA UnconfirmedFacts ==
  ASSUME IInv
  PROVE  /\ Unconfirmed \in [Events \X Targets -> Nat]
         /\ \A p \in Events \X Targets :
               Unconfirmed[p] = lost[p] + IF InFlight(p) THEN 1 ELSE 0
<1>0. lost \in [Events \X Targets -> Nat] /\ \A p \in Events \X Targets : lost[p] \in Nat
  BY DEF IInv, TypeOK
<1>1. CASE pass.sent = None
  BY <1>0, <1>1 DEF Unconfirmed, InFlight
<1>2. CASE pass.sent # None
  <2>. DEFINE q == <<pass.at, pass.sent>>
  <2>1. pass.pc # "idle" /\ pass.sent \in Targets
    BY <1>2, PassFields DEF IInv, TypeOK, PassSendsOnly
  <2>2. q \in Events \X Targets /\ Unconfirmed = [lost EXCEPT ![q] = lost[q] + 1]
    BY <1>2, <2>1, InHand DEF Unconfirmed
  <2>3. \A p : InFlight(p) <=> p = q
    BY <1>2 DEF InFlight
  <2>. HIDE DEF q
  <2>. QED
    BY <1>0, <2>2, <2>3
<1>. QED
  BY <1>1, <1>2

\* What is given up stays given up.
LEMMA GivenUpStays ==
  ASSUME IInv, \A n \in Events : attempts'[n] \in Nat /\ attempts'[n] >= attempts[n],
         aged' \in Nat, aged' >= aged
  PROVE  \A n \in Events : GivenUp(n) => GivenUp(n)'
<1>1. \A n \in Events : n \in Nat /\ attempts[n] \in Nat
  BY DEF IInv, TypeOK, Events
<1>2. aged \in Nat /\ MaxAttempts \in Nat
  BY BoundsAssumption DEF IInv, TypeOK
<1>. QED
  BY <1>1, <1>2 DEF GivenUp

\* A step that keeps the offset, the log and the counts, and forgets no receipt.
LEMMA Working ==
  ASSUME IInv, UNCHANGED <<events, open, offset, attempts, aged>>, stops' \in Nat,
         receipts' \subseteq Events \X Targets, receipts \subseteq receipts',
         got' \in [Events \X Targets -> Nat], lost' \in [Events \X Targets -> Nat], \A p \in Events \X Targets : got'[p] >= got[p],
         \A p \in receipts' : got'[p] > 0,
         pass' \in Passes, PassAgrees', PassSendsOnly'
  PROVE  IInv'
<1>1. TypeOK'
  BY DEF IInv, TypeOK
<1>2. NothingIsLost'
  BY DEF IInv, NothingIsLost, GivenUp
<1>3. ReceiptsAreTrue'
  BY DEF ReceiptsAreTrue
<1>. QED
  BY <1>1, <1>2, <1>3 DEF IInv

\* What a step that sends nothing and writes no receipt may lean on.
LEMMA Standing ==
  ASSUME IInv
  PROVE  /\ stops \in Nat /\ receipts \subseteq Events \X Targets
         /\ got \in [Events \X Targets -> Nat] /\ lost \in [Events \X Targets -> Nat]
         /\ \A q \in Events \X Targets : got[q] >= got[q]
         /\ \A q \in receipts : got[q] > 0
BY DEF IInv, TypeOK, ReceiptsAreTrue

-----------------------------------------------------------------------------
(* Steps                                                                    *)

LEMMA PublishStep ==
  ASSUME IInv, Publish PROVE IInv'
<1>0. TypeOK /\ Len(events) \in Nat /\ Len(events) < MaxEvents /\ events \in Seq(Entry)
  BY DEF IInv, TypeOK, Publish, Entry
<1>1. /\ events' \in Seq(Entry) /\ open' \in [Dests -> Nat]
      /\ Len(events') \in {Len(events), Len(events) + 1}
  <2>1. ASSUME NEW D \in SUBSET Dests PROVE Log!Silenced(D) \in [Dests -> Nat]
    BY <1>0 DEF Log!Silenced, TypeOK
  <2>2. ASSUME NEW D \in SUBSET Dests, Log!Retire(D)
        PROVE  events' = events /\ open' \in [Dests -> Nat]
    BY <2>1, <2>2 DEF Log!Retire
  <2>3. ASSUME NEW D \in SUBSET Dests, NEW d \in Dests, Log!Block(D, d)
        PROVE  /\ events' = Append(events, Log!Event(Len(events) + 1, FALSE))
               /\ open' \in [Dests -> Nat] /\ Log!Event(Len(events) + 1, FALSE) \in Entry
    BY <1>0, <2>1, <2>3 DEF Log!Block, Log!Event, Entry
  <2>4. ASSUME NEW d \in Dests, Log!Restore(d)
        PROVE  /\ events' = Append(events, Log!Event(open[d], TRUE))
               /\ open' \in [Dests -> Nat] /\ Log!Event(open[d], TRUE) \in Entry
    BY <1>0, <2>1, <2>4 DEF Log!Restore, Log!Event, Entry, TypeOK
  <2>5. ASSUME NEW e \in Entry, events' = Append(events, e)
        PROVE  events' \in Seq(Entry) /\ Len(events') = Len(events) + 1
    BY <1>0, <2>5
  <2>. QED
    BY <1>0, <2>2, <2>3, <2>4, <2>5 DEF Publish, Log!Next
<1>2. UNCHANGED <<offset, receipts, attempts, aged, got, lost, pass, stops>>
  BY DEF Publish
<1>3. TypeOK'
  BY <1>0, <1>1, <1>2 DEF TypeOK, Entry
<1>4. /\ Len(events') <= MaxEvents /\ offset' <= Len(events') /\ aged' <= Len(events')
      /\ Len(events') >= Len(events)
  BY <1>0, <1>1, <1>2, BoundsAssumption DEF IInv, TypeOK
<1>5. PassAgrees'
  <2>1. Agrees(pass) /\ pass.last \in Nat
    BY PassAgreesIsAgrees, PassFields DEF IInv, TypeOK
  <2>2. pass.pc # "idle" => pass.last <= Len(events')
    BY <1>0, <1>1, <1>4, <2>1 DEF Agrees
  <2>. QED
    BY <1>2, <2>1, <2>2 DEF PassAgrees, Agrees, HasReceipt, GivenUp
<1>6. NothingIsLost' /\ ReceiptsAreTrue' /\ PassSendsOnly'
  BY <1>2 DEF IInv, NothingIsLost, ReceiptsAreTrue, PassSendsOnly, GivenUp
<1>. QED
  BY <1>3, <1>4, <1>5, <1>6 DEF IInv

LEMMA AgeStep ==
  ASSUME IInv, Age PROVE IInv'
<1>0. TypeOK /\ Len(events) \in Nat /\ aged \in Nat /\ aged' = aged + 1 /\ aged < Len(events)
  BY DEF IInv, TypeOK, Age
<1>1. UNCHANGED <<events, open, offset, receipts, attempts, got, lost, pass, stops>>
  BY DEF Age
<1>2. TypeOK' /\ aged' <= Len(events')
  BY <1>0, <1>1 DEF TypeOK
<1>3. \A n \in Events : GivenUp(n) => GivenUp(n)'
  BY <1>0, <1>1, GivenUpStays DEF TypeOK
<1>4. NothingIsLost' /\ ReceiptsAreTrue' /\ PassSendsOnly'
  BY <1>1, <1>3 DEF IInv, NothingIsLost, ReceiptsAreTrue, PassSendsOnly
<1>5. PassAgrees'
  <2>1. Agrees(pass)
    BY PassAgreesIsAgrees DEF IInv
  <2>2. ASSUME pass.pc = "advance", pass.failed PROVE GivenUp(pass.at)'
    <3>1. pass.at \in Events /\ GivenUp(pass.at)
      BY <2>1, <2>2, InHand DEF Agrees
    <3>. QED
      BY <1>1, <1>3, <3>1 DEF GivenUp
  <2>. QED
    BY <1>1, <2>1, <2>2 DEF PassAgrees, Agrees, HasReceipt, GivenUp
<1>. QED
  BY <1>1, <1>2, <1>4, <1>5 DEF IInv

LEMMA BeginStep ==
  ASSUME IInv, Begin PROVE IInv'
<1>. DEFINE l == Min(Len(events), offset + BatchLimit)
            p == TakeUp(offset + 1, l)
<1>0. offset \in Nat /\ Len(events) \in Nat /\ offset < Len(events)
  BY DEF IInv, TypeOK, Begin
<1>a. BatchLimit \in Nat /\ BatchLimit >= 1
  BY BoundsAssumption
<1>1. l \in Nat /\ offset + 1 <= l /\ l <= Len(events)
  BY <1>0, <1>a DEF Min
<1>. HIDE DEF l
<1>b. offset + 1 \in Nat
  BY <1>0
<1>2. /\ p \in Passes /\ p.pc = "send" /\ p.at = offset + 1 /\ p.last = l /\ p.todo = Targets
      /\ p.sent = None /\ ~p.failed
  <2>. HIDE DEF Passes, TakeUp
  <2>1. offset + 1 \in Nat /\ l \in Nat
    BY <1>b, <1>1
  <2>. QED
    BY <2>1, TakeUpFacts
<1>3. pass' = p /\ UNCHANGED <<events, open, offset, receipts, attempts, aged, got, lost, stops>>
  BY DEF Begin, l
<1>. HIDE DEF p
<1>4. PassAgrees' /\ PassSendsOnly'
  <2>1. /\ pass'.pc = "send" /\ pass'.at = offset + 1 /\ pass'.last = l /\ pass'.todo = Targets
        /\ pass'.sent = None
    BY <1>2, <1>3
  <2>2. offset' = offset /\ events' = events
    BY <1>3
  <2>. QED
    BY <1>1, <2>1, <2>2 DEF PassAgrees, PassSendsOnly
<1>5. pass' \in Passes
  BY <1>2, <1>3
<1>. QED
  BY <1>3, <1>4, <1>5, Standing, Working

\* The pass in hand goes on with the same event.
LEMMA SendStep ==
  ASSUME IInv, NEW t \in Targets, Skip(t) \/ Send(t) \/ Refuse(t)
  PROVE  IInv'
<1>0. /\ pass.pc = "send" /\ pass.sent = None /\ t \in pass.todo /\ pass \in Passes
      /\ t # None /\ pass.at \in Events /\ pass.failed \in BOOLEAN
      /\ got \in [Events \X Targets -> Nat] /\ receipts \subseteq Events \X Targets
  BY InHand, TargetsAssumption, PassFields DEF IInv, TypeOK, Skip, Send, Refuse
<1>1. /\ pass.at = offset + 1 /\ pass.at <= pass.last /\ pass.last <= Len(events)
      /\ pass.failed \/ \A o \in Targets : o \in pass.todo \/ <<pass.at, o>> \in receipts
  <2>1. Agrees(pass)
    BY PassAgreesIsAgrees DEF IInv
  <2>. QED
    BY <1>0, <2>1, TargetsAssumption DEF Agrees
<1>2. UNCHANGED <<events, open, offset, receipts, attempts, aged, lost, stops>>
  BY DEF Skip, Send, Refuse
<1>3. /\ pass' \in Passes /\ pass'.pc = "send" /\ pass'.at = pass.at /\ pass'.last = pass.last
      /\ pass'.todo = pass.todo \ {t}
      /\ pass'.sent = IF Send(t) THEN t ELSE None
  <2>1. CASE Send(t)
    <3>1. pass' = [pass EXCEPT !.todo = pass.todo \ {t}, !.sent = t]
      BY <2>1 DEF Send
    <3>. QED
      BY <1>0, <2>1, <3>1 DEF Passes
  <2>2. CASE ~Send(t)
    <3>1. \/ pass' = [pass EXCEPT !.todo = pass.todo \ {t}]
          \/ pass' = [pass EXCEPT !.todo = pass.todo \ {t}, !.failed = TRUE]
      BY <2>2 DEF Skip, Refuse
    <3>. QED
      BY <1>0, <2>2, <3>1 DEF Passes
  <2>. QED
    BY <2>1, <2>2
<1>4. /\ got' \in [Events \X Targets -> Nat]
      /\ \A p \in Events \X Targets : got'[p] >= got[p]
      /\ Send(t) => got'[<<pass.at, t>>] > 0
  <2>1. CASE Send(t)
    <3>. DEFINE q == <<pass.at, t>>
    <3>1. q \in Events \X Targets /\ got' = [got EXCEPT ![q] = got[q] + 1]
      BY <1>0, <2>1 DEF Send
    <3>. HIDE DEF q
    <3>2. /\ got' \in [Events \X Targets -> Nat]
          /\ \A p \in Events \X Targets : got'[p] >= got[p]
          /\ got'[q] > 0
      BY <1>0, <3>1
    <3>. QED
      BY <3>2 DEF q
  <2>2. CASE ~Send(t)
    BY <1>0, <2>2 DEF Skip, Refuse
  <2>. QED
    BY <2>1, <2>2
<1>5. pass'.failed \/ \A o \in Targets : o \in pass'.todo \cup {pass'.sent} \/ <<pass.at, o>> \in receipts
  <2>1. CASE Refuse(t)
    BY <1>0, <2>1 DEF Refuse, Passes
  <2>2. CASE Skip(t)
    <3>1. pass'.failed = pass.failed /\ <<pass.at, t>> \in receipts
      BY <1>0, <2>2 DEF Skip, Passes, HasReceipt
    <3>. QED
      BY <1>1, <1>3, <3>1
  <2>3. CASE Send(t)
    <3>1. pass'.failed = pass.failed
      BY <1>0, <2>3 DEF Send, Passes
    <3>. QED
      BY <1>1, <1>3, <2>3, <3>1
  <2>. QED
    BY <2>1, <2>2, <2>3
<1>8. Send(t) => <<pass.at, t>> \notin receipts
  BY DEF Send, HasReceipt
<1>6. PassAgrees' /\ PassSendsOnly'
  BY <1>0, <1>1, <1>2, <1>3, <1>4, <1>5, <1>8 DEF PassAgrees, PassSendsOnly, HasReceipt
<1>7. \A p \in receipts' : got'[p] > 0
  <2>1. \A p \in receipts : got[p] > 0 /\ got[p] \in Nat /\ got'[p] \in Nat /\ got'[p] >= got[p]
    BY <1>0, <1>4 DEF IInv, ReceiptsAreTrue
  <2>. QED
    BY <1>2, <2>1
<1>. QED
  BY <1>0, <1>2, <1>3, <1>4, <1>6, <1>7, Working DEF IInv, TypeOK

LEMMA ReceiptStep ==
  ASSUME IInv, Receipt PROVE IInv'
<1>0. /\ pass \in Passes /\ pass.sent # None /\ pass.failed \in BOOLEAN
      /\ pass.sent \in Targets
  BY PassFields DEF IInv, TypeOK, Receipt
<1>1. /\ pass.pc = "send" /\ pass.at \in Events
      /\ pass.at = offset + 1 /\ pass.at <= pass.last /\ pass.last <= Len(events)
      /\ got[<<pass.at, pass.sent>>] > 0
      /\ pass.failed \/ \A o \in Targets : o \in pass.todo \cup {pass.sent} \/ <<pass.at, o>> \in receipts
  <2>1. pass.pc # "idle"
    BY <1>0 DEF IInv, PassSendsOnly
  <2>. QED
    BY <1>0, <2>1, InHand, PassAgreesIsAgrees DEF IInv, Agrees
<1>2. /\ receipts' = receipts \cup {<<pass.at, pass.sent>>}
      /\ UNCHANGED <<events, open, offset, attempts, aged, got, lost, stops>>
  BY DEF Receipt
<1>3. /\ pass' \in Passes /\ pass'.pc = "send" /\ pass'.at = pass.at /\ pass'.last = pass.last
      /\ pass'.todo = pass.todo /\ pass'.sent = None /\ (pass'.failed <=> pass.failed)
  BY <1>0, <1>1 DEF Receipt, Passes
<1>4. PassAgrees' /\ PassSendsOnly'
  BY <1>1, <1>2, <1>3 DEF PassAgrees, PassSendsOnly, HasReceipt
<1>5. receipts' \subseteq Events \X Targets /\ \A p \in receipts' : got'[p] > 0
  BY <1>0, <1>1, <1>2 DEF IInv, TypeOK, ReceiptsAreTrue
<1>6. got' \in [Events \X Targets -> Nat] /\ \A p \in Events \X Targets : got'[p] >= got[p]
  BY <1>2 DEF IInv, TypeOK
<1>. QED
  BY <1>2, <1>3, <1>4, <1>5, <1>6, Working DEF IInv, TypeOK

\* The attempt fails there and then, or the process stops.
LEMMA CutStep ==
  ASSUME IInv, ReceiptFails \/ Abort \/ Stop PROVE IInv'
<1>0. pass \in Passes /\ stops \in Nat /\ pass.failed \in BOOLEAN
  BY PassFields DEF IInv, TypeOK
<1>1. UNCHANGED <<events, open, offset, receipts, attempts, aged, got>> /\ stops' \in Nat
  BY <1>0 DEF ReceiptFails, Abort, Stop
<1>3. lost' \in [Events \X Targets -> Nat]
  BY UnconfirmedFacts DEF ReceiptFails, Abort, Stop, IInv, TypeOK
<1>2. pass' \in Passes /\ PassAgrees' /\ PassSendsOnly'
  <2>1. CASE Stop
    BY <1>0, <2>1, IdleFacts DEF Stop, PassAgrees, PassSendsOnly
  <2>2. CASE ReceiptFails \/ Abort
    <3>1. pass.pc = "send"
      BY <2>2 DEF ReceiptFails, Abort, IInv, PassSendsOnly
    <3>2. pass.at = offset + 1 /\ pass.at <= pass.last /\ pass.last <= Len(events)
      BY <3>1, PassAgreesIsAgrees DEF IInv, Agrees
    <3>3. /\ pass' \in Passes /\ pass'.pc = "send" /\ pass'.at = pass.at /\ pass'.last = pass.last
          /\ pass'.sent = None /\ pass'.failed
      BY <1>0, <2>2, <3>1 DEF ReceiptFails, Abort, Passes
    <3>. QED
      BY <1>1, <3>2, <3>3 DEF PassAgrees, PassSendsOnly
  <2>. QED
    BY <2>1, <2>2
<1>. QED
  BY <1>1, <1>2, <1>3, Standing, Working

LEMMA TriedStep ==
  ASSUME IInv, Tried PROVE IInv'
<1>0. /\ pass \in Passes /\ pass.failed \in BOOLEAN
      /\ pass.pc = "send" /\ pass.sent = None /\ pass.todo = {}
  BY PassFields DEF IInv, TypeOK, Tried
<1>1. UNCHANGED <<events, open, offset, receipts, attempts, aged, got, lost, stops>>
  BY DEF Tried
<1>2. /\ pass.at = offset + 1 /\ pass.at <= pass.last /\ pass.last <= Len(events)
      /\ pass.failed \/ \A o \in Targets : <<pass.at, o>> \in receipts
  BY <1>0, PassAgreesIsAgrees, TargetsAssumption DEF IInv, Agrees
<1>3. /\ pass' \in Passes /\ pass'.at = pass.at /\ pass'.last = pass.last
      /\ pass'.todo = {} /\ pass'.sent = None /\ (pass'.failed <=> pass.failed)
  BY <1>0 DEF Tried, Passes
<1>4. pass'.pc = IF pass.failed THEN "record" ELSE "advance"
  BY <1>0 DEF Tried, Passes
<1>5. PassAgrees' /\ PassSendsOnly'
  BY <1>1, <1>2, <1>3, <1>4 DEF PassAgrees, PassSendsOnly, HasReceipt
<1>. QED
  BY <1>1, <1>3, <1>5, Standing, Working

LEMMA RecordStep ==
  ASSUME IInv, Record PROVE IInv'
<1>. DEFINE k == attempts[pass.at] + 1
<1>0. /\ TypeOK /\ pass \in Passes /\ pass.pc = "record" /\ pass.at \in Events
      /\ pass.failed \in BOOLEAN /\ attempts[pass.at] \in Nat /\ aged \in Nat
  BY PassFields, InHand DEF IInv, TypeOK, Record
<1>1. /\ pass.at = offset + 1 /\ pass.at <= pass.last /\ pass.last <= Len(events)
      /\ pass.failed /\ pass.todo = {} /\ pass.sent = None
  BY <1>0, PassAgreesIsAgrees DEF IInv, Agrees
<1>2. /\ UNCHANGED <<events, open, offset, receipts, aged, got, lost, stops>>
      /\ attempts' = [attempts EXCEPT ![pass.at] = k]
      /\ pass' = IF GivesUp(pass.at, k) THEN [pass EXCEPT !.pc = "advance"] ELSE Idle
  BY DEF Record
<1>3. /\ attempts' \in [Events -> Nat] /\ attempts'[pass.at] = k /\ k \in Nat /\ k > 0
      /\ \A n \in Events : attempts'[n] \in Nat /\ attempts'[n] >= attempts[n]
  BY <1>0, <1>2 DEF TypeOK
<1>. HIDE DEF k
<1>4. \A n \in Events : GivenUp(n) => GivenUp(n)'
  BY <1>0, <1>2, <1>3, GivenUpStays
<1>5. pass' \in Passes /\ PassAgrees' /\ PassSendsOnly'
  <2>1. CASE GivesUp(pass.at, k)
    <3>1. /\ pass' \in Passes /\ pass'.pc = "advance" /\ pass'.at = pass.at /\ pass'.last = pass.last
          /\ pass'.todo = {} /\ pass'.sent = None /\ pass'.failed
      BY <1>0, <1>1, <1>2, <2>1 DEF Passes
    <3>2. GivenUp(pass.at)'
      BY <1>2, <1>3, <2>1, <3>1 DEF GivesUp, GivenUp
    <3>. QED
      BY <1>1, <1>2, <3>1, <3>2 DEF PassAgrees, PassSendsOnly
  <2>2. CASE ~GivesUp(pass.at, k)
    BY <1>2, <2>2, IdleFacts DEF PassAgrees, PassSendsOnly
  <2>. QED
    BY <2>1, <2>2
<1>6. TypeOK'
  BY <1>0, <1>2, <1>3, <1>5 DEF TypeOK
<1>7. NothingIsLost' /\ ReceiptsAreTrue'
  BY <1>2, <1>4 DEF IInv, NothingIsLost, ReceiptsAreTrue
<1>. QED
  BY <1>2, <1>5, <1>6, <1>7 DEF IInv

\* The offset moves on when the event is with every target or given up.
LEMMA AdvanceStep ==
  ASSUME IInv, Advance PROVE IInv'
<1>0. /\ TypeOK /\ pass \in Passes /\ pass.pc = "advance" /\ pass.at \in Events
      /\ pass.at \in Nat /\ pass.last \in Nat /\ pass.at = offset + 1 /\ offset \in Nat
      /\ Len(events) \in Nat /\ pass.at <= Len(events) /\ pass.failed \in BOOLEAN
  BY PassFields, InHand DEF IInv, TypeOK, Advance
<1>1. /\ pass.at <= pass.last /\ pass.last <= Len(events)
      /\ GivenUp(pass.at) \/ \A o \in Targets : <<pass.at, o>> \in receipts
  BY <1>0, PassAgreesIsAgrees, TargetsAssumption DEF IInv, Agrees
<1>2. /\ UNCHANGED <<events, open, receipts, attempts, aged, got, lost, stops>> /\ offset' = pass.at
      /\ pass' = IF pass.at < pass.last THEN TakeUp(pass.at + 1, pass.last) ELSE Idle
  BY DEF Advance
<1>3. pass' \in Passes /\ PassAgrees' /\ PassSendsOnly'
  <2>1. CASE pass.at < pass.last
    <3>. DEFINE p == TakeUp(pass.at + 1, pass.last)
    <3>1. pass.at + 1 \in Nat /\ pass.at + 1 <= pass.last
      BY <1>0, <2>1
    <3>a. pass.at + 1 \in Nat /\ pass.last \in Nat
      BY <1>0
    <3>2. /\ p \in Passes /\ p.pc = "send" /\ p.at = pass.at + 1 /\ p.last = pass.last /\ p.todo = Targets
          /\ p.sent = None
      BY <3>a, TakeUpFacts
    <3>3. pass' = p
      BY <1>2, <2>1
    <3>. HIDE DEF p
    <3>4. /\ pass'.at = offset' + 1 /\ pass'.at <= pass'.last /\ pass'.last <= Len(events')
      BY <1>1, <1>2, <3>1, <3>2, <3>3
    <3>5. pass' \in Passes /\ pass'.pc = "send" /\ pass'.sent = None /\ pass'.todo = Targets
      BY <3>2, <3>3
    <3>. QED
      BY <3>4, <3>5 DEF PassAgrees, PassSendsOnly
  <2>2. CASE ~(pass.at < pass.last)
    BY <1>2, <2>2, IdleFacts DEF PassAgrees, PassSendsOnly
  <2>. QED
    BY <2>1, <2>2
<1>4. TypeOK'
  BY <1>0, <1>2, <1>3 DEF TypeOK
<1>5. NothingIsLost'
  <2>. SUFFICES ASSUME NEW n \in Events, n <= pass.at
                PROVE  GivenUp(n) \/ \A t \in Targets : <<n, t>> \in receipts
    BY <1>2 DEF NothingIsLost, GivenUp
  <2>1. n <= offset \/ n = pass.at
    BY <1>0 DEF Events
  <2>. QED
    BY <1>1, <2>1 DEF IInv, NothingIsLost
<1>6. ReceiptsAreTrue' /\ offset' <= Len(events') /\ aged' <= Len(events') /\ Len(events') <= MaxEvents
  BY <1>0, <1>2 DEF IInv, ReceiptsAreTrue
<1>. QED
  BY <1>3, <1>4, <1>5, <1>6 DEF IInv

-----------------------------------------------------------------------------
(* The theorems                                                             *)

LEMMA Initial == Init => IInv
<1>. SUFFICES ASSUME Init PROVE IInv
  OBVIOUS
<1>1. events = <<>> /\ events \in Seq([inc : Nat, recovered : BOOLEAN]) /\ Len(events) = 0
      /\ open \in [Dests -> Nat]
  BY DEF Init, Log!Init
<1>2. TypeOK
  BY <1>1, IdleFacts DEF Init, TypeOK
<1>3. NothingIsLost /\ PassAgrees /\ PassSendsOnly /\ ReceiptsAreTrue
  BY IdleFacts DEF Init, NothingIsLost, PassAgrees, PassSendsOnly, ReceiptsAreTrue, Events
<1>. QED
  BY <1>1, <1>2, <1>3, BoundsAssumption DEF IInv, Init

LEMMA Inductive == IInv /\ [Next]_vars => IInv'
<1>. SUFFICES ASSUME IInv, [Next]_vars PROVE IInv'
  OBVIOUS
<1>1. CASE UNCHANGED vars
  <2>1. PassAgrees' /\ PassSendsOnly'
    BY <1>1 DEF vars, IInv, PassAgrees, PassSendsOnly, HasReceipt, GivenUp
  <2>. QED
    BY <1>1, <2>1, Working DEF vars, IInv, TypeOK, ReceiptsAreTrue
<1>2. CASE \E t \in Targets : Skip(t) \/ Send(t) \/ Refuse(t)
  BY <1>2, SendStep
<1>. QED
  BY <1>1, <1>2, PublishStep, AgeStep, BeginStep, ReceiptStep, CutStep, TriedStep, RecordStep,
     AdvanceStep DEF Next, Step

\* The inductive invariant: the offset never passes an event that is neither with
\* every target nor given up, and receipts are true.
THEOREM InvariantHolds == Spec => []IInv
  BY Initial, Inductive, PTL DEF Spec

\* Only Send changes what a target has been sent.
LEMMA OnlySend ==
  ASSUME IInv, [Next]_vars, ~\E t \in Targets : Send(t)
  PROVE  got' = got
BY DEF Next, Step, vars, Publish, Age, Begin, Skip, Refuse, Receipt, ReceiptFails, Abort, Tried,
       Record, Advance, Stop

\* What Send changes.
LEMMA WhatSendDoes ==
  ASSUME IInv, NEW t \in Targets, Send(t)
  PROVE  /\ pass.at \in Events /\ pass.at = offset + 1 /\ <<pass.at, t>> \notin receipts
         /\ \A p \in Events \X Targets : p # <<pass.at, t>> => got'[p] = got[p]
<1>1. /\ pass.pc = "send" /\ <<pass.at, t>> \notin receipts
      /\ got' = [got EXCEPT ![<<pass.at, t>>] = got[<<pass.at, t>>] + 1]
  BY DEF Send, HasReceipt
<1>2. pass.at \in Events /\ pass.at = offset + 1
  BY <1>1, InHand
<1>3. \A p \in Events \X Targets : p # <<pass.at, t>> => got'[p] = got[p]
  BY <1>1 DEF IInv, TypeOK
<1>. QED
  BY <1>1, <1>2, <1>3

-----------------------------------------------------------------------------
(* Sendings and receipts                                                    *)

\* Send puts one sending in hand that no receipt speaks of.
LEMMA SendAccounts ==
  ASSUME IInv, RepeatsAreLostReceipts, NEW t \in Targets, Send(t)
  PROVE  RepeatsAreLostReceipts'
<1>. DEFINE q == <<pass.at, t>>
<1>1. /\ pass.pc = "send" /\ pass.sent = None /\ q \notin receipts /\ pass \in Passes
      /\ got' = [got EXCEPT ![q] = got[q] + 1] /\ lost' = lost /\ receipts' = receipts
      /\ pass' = [pass EXCEPT !.todo = pass.todo \ {t}, !.sent = t] /\ t # None
  BY TargetsAssumption DEF Send, HasReceipt, IInv, TypeOK
<1>2. q \in Events \X Targets
  BY <1>1, InHand
<1>3. pass'.sent = t /\ pass'.at = pass.at
  BY <1>1 DEF Passes
<1>4. \A p : InFlight(p)' <=> p = q
  BY <1>1, <1>3 DEF InFlight
<1>5. \A p : ~InFlight(p)
  BY <1>1 DEF InFlight
<1>6. /\ got \in [Events \X Targets -> Nat]
      /\ \A p \in Events \X Targets : got[p] \in Nat /\ lost[p] \in Nat
  BY DEF IInv, TypeOK
<1>. HIDE DEF q
<1>7. \A p \in Events \X Targets : got'[p] = IF p = q THEN got[p] + 1 ELSE got[p]
  BY <1>1, <1>6
<1>. QED
  BY <1>1, <1>2, <1>4, <1>5, <1>6, <1>7 DEF RepeatsAreLostReceipts

\* A receipt takes the place of the sending in hand.
LEMMA ReceiptAccounts ==
  ASSUME IInv, RepeatsAreLostReceipts, Receipt
  PROVE  RepeatsAreLostReceipts'
<1>1. /\ pass.sent # None /\ receipts' = receipts \cup {<<pass.at, pass.sent>>}
      /\ got' = got /\ lost' = lost /\ pass' = [pass EXCEPT !.sent = None] /\ pass \in Passes
  BY DEF Receipt, IInv, TypeOK
<1>2. pass'.sent = None
  BY <1>1 DEF Passes
<1>3. \A p : (p \in receipts' \/ InFlight(p)') <=> (p \in receipts \/ InFlight(p))
  BY <1>1, <1>2 DEF InFlight
<1>. QED
  BY <1>1, <1>3 DEF RepeatsAreLostReceipts

\* A cut between the two makes it a lost one.
LEMMA CutAccounts ==
  ASSUME IInv, RepeatsAreLostReceipts, ReceiptFails \/ Stop
  PROVE  RepeatsAreLostReceipts'
<1>1. /\ got' = got /\ lost' = Unconfirmed /\ receipts' = receipts /\ pass \in Passes
      /\ pass' \in {Idle, [pass EXCEPT !.sent = None, !.todo = {}, !.failed = TRUE]}
  BY DEF ReceiptFails, Stop, IInv, TypeOK
<1>2. pass'.sent = None
  BY <1>1, IdleFacts DEF Passes
<1>3. \A p : ~InFlight(p)'
  BY <1>2 DEF InFlight
<1>4. ASSUME NEW p \in Events \X Targets, InFlight(p) PROVE p \notin receipts
  BY <1>4 DEF IInv, PassAgrees, PassSendsOnly, InFlight, HasReceipt
<1>5. \A p \in Events \X Targets : lost[p] \in Nat
  BY DEF IInv, TypeOK
<1>6. \A p \in Events \X Targets : lost'[p] = lost[p] + IF InFlight(p) THEN 1 ELSE 0
  BY <1>1, UnconfirmedFacts
<1>. QED
  BY <1>1, <1>3, <1>4, <1>5, <1>6 DEF RepeatsAreLostReceipts

\* The other steps keep what is in hand.
LEMMA OthersAccount ==
  ASSUME IInv, RepeatsAreLostReceipts,
         UNCHANGED <<receipts, got, lost>>, pass.sent = None, pass'.sent = None
  PROVE  RepeatsAreLostReceipts'
BY DEF RepeatsAreLostReceipts, InFlight

\* Every sending is confirmed, in hand, or lost its receipt in the window between
\* the target's answer and the write (try_dispatch_event).
THEOREM RepeatTheorem == Spec => []RepeatsAreLostReceipts
<1>1. Init => RepeatsAreLostReceipts
  BY IdleFacts DEF Init, RepeatsAreLostReceipts, InFlight
<1>2. IInv /\ RepeatsAreLostReceipts /\ [Next]_vars => RepeatsAreLostReceipts'
  <2>. SUFFICES ASSUME IInv, RepeatsAreLostReceipts, [Next]_vars PROVE RepeatsAreLostReceipts'
    OBVIOUS
  <2>1. ASSUME UNCHANGED <<receipts, got, lost, pass>> PROVE RepeatsAreLostReceipts'
    BY <2>1 DEF RepeatsAreLostReceipts, InFlight
  <2>2. CASE UNCHANGED vars \/ Publish \/ Age
    BY <2>1, <2>2 DEF vars, Publish, Age
  <2>3. pass \in Passes
    BY DEF IInv, TypeOK
  <2>4. CASE Begin \/ Abort \/ Tried \/ Record \/ Advance
    <3>1. UNCHANGED <<receipts, got, lost>>
      BY <2>4 DEF Begin, Abort, Tried, Record, Advance
    <3>2. pass.sent = None
      BY <2>4 DEF Begin, Abort, Tried, Record, Advance, IInv, PassAgrees, PassSendsOnly
    <3>3. pass'.sent = None
      <4>1. \A n, l : TakeUp(n, l).sent = None
        BY DEF TakeUp, Idle
      <4>2. CASE Begin \/ Record \/ Advance
        <5>1. \/ \E n, l : pass' = TakeUp(n, l)
              \/ pass' = Idle \/ pass' = [pass EXCEPT !.pc = "advance"]
          BY <4>2, Zenon DEF Begin, Record, Advance
        <5>. QED
          BY <2>3, <3>2, <4>1, <5>1, IdleFacts DEF Passes
      <4>3. CASE Abort \/ Tried
        <5>1. \/ pass' = [pass EXCEPT !.todo = {}, !.failed = TRUE]
              \/ \E x : pass' = [pass EXCEPT !.pc = x]
          BY <4>3, Zenon DEF Abort, Tried
        <5>. QED
          BY <2>3, <3>2, <5>1 DEF Passes
      <4>. QED
        BY <2>4, <4>2, <4>3
    <3>. QED
      BY <3>1, <3>2, <3>3, OthersAccount
  <2>5. ASSUME NEW t \in Targets, Skip(t) \/ Refuse(t) PROVE RepeatsAreLostReceipts'
    <3>1. UNCHANGED <<receipts, got, lost>> /\ pass.sent = None
      BY <2>5 DEF Skip, Refuse
    <3>2. pass'.sent = None
      <4>1. \/ pass' = [pass EXCEPT !.todo = pass.todo \ {t}]
            \/ pass' = [pass EXCEPT !.todo = pass.todo \ {t}, !.failed = TRUE]
        BY <2>5 DEF Skip, Refuse
      <4>. QED
        BY <2>3, <3>1, <4>1 DEF Passes
    <3>. QED
      BY <3>1, <3>2, OthersAccount
  <2>. QED
    BY <2>2, <2>4, <2>5, SendAccounts, ReceiptAccounts, CutAccounts DEF Next, Step
<1>. QED
  BY InvariantHolds, <1>1, <1>2, PTL DEF Spec

\* A target hears of an event only after the earlier ones, but for those that were
\* given up (dispatch_pending_space_events).
THEOREM OrderTheorem == Spec => InOrder
<1>1. IInv /\ [Next]_vars =>
        [\A n \in Events, t \in Targets :
          got'[<<n, t>>] > got[<<n, t>>] =>
             \A m \in 1 .. n - 1 : <<m, t>> \in receipts \/ GivenUp(m)]_vars
  <2>. SUFFICES ASSUME IInv, [Next]_vars, NEW n \in Events, NEW t \in Targets,
                       got'[<<n, t>>] > got[<<n, t>>], NEW m \in 1 .. n - 1
                PROVE  <<m, t>> \in receipts \/ GivenUp(m)
    OBVIOUS
  <2>1. got[<<n, t>>] \in Nat /\ offset \in Nat /\ n \in Nat /\ m \in Events
    BY BoundsAssumption DEF IInv, TypeOK, Events
  <2>2. got'[<<n, t>>] # got[<<n, t>>]
    BY <2>1
  <2>3. PICK o \in Targets : Send(o)
    BY <2>2, OnlySend
  <2>4. <<n, t>> = <<pass.at, o>>
    BY <2>2, <2>3, WhatSendDoes
  <2>5. m <= offset
    BY <2>1, <2>3, <2>4, WhatSendDoes
  <2>. QED
    BY <2>1, <2>5 DEF IInv, NothingIsLost
<1>. QED
  BY InvariantHolds, <1>1, PTL DEF Spec, InOrder
=============================================================================
