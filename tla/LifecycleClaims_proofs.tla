------------------------ MODULE LifecycleClaims_proofs ------------------------
(***************************************************************************)
(* Proofs about title leases: the inductive invariant IInv, and what no     *)
(* step of any of the actors does to a lease.  Every action is reduced to   *)
(* what it does to one claim (Good, Moves); lemma Preserve turns that into  *)
(* the invariant of the next state.                                         *)
(***************************************************************************)
EXTENDS LifecycleClaims, TLAPS

\* What the invariant says of one claim c, whose request stands at q on day n.
Good(c, q, n) ==
    /\ c.start # 0 => c.end >= c.start + c.days
    /\ c.state \in {"active", "expired"} => c.start # 0
    /\ c.state = "expired" => c.end <= n
    /\ c.state = "none" => c = NoClaim
    /\ c.state # "none" => q = "approved" /\ c.title # None
    /\ c.state = "dormant" => c.start = 0

\* What a step may do to a claim.
Moves(c, d) ==
    /\ d.start = c.start \/ c.state \in {"dormant", "none"}
    /\ d.end >= c.end
    /\ c.state \in Over => d.state = c.state
    /\ c.state # "none" => d.state # "none" /\ d.days = c.days

AllGood == \A r \in Requests : Good(claim[r], req[r], now)
AllMove == \A r \in Requests : Moves(claim[r], claim'[r])

\* Activations and reads are of leases that exist.
Fits(a) == claim[a.r].state # "none" /\ a.start # 0 /\ a.end >= a.start + claim[a.r].days

Founded ==
    /\ \A a \in starting : Fits(a)
    /\ \A c \in sweep.todo : claim[c.r].state # "none"

-----------------------------------------------------------------------------
(* Facts about types and single claims                                      *)

\* A claim's fields.
LEMMA ClaimFields ==
  ASSUME NEW c \in Claims
  PROVE  /\ c.state \in {"none"} \cup Live \cup Over
         /\ c.title \in Titles \cup {None}
         /\ c.days \in Nat /\ c.start \in Nat /\ c.end \in Nat /\ c.born \in Nat
BY DEF Claims

\* The invariant, claim by claim.
LEMMA InvAsGood ==
  IInv <=> TypeOK /\ AllGood /\ Founded /\ SweepClock
<1>1. ASSUME IInv PROVE AllGood /\ Founded
  <2>1. ASSUME NEW a \in starting PROVE a.r \in Requests
    BY <1>1 DEF IInv, TypeOK, Activations
  <2>2. ASSUME NEW c \in sweep.todo PROVE c.r \in Requests
    BY <1>1 DEF IInv, TypeOK, Reads
  <2>3. AllGood
    BY <1>1 DEF AllGood, Good, IInv, LeaseLastsAsGranted, OnlyApprovedHold
  <2>. QED
    BY <1>1, <2>1, <2>2, <2>3 DEF Founded, Fits, IInv, ActivationsFit, OnlyApprovedHold
<1>2. ASSUME TypeOK, AllGood, Founded PROVE LeaseLastsAsGranted /\ ActivationsFit /\ OnlyApprovedHold
  <2>1. LeaseLastsAsGranted
    BY <1>2 DEF AllGood, Good, LeaseLastsAsGranted
  <2>2. ActivationsFit
    BY <1>2 DEF Founded, Fits, ActivationsFit
  <2>3. OnlyApprovedHold
    BY <1>2 DEF AllGood, Good, Founded, Fits, OnlyApprovedHold
  <2>. QED
    BY <2>1, <2>2, <2>3
<1>. QED
  BY <1>1, <1>2 DEF IInv

\* A claim that is left alone.
LEMMA SameClaim ==
  ASSUME NEW c \in Claims, NEW q, NEW n \in Nat, NEW m \in Nat, m >= n, Good(c, q, n)
  PROVE  Good(c, q, m) /\ Moves(c, c)
BY ClaimFields DEF Good, Moves

\* A live claim that is released or converted.
LEMMA EndedClaim ==
  ASSUME NEW c \in Claims, NEW q, NEW n \in Nat, NEW s \in {"released", "converted"},
         c.state \in Live, Good(c, q, n)
  PROVE  LET d == [c EXCEPT !.state = s]
         IN  d \in Claims /\ Good(d, q, n) /\ Moves(c, d)
BY DEF Claims, Good, Moves, Live, Over

\* An active claim that has run out.
LEMMA ExpiredClaim ==
  ASSUME NEW c \in Claims, NEW q, NEW n \in Nat,
         c.state = "active", c.end <= n, Good(c, q, n)
  PROVE  LET d == [c EXCEPT !.state = "expired"]
         IN  d \in Claims /\ Good(d, q, n) /\ Moves(c, d)
BY DEF Claims, Good, Moves, Live, Over

\* A dormant claim whose clock is started.
LEMMA ActivatedClaim ==
  ASSUME NEW c \in Claims, NEW q, NEW n \in Nat, NEW s \in Nat, NEW e \in Nat,
         c.state = "dormant", s # 0, e >= s + c.days, e >= c.end, Good(c, q, n)
  PROVE  LET d == [c EXCEPT !.state = "active", !.start = s, !.end = e]
         IN  d \in Claims /\ Good(d, q, n) /\ Moves(c, d)
BY DEF Claims, Good, Moves, Live, Over

\* A live claim that is extended.
LEMMA ExtendedClaim ==
  ASSUME NEW c \in Claims, NEW q, NEW n \in Nat, NEW e \in Nat,
         c.state \in Live, e > c.end, Good(c, q, n)
  PROVE  LET d == [c EXCEPT !.end = e]
         IN  d \in Claims /\ Good(d, q, n) /\ Moves(c, d)
BY DEF Claims, Good, Moves, Live, Over

\* A claim that moves to another title.
LEMMA MergedClaim ==
  ASSUME NEW c \in Claims, NEW q, NEW n \in Nat, NEW t \in Titles,
         c.title # None, Good(c, q, n)
  PROVE  LET d == [c EXCEPT !.title = t]
         IN  d \in Claims /\ Good(d, q, n) /\ Moves(c, d)
<1>. DEFINE d == [c EXCEPT !.title = t]
<1>1. d \in Claims
  BY DEF Claims
<1>2. d.title # None
  BY TitlesAssumption DEF Claims
<1>3. c.state # "none"
  BY DEF Good, NoClaim
<1>. QED
  BY <1>1, <1>2, <1>3 DEF Claims, Good, Moves

LEMMA NoClaimIsClaim == NoClaim \in Claims
BY DEF Claims, NoClaim

\* The claim of an approved request.
LEMMA NewClaim ==
  ASSUME NEW n \in Nat, NEW t \in Titles, NEW k \in Nat, NEW c \in Claims, c = NoClaim
  PROVE  LET d == [NoClaim EXCEPT !.state = "dormant", !.title = t, !.days = k, !.born = n]
         IN  d \in Claims /\ Good(d, "approved", n) /\ Moves(c, d)
<1>. DEFINE d == [NoClaim EXCEPT !.state = "dormant", !.title = t, !.days = k, !.born = n]
<1>0. NoClaim \in Claims /\ NoClaim.start = 0 /\ NoClaim.end = 0
  BY NoClaimIsClaim DEF NoClaim
<1>1. d.state = "dormant" /\ d.title = t /\ d.days = k /\ d.start = 0 /\ d.end = 0
  BY <1>0 DEF Claims
<1>2. d \in Claims
  BY <1>0 DEF Claims, Live
<1>3. t # None
  BY TitlesAssumption
<1>4. Good(d, "approved", n)
  BY <1>1, <1>3 DEF Good
<1>5. c.state = "none" /\ c.end = 0
  BY DEF NoClaim
<1>6. Moves(c, d)
  BY <1>1, <1>5 DEF Moves, Over
<1>. QED
  BY <1>2, <1>4, <1>6

\* An activation ends late enough.
LEMMA ExpiryFits ==
  ASSUME TypeOK, NEW r \in Requests, NEW e \in Nat, NEW s \in Nat
  PROVE  ClaimExpiry(r, e, s) \in Nat /\ ClaimExpiry(r, e, s) >= s + claim[r].days
BY ClaimFields DEF ClaimExpiry, Max, TypeOK

-----------------------------------------------------------------------------
(* Steps                                                                    *)

\* A step that treats every claim well, and reads only leases that exist,
\* preserves the invariant.
LEMMA Preserve ==
  ASSUME IInv, TypeOK', AllGood', AllMove, SweepClock',
         \A a \in starting' : a \in starting \/ Fits(a),
         \A c \in sweep'.todo : claim[c.r].state # "none"
  PROVE  IInv' /\ AllMove
<1>1. ASSUME NEW a \in starting'
      PROVE  claim'[a.r].state # "none" /\ a.start # 0 /\ a.end >= a.start + claim'[a.r].days
  <2>1. a.r \in Requests
    BY DEF TypeOK, Activations
  <2>2. claim[a.r].state # "none" /\ a.start # 0 /\ a.end >= a.start + claim[a.r].days
    BY InvAsGood DEF Founded, Fits
  <2>. QED
    BY <2>1, <2>2 DEF AllMove, Moves
<1>2. ASSUME NEW c \in sweep'.todo
      PROVE  claim'[c.r].state # "none"
  <2>1. c.r \in Requests
    BY DEF TypeOK, Reads
  <2>. QED
    BY <2>1 DEF AllMove, Moves
<1>3. Founded'
  BY <1>1, <1>2 DEF Founded, Fits
<1>4. (TypeOK /\ AllGood /\ Founded /\ SweepClock => IInv)'
  BY InvAsGood, PTL
<1>. QED
  BY <1>3, <1>4

\* No claim changes.
LEMMA ClaimsSame ==
  ASSUME IInv, claim' = claim, now' \in Nat, now' >= now,
         \A r \in Requests : req'[r] = req[r] \/ claim[r].state = "none"
  PROVE  AllGood' /\ AllMove
<1>1. ASSUME NEW r \in Requests PROVE Good(claim[r], req'[r], now') /\ Moves(claim[r], claim[r])
  <2>1. claim[r] \in Claims /\ now \in Nat
    BY DEF IInv, TypeOK
  <2>2. Good(claim[r], req[r], now)
    BY InvAsGood DEF AllGood
  <2>3. Good(claim[r], req'[r], now)
    BY <2>2 DEF Good
  <2>. QED
    BY <2>1, <2>3, SameClaim
<1>. QED
  BY <1>1 DEF AllGood, AllMove

\* Claims of R are released or converted.
LEMMA ClaimsEnded ==
  ASSUME IInv, NEW R, NEW s \in {"released", "converted"}, \A r \in R : IsLive(r),
         claim' = SetState(R, s), now' = now, req' = req
  PROVE  AllGood' /\ AllMove /\ claim' \in [Requests -> Claims]
<1>1. ASSUME NEW r \in Requests
      PROVE  claim'[r] \in Claims /\ Good(claim'[r], req[r], now) /\ Moves(claim[r], claim'[r])
  <2>1. claim[r] \in Claims /\ now \in Nat /\ Good(claim[r], req[r], now)
    BY InvAsGood DEF IInv, TypeOK, AllGood
  <2>2. CASE r \in R
    <3>1. claim'[r] = [claim[r] EXCEPT !.state = s]
      BY <2>2 DEF SetState
    <3>2. claim[r].state \in Live
      BY <2>2 DEF IsLive
    <3>3. LET d == [claim[r] EXCEPT !.state = s]
          IN  d \in Claims /\ Good(d, req[r], now) /\ Moves(claim[r], d)
      BY <2>1, <3>2, EndedClaim, Zenon
    <3>. QED
      BY <3>1, <3>3
  <2>3. CASE r \notin R
    BY <2>1, <2>3, SameClaim DEF SetState
  <2>. QED
    BY <2>2, <2>3
<1>2. claim' \in [Requests -> Claims]
  BY <1>1 DEF SetState
<1>. QED
  BY <1>1, <1>2 DEF AllGood, AllMove

\* Claims that were due on day d, not later than today, expire.
LEMMA ClaimsExpired ==
  ASSUME IInv, NEW d \in Nat, d <= now, claim' = SetState(DueAt(d), "expired"), now' = now, req' = req
  PROVE  AllGood' /\ AllMove /\ claim' \in [Requests -> Claims]
<1>1. ASSUME NEW r \in Requests
      PROVE  claim'[r] \in Claims /\ Good(claim'[r], req[r], now) /\ Moves(claim[r], claim'[r])
  <2>1. claim[r] \in Claims /\ now \in Nat /\ Good(claim[r], req[r], now)
    BY InvAsGood DEF IInv, TypeOK, AllGood
  <2>2. CASE r \in DueAt(d)
    <3>1. claim'[r] = [claim[r] EXCEPT !.state = "expired"]
      BY <2>2 DEF SetState
    <3>2. claim[r].state = "active" /\ claim[r].end <= now
      BY <2>1, <2>2, ClaimFields DEF DueAt
    <3>. QED
      BY <2>1, <3>1, <3>2, ExpiredClaim
  <2>3. CASE r \notin DueAt(d)
    BY <2>1, <2>3, SameClaim DEF SetState
  <2>. QED
    BY <2>2, <2>3
<1>2. claim' \in [Requests -> Claims]
  BY <1>1 DEF SetState
<1>. QED
  BY <1>1, <1>2 DEF AllGood, AllMove

\* One claim changes, and for the good.
LEMMA OneClaim ==
  ASSUME IInv, NEW r \in Requests, NEW c \in Claims, Good(c, req[r], now), Moves(claim[r], c),
         claim' = [claim EXCEPT ![r] = c], now' = now, req' = req
  PROVE  AllGood' /\ AllMove /\ claim' \in [Requests -> Claims]
<1>1. ASSUME NEW o \in Requests
      PROVE  claim'[o] \in Claims /\ Good(claim'[o], req[o], now) /\ Moves(claim[o], claim'[o])
  <2>1. claim[o] \in Claims /\ now \in Nat /\ Good(claim[o], req[o], now)
    BY InvAsGood DEF IInv, TypeOK, AllGood
  <2>2. claim'[o] = IF o = r THEN c ELSE claim[o]
    BY DEF IInv, TypeOK
  <2>. QED
    BY <2>1, <2>2, SameClaim
<1>2. claim' \in [Requests -> Claims]
  BY DEF IInv, TypeOK
<1>. QED
  BY <1>1, <1>2 DEF AllGood, AllMove

\* A step after which every activation in flight and every read was there before.
LEMMA NothingNew ==
  ASSUME IInv, TypeOK', AllGood', AllMove, now' = now, starting' \subseteq starting,
         sweep' = sweep
  PROVE  IInv' /\ AllMove
<1>1. SweepClock'
  BY DEF IInv, SweepClock
<1>2. \A c \in sweep'.todo : claim[c.r].state # "none"
  BY InvAsGood DEF Founded
<1>3. \A a \in starting' : a \in starting \/ Fits(a)
  OBVIOUS
<1>. QED
  BY <1>1, <1>2, <1>3, Preserve, Zenon

LEMMA StepApprove ==
  ASSUME IInv, NEW R \in SUBSET Requests, NEW t \in Titles,
         NEW days \in [Requests -> Durations \cup {0}], Approve(R, t, days)
  PROVE  IInv' /\ AllMove
<1>1. ASSUME NEW r \in Requests
      PROVE  claim'[r] \in Claims /\ Good(claim'[r], req'[r], now) /\ Moves(claim[r], claim'[r])
  <2>1. claim[r] \in Claims /\ now \in Nat /\ Good(claim[r], req[r], now)
    BY InvAsGood DEF IInv, TypeOK, AllGood
  <2>2. CASE r \in R
    <3>1. req[r] # "approved" /\ req'[r] = "approved"
      BY <2>2 DEF Approve
    <3>2. claim[r] = NoClaim
      BY <2>1, <3>1 DEF Good
    <3>3. CASE days[r] > 0
      <4>1. claim'[r] = [NoClaim EXCEPT !.state = "dormant", !.title = t, !.days = days[r], !.born = now]
        BY <2>2, <3>3 DEF Approve
      <4>2. \A k \in Durations \cup {0} : k \in Nat
        BY DurationsAssumption
      <4>3. days[r] \in Nat
        BY <4>2
      <4>4. LET d == [NoClaim EXCEPT !.state = "dormant", !.title = t, !.days = days[r], !.born = now]
            IN  d \in Claims /\ Good(d, "approved", now) /\ Moves(claim[r], d)
        BY <2>1, <3>2, <4>3, NewClaim, Zenon
      <4>. QED
        BY <3>1, <4>1, <4>4
    <3>4. CASE ~(days[r] > 0)
      <4>1. claim'[r] = claim[r]
        BY <2>2, <3>4 DEF Approve
      <4>2. Good(claim[r], "approved", now)
        BY <3>2 DEF Good, NoClaim
      <4>. QED
        BY <2>1, <3>1, <4>1, <4>2, SameClaim
    <3>. QED
      BY <3>3, <3>4
  <2>3. CASE r \notin R
    <3>1. req'[r] = req[r] /\ claim'[r] = claim[r]
      BY <2>3 DEF Approve
    <3>. QED
      BY <2>1, <3>1, SameClaim
  <2>. QED
    BY <2>2, <2>3
<1>2. AllGood' /\ AllMove
  BY <1>1 DEF AllGood, AllMove, Approve
<1>3. claim' \in [Requests -> Claims]
  BY <1>1 DEF Approve
<1>4. TypeOK'
  BY <1>3 DEF IInv, TypeOK, Statuses, Approve
<1>. QED
  BY <1>2, <1>4, NothingNew DEF Approve

\* A request is resolved, alone or with those that overlap with it.
Resolves(r) ==
  \E R \in SUBSET Requests, s \in {"rejected", "cancelled"} : ResolvePending(r, R, s)

\* Steps of requests, titles and time that leave the claims alone.
LEMMA StepElsewhere ==
  ASSUME IInv,
         \/ \E r \in Requests : ReadPending(r) \/ Reopen(r) \/ Resolves(r)
         \/ \E t \in Titles : Import(t) \/ DeleteTitle(t)
         \/ Lose
  PROVE  IInv' /\ AllMove
<1>0. TypeOK /\ AllGood
  BY InvAsGood DEF IInv
<1>1. ASSUME NEW r \in Requests,
                ReadPending(r) \/ Reopen(r) \/ Resolves(r)
         PROVE  IInv' /\ AllMove
  <2>1. \A o \in Requests : req'[o] = req[o] \/ claim[o].state = "none"
    BY <1>0, <1>1 DEF ReadPending, Resolves, ResolvePending, Reopen, TypeOK, AllGood, Good
  <2>2. TypeOK'
    BY <1>0, <1>1 DEF ReadPending, Resolves, ResolvePending, Reopen, TypeOK, Statuses
  <2>3. claim' = claim /\ now' = now /\ starting' = starting /\ sweep' = sweep
    BY <1>1 DEF ReadPending, Resolves, ResolvePending, Reopen
  <2>4. AllGood' /\ AllMove
    BY <1>0, <2>1, <2>3, ClaimsSame DEF TypeOK
  <2>. QED
    BY <2>2, <2>3, <2>4, NothingNew
<1>2. ASSUME NEW t \in Titles, Import(t) \/ DeleteTitle(t) PROVE IInv' /\ AllMove
  <2>2. TypeOK'
    BY <1>0, <1>2 DEF Import, DeleteTitle, TypeOK
  <2>3. claim' = claim /\ now' = now /\ starting' = starting /\ sweep' = sweep /\ req' = req
    BY <1>2 DEF Import, DeleteTitle
  <2>4. AllGood' /\ AllMove
    BY <1>0, <2>3, ClaimsSame DEF TypeOK
  <2>. QED
    BY <2>2, <2>3, <2>4, NothingNew
<1>3. ASSUME Lose PROVE IInv' /\ AllMove
  <2>2. TypeOK'
    BY <1>0, <1>3 DEF Lose, TypeOK
  <2>3. claim' = claim /\ now' = now /\ starting' \subseteq starting /\ sweep' = sweep /\ req' = req
    BY <1>3 DEF Lose
  <2>4. AllGood' /\ AllMove
    BY <1>0, <2>3, ClaimsSame DEF TypeOK
  <2>. QED
    BY <2>2, <2>3, <2>4, NothingNew
<1>. QED
  BY <1>1, <1>2, <1>3

\* Steps that release or convert claims.
LEMMA StepEnd ==
  ASSUME IInv,
         \/ \E r \in Requests : ReleaseRequest(r) \/ ConvertToPermanent(r) \/ ReleaseClaim(r)
         \/ \E t \in Titles : ReleaseTitle(t)
  PROVE  IInv' /\ AllMove
<1>1. ASSUME NEW r \in Requests, ReleaseRequest(r) PROVE IInv' /\ AllMove
  <2>0. \A o \in LiveOf({r}) : IsLive(o)
    BY DEF LiveOf
  <2>1. AllGood' /\ AllMove /\ claim' \in [Requests -> Claims]
    BY <1>1, <2>0, ClaimsEnded DEF ReleaseRequest
  <2>2. TypeOK'
    BY <1>1, <2>1 DEF ReleaseRequest, IInv, TypeOK
  <2>. QED
    BY <1>1, <2>1, <2>2, NothingNew DEF ReleaseRequest
<1>2. ASSUME NEW r \in Requests, ConvertToPermanent(r) PROVE IInv' /\ AllMove
  <2>1. AllGood' /\ AllMove /\ claim' \in [Requests -> Claims]
    BY <1>2, ClaimsEnded DEF ConvertToPermanent
  <2>2. TypeOK'
    BY <1>2, <2>1 DEF ConvertToPermanent, IInv, TypeOK
  <2>. QED
    BY <1>2, <2>1, <2>2, NothingNew DEF ConvertToPermanent
<1>3. ASSUME NEW r \in Requests, ReleaseClaim(r) PROVE IInv' /\ AllMove
  <2>1. AllGood' /\ AllMove /\ claim' \in [Requests -> Claims]
    BY <1>3, ClaimsEnded DEF ReleaseClaim
  <2>2. TypeOK'
    BY <1>3, <2>1 DEF ReleaseClaim, IInv, TypeOK
  <2>. QED
    BY <1>3, <2>1, <2>2, NothingNew DEF ReleaseClaim
<1>4. ASSUME NEW t \in Titles, ReleaseTitle(t) PROVE IInv' /\ AllMove
  <2>0. \A o \in LiveOf(OfTitle(t)) : IsLive(o)
    BY DEF LiveOf
  <2>1. AllGood' /\ AllMove /\ claim' \in [Requests -> Claims]
    BY <1>4, <2>0, ClaimsEnded DEF ReleaseTitle
  <2>2. TypeOK'
    BY <1>4, <2>1 DEF ReleaseTitle, IInv, TypeOK
  <2>. QED
    BY <1>4, <2>1, <2>2, NothingNew DEF ReleaseTitle
<1>. QED
  BY <1>1, <1>2, <1>3, <1>4

LEMMA StepExtend ==
  ASSUME IInv, NEW r \in Requests, NEW e \in 1 .. MaxTime + 1, Extend(r, e)
  PROVE  IInv' /\ AllMove
<1>1. claim[r] \in Claims /\ now \in Nat /\ Good(claim[r], req[r], now)
  BY InvAsGood DEF IInv, TypeOK, AllGood
<1>2. e \in Nat /\ claim[r].state \in Live /\ e > claim[r].end
  BY DEF Extend, CanExtend, IsLive
<1>. DEFINE d == [claim[r] EXCEPT !.end = e]
<1>3. d \in Claims /\ Good(d, req[r], now) /\ Moves(claim[r], d)
  BY <1>1, <1>2, ExtendedClaim, Zenon
<1>4. claim' = [claim EXCEPT ![r] = d]
  BY DEF Extend
<1>. HIDE DEF d
<1>5. AllGood' /\ AllMove /\ claim' \in [Requests -> Claims]
  BY <1>3, <1>4, OneClaim DEF Extend
<1>6. TypeOK'
  BY <1>5 DEF Extend, IInv, TypeOK
<1>. QED
  BY <1>5, <1>6, NothingNew DEF Extend

LEMMA StepActivate ==
  ASSUME IInv, NEW a \in starting, Activate(a)
  PROVE  IInv' /\ AllMove
<1>. DEFINE r == a.r
<1>0. /\ TypeOK /\ r \in Requests /\ a.start \in Nat /\ a.end \in Nat
      /\ a.start # 0 /\ a.end >= a.start + claim[r].days
  BY InvAsGood DEF IInv, TypeOK, Activations, Founded, Fits
<1>1. claim[r] \in Claims /\ now \in Nat /\ Good(claim[r], req[r], now)
  BY <1>0, InvAsGood DEF TypeOK, AllGood
<1>2. now' = now /\ req' = req /\ sweep' = sweep /\ starting' \subseteq starting
  BY DEF Activate
<1>3. CASE CanActivate(r)
  <2>. DEFINE e == ActivatedEnd(r, a.end)
              d == [claim[r] EXCEPT !.state = "active", !.start = a.start, !.end = e]
  <2>1. e \in Nat /\ e >= a.end /\ e >= claim[r].end
    BY <1>0, <1>1, ClaimFields DEF ActivatedEnd, Max
  <2>2. claim' = [claim EXCEPT ![r] = d]
    BY <1>3 DEF Activate
  <2>. HIDE DEF e
  <2>3. e >= a.start + claim[r].days /\ claim[r].state = "dormant"
    BY <1>0, <1>1, <1>3, <2>1, ClaimFields DEF CanActivate
  <2>4. d \in Claims /\ Good(d, req[r], now) /\ Moves(claim[r], d)
    BY <1>0, <1>1, <2>1, <2>3, ActivatedClaim, Zenon
  <2>. HIDE DEF d
  <2>5. AllGood' /\ AllMove /\ claim' \in [Requests -> Claims]
    BY <1>0, <1>2, <2>2, <2>4, OneClaim
  <2>6. TypeOK'
    BY <1>0, <2>5 DEF Activate, TypeOK
  <2>. QED
    BY <1>2, <2>5, <2>6, NothingNew
<1>4. CASE ~CanActivate(r)
  <2>1. claim' = claim
    BY <1>4 DEF Activate
  <2>2. AllGood' /\ AllMove
    BY <1>1, <1>2, <2>1, ClaimsSame
  <2>3. TypeOK'
    BY <1>0, <2>1 DEF Activate, TypeOK
  <2>. QED
    BY <1>2, <2>2, <2>3, NothingNew
<1>. QED
  BY <1>3, <1>4

LEMMA StepMerge ==
  ASSUME IInv, NEW s \in Titles, NEW d \in Titles, Merge(s, d)
  PROVE  IInv' /\ AllMove
<1>1. ASSUME NEW r \in Requests
      PROVE  claim'[r] \in Claims /\ Good(claim'[r], req[r], now) /\ Moves(claim[r], claim'[r])
  <2>1. claim[r] \in Claims /\ now \in Nat /\ Good(claim[r], req[r], now)
    BY InvAsGood DEF IInv, TypeOK, AllGood
  <2>2. CASE r \in OfTitle(s)
    <3>1. claim'[r] = [claim[r] EXCEPT !.title = d]
      BY <2>2 DEF Merge
    <3>2. claim[r].title # None
      BY <2>2, TitlesAssumption DEF OfTitle
    <3>3. LET c == [claim[r] EXCEPT !.title = d]
          IN  c \in Claims /\ Good(c, req[r], now) /\ Moves(claim[r], c)
      BY <2>1, <3>2, MergedClaim, Zenon
    <3>. QED
      BY <3>1, <3>3
  <2>3. CASE r \notin OfTitle(s)
    <3>1. claim'[r] = claim[r]
      BY <2>3 DEF Merge
    <3>. QED
      BY <2>1, <3>1, SameClaim
  <2>. QED
    BY <2>2, <2>3
<1>2. AllGood' /\ AllMove
  BY <1>1 DEF AllGood, AllMove, Merge
<1>3. claim' \in [Requests -> Claims]
  BY <1>1 DEF Merge
<1>4. TypeOK'
  BY <1>3 DEF IInv, TypeOK, Merge
<1>. QED
  BY <1>2, <1>4, NothingNew DEF Merge

\* An activation that is read.
LEMMA NewActivation ==
  ASSUME NEW o \in Requests, NEW s \in Nat, NEW e \in Nat, NEW b \in {"hook", "sweep"},
         claim[o].state # "none", s # 0, e >= s + claim[o].days
  PROVE  LET a == [r |-> o, start |-> s, end |-> e, by |-> b]
         IN  a \in Activations /\ Fits(a)
BY DEF Activations, Fits

LEMMA StepHook ==
  ASSUME IInv, NEW t \in Titles, RunHook(t)
  PROVE  IInv' /\ AllMove
<1>0. TypeOK /\ now \in Nat /\ now >= 1 /\ claim \in [Requests -> Claims]
  BY DEF IInv, TypeOK, SweepClock
<1>1. ASSUME NEW r \in OfTitle(t) \cap Dormant
      PROVE  LET a == [r |-> r, start |-> now, end |-> ClaimExpiry(r, claim[r].end, now), by |-> "hook"]
             IN  a \in Activations /\ Fits(a)
  <2>. DEFINE e == ClaimExpiry(r, claim[r].end, now)
  <2>1. r \in Requests /\ claim[r].state = "dormant"
    BY DEF Dormant
  <2>2. claim[r].end \in Nat
    BY <1>0, <2>1, ClaimFields
  <2>3. e \in Nat /\ e >= now + claim[r].days
    BY <1>0, <2>1, <2>2, ExpiryFits
  <2>4. now # 0 /\ claim[r].state # "none"
    BY <1>0, <2>1
  <2>. QED
    BY <1>0, <2>1, <2>3, <2>4, NewActivation, Zenon
<1>2. \A a \in starting' : a \in starting \/ (a \in Activations /\ Fits(a))
  BY <1>1 DEF RunHook
<1>3. AllGood' /\ AllMove
  BY <1>0, ClaimsSame DEF RunHook
<1>4. TypeOK'
  BY <1>0, <1>2 DEF RunHook, TypeOK
<1>5. SweepClock' /\ \A c \in sweep'.todo : claim[c.r].state # "none"
  BY InvAsGood DEF Founded, SweepClock, RunHook
<1>. QED
  BY <1>2, <1>3, <1>4, <1>5, Preserve

\* The oldest few of a set are of that set.
LEMMA OldestAreSome ==
  ASSUME NEW R, NEW n PROVE Oldest(R, n) \subseteq R
BY DEF Oldest

LEMMA StepSweepOrphans ==
  ASSUME IInv, SweepOrphans
  PROVE  IInv' /\ AllMove
<1>1. \A r \in Oldest(Orphans, OrphanLimit) : IsLive(r)
  BY OldestAreSome DEF Orphans
<1>2. AllGood' /\ AllMove /\ claim' \in [Requests -> Claims]
  BY <1>1, ClaimsEnded DEF SweepOrphans
<1>3. now \in Nat /\ sweep'.at = now /\ sweep'.todo = sweep.todo /\ sweep'.pc = "expire"
  BY DEF SweepOrphans, IInv, TypeOK
<1>4. TypeOK'
  BY <1>2, <1>3 DEF SweepOrphans, IInv, TypeOK
<1>5. SweepClock' /\ \A c \in sweep'.todo : claim[c.r].state # "none"
  BY <1>3, InvAsGood DEF Founded, SweepClock, SweepOrphans
<1>6. \A a \in starting' : a \in starting \/ Fits(a)
  BY DEF SweepOrphans
<1>. QED
  BY <1>2, <1>4, <1>5, <1>6, Preserve

LEMMA StepSweepExpire ==
  ASSUME IInv, SweepExpire
  PROVE  IInv' /\ AllMove
<1>1. sweep.at \in Nat /\ sweep.at <= now
  BY DEF IInv, TypeOK, SweepClock
<1>2. AllGood' /\ AllMove /\ claim' \in [Requests -> Claims]
  BY <1>1, ClaimsExpired DEF SweepExpire
<1>3. sweep'.at = sweep.at /\ sweep'.todo = sweep.todo
  BY DEF SweepExpire, IInv, TypeOK
<1>4. TypeOK'
  BY <1>2, <1>3 DEF SweepExpire, IInv, TypeOK
<1>5. SweepClock' /\ \A c \in sweep'.todo : claim[c.r].state # "none"
  BY <1>3, InvAsGood DEF Founded, SweepClock, SweepExpire
<1>6. \A a \in starting' : a \in starting \/ Fits(a)
  BY DEF SweepExpire
<1>. QED
  BY <1>2, <1>4, <1>5, <1>6, Preserve

LEMMA StepSweepList ==
  ASSUME IInv, SweepList
  PROVE  IInv' /\ AllMove
<1>0. TypeOK /\ now \in Nat /\ claim \in [Requests -> Claims]
  BY DEF IInv, TypeOK
<1>1. AllGood' /\ AllMove
  BY <1>0, ClaimsSame DEF SweepList
<1>. DEFINE T == {[r |-> r, title |-> claim[r].title, end |-> claim[r].end] :
                     r \in Oldest(Dormant, SweepLimit)}
<1>2. ASSUME NEW r \in Oldest(Dormant, SweepLimit)
      PROVE  /\ r \in Requests /\ claim[r].state # "none"
             /\ claim[r].title \in Titles /\ claim[r].end \in Nat
  <2>1. r \in Requests /\ claim[r].state = "dormant"
    BY OldestAreSome DEF Dormant
  <2>2. claim[r].title # None
    BY <2>1, InvAsGood DEF AllGood, Good
  <2>. QED
    BY <1>0, <2>1, <2>2, ClaimFields
<1>3. T \subseteq Reads /\ \A c \in T : claim[c.r].state # "none"
  BY <1>2 DEF Reads
<1>4. sweep'.at = sweep.at /\ sweep'.todo = T /\ sweep'.pc = "start"
  BY <1>0 DEF SweepList, TypeOK
<1>. HIDE DEF T
<1>5. sweep' \in [pc : {"idle", "expire", "list", "start"}, at : Nat, todo : SUBSET Reads]
  <2>1. sweep' = [sweep EXCEPT !.pc = "start", !.todo = T]
    BY DEF SweepList, T
  <2>. QED
    BY <1>0, <1>3, <2>1 DEF TypeOK
<1>6. TypeOK'
  BY <1>0, <1>5 DEF SweepList, TypeOK
<1>7. SweepClock' /\ \A c \in sweep'.todo : claim[c.r].state # "none"
  BY <1>3, <1>4 DEF IInv, SweepClock, SweepList
<1>8. \A a \in starting' : a \in starting \/ Fits(a)
  BY DEF SweepList
<1>. QED
  BY <1>1, <1>6, <1>7, <1>8, Preserve

LEMMA StepSweepRead ==
  ASSUME IInv, NEW c \in sweep.todo, SweepRead(c)
  PROVE  IInv' /\ AllMove
<1>0. /\ TypeOK /\ now \in Nat /\ claim \in [Requests -> Claims]
      /\ c.r \in Requests /\ c.title \in Titles /\ c.end \in Nat /\ file[c.title] \in Nat
  BY DEF IInv, TypeOK, Reads
<1>1. AllGood' /\ AllMove
  BY <1>0, ClaimsSame DEF SweepRead
<1>2. \A o \in sweep.todo : claim[o.r].state # "none"
  BY InvAsGood DEF Founded
<1>3. ASSUME NEW d \in {file[c.title]} \ {0}
      PROVE  LET a == [r |-> c.r, start |-> d, end |-> ClaimExpiry(c.r, c.end, d), by |-> "sweep"]
             IN  a \in Activations /\ Fits(a)
  <2>. DEFINE e == ClaimExpiry(c.r, c.end, d)
  <2>1. d \in Nat /\ d # 0
    BY <1>0
  <2>2. e \in Nat /\ e >= d + claim[c.r].days
    BY <1>0, <2>1, ExpiryFits
  <2>3. claim[c.r].state # "none"
    BY <1>2
  <2>. QED
    BY <1>0, <2>1, <2>2, <2>3, NewActivation, Zenon
<1>4. \A a \in starting' : a \in starting \/ (a \in Activations /\ Fits(a))
  BY <1>3 DEF SweepRead
<1>5. sweep'.at = sweep.at /\ sweep'.todo = sweep.todo \ {c}
  BY <1>0 DEF SweepRead, TypeOK
<1>6. TypeOK'
  BY <1>0, <1>4 DEF SweepRead, TypeOK
<1>7. SweepClock' /\ \A o \in sweep'.todo : claim[o.r].state # "none"
  BY <1>2, <1>5 DEF IInv, SweepClock, SweepRead
<1>. QED
  BY <1>1, <1>4, <1>6, <1>7, Preserve

LEMMA StepSweepFails ==
  ASSUME IInv, SweepFails
  PROVE  IInv' /\ AllMove
<1>1. /\ claim' = claim /\ now' = now /\ req' = req /\ starting' = starting
      /\ UNCHANGED <<closing, title, file>>
  BY DEF SweepFails
<1>2. AllGood' /\ AllMove
  BY <1>1, ClaimsSame DEF IInv, TypeOK
<1>3. /\ sweep' \in [pc : {"idle", "expire", "list", "start"}, at : Nat, todo : SUBSET Reads]
      /\ sweep'.todo \subseteq sweep.todo
      /\ sweep'.at <= now
  <2>0. /\ now \in Nat /\ now >= 1 /\ sweep.at <= now
        /\ sweep \in [pc : {"idle", "expire", "list", "start"}, at : Nat, todo : SUBSET Reads]
    BY DEF IInv, TypeOK, SweepClock
  <2>1. CASE sweep' = [sweep EXCEPT !.pc = "expire", !.at = now]
    <3>1. sweep'.pc = "expire" /\ sweep'.at = now /\ sweep'.todo = sweep.todo
      BY <2>0, <2>1
    <3>2. sweep' = [pc |-> "expire", at |-> now, todo |-> sweep.todo]
      BY <2>0, <2>1, <3>1
    <3>. QED
      BY <2>0, <3>1, <3>2
  <2>2. CASE sweep' = [sweep EXCEPT !.pc = "list"]
    BY <2>0, <2>2
  <2>3. CASE sweep' = IdleSweep
    BY <2>0, <2>3 DEF IdleSweep
  <2>. QED
    BY <2>1, <2>2, <2>3 DEF SweepFails
<1>4. TypeOK'
  BY <1>1, <1>3 DEF IInv, TypeOK
<1>5. SweepClock' /\ \A o \in sweep'.todo : claim[o.r].state # "none"
  BY <1>1, <1>3, InvAsGood DEF IInv, Founded, SweepClock
<1>6. \A a \in starting' : a \in starting \/ Fits(a)
  BY <1>1
<1>. QED
  BY <1>2, <1>4, <1>5, <1>6, Preserve

\* The rest of the pass, and a new day.
LEMMA StepSweepRest ==
  ASSUME IInv, SweepEnd \/ Tick
  PROVE  IInv' /\ AllMove
<1>0. TypeOK /\ now \in Nat
  BY DEF IInv, TypeOK
<1>1. now' \in Nat /\ now' >= now /\ claim' = claim /\ req' = req /\ starting' = starting
  BY <1>0 DEF SweepEnd, Tick
<1>2. AllGood' /\ AllMove
  BY <1>1, ClaimsSame
<1>3. sweep'.at \in {0, sweep.at} /\ sweep'.todo \subseteq sweep.todo
  BY <1>0 DEF SweepEnd, Tick, IdleSweep, TypeOK
<1>4. TypeOK'
  BY <1>0, <1>1 DEF SweepEnd, Tick, IdleSweep, TypeOK
<1>5. SweepClock' /\ \A o \in sweep'.todo : claim[o.r].state # "none"
  BY <1>0, <1>1, <1>3, InvAsGood DEF Founded, SweepClock, TypeOK
<1>6. \A a \in starting' : a \in starting \/ Fits(a)
  BY <1>1
<1>. QED
  BY <1>2, <1>4, <1>5, <1>6, Preserve

-----------------------------------------------------------------------------
(* The theorems                                                             *)

LEMMA Initial == Init => IInv
BY RequestsAssumption, TitlesAssumption
   DEF Init, IInv, TypeOK, LeaseLastsAsGranted, ActivationsFit, OnlyApprovedHold, SweepClock,
       NoClaim, Claims, Statuses, IdleSweep, Reads, Activations

\* Every step of every actor.
LEMMA Inductive == IInv /\ [Next]_vars => IInv' /\ AllMove
<1>. SUFFICES ASSUME IInv, [Next]_vars PROVE IInv' /\ AllMove
  OBVIOUS
<1>1. CASE UNCHANGED vars
  <2>1. now \in Nat /\ now' = now /\ claim' = claim /\ req' = req
    BY <1>1 DEF vars, IInv, TypeOK
  <2>2. AllGood' /\ AllMove
    BY <2>1, ClaimsSame
  <2>3. TypeOK'
    BY <1>1 DEF vars, IInv, TypeOK
  <2>. QED
    BY <1>1, <2>2, <2>3, NothingNew DEF vars
<1>2. CASE \E R \in SUBSET Requests, t \in Titles, days \in [Requests -> Durations \cup {0}] :
               Approve(R, t, days)
  BY <1>2, StepApprove
<1>3. CASE \E r \in Closable : ReadPending(r)
  BY <1>3, RequestsAssumption, StepElsewhere
<1>4. CASE \E r \in Requests : Reopen(r) \/ Resolves(r)
  BY <1>4, StepElsewhere
<1>5. CASE \E r \in Requests : ReleaseRequest(r) \/ ConvertToPermanent(r) \/ ReleaseClaim(r)
  BY <1>5, StepEnd
<1>6. CASE \E r \in Requests, e \in 1 .. MaxTime + 1 : Extend(r, e)
  BY <1>6, StepExtend
<1>7. CASE \E t \in Titles : Import(t) \/ DeleteTitle(t)
  BY <1>7, StepElsewhere
<1>8. CASE \E t \in Titles : RunHook(t)
  BY <1>8, StepHook
<1>9. CASE \E t \in Titles : ReleaseTitle(t)
  BY <1>9, StepEnd
<1>10. CASE \E t \in Titles, d \in Titles : Merge(t, d)
  BY <1>10, StepMerge
<1>11. CASE \E a \in starting : Activate(a)
  BY <1>11, StepActivate
<1>12. CASE Lose
  BY <1>12, StepElsewhere
<1>13. CASE SweepOrphans
  BY <1>13, StepSweepOrphans
<1>14. CASE SweepExpire
  BY <1>14, StepSweepExpire
<1>15. CASE SweepList
  BY <1>15, StepSweepList
<1>16. CASE \E c \in sweep.todo : SweepRead(c)
  BY <1>16, StepSweepRead
<1>17. CASE SweepFails
  BY <1>17, StepSweepFails
<1>18. CASE SweepEnd \/ Tick
  BY <1>18, StepSweepRest
<1>. QED
  BY <1>1, <1>2, <1>3, <1>4, <1>5, <1>6, <1>7, <1>8, <1>9, <1>10, <1>11, <1>12, <1>13, <1>14,
     <1>15, <1>16, <1>17, <1>18 DEF Next, Resolves

\* The inductive invariant: whatever the hook, the sweep, administrators and
\* requesters do in whatever order, claims, activations in flight and the list the
\* sweep works through stay consistent.
THEOREM InvariantHolds == Spec => []IInv
<1>1. IInv /\ [Next]_vars => IInv'
  BY Inductive
<1>. QED
  BY Initial, <1>1, PTL DEF Spec

\* A lease runs for the days that were granted, and expires only when it has run
\* out (activate, expire_due).
THEOREM LeasesLast == Spec => []LeaseLastsAsGranted
<1>1. IInv => LeaseLastsAsGranted
  BY DEF IInv
<1>. QED
  BY InvariantHolds, <1>1, PTL

\* The clock of a lease starts once, whoever read it before (activate).
THEOREM ClockTheorem == Spec => ClockStartsOnce
<1>1. IInv /\ [Next]_vars =>
        [\A r \in Requests : claim[r].start # 0 => claim'[r].start = claim[r].start]_vars
  <2>. SUFFICES ASSUME IInv, AllMove, NEW r \in Requests, claim[r].start # 0
                PROVE  claim'[r].start = claim[r].start
    BY Inductive
  <2>1. claim[r].state \notin {"dormant", "none"}
    BY InvAsGood DEF AllGood, Good, NoClaim
  <2>. QED
    BY <2>1 DEF AllMove, Moves
<1>. QED
  BY InvariantHolds, <1>1, PTL DEF Spec, ClockStartsOnce

\* No activation that was read before takes an extension back (activate, extend).
THEOREM ExtensionTheorem == Spec => ExtensionIsKept
<1>1. IInv /\ [Next]_vars => [\A r \in Requests : claim'[r].end >= claim[r].end]_vars
  BY Inductive DEF AllMove, Moves
<1>. QED
  BY InvariantHolds, <1>1, PTL DEF Spec, ExtensionIsKept

\* What is over stays over: no late release, conversion, expiry or activation
\* rewrites how a lease ended.
THEOREM OverTheorem == Spec => OverIsFinal
<1>1. IInv /\ [Next]_vars =>
        [\A r \in Requests : claim[r].state \in Over => claim'[r].state = claim[r].state]_vars
  BY Inductive DEF AllMove, Moves
<1>. QED
  BY InvariantHolds, <1>1, PTL DEF Spec, OverIsFinal
=============================================================================
