----------------------------- MODULE MCBackends -----------------------------
(***************************************************************************)
(* The four backends, each with two generations that claim one name, two   *)
(* calls in flight and leases of one time unit.                            *)
(*                                                                         *)
(* No two of them run together, so every behaviour is one of one backend:  *)
(* part says of which, for ever.  The memory backend has its own           *)
(* variables; those of the others are v1, v2, ..., and whatever does not   *)
(* run rests in its initial state.                                         *)
(***************************************************************************)
EXTENDS MemoryBackend, TLC, TLAPS

CONSTANTS
    g1, g2,
    PostgresAsked, RedisAsked, KubernetesAsked,     \* the requests made of each
    Clients, Skew, MaxSkew,                         \* of PostgreSQL, and their clocks
    LuaMaxExact, TokenBound,                        \* of Redis
    Second, DefaultLease                            \* of Kubernetes

VARIABLES
    part,       \* the component that runs
    v1, v2, v3, v4, v5, v6      \* its variables, in the order of its module

all == <<part, vars, v1, v2, v3, v4, v5, v6>>

\* The variables that a component with fewer of them leaves unused.
Blank6 == v6 = {}
Blank5 == v5 = {} /\ Blank6
Blank4 == v4 = {} /\ Blank5
Blank3 == v3 = {} /\ Blank4
Blank2 == v2 = {} /\ Blank3
Blank1 == v1 = {} /\ Blank2

-----------------------------------------------------------------------------

\* Kubernetes, where each caller is a process of its own.
Ku == INSTANCE KubernetesBackend WITH
    Gens <- Gens, NoGen <- NoGen, NoOp <- NoOp, TTLs <- TTLs,
    Asked <- KubernetesAsked, MaxSafeFencingToken <- MaxSafeFencingToken,
    Processes <- Callers, Second <- Second, DefaultLease <- DefaultLease, Tokens <- Tokens,
    OpIds <- OpIds,
    lease <- v1, ops <- v2, call <- v3, granted <- v4, asked <- v5, dropped <- v6

ASSUME KuAskedAssumption == Ku!AskedAssumption
ASSUME KuSecondAssumption == Ku!SecondAssumption

-----------------------------------------------------------------------------
(* Proofs: the Kubernetes backend.                                         *)

\* A request that a call serves.
LEMMA LeaseRequest ==
  ASSUME Ku!SecondAssumption, NEW q \in Ku!Requests
  PROVE  /\ Ku!Request(q, Ku!LeaseDuration(q.ttl)) /\ q.op \in OpIds \cup {NoOp}
         /\ q.kind \notin {"acquire"} => q.token \in Nat
<1>1. /\ q.kind \in {"acquire", "renew", "prepare", "commit", "abort", "release"}
      /\ q.gen \in Gens /\ q.op \in OpIds \cup {NoOp}
      /\ q.kind \in {"prepare", "commit"} => q.to \in Gens
      /\ q.kind \notin {"abort", "release"} => q.ttl \in TTLs
      /\ q.kind \notin {"acquire"} => q.token \in Tokens
  BY DEF Ku!Requests, Ku!AcquireRequests, Ku!RenewRequests, Ku!TransferRequests,
         Ku!CommitRequests, Ku!AbortRequests, Ku!ReleaseRequests
<1>2. \A t \in TTLs : Ku!LeaseDuration(t) \in Int
  BY TTLAssumption DEF Ku!SecondAssumption, Ku!LeaseDuration
<1>3. q.kind \notin {"acquire"} => q.token \in Nat
  BY <1>1, TokensAssumption, Zenon
<1> QED
  BY <1>1, <1>2, <1>3, Zenon DEF Ku!Request

\* What the handler of a request makes of a lease that is not over.
LEMMA LeaseHandler ==
  ASSUME Ku!SecondAssumption, NEW q \in Ku!Requests, NEW r \in Ku!Records, Ku!Consistent(r),
         r.phase # "absent", ~Ku!Lapsed(r)
  PROVE  LET o == Ku!Handler(r, q)
         IN  /\ o \in [claim : Ku!Records, err : Ku!Errors]
             /\ Ku!Good(r, o.claim) /\ o.claim.phase # "absent"
             /\ Ku!SameEpoch(r, o.claim) \/ r.owner = NoGen \/ Ku!GivesUp(q, r)
<1> DEFINE h == Ku!Handled(r, q, Ku!LeaseDuration(q.ttl))
           o == Ku!Handler(r, q)
<1>1. Ku!Request(q, Ku!LeaseDuration(q.ttl)) /\ DefaultLease \in Int
  BY LeaseRequest DEF Ku!SecondAssumption
<1>2. /\ h = [claim |-> h.claim, err |-> h.err] /\ h.err \in Ku!Errors
      /\ Ku!Good(r, h.claim) /\ h.claim.phase # "absent"
  BY NoGenAssumption, TTLAssumption, MaxTokenAssumption, TokensAssumption, NoOpAssumption, <1>1, Ku!HandledRecord, Ku!HandledGood, Ku!HandledPresent
<1>3. Ku!SameEpoch(r, h.claim) \/ r.owner = NoGen \/ Ku!GivesUp(q, r)
  <2>1. r.owner # NoGen => r.left >= 0
    BY DEF Ku!Lapsed, Ku!Consistent, Ku!Records
  <2> QED
    BY NoGenAssumption, TTLAssumption, MaxTokenAssumption, TokensAssumption, NoOpAssumption, <1>1, <2>1, Ku!HandledKeeps
<1>4. o = h \/ o = [h EXCEPT !.claim.left = DefaultLease]
  BY <1>1 DEF Ku!Handler, Ku!AcquireLease, Ku!RenewLease, Ku!PrepareLease, Ku!CommitLease, Ku!AbortLease,
         Ku!ReleaseLease, Ku!Handled, Ku!Request
<1> HIDE DEF h, o
<1>5. h.claim \in Ku!Records
  BY <1>2 DEF Ku!Good
<1>6. \/ o = [claim |-> h.claim, err |-> h.err]
      \/ o = [claim |-> [h.claim EXCEPT !.left = DefaultLease], err |-> h.err]
  BY <1>2, <1>4, <1>5
<1>7. Ku!Alike(h.claim, o.claim) /\ o.err = h.err /\ o = [claim |-> o.claim, err |-> h.err]
  <2> DEFINE n == [h.claim EXCEPT !.left = DefaultLease]
  <2>1. Ku!Alike(h.claim, h.claim) /\ Ku!Alike(h.claim, n)
    BY NoGenAssumption, TTLAssumption, MaxTokenAssumption, TokensAssumption, NoOpAssumption, <1>1, <1>5, Ku!AlikeLeft DEF Ku!Alike, Ku!SameEpoch
  <2> HIDE DEF n
  <2>2. o = [claim |-> h.claim, err |-> h.err] \/ o = [claim |-> n, err |-> h.err]
    BY <1>6 DEF n
  <2> QED
    BY <2>1, <2>2
<1>8. Ku!Good(r, o.claim)
  BY NoGenAssumption, TTLAssumption, MaxTokenAssumption, TokensAssumption, NoOpAssumption, <1>2, <1>7, Ku!AlikeGood DEF Ku!SameEpoch
<1>9. o \in [claim : Ku!Records, err : Ku!Errors] /\ o.claim.phase # "absent"
  BY <1>2, <1>7 DEF Ku!Alike
<1> QED
  BY <1>3, <1>7, <1>8, <1>9 DEF Ku!Alike, Ku!SameEpoch, o

\* No call is under way.
LEMMA IdleFits == Ku!Idle \in Ku!Calls /\ \A l : Ku!Fit(l, Ku!Idle)
<1>1. Ku!AbsentRecord \in Ku!Records
  BY NoGenAssumption, TTLAssumption, MaxTokenAssumption, TokensAssumption, NoOpAssumption, Ku!AbsentRecordGood
<1> QED
  BY <1>1 DEF Ku!Idle, Ku!Calls, Ku!Fit

\* After a write no call is current, so that each fits whatever the lease has become.
LEMMA OutdatedFits ==
  ASSUME NEW calls \in [Callers -> Ku!Calls],
         \A p \in Callers : calls[p].pc # "idle" => calls[p].req \in Ku!Requests
  PROVE  /\ Ku!Outdate(calls) \in [Callers -> Ku!Calls]
         /\ \A p \in Callers : \A l : Ku!Fit(l, Ku!Outdate(calls)[p])
<1> SUFFICES ASSUME NEW p \in Callers
             PROVE  Ku!Outdate(calls)[p] \in Ku!Calls /\ \A l : Ku!Fit(l, Ku!Outdate(calls)[p])
  BY DEF Ku!Outdate
<1> DEFINE t == [calls[p] EXCEPT !.current = calls[p] = Ku!Idle]
<1>1. Ku!Outdate(calls)[p] = t
  BY DEF Ku!Outdate
<1>2. calls[p] \in Ku!Calls /\ (calls[p] = Ku!Idle) \in BOOLEAN
  OBVIOUS
<1>3. /\ t \in Ku!Calls /\ t.pc = calls[p].pc /\ t.req = calls[p].req
      /\ t.current = (calls[p] = Ku!Idle)
  BY <1>2, Zenon DEF Ku!Calls
<1>4. t.current => t.pc = "idle"
  <2>1. calls[p] = Ku!Idle => calls[p].pc = "idle"
    BY DEF Ku!Idle
  <2> HIDE DEF t
  <2> QED
    BY <1>3, <2>1, Zenon
<1> HIDE DEF t
<1> QED
  BY <1>1, <1>3, <1>4 DEF Ku!Fit

\* storeOp keeps the table well formed.
LEMMA TableTyped ==
  ASSUME v2 \in [Callers -> [OpIds -> Ku!Errors \cup {"none", "conflict"}]],
         NEW p \in Callers, NEW q, q.op \in OpIds \cup {NoOp},
         NEW err \in Ku!Errors \cup {"conflict"}
  PROVE  Ku!storeOp(p, q, err) \in [Callers -> [OpIds -> Ku!Errors \cup {"none", "conflict"}]]
  BY DEF Ku!storeOp

\* A handler that decides on the lease as it is leaves a call that fits it.
LEMMA DecideFits ==
  ASSUME Ku!SecondAssumption, NEW p \in Callers, NEW q \in Ku!Requests, NEW r \in Ku!Records,
         Ku!Consistent(r), r.phase # "absent", ~Ku!Lapsed(r),
         NEW calls \in [Callers -> Ku!Calls], \A d \in Callers : Ku!Fit(r, calls[d]),
         v2 \in [Callers -> [OpIds -> Ku!Errors \cup {"none", "conflict"}]],
         Ku!Decide(p, q, r, calls)
  PROVE  /\ v3' \in [Callers -> Ku!Calls] /\ \A d \in Callers : Ku!Fit(r, v3'[d])
         /\ v2' \in [Callers -> [OpIds -> Ku!Errors \cup {"none", "conflict"}]]
<1> DEFINE o == Ku!Handler(r, q)
           w == Ku!Writing(q, o.claim, TRUE)
<1>1. /\ o \in [claim : Ku!Records, err : Ku!Errors]
      /\ Ku!Good(r, o.claim) /\ o.claim.phase # "absent"
      /\ Ku!SameEpoch(r, o.claim) \/ r.owner = NoGen \/ Ku!GivesUp(q, r)
  BY LeaseHandler
<1>2. \/ v3' = [calls EXCEPT ![p] = w] /\ v2' = v2
      \/ /\ v3' = [calls EXCEPT ![p] = Ku!Idle]
         /\ v2' = v2 \/ v2' = Ku!storeOp(p, q, o.err)
  BY Zenon DEF Ku!Decide
<1> HIDE DEF o
<1>3. w \in Ku!Calls /\ Ku!Fit(r, w)
  BY <1>1 DEF Ku!Writing, Ku!Calls, Ku!Fit
<1>4. v2' \in [Callers -> [OpIds -> Ku!Errors \cup {"none", "conflict"}]]
  <2>1. o.err \in Ku!Errors /\ q.op \in OpIds \cup {NoOp}
    BY <1>1, LeaseRequest
  <2>2. Ku!storeOp(p, q, o.err) \in [Callers -> [OpIds -> Ku!Errors \cup {"none", "conflict"}]]
    BY <2>1, TableTyped
  <2> QED
    BY <1>2, <2>2, Zenon
<1> HIDE DEF w
<1> QED
  BY <1>2, <1>3, <1>4, IdleFits, Zenon

\* A call goes on, or ends, and the lease stays as it is.
LEMMA LeaseMove ==
  ASSUME Ku!LeaseInv, NEW p \in Callers, NEW t, Ku!Fit(v1, t), v3' = [v3 EXCEPT ![p] = t],
         UNCHANGED <<v1, v4>>, v6' \subseteq Nat \X Gens,
         v2' \in [Callers -> [OpIds -> Ku!Errors \cup {"none", "conflict"}]]
  PROVE  Ku!LeaseSound
<1>1. v3 \in [Callers -> Ku!Calls] /\ \A d \in Callers : Ku!Fit(v1, v3[d])
  BY DEF Ku!LeaseInv
<1>2. t \in Ku!Calls
  BY DEF Ku!Fit
<1>3. v3' \in [Callers -> Ku!Calls] /\ \A d \in Callers : Ku!Fit(v1', v3'[d])
  BY <1>1, <1>2
<1>4. Ku!LeaseInv'
  BY <1>3 DEF Ku!LeaseInv
<1> QED
  BY <1>4 DEF Ku!LeaseSound, Ku!FencedStore, Ku!OwnerKeepsLiveClaim

\* A lease that is created has no owner, and nobody was granted it.
LEMMA CreatedGood ==
    /\ Ku!CreatedLease \in Ku!Records /\ Ku!Consistent(Ku!CreatedLease) /\ Ku!CreatedLease.owner = NoGen
    /\ Ku!CreatedLease.token = 0 /\ Ku!CreatedLease.phase = "unowned" /\ ~Ku!Lapsed(Ku!CreatedLease)
<1>1. Ku!AbsentRecord \in Ku!Records /\ Ku!Consistent(Ku!AbsentRecord)
  BY NoGenAssumption, TTLAssumption, MaxTokenAssumption, TokensAssumption, NoOpAssumption, Ku!AbsentRecordGood
<1> QED
  BY <1>1 DEF Ku!CreatedLease, Ku!AbsentRecord, Ku!Records, Ku!Consistent, Ku!HeldPhases, Ku!Phases, Ku!Lapsed

\* The expiry of a lease.
LEMMA ExpiredGood ==
  ASSUME Ku!SecondAssumption, NEW r \in Ku!Records, Ku!Consistent(r), Ku!Lapsed(r)
  PROVE  /\ Ku!Expired(r) \in Ku!Records /\ Ku!Consistent(Ku!Expired(r)) /\ Ku!Expired(r).owner = NoGen
         /\ Ku!Expired(r).token = r.token /\ Ku!Expired(r).phase = "unowned" /\ ~Ku!Lapsed(Ku!Expired(r))
         /\ r.owner # NoGen
<1> DEFINE e == Ku!Expired(r)
<1>1. e \in Ku!Records
  <2>1. NoGen \in Ku!Owners /\ "unowned" \in Ku!Phases /\ DefaultLease \in Int
    BY DEF Ku!SecondAssumption, Ku!Phases, Ku!Owners
  <2> QED
    BY <2>1, Zenon DEF Ku!Expired, Ku!Records
<1>2. /\ e.owner = NoGen /\ e.token = r.token /\ e.phase = "unowned" /\ e.pending = NoGen
      /\ r.token <= MaxSafeFencingToken /\ r.owner # NoGen
  BY DEF Ku!Expired, Ku!Records, Ku!Lapsed, Ku!Consistent
<1> HIDE DEF e
<1>3. Ku!Consistent(e) /\ ~Ku!Lapsed(e)
  BY <1>2 DEF Ku!Consistent, Ku!Lapsed, Ku!HeldPhases
<1> QED
  BY <1>1, <1>2, <1>3 DEF e

\* The read of the lease, which may create it, and the decision.
LEMMA GetSound ==
  ASSUME Ku!SecondAssumption, Ku!LeaseInv, NEW p \in Callers, NEW q \in Ku!Requests, Ku!getOrCreate(p, q)
  PROVE  Ku!LeaseSound
<1> DEFINE found == IF v1.phase = "absent" THEN Ku!CreatedLease ELSE v1
           t == [Ku!Idle EXCEPT !.pc = "expiring", !.req = q, !.new = Ku!Expired(found)]
<1>0. /\ v1 \in Ku!Records /\ Ku!Consistent(v1) /\ Ku!Covered(v1, v4)
      /\ v3 \in [Callers -> Ku!Calls] /\ \A d \in Callers : Ku!Fit(v1, v3[d])
      /\ v2 \in [Callers -> [OpIds -> Ku!Errors \cup {"none", "conflict"}]]
      /\ v6 \subseteq Nat \X Gens /\ (v1.phase = "absent" => v1.token = 0)
  BY DEF Ku!LeaseInv
<1>1. /\ found \in Ku!Records /\ Ku!Consistent(found) /\ found.phase # "absent"
      /\ Ku!SameEpoch(v1, found)
  BY <1>0, CreatedGood DEF Ku!SameEpoch, Ku!Consistent, Ku!HeldPhases
<1>2. \A d \in Callers : Ku!Fit(found, v3[d])
  <2>1. CASE v1.phase = "absent"
    <3>1. \A d \in Callers : v3[d].current => v3[d].pc \notin {"writing", "expiring"}
      BY <1>0, <2>1 DEF Ku!Fit, Ku!Lapsed, Ku!HeldPhases
    <3> HIDE DEF found
    <3> QED
      BY <1>0, <3>1, Zenon DEF Ku!Fit
  <2>2. CASE v1.phase # "absent"
    BY <1>0, <2>2
  <2> QED
    BY <2>1, <2>2
<1>3. /\ v1' = found /\ UNCHANGED <<v4, v6>>
      /\ \/ Ku!Lapsed(found) /\ v3' = [v3 EXCEPT ![p] = t] /\ v2' = v2
         \/ ~Ku!Lapsed(found) /\ Ku!Decide(p, q, found, v3)
  BY DEF Ku!getOrCreate
<1> HIDE DEF found
<1>4. /\ v3' \in [Callers -> Ku!Calls] /\ \A d \in Callers : Ku!Fit(found, v3'[d])
      /\ v2' \in [Callers -> [OpIds -> Ku!Errors \cup {"none", "conflict"}]]
  <2>1. CASE ~Ku!Lapsed(found) /\ Ku!Decide(p, q, found, v3)
    BY <1>0, <1>1, <1>2, <2>1, DecideFits
  <2>2. CASE Ku!Lapsed(found) /\ v3' = [v3 EXCEPT ![p] = t] /\ v2' = v2
    <3>1. Ku!Expired(found) \in Ku!Records
      BY <1>1, <2>2, ExpiredGood
    <3>2. /\ t \in Ku!Calls /\ t.pc = "expiring" /\ t.req = q /\ t.new = Ku!Expired(found)
      BY <3>1, IdleFits, Zenon DEF Ku!Calls
    <3> HIDE DEF t
    <3>3. Ku!Fit(found, t)
      BY <2>2, <3>2 DEF Ku!Fit
    <3> QED
      BY <1>0, <1>2, <2>2, <3>2, <3>3
  <2> QED
    BY <1>3, <2>1, <2>2
<1>5. Ku!Covered(found, v4)
  BY <1>0, <1>1 DEF Ku!Covered, Ku!SameEpoch
<1>6. Ku!LeaseInv'
  BY <1>0, <1>1, <1>3, <1>4, <1>5 DEF Ku!LeaseInv
<1> QED
  BY <1>1, <1>3, <1>6 DEF Ku!LeaseSound, Ku!FencedStore, Ku!OwnerKeepsLiveClaim, Ku!SameEpoch

\* The expiry is written, and the handler decides on what it wrote.
LEMMA ExpirySound ==
  ASSUME Ku!SecondAssumption, Ku!LeaseInv, NEW p \in Callers, Ku!UpdateExpired(p)
  PROVE  Ku!LeaseSound
<1>0. /\ v1 \in Ku!Records /\ Ku!Consistent(v1) /\ Ku!Covered(v1, v4)
      /\ v3 \in [Callers -> Ku!Calls] /\ \A d \in Callers : Ku!Fit(v1, v3[d])
      /\ v2 \in [Callers -> [OpIds -> Ku!Errors \cup {"none", "conflict"}]]
      /\ v6 \subseteq Nat \X Gens
  BY DEF Ku!LeaseInv
<1>1. /\ v3[p].pc = "expiring" /\ v3[p].req \in Ku!Requests
      /\ v3[p].current \in BOOLEAN /\ UNCHANGED <<v4, v6>>
  BY <1>0 DEF Ku!UpdateExpired, Ku!Fit, Ku!Calls
<1>2. CASE ~v3[p].current
  BY <1>0, <1>1, <1>2, LeaseMove, IdleFits DEF Ku!UpdateExpired
<1>3. CASE v3[p].current
  <2> DEFINE e == Ku!Expired(v1)
  <2>1. /\ Ku!Lapsed(v1) /\ v1' = e
        /\ Ku!Decide(p, v3[p].req, e, Ku!Outdate(v3))
    BY <1>0, <1>1, <1>3 DEF Ku!UpdateExpired, Ku!Fit
  <2>2. /\ e \in Ku!Records /\ Ku!Consistent(e) /\ e.owner = NoGen /\ e.token = v1.token
        /\ e.phase = "unowned" /\ ~Ku!Lapsed(e) /\ v1.owner # NoGen /\ v1.left < 0
    BY <1>0, <2>1, ExpiredGood DEF Ku!Lapsed
  <2> HIDE DEF e
  <2>3. /\ Ku!Outdate(v3) \in [Callers -> Ku!Calls]
        /\ \A d \in Callers : Ku!Fit(e, Ku!Outdate(v3)[d])
    BY <1>0, OutdatedFits DEF Ku!Fit
  <2>4. /\ v3' \in [Callers -> Ku!Calls] /\ \A d \in Callers : Ku!Fit(e, v3'[d])
        /\ v2' \in [Callers -> [OpIds -> Ku!Errors \cup {"none", "conflict"}]]
    BY <1>0, <1>1, <2>1, <2>2, <2>3, DecideFits
  <2>5. Ku!Covered(e, v4)
    BY <1>0, <2>2 DEF Ku!Covered
  <2>6. Ku!LeaseInv'
    BY <1>0, <1>1, <2>1, <2>2, <2>4, <2>5 DEF Ku!LeaseInv
  <2>7. Ku!FencedStore(v1, v1', v4, v4')
    BY <1>1, <2>1, <2>2 DEF Ku!FencedStore
  <2>8. Ku!OwnerKeepsLiveClaim
    BY <1>0, <2>2 DEF Ku!OwnerKeepsLiveClaim, Ku!Records
  <2> QED
    BY <2>6, <2>7, <2>8 DEF Ku!LeaseSound
<1> QED
  BY <1>1, <1>2, <1>3

\* The write of the new record.
LEMMA UpdateSound ==
  ASSUME Ku!SecondAssumption, Ku!LeaseInv, NEW p \in Callers, NEW answered \in BOOLEAN,
         Ku!Update(p, answered)
  PROVE  Ku!LeaseSound
<1> DEFINE q == v3[p].req
           new == v3[p].new
<1>0. /\ v1 \in Ku!Records /\ Ku!Consistent(v1) /\ Ku!Covered(v1, v4)
      /\ v3 \in [Callers -> Ku!Calls] /\ \A d \in Callers : Ku!Fit(v1, v3[d])
      /\ v2 \in [Callers -> [OpIds -> Ku!Errors \cup {"none", "conflict"}]]
      /\ v6 \subseteq Nat \X Gens
  BY DEF Ku!LeaseInv
<1>1. /\ v3[p].pc = "writing" /\ v3[p].current
      /\ v1' = new /\ v4' = v4 \cup Ku!GrantOf(new) /\ v6' = v6
      /\ v2' = v2 \/ \E err \in {"ok", "conflict"} : v2' = Ku!storeOp(p, q, err)
      /\ v3' = [Ku!Outdate(v3) EXCEPT ![p] = Ku!Idle]
  BY DEF Ku!Update, Ku!GrantOf
<1>2. /\ q \in Ku!Requests /\ Ku!Good(v1, new) /\ new.phase # "absent"
      /\ Ku!SameEpoch(v1, new) \/ v1.owner = NoGen \/ Ku!GivesUp(q, v1)
  BY <1>0, <1>1 DEF Ku!Fit
<1> HIDE DEF q, new
<1>3. /\ v3' \in [Callers -> Ku!Calls] /\ \A d \in Callers : Ku!Fit(new, v3'[d])
  <2>1. /\ Ku!Outdate(v3) \in [Callers -> Ku!Calls]
        /\ \A d \in Callers : Ku!Fit(new, Ku!Outdate(v3)[d])
    BY <1>0, OutdatedFits DEF Ku!Fit
  <2> QED
    BY <1>1, <2>1, IdleFits
<1>4. v2' \in [Callers -> [OpIds -> Ku!Errors \cup {"none", "conflict"}]]
  <2>1. q.op \in OpIds \cup {NoOp}
    BY <1>2, LeaseRequest
  <2>2. \A err \in {"ok", "conflict"} :
           Ku!storeOp(p, q, err) \in [Callers -> [OpIds -> Ku!Errors \cup {"none", "conflict"}]]
    BY <1>0, <2>1, TableTyped DEF Ku!Errors
  <2> QED
    BY <1>0, <1>1, <2>2
<1>5. new \in Ku!Records /\ Ku!Consistent(new) /\ Ku!FencedStep(v1, new)
  BY <1>2 DEF Ku!Good
<1>6. Ku!Covered(new, v4') /\ Ku!FencedStore(v1, new, v4, v4')
  BY NoGenAssumption, TTLAssumption, MaxTokenAssumption, TokensAssumption, NoOpAssumption, <1>0, <1>1, <1>5, Ku!StoreGranted
<1>7. Ku!LeaseInv'
  BY <1>0, <1>1, <1>2, <1>3, <1>4, <1>5, <1>6 DEF Ku!LeaseInv
<1>8. Ku!OwnerKeepsLiveClaim
  BY <1>1, <1>2 DEF Ku!OwnerKeepsLiveClaim, Ku!SameEpoch, Ku!GivesUp, q
<1> QED
  BY <1>1, <1>6, <1>7, <1>8 DEF Ku!LeaseSound

\* Time passes.
LEMMA AgeSound ==
  ASSUME Ku!LeaseInv, Ku!Tick
  PROVE  Ku!LeaseSound
<1>0. /\ v1 \in Ku!Records /\ Ku!Consistent(v1) /\ Ku!Covered(v1, v4)
      /\ v3 \in [Callers -> Ku!Calls] /\ \A d \in Callers : Ku!Fit(v1, v3[d])
      /\ v2 \in [Callers -> [OpIds -> Ku!Errors \cup {"none", "conflict"}]]
      /\ v6 \subseteq Nat \X Gens /\ (v1.phase = "absent" => v1.token = 0)
  BY DEF Ku!LeaseInv
<1> DEFINE a == Ku!Age(v1)
<1>1. v1' = a /\ UNCHANGED <<v2, v3, v4, v6>>
  BY DEF Ku!Tick
<1>2. /\ Ku!Alike(v1, a) /\ (Ku!Lapsed(v1) => Ku!Lapsed(a) /\ Ku!Expired(a) = Ku!Expired(v1))
  <2> DEFINE n == IF v1.left < 0 THEN -1 ELSE v1.left - 1
  <2>1. n \in Int /\ (v1.left < 0 => n < 0) /\ a = [v1 EXCEPT !.left = n]
    BY <1>0 DEF Ku!Age, Ku!Records
  <2> HIDE DEF n, a
  <2>2. Ku!Alike(v1, a) /\ a.left = n
    BY NoGenAssumption, TTLAssumption, MaxTokenAssumption, TokensAssumption, NoOpAssumption, <1>0, <2>1, Ku!AlikeLeft
  <2>3. Ku!Lapsed(v1) => Ku!Lapsed(a)
    BY <2>1, <2>2 DEF Ku!Alike, Ku!Lapsed
  <2>4. Ku!Expired(a) = Ku!Expired(v1)
    BY <1>0, <2>1, Zenon DEF Ku!Expired, Ku!Records
  <2> QED
    BY <2>2, <2>3, <2>4
<1>3. a \in Ku!Records /\ Ku!Consistent(a) /\ Ku!SameEpoch(v1, a) /\ a.phase = v1.phase
  BY NoGenAssumption, TTLAssumption, MaxTokenAssumption, TokensAssumption, NoOpAssumption, <1>0, <1>2, Ku!AlikeConsistent DEF Ku!Alike
<1> HIDE DEF a
<1>4. ASSUME NEW d \in Callers PROVE Ku!Fit(a, v3[d])
  <2>1. Ku!Fit(v1, v3[d])
    BY <1>0
  <2>2. \A s : Ku!Good(v1, s) => Ku!Good(a, s)
    BY <1>3 DEF Ku!Good, Ku!FencedStep, Ku!SameEpoch
  <2> QED
    BY <1>2, <1>3, <2>1, <2>2 DEF Ku!Fit, Ku!SameEpoch, Ku!GivesUp
<1>5. Ku!Covered(a, v4)
  BY <1>0, <1>3 DEF Ku!Covered, Ku!SameEpoch
<1>6. \A d \in Callers : Ku!Fit(v1', v3'[d])
  BY <1>1, <1>4
<1>7. a.phase = "absent" => a.token = 0
  BY <1>0, <1>3 DEF Ku!SameEpoch
<1>8. Ku!LeaseInv'
  BY <1>0, <1>1, <1>3, <1>5, <1>6, <1>7 DEF Ku!LeaseInv
<1> QED
  BY <1>1, <1>3, <1>8 DEF Ku!LeaseSound, Ku!FencedStore, Ku!OwnerKeepsLiveClaim, Ku!SameEpoch

\* Every step is sound.
LEMMA LeaseStep ==
  ASSUME Ku!AskedAssumption, Ku!SecondAssumption, Ku!LeaseInv, [Ku!Next]_(Ku!vars)
  PROVE  Ku!LeaseSound
<1>0. /\ v2 \in [Callers -> [OpIds -> Ku!Errors \cup {"none", "conflict"}]]
      /\ v6 \subseteq Nat \X Gens /\ \A d \in Callers : Ku!Fit(v1, v3[d])
  BY DEF Ku!LeaseInv
<1>1. ASSUME NEW p \in Callers, Ku!UpdateConflict(p) PROVE Ku!LeaseSound
  <2> DEFINE q == v3[p].req
  <2>1. /\ v3' = [v3 EXCEPT ![p] = Ku!Idle] /\ UNCHANGED <<v1, v4>>
        /\ v3[p].pc = "writing"
        /\ v2' = v2 \/ v2' = Ku!storeOp(p, q, "conflict")
        /\ v6' = v6 \/ (q.kind = "release" /\ v6' = v6 \cup {<<q.token, q.gen>>})
    BY <1>1 DEF Ku!UpdateConflict
  <2>2. q \in Ku!Requests
    BY <1>0, <2>1 DEF Ku!Fit
  <2> HIDE DEF q
  <2>3. q.op \in OpIds \cup {NoOp} /\ q.gen \in Gens /\ (q.kind = "release" => q.token \in Nat)
    BY <2>2, LeaseRequest DEF Ku!Request
  <2>4. v2' \in [Callers -> [OpIds -> Ku!Errors \cup {"none", "conflict"}]]
    BY <1>0, <2>1, <2>3, TableTyped
  <2>5. v6' \subseteq Nat \X Gens
    BY <1>0, <2>1, <2>3
  <2> QED
    BY <2>1, <2>4, <2>5, LeaseMove, IdleFits, Zenon
<1>2. ASSUME NEW p \in Callers, Ku!FailCall(p) \/ Ku!Restart(p) PROVE Ku!LeaseSound
  <2>1. /\ v3' = [v3 EXCEPT ![p] = Ku!Idle] /\ UNCHANGED <<v1, v4, v6>>
        /\ v2' \in [Callers -> [OpIds -> Ku!Errors \cup {"none", "conflict"}]]
    BY <1>0, <1>2 DEF Ku!FailCall, Ku!Restart
  <2> QED
    BY <1>0, <2>1, LeaseMove, IdleFits, Zenon
<1>3. CASE UNCHANGED Ku!vars
  BY <1>3 DEF Ku!vars, Ku!LeaseInv, Ku!LeaseSound, Ku!FencedStore, Ku!OwnerKeepsLiveClaim
<1>4. ASSUME NEW p \in Callers, NEW q \in KubernetesAsked, Ku!getOrCreate(p, q) PROVE Ku!LeaseSound
  BY <1>4, GetSound DEF Ku!AskedAssumption
<1> QED
  BY <1>1, <1>2, <1>3, <1>4, ExpirySound, UpdateSound, AgeSound DEF Ku!Next

\* At first there is no lease and no call.
LEMMA LeaseInit == Ku!Init => Ku!LeaseInv /\ Ku!F!FInit
<1> SUFFICES ASSUME Ku!Init PROVE Ku!LeaseInv /\ Ku!F!FInit
  OBVIOUS
<1>1. /\ v1 \in Ku!Records /\ Ku!Consistent(v1) /\ Ku!Covered(v1, v4) /\ v1.token = 0
      /\ v1.owner = NoGen
  BY NoGenAssumption, TTLAssumption, MaxTokenAssumption, TokensAssumption, NoOpAssumption, Ku!AbsentRecordGood, Ku!NothingGranted DEF Ku!Init, Ku!AbsentRecord
<1>2. v3 \in [Callers -> Ku!Calls] /\ \A p \in Callers : Ku!Fit(v1, v3[p])
  BY IdleFits DEF Ku!Init
<1>3. v2 \in [Callers -> [OpIds -> Ku!Errors \cup {"none", "conflict"}]] /\ v6 \subseteq Nat \X Gens
  BY DEF Ku!Init
<1> QED
  BY <1>1, <1>2, <1>3 DEF Ku!LeaseInv, Ku!F!FInit, Ku!Init

\* A sound step is one of the fenced claim, and the invariant includes the types.
LEMMA LeaseKept ==
  /\ Ku!Init => Ku!LeaseInv /\ Ku!F!FInit
  /\ Ku!LeaseInv /\ [Ku!Next]_(Ku!vars)
        => Ku!LeaseInv' /\ [Ku!F!FNext]_(Ku!F!fvars) /\ Ku!OwnerKeepsLiveClaim
  /\ Ku!LeaseInv => Ku!TypeOK
<1>1. Ku!LeaseSound => [Ku!F!FNext]_(Ku!F!fvars)
  BY DEF Ku!LeaseSound, Ku!FencedStore, Ku!F!FNext, Ku!F!Grant, Ku!F!Lose, Ku!F!fvars
<1>2. Ku!LeaseInv => Ku!TypeOK
  BY DEF Ku!LeaseInv, Ku!TypeOK, Ku!Calls, Ku!Covered
<1> QED
  BY <1>1, <1>2, LeaseInit, LeaseStep, KuAskedAssumption, KuSecondAssumption DEF Ku!LeaseSound

\* For any processes and requests, writes lost to a conflict, failed calls and restarts
\* included, the lease, the tables and the calls keep to their types, the lease is a fenced
\* claim, and nobody loses a live claim except by a release or a commit of its own
\* (backend/kubernetes: the resource version guards every update).
THEOREM LeaseIsFenced ==
  Ku!Spec => []Ku!TypeOK /\ Ku!F!FSpec /\ [][Ku!OwnerKeepsLiveClaim]_(Ku!vars)
  BY LeaseKept, PTL DEF Ku!Spec, Ku!F!FSpec

-----------------------------------------------------------------------------
(* Proofs: the memory backend.                                             *)

\* The inductive invariant of the memory backend.  Without Covered a grant could
\* repeat a token: nothing else says that no earlier grant is beyond the stored one.
IInv == TypeOK /\ RecordConsistent /\ Covered(claim, granted)

\* A call in flight carries a request.
LEMMA CallTyped ==
  ASSUME TypeOK, NEW c \in Callers, call[c] # NoCall
  PROVE  Request(call[c], call[c].ttl) /\ call[c].op \in OpIds \cup {NoOp}
<1>1. call[c] \in Requests
  BY DEF TypeOK
<1>2. /\ call[c].kind \in {"acquire", "renew", "prepare", "commit", "abort", "release"}
      /\ call[c].gen \in Gens /\ call[c].op \in OpIds \cup {NoOp}
      /\ call[c].kind \in {"prepare", "commit"} => call[c].to \in Gens
      /\ call[c].kind \notin {"abort", "release"} => call[c].ttl \in TTLs
  BY <1>1
     DEF Requests, AcquireRequests, RenewRequests, TransferRequests,
         CommitRequests, AbortRequests, ReleaseRequests
<1>3. \A t \in TTLs : t \in Int
  BY TTLAssumption
<1> QED
  BY <1>2, <1>3, Zenon DEF Request

\* The steps that serve nothing and expire nothing by force.
Aside ==
    /\ claim' \in {claim, expireLocked(claim), Age(claim)}
    /\ claim' # claim => UNCHANGED call
    /\ UNCHANGED <<ops, granted>>
    /\ call' \in [Callers -> Requests \cup {NoCall}] /\ closed' \in BOOLEAN

\* The call c is served on the record as it is.
Serving(c) ==
    call[c] # NoCall /\ Serve(c, Handled(claim, call[c], call[c].ttl))

\* There are no other steps.
LEMMA MemorySteps ==
  ASSUME TypeOK, [Next]_vars
  PROVE  (\E c \in Callers : Serving(c)) \/ Aside \/ ForceExpire
<1>1. ASSUME NEW c \in Callers,
             \/ ServeAcquire(c) \/ ServeRenew(c) \/ ServePrepare(c)
             \/ ServeCommit(c) \/ ServeAbort(c) \/ ServeRelease(c)
      PROVE  Serving(c)
  BY <1>1 DEF ServeAcquire, ServeRenew, ServePrepare, ServeCommit, ServeAbort,
              ServeRelease, Serving, Handled, NoCall
<1>2. ASSUME NEW c \in Callers,
             FailCall(c) \/ \E req \in Asked : beforeMutate(c, req)
      PROVE  Aside
  BY <1>2, AskedAssumption DEF FailCall, beforeMutate, Aside, TypeOK
<1>3. CASE GetClaim \/ Close \/ Tick \/ UNCHANGED vars
  BY <1>3, Zenon DEF GetClaim, Close, Tick, vars, Aside, TypeOK
<1> QED
  BY <1>1, <1>2, <1>3 DEF Next

\* What a step does to the record when it does not serve a call.
LEMMA UnservedSteps ==
  ASSUME IInv, Aside \/ ForceExpire
  PROVE  Good(claim, claim') /\ claim'.token = claim.token
<1>1. claim \in Records /\ Consistent(claim)
  BY DEF IInv, TypeOK, RecordConsistent
<1>2. CASE Aside
  <2>1. Good(claim, claim) /\ Good(claim, Age(claim)) /\ Age(claim).token = claim.token
    BY <1>1, AgeGood DEF Good, FencedStep, Age, Records
  <2>2. Good(claim, expireLocked(claim)) /\ expireLocked(claim).token = claim.token
    BY <1>1, ExpireGood DEF Good, FencedStep
  <2> QED
    BY <1>2, <2>1, <2>2 DEF Aside
<1>3. CASE ForceExpire
  <2> DEFINE r == [claim EXCEPT !.left = -1]
  <2>1. /\ r \in Records /\ Consistent(r)
        /\ r.token = claim.token /\ r.owner = claim.owner
    BY <1>1 DEF Records, Consistent
  <2>2. claim' = expireLocked(r)
    BY <1>3 DEF ForceExpire
  <2> HIDE DEF r
  <2> QED
    BY <2>1, <2>2, ExpireGood DEF Good, FencedStep
<1> QED
  BY <1>2, <1>3

\* Every step of the store keeps the invariant and is one of the fenced claim.
LEMMA MemoryStep ==
  ASSUME IInv, [Next]_vars
  PROVE  IInv' /\ FencedStore(claim, claim', granted, granted')
<1>0. /\ TypeOK /\ claim \in Records /\ Consistent(claim) /\ Covered(claim, granted)
      /\ (\E c \in Callers : Serving(c)) \/ Aside \/ ForceExpire
  BY MemorySteps DEF IInv, TypeOK, RecordConsistent
<1>1. ASSUME Good(claim, claim'),
             \/ granted' = granted \cup GrantOf(claim')
             \/ granted' = granted /\ claim'.token = claim.token,
             ops' \in [OpIds -> Errors \cup {"none"}],
             call' \in [Callers -> Requests \cup {NoCall}], closed' \in BOOLEAN
      PROVE  IInv' /\ FencedStore(claim, claim', granted, granted')
  <2>1. claim' \in Records /\ Consistent(claim') /\ FencedStep(claim, claim')
    BY <1>1 DEF Good
  <2>2. Covered(claim', granted') /\ FencedStore(claim, claim', granted, granted')
    BY <1>0, <1>1, <2>1, StoreGranted
  <2> QED
    BY <1>1, <2>1, <2>2 DEF IInv, TypeOK, RecordConsistent, Covered
<1>2. ASSUME NEW c \in Callers, Serving(c)
      PROVE  IInv' /\ FencedStore(claim, claim', granted, granted')
  <2> DEFINE o == Handled(claim, call[c], call[c].ttl)
  <2>1. Request(call[c], call[c].ttl) /\ call[c].op \in OpIds \cup {NoOp}
    BY <1>0, <1>2, CallTyped DEF Serving
  <2>2. Good(claim, o.claim) /\ o.err \in Errors /\ Good(claim, claim)
    BY <1>0, <2>1, HandledGood, HandledRecord DEF Good, FencedStep
  <2> HIDE DEF o
  <2>3. /\ call' \in [Callers -> Requests \cup {NoCall}] /\ closed' \in BOOLEAN
        /\ \/ claim' = claim /\ granted' = granted /\ ops' = ops
           \/ /\ claim' = o.claim /\ granted' = granted \cup GrantOf(o.claim)
              /\ ops' = storeOp(call[c].op, o.err)
    BY <1>0, <1>2 DEF Serving, Serve, GrantOf, TypeOK, o
  <2>4. ops' \in [OpIds -> Errors \cup {"none"}]
    BY <1>0, <2>1, <2>2, <2>3 DEF TypeOK, storeOp
  <2> QED
    BY <1>1, <2>2, <2>3, <2>4
<1>3. CASE Aside \/ ForceExpire
  <2>1. Good(claim, claim') /\ claim'.token = claim.token
    BY <1>3, UnservedSteps
  <2>2. /\ granted' = granted /\ ops' \in [OpIds -> Errors \cup {"none"}]
        /\ call' \in [Callers -> Requests \cup {NoCall}] /\ closed' \in BOOLEAN
    BY <1>0, <1>3 DEF Aside, ForceExpire, TypeOK
  <2> QED
    BY <1>1, <2>1, <2>2
<1> QED
  BY <1>0, <1>2, <1>3

\* A step of the stored record that is fenced is one of the abstract claim.
LEMMA MemoryFenced ==
  ASSUME FencedStore(claim, claim', granted, granted')
  PROVE  [F!FNext]_(F!fvars)
  BY DEF FencedStore, F!FNext, F!Grant, F!Lose, F!fvars

\* The store starts in a state that satisfies the invariant and that is an initial
\* state of the fenced claim.
LEMMA MemoryInit == Init => IInv /\ F!FInit
<1> SUFFICES ASSUME Init PROVE IInv /\ F!FInit
  OBVIOUS
<1>1. TypeOK /\ RecordConsistent /\ Covered(claim, granted)
  BY AbsentRecordGood, NothingGranted, Zenon DEF Init, TypeOK, RecordConsistent
<1>2. F!FInit
  BY DEF Init, AbsentRecord, F!FInit
<1> QED
  BY <1>1, <1>2 DEF IInv

\* In one step of the store a generation loses a live claim only by its own release or
\* commit under the current token.
LEMMA MemoryKeeps ==
  ASSUME IInv, [Next]_vars, claim.owner # NoGen, claim.left >= 0,
         <<claim.owner, claim.token>> # <<claim'.owner, claim'.token>>
  PROVE  \/ ForceExpire
         \/ \E c \in Callers : /\ Served(c)
                               /\ call[c].kind \in {"release", "commit"}
                               /\ call[c].gen = claim.owner
                               /\ call[c].token = claim.token
<1>0. claim \in Records /\ Consistent(claim) /\ TypeOK
  BY DEF IInv, TypeOK, RecordConsistent
<1>1. ~Aside
  BY <1>0 DEF Aside, expireLocked, Lapsed, Age, Records
<1>2. ASSUME NEW c \in Callers, Serving(c)
      PROVE  Served(c) /\ GivesUp(call[c], claim)
  <2>1. Request(call[c], call[c].ttl) /\ Served(c)
    BY <1>0, <1>2, CallTyped DEF Serving, Serve, Served, TypeOK
  <2>2. claim' = claim \/ claim' = Handled(claim, call[c], call[c].ttl).claim
    BY <1>2 DEF Serving, Serve
  <2> QED
    BY <1>0, <2>1, <2>2, HandledKeeps DEF SameEpoch
<1> QED
  BY <1>0, <1>1, <1>2, MemorySteps DEF GivesUp

\* In one step of the store a lease that has run out is not revived.
LEMMA MemoryNotRevived ==
  ASSUME IInv, [Next]_vars, Lapsed(claim), claim'.owner = claim.owner
  PROVE  claim'.token > claim.token \/ claim'.left < 0
<1>0. /\ claim \in Records /\ Consistent(claim) /\ TypeOK
      /\ claim.owner # NoGen /\ claim.left < 0
  BY DEF IInv, TypeOK, RecordConsistent, Lapsed, Consistent
<1>1. CASE Aside
  <2>1. expireLocked(claim).owner = NoGen /\ Age(claim).left = -1
    BY <1>0 DEF expireLocked, Vacate, Age, Records
  <2> QED
    BY <1>0, <1>1, <2>1 DEF Aside
<1>2. CASE ForceExpire
  <2> DEFINE r == [claim EXCEPT !.left = -1]
  <2>1. r \in Records /\ Lapsed(r)
    BY <1>0 DEF Records, Lapsed
  <2>2. claim' = Vacate(r)
    BY <1>2, <2>1 DEF ForceExpire, expireLocked
  <2> HIDE DEF r
  <2> QED
    BY <1>0, <2>1, <2>2 DEF Vacate, Records
<1>3. ASSUME NEW c \in Callers, Serving(c)
      PROVE  claim'.token > claim.token \/ claim'.left < 0
  <2>1. Request(call[c], call[c].ttl)
    BY <1>0, <1>3, CallTyped DEF Serving
  <2>2. claim' = claim \/ claim' = Handled(claim, call[c], call[c].ttl).claim
    BY <1>3 DEF Serving, Serve
  <2> QED
    BY <1>0, <2>1, <2>2, HandledNotRevived
<1> QED
  BY <1>0, <1>1, <1>2, <1>3, MemorySteps

\* In one step of the store a recorded operation id changes nothing.
LEMMA MemoryReplay ==
  ASSUME TypeOK, [Next]_vars, NEW c \in Callers, Served(c), call[c].op # NoOp,
         ops[call[c].op] # "none"
  PROVE  UNCHANGED <<claim, ops>>
<1>1. CASE Aside \/ ForceExpire
  BY <1>1 DEF Aside, ForceExpire, Served
<1>2. ASSUME NEW d \in Callers, Serving(d) PROVE UNCHANGED <<claim, ops>>
  <2>1. d = c
    BY <1>2 DEF Serving, Serve, Served, TypeOK
  <2> QED
    BY <1>2, <2>1 DEF Serving, Serve, recallOp
<1> QED
  BY <1>1, <1>2, MemorySteps

\* In every reachable state of the memory backend the invariant holds.
THEOREM MemoryInvariance == Spec => []IInv
<1>1. IInv /\ [Next]_vars => IInv'
  BY MemoryStep
<1> QED
  BY <1>1, MemoryInit, PTL DEF Spec

\* The fields of the stored record always agree (memory.go's handlers set owner, phase and
\* successor together), and its token has not run past MaxSafeFencingToken.
THEOREM AlwaysConsistent == Spec => []RecordConsistent
<1>1. IInv => RecordConsistent
  BY DEF IInv
<1> QED
  BY <1>1, MemoryInvariance, PTL

\* The memory backend implements the abstract fenced claim, whatever calls are delayed,
\* repeated or lost.
THEOREM Refinement == Spec => ImplementsFencedClaim
<1>1. IInv /\ [Next]_vars => [F!FNext]_(F!fvars)
  BY MemoryStep, MemoryFenced
<1> QED
  BY <1>1, MemoryInit, MemoryInvariance, PTL DEF Spec, ImplementsFencedClaim, F!FSpec

\* No fencing token is ever granted to two generations.
THEOREM OneOwner == Spec => []EpochHasOneOwner
<1>1. IInv => EpochHasOneOwner
  BY DEF IInv, Covered, EpochHasOneOwner, F!OneOwnerPerEpoch
<1> QED
  BY <1>1, MemoryInvariance, PTL

\* A generation keeps a live claim until it gives it up itself under the current token:
\* no delayed call of an earlier epoch takes it away (memory.go compares owner and token).
THEOREM LiveClaimKept == Spec => OwnerKeepsLiveClaim
<1> DEFINE A == claim.owner # NoGen /\ claim.left >= 0
                  /\ <<claim.owner, claim.token>> # <<claim'.owner, claim'.token>>
                => \/ ForceExpire
                   \/ \E c \in Callers : /\ Served(c)
                                         /\ call[c].kind \in {"release", "commit"}
                                         /\ call[c].gen = claim.owner
                                         /\ call[c].token = claim.token
<1>1. IInv /\ [Next]_vars => [A]_vars
  <2>1. IInv /\ [Next]_vars => A
    BY MemoryKeeps
  <2> QED
    BY <2>1
<1> QED
  BY <1>1, MemoryInvariance, PTL DEF Spec, OwnerKeepsLiveClaim

\* A lease that has run out is not revived: its owner comes back under a larger token only
\* (every handler of memory.go expires the record first).
THEOREM NotRevived == Spec => LapsedLeaseNotRevived
<1> DEFINE A == Lapsed(claim) /\ claim'.owner = claim.owner
                => claim'.token > claim.token \/ claim'.left < 0
<1>1. IInv /\ [Next]_vars => [A]_vars
  <2>1. IInv /\ [Next]_vars => A
    BY MemoryNotRevived
  <2> QED
    BY <2>1
<1> QED
  BY <1>1, MemoryInvariance, PTL DEF Spec, LapsedLeaseNotRevived

\* A repeated operation id that was already recorded changes neither the record nor the
\* table (recallOp and storeOp of memory.go).
THEOREM ReplayInert == Spec => ReplayIsInert
<1> DEFINE A == \A c \in Callers :
                   Served(c) /\ call[c].op # NoOp /\ ops[call[c].op] # "none"
                   => UNCHANGED <<claim, ops>>
<1>1. IInv /\ [Next]_vars => [A]_vars
  <2>1. IInv /\ [Next]_vars => A
    BY MemoryReplay DEF IInv
  <2> QED
    BY <2>1
<1> QED
  BY <1>1, MemoryInvariance, PTL DEF Spec, ReplayIsInert

-----------------------------------------------------------------------------

\* One repeatable operation per generation.
AcquireOp == [kind |-> "acquire", gen |-> g1, seq |-> 1]
MCOpIds == {AcquireOp, [kind |-> "renew", gen |-> g2, seq |-> 1]}

\* S itself, as an image: TLC then lists it once, not on every step.
Listed(S) == {q : q \in S}

\* What is asked of the memory backend: everything, but g2 renews with its operation id
\* only, g1 alone reserves a claim for itself, and nobody commits to itself.
MCAsked == Listed(
    {q \in Requests : /\ q.kind = "renew" => (q.gen = g2) = (q.op # NoOp)
                      /\ q.kind = "prepare" => q.to # q.gen \/ q.gen = g1
                      /\ q.kind = "commit" => q.to # q.gen})

\* What clients ask of PostgreSQL: g1 alone transfers, to g2, renews and aborts.
MCPostgresAsked == Listed(
    {q \in Requests : /\ q.kind \in {"prepare", "commit"} => q.gen = g1 /\ q.to = g2
                      /\ q.kind \in {"renew", "abort"} => q.gen = g1})

\* Of Redis and Kubernetes the same, but g1 acquires with its operation id only; of
\* Kubernetes it renews, transfers and aborts under its first token only.
MCRedisAsked == Listed(
    {q \in MCPostgresAsked : q.kind = "acquire" => (q.gen = g1) = (q.op # NoOp)})
MCKubernetesAsked == Listed(
    {q \in MCRedisAsked : q.kind \in {"acquire", "release"} \/ q.token = 1})

\* One client of PostgreSQL whose clock is ahead by a time unit.
MCSkew == [c \in Clients |-> IF c = "fast" THEN 1 ELSE 0]

\* The two callers of the memory and Redis backends, and the two processes of the
\* Kubernetes one, are interchangeable; PostgreSQL's have names and are left alone.
CallerSymmetry == Permutations(Callers)

-----------------------------------------------------------------------------

\* PostgreSQL, with clients whose clocks differ and a table that takes insertions.
Pg == INSTANCE PostgresBackend WITH
    Gens <- Gens, NoGen <- NoGen, NoOp <- NoOp, TTLs <- TTLs, Asked <- PostgresAsked,
    MaxSafeFencingToken <- MaxSafeFencingToken, Callers <- Clients,
    Skew <- Skew, MaxSkew <- MaxSkew, ReasonDefault <- "text", Tokens <- Tokens,
    OpIds <- OpIds,
    row <- v1, ops <- v2, tx <- v3, granted <- v4, won <- v5

ASSUME PgAskedAssumption == Pg!AskedAssumption
ASSUME PgSkewAssumption == Pg!SkewAssumption
ASSUME PgReasonAssumption == Pg!ReasonAssumption

\* Redis, far from the tokens that a double cannot count.
Re == INSTANCE RedisBackend WITH
    Gens <- Gens, NoGen <- NoGen, NoOp <- NoOp, TTLs <- TTLs, Asked <- RedisAsked,
    MaxSafeFencingToken <- MaxSafeFencingToken, LuaMaxExact <- LuaMaxExact,
    TokenBound <- TokenBound,
    Callers <- Callers, Tokens <- Tokens, OpIds <- OpIds,
    claim <- v1, ops <- v2, call <- v3, granted <- v4, handed <- v5, won <- v6

ASSUME ReAskedAssumption == Re!AskedAssumption
ASSUME ReExactAssumption == Re!ExactAssumption

-----------------------------------------------------------------------------

AllInit ==
    /\ Init
    /\ \/ part = "memory" /\ Blank1
       \/ part = "postgres" /\ Pg!Init /\ Blank6
       \/ part = "redis" /\ Re!Init
       \/ part = "kubernetes" /\ Ku!Init

AllNext ==
    /\ UNCHANGED part
    /\ \/ part = "memory" /\ Next /\ UNCHANGED <<v1, v2, v3, v4, v5, v6>>
       \/ part = "postgres" /\ Pg!Next /\ UNCHANGED <<vars, v6>>
       \/ part = "redis" /\ Re!Next /\ UNCHANGED vars
       \/ part = "kubernetes" /\ Ku!Next /\ UNCHANGED vars

AllSpec == AllInit /\ [][AllNext]_all

-----------------------------------------------------------------------------

\* The variables keep to their types (the record, the operations table and the calls
\* under way).
WellFormed == /\ TypeOK
              /\ part = "postgres" => Pg!TypeOK
              /\ part = "redis" => Re!TypeOK
              /\ part = "kubernetes" => Ku!TypeOK

\* What the servers store is a fenced claim: one owner at a time and a new, larger token
\* for each ownership (docs/architecture.md, invariants 1 and 2).  It is so in PostgreSQL
\* whatever the clients' clocks show and wherever a transaction is cut off, in Redis
\* whatever round trips fail and however calls interleave between them, and in Kubernetes
\* although every handler decides on a copy that may be out of date.
RemoteIsFenced ==
    /\ part = "postgres" => Pg!F!FInit
    /\ part = "redis" => Re!F!FInit
    /\ part = "kubernetes" => Ku!F!FInit
    /\ [][/\ part = "postgres" => [Pg!F!FNext]_(Pg!F!fvars)
          /\ part = "redis" => [Re!F!FNext]_(Re!F!fvars)
          /\ part = "kubernetes" => [Ku!F!FNext]_(Ku!F!fvars)]_all

\* A generation loses a live claim only by its own release or commit under the current
\* token, and nobody renews a lease of the memory backend that has run out.  What an earlier
\* epoch sent arrives too late; in PostgreSQL the lease has run out on the clock of the
\* client that takes the row (FOR UPDATE in getClaimForUpdate).
LiveClaimIsKept ==
    /\ OwnerKeepsLiveClaim /\ LapsedLeaseNotRevived
    /\ [][/\ part = "postgres" => Pg!OwnerLosesOnlyLapsed
          /\ part = "redis" => Re!OwnerKeepsLiveClaim
          /\ part = "kubernetes" => Ku!OwnerKeepsLiveClaim]_all

\* A commit that Redis acknowledged or recorded as done did hand the claim to the
\* successor under the next token, although the check before the script and the script
\* are two round trips (CommitTransfer).
AcknowledgedCommitHappened == part = "redis" => Re!AcknowledgedCommitHappened

\* On every record that the Redis server reaches, the in-process Local grants, renews,
\* hands over and releases as the scripts do wherever both accept the request, except
\* at the very instant a lease ends (local.go, "mirroring Lua script behavior").
LocalAgreesOnGrants == part = "redis" => Re!LocalAgreesOnGrants

-----------------------------------------------------------------------------
(* Proofs: the four together.                                              *)

\* What holds of the memory backend holds in every behaviour of this module: where
\* another backend runs, the memory backend rests in its initial state.
THEOREM AllIsMemory == AllSpec => Spec
<1>1. AllInit => Init
  BY DEF AllInit
<1>2. [AllNext]_all => [Next]_vars
  BY DEF AllNext, all, vars
<1> QED
  BY <1>1, <1>2, PTL DEF AllSpec, Spec

\* Every backend's invariant, where it runs.
RunInv ==
    /\ IInv
    /\ part = "postgres" => Pg!RowInv
    /\ part = "redis" => Re!ScriptInv
    /\ part = "kubernetes" => Ku!LeaseInv

\* What a step of the server does, where it runs.
RemoteSound ==
    /\ part = "postgres" => [Pg!F!FNext]_(Pg!F!fvars) /\ Pg!OwnerLosesOnlyLapsed
    /\ part = "redis" => [Re!F!FNext]_(Re!F!fvars) /\ Re!OwnerKeepsLiveClaim
    /\ part = "kubernetes" => [Ku!F!FNext]_(Ku!F!fvars) /\ Ku!OwnerKeepsLiveClaim

\* What PostgreSQL and Redis guarantee by themselves.
LEMMA RowRun ==
    /\ Pg!Init => Pg!RowInv /\ Pg!F!FInit
    /\ Pg!RowInv /\ [Pg!Next]_(Pg!vars)
          => Pg!RowInv' /\ [Pg!F!FNext]_(Pg!F!fvars) /\ Pg!OwnerLosesOnlyLapsed
    /\ Pg!RowInv => Pg!TypeOK
  BY Pg!RowKept, PgAskedAssumption, PgSkewAssumption, NoGenAssumption, TTLAssumption,
     MaxTokenAssumption, TokensAssumption, NoOpAssumption

LEMMA ScriptRun ==
    /\ Re!Init => Re!ScriptInv /\ Re!F!FInit
    /\ Re!ScriptInv /\ [Re!Next]_(Re!vars)
          => Re!ScriptInv' /\ [Re!F!FNext]_(Re!F!fvars) /\ Re!OwnerKeepsLiveClaim
    /\ Re!ScriptInv => Re!TypeOK /\ Re!AcknowledgedCommitHappened /\ Re!LocalAgreesOnGrants
  BY Re!ScriptKept, ReAskedAssumption, ReExactAssumption, NoGenAssumption, TTLAssumption,
     MaxTokenAssumption, TokensAssumption, NoOpAssumption

\* At first the invariant holds and nobody owns anything.
LEMMA RunInit ==
    AllInit => /\ RunInv
               /\ part = "postgres" => Pg!F!FInit
               /\ part = "redis" => Re!F!FInit
               /\ part = "kubernetes" => Ku!F!FInit
  BY MemoryInit, RowRun, ScriptRun, LeaseKept DEF AllInit, RunInv

\* Every step keeps the invariant and is sound.
LEMMA RunStep == RunInv /\ [AllNext]_all => RunInv' /\ RemoteSound
<1> SUFFICES ASSUME RunInv, [AllNext]_all PROVE RunInv' /\ RemoteSound
  OBVIOUS
<1>1. part' = part /\ [Next]_vars
  BY DEF AllNext, all, vars
<1>2. /\ part = "postgres" => [Pg!Next]_(Pg!vars)
      /\ part = "redis" => [Re!Next]_(Re!vars)
      /\ part = "kubernetes" => [Ku!Next]_(Ku!vars)
  BY DEF AllNext, all, Pg!vars, Re!vars, Ku!vars
<1>3. IInv'
  BY <1>1, MemoryStep DEF RunInv
<1> QED
  BY <1>1, <1>2, <1>3, RowRun, ScriptRun, LeaseKept DEF RunInv, RemoteSound

LEMMA RunInvariant == AllSpec => []RunInv /\ [][RemoteSound]_all
  BY RunInit, RunStep, PTL DEF AllSpec

\* For any generations, callers, clients, clocks and requests the records, the operations
\* tables and the calls under way keep to their types.
THEOREM AlwaysWellFormed == AllSpec => []WellFormed
<1>1. RunInv => WellFormed
  BY RowRun, ScriptRun, LeaseKept DEF RunInv, IInv, WellFormed
<1> QED
  BY <1>1, RunInvariant, PTL

\* What PostgreSQL, Redis and Kubernetes store is a fenced claim, wherever a transaction, a
\* round trip or a process is cut off (docs/architecture.md, invariants 1 and 2).
THEOREM RemoteRefinement == AllSpec => RemoteIsFenced
<1>1. RemoteSound => /\ part = "postgres" => [Pg!F!FNext]_(Pg!F!fvars)
                     /\ part = "redis" => [Re!F!FNext]_(Re!F!fvars)
                     /\ part = "kubernetes" => [Ku!F!FNext]_(Ku!F!fvars)
  BY DEF RemoteSound
<1> QED
  BY <1>1, RunInit, RunInvariant, PTL DEF AllSpec, RemoteIsFenced

\* Whichever backend is used, a live claim is lost only by the owner's own release or commit
\* under the current token; on PostgreSQL a lease is live until a client's clock says that it
\* has run out.
THEOREM LiveClaimsKept == AllSpec => LiveClaimIsKept
<1>1. RemoteSound => /\ part = "postgres" => Pg!OwnerLosesOnlyLapsed
                     /\ part = "redis" => Re!OwnerKeepsLiveClaim
                     /\ part = "kubernetes" => Ku!OwnerKeepsLiveClaim
  BY DEF RemoteSound
<1>2. AllSpec => OwnerKeepsLiveClaim /\ LapsedLeaseNotRevived
  BY AllIsMemory, LiveClaimKept, NotRevived
<1> QED
  BY <1>1, <1>2, RunInvariant, PTL DEF LiveClaimIsKept

\* A commit that Redis acknowledged did hand the claim over, whatever other callers did
\* between the check and the script (CommitTransfer).
THEOREM CommitsHappened == AllSpec => []AcknowledgedCommitHappened
<1>1. RunInv => AcknowledgedCommitHappened
  BY ScriptRun DEF RunInv, AcknowledgedCommitHappened
<1> QED
  BY <1>1, RunInvariant, PTL

\* Local agrees with the scripts on every record that the server can hold (local.go).
THEOREM LocalAgrees == AllSpec => []LocalAgreesOnGrants
<1>1. RunInv => LocalAgreesOnGrants
  BY ScriptRun DEF RunInv, LocalAgreesOnGrants
<1> QED
  BY <1>1, RunInvariant, PTL
=============================================================================
