---------------------------- MODULE ClaimHandle ----------------------------
(***************************************************************************)
(* One coordinator's handle on one claim (claim.go) and the goroutines     *)
(* that work on it: TryAcquire, Release, the renewal loops started by      *)
(* startRenewal (coordinator.go), and Close.  Each of them drops the       *)
(* handle's mutex around its backend call, so a step here is one critical  *)
(* section or one backend call, and an answer may be applied long after    *)
(* the backend gave it.                                                    *)
(*                                                                         *)
(* The handle belongs to generation Self.  The other generations appear    *)
(* only through the calls they may make on the backend; that these cannot  *)
(* break the store is what MemoryBackend shows.                            *)
(***************************************************************************)
EXTENDS ClaimRecord, FiniteSets

CONSTANTS
    Self,       \* the generation this handle belongs to
    TTL,        \* LeaseTTL
    Loops       \* bound: renewal goroutines that may exist at the same time

ASSUME SelfAssumption == Self \in Gens
ASSUME LeaseTTLAssumption == TTL \in TTLs

VARIABLES
    claim,      \* the backend's record
    record,     \* Claim.record, the last record the backend answered with
    lease,      \* Claim.lease: its token, 0 when there is no valid lease
    renewing,   \* Claim.renewing
    closed,     \* Claim.closed, and the coordinator is shut down
    acquire,    \* the TryAcquire in progress (Claim.acquiring)
    release,    \* the Release in progress
    loop        \* the renewal goroutines

local == <<record, lease, renewing, closed>>
vars == <<claim, record, lease, renewing, closed, acquire, release, loop>>

\* The part of a record the handle looks at.
View(r) == [owner |-> r.owner, token |-> r.token, phase |-> r.phase]

Views == [owner : Owners, token : Nat, phase : Phases]

NoView == [owner |-> NoGen, token |-> 0, phase |-> "unowned"]

\* ownership.go
OwnedBy(v, g) == v.phase = "owned" /\ v.owner = g /\ v.token # 0
Controls(v, g) == v.owner = g /\ v.token # 0 /\ v.phase \in HeldPhases

\* A goroutine: where it is, and the record or token it carries.
At(pc, v) == [pc |-> pc, view |-> v]
Idle == At("idle", NoView)

TypeOK ==
    /\ claim \in Records
    /\ record \in Views
    /\ lease \in Nat
    /\ renewing \in BOOLEAN
    /\ closed \in BOOLEAN
    /\ acquire \in [pc : {"idle", "call", "answered", "arm", "compensate"},
                    view : Views]
    /\ release \in [pc : {"idle", "call", "answered"}, view : Views]
    /\ loop \in [Loops -> [pc : {"idle", "wait", "call", "answered", "lost",
                                 "exit"},
                           view : Views]]

Init ==
    /\ claim = AbsentRecord
    /\ record = NoView
    /\ lease = 0
    /\ renewing = FALSE
    /\ closed = FALSE
    /\ acquire = Idle
    /\ release = Idle
    /\ loop = [i \in Loops |-> Idle]

-----------------------------------------------------------------------------
(* TryAcquire *)

\* With a valid lease, or while another TryAcquire runs, the call returns at
\* once and changes nothing.
TryAcquire ==
    /\ ~closed
    /\ lease = 0
    /\ acquire = Idle
    /\ acquire' = At("call", NoView)
    /\ UNCHANGED <<claim, local, release, loop>>

AcquireCall ==
    /\ acquire.pc = "call"
    /\ \E a \in Answers(claim, AcquireClaim(claim, Self, TTL)) :
          /\ claim' = a.claim
          /\ acquire' = IF a.err = "ok" THEN At("answered", View(a.claim))
                                        ELSE Idle
    /\ UNCHANGED <<local, release, loop>>

\* The handle was closed meanwhile: give the claim back.
AcquireAnsweredClosed ==
    /\ acquire.pc = "answered"
    /\ closed
    /\ acquire' = At("compensate", acquire.view)
    /\ UNCHANGED <<claim, local, release, loop>>

\* Own the claim in phase owned: install a lease.  Otherwise the claim is
\* reserved for a successor and the caller gets ErrClaimHeld.
AcquireAnswered ==
    /\ acquire.pc = "answered"
    /\ ~closed
    /\ record' = acquire.view
    /\ IF OwnedBy(acquire.view, Self)
       THEN /\ lease' = acquire.view.token
            /\ acquire' = At("arm", NoView)
       ELSE /\ lease' = lease
            /\ acquire' = Idle
    /\ UNCHANGED <<claim, renewing, closed, release, loop>>

\* startRenewal: at most one goroutine per raised renewing flag.  Close closes
\* the handles before it shuts the supervisor down; only after that does the
\* supervisor start no goroutine.
startRenewal ==
    /\ acquire.pc = "arm"
    /\ acquire' = Idle
    /\ IF renewing
       THEN UNCHANGED <<renewing, loop>>
       ELSE /\ renewing' = TRUE
            /\ \/ closed /\ loop' = loop
               \/ \E i \in Loops :
                     /\ loop[i] = Idle
                     /\ loop' = [loop EXCEPT ![i] = At("wait", NoView)]
    /\ UNCHANGED <<claim, record, lease, closed, release>>

AcquireCompensate ==
    /\ acquire.pc = "compensate"
    /\ \E a \in Answers(claim, ReleaseClaim(claim, Self, acquire.view.token)) :
          claim' = a.claim
    /\ acquire' = Idle
    /\ UNCHANGED <<local, release, loop>>

-----------------------------------------------------------------------------
(* Release *)

\* Faulty: the flag stays up, so the next lease gets no renewal goroutine.
RevokeKeepsRenewing ==
    /\ lease' = 0
    /\ UNCHANGED <<renewing, record, closed>>

revokeLease ==
    /\ renewing' = FALSE
    /\ lease' = 0
    /\ UNCHANGED <<record, closed>>

Release ==
    /\ lease # 0
    /\ release = Idle
    /\ release' = At("call", [NoView EXCEPT !.token = lease])
    /\ UNCHANGED <<claim, local, acquire, loop>>

ReleaseCall ==
    /\ release.pc = "call"
    /\ \E a \in Answers(claim, ReleaseClaim(claim, Self, release.view.token)) :
          /\ claim' = a.claim
          /\ release' = IF a.err = "ok" THEN At("answered", NoView) ELSE Idle
    /\ UNCHANGED <<local, acquire, loop>>

ReleaseAnswered ==
    /\ release.pc = "answered"
    /\ release' = Idle
    /\ revokeLease
    /\ UNCHANGED <<claim, acquire, loop>>

-----------------------------------------------------------------------------
(* A renewal goroutine *)

Goto(i, s) == loop' = [loop EXCEPT ![i] = s]

\* The tick of the loop: with a valid lease renew its token, otherwise the
\* token of the last record if that still says Self is in control.
RenewTick(i) ==
    /\ loop[i].pc = "wait"
    /\ IF lease # 0
       THEN Goto(i, At("call", [NoView EXCEPT !.token = lease]))
       ELSE IF Controls(record, Self)
       THEN Goto(i, At("call", [NoView EXCEPT !.token = record.token]))
       ELSE Goto(i, At("exit", NoView))
    /\ UNCHANGED <<claim, local, acquire, release>>

RenewCall(i) ==
    /\ loop[i].pc = "call"
    /\ \E a \in Answers(claim, RenewClaim(claim, Self, loop[i].view.token, TTL)) :
          /\ claim' = a.claim
          /\ Goto(i, IF a.err = "ok" THEN At("answered", View(a.claim))
                                     ELSE At("lost", NoView))
    /\ UNCHANGED <<local, acquire, release>>

applyRecord(v) ==
    /\ record' = v
    /\ IF lease # 0 /\ ~Controls(v, Self)
       THEN lease' = 0 /\ renewing' = FALSE
       ELSE /\ lease' = IF lease = 0 THEN 0 ELSE v.token
            /\ renewing' = renewing

RenewAnswered(i) ==
    /\ loop[i].pc = "answered"
    /\ applyRecord(loop[i].view)
    /\ Goto(i, At("wait", NoView))
    /\ UNCHANGED <<claim, closed, acquire, release>>

\* Faulty: the loop goes on after an error and leaves the lease valid.
RenewLostIgnored(i) ==
    /\ loop[i].pc = "lost"
    /\ Goto(i, At("wait", NoView))
    /\ UNCHANGED <<claim, local, acquire, release>>

\* Any error of RenewClaim counts as losing the claim.
RenewLost(i) ==
    /\ loop[i].pc = "lost"
    /\ revokeLease
    /\ Goto(i, At("exit", NoView))
    /\ UNCHANGED <<claim, acquire, release>>

\* The deferred clearRenewing.
RenewExit(i) ==
    /\ loop[i].pc = "exit"
    /\ renewing' = FALSE
    /\ Goto(i, Idle)
    /\ UNCHANGED <<claim, record, lease, closed, acquire, release>>

\* Faulty: the loop only looks at its ticker.
RenewNeverCanceled(i) == loop[i].pc = "canceled" /\ UNCHANGED vars

\* The select sees the supervisor's context end.
RenewCanceled(i) ==
    /\ loop[i].pc = "wait"
    /\ closed
    /\ Goto(i, At("exit", NoView))
    /\ UNCHANGED <<claim, local, acquire, release>>

-----------------------------------------------------------------------------
(* Shutdown, crash, time and the other generations *)

Close ==
    /\ ~closed
    /\ closed' = TRUE
    /\ renewing' = FALSE
    /\ lease' = 0
    /\ UNCHANGED <<claim, record, acquire, release, loop>>

\* The process dies: nothing of it runs on.
Crash ==
    /\ closed' = TRUE
    /\ renewing' = FALSE
    /\ lease' = 0
    /\ record' = NoView
    /\ acquire' = Idle
    /\ release' = Idle
    /\ loop' = [i \in Loops |-> Idle]
    /\ UNCHANGED claim

Tick ==
    /\ claim' = Age(claim)
    /\ UNCHANGED <<local, acquire, release, loop>>

\* Another generation's call on the backend, a handoff to Self included.
Rival(g) ==
    /\ g # Self
    /\ claim' \in {AcquireClaim(claim, g, TTL).claim,
                   RenewClaim(claim, g, claim.token, TTL).claim,
                   PrepareTransfer(claim, g, Self, claim.token, TTL).claim,
                   CommitTransfer(claim, g, Self, claim.token, TTL).claim,
                   AbortTransfer(claim, g, claim.token).claim,
                   ReleaseClaim(claim, g, claim.token).claim}
    /\ UNCHANGED <<local, acquire, release, loop>>

Renewal(i) ==
    \/ RenewTick(i)
    \/ RenewCall(i)
    \/ RenewAnswered(i)
    \/ RenewLost(i)
    \/ RenewExit(i)

Next ==
    \/ TryAcquire
    \/ AcquireCall
    \/ AcquireAnsweredClosed
    \/ AcquireAnswered
    \/ startRenewal
    \/ AcquireCompensate
    \/ Release
    \/ ReleaseCall
    \/ ReleaseAnswered
    \/ \E i \in Loops : Renewal(i) \/ RenewCanceled(i)
    \/ Close
    \/ Crash
    \/ Tick
    \/ \E g \in Gens : Rival(g)

Spec == Init /\ [][Next]_vars

\* Goroutines that can run do run, backend calls return and time passes.  A
\* select between a ready ticker and a canceled context takes the latter
\* sooner or later, hence strong fairness.  Nothing obliges an application to
\* acquire, release or close, nor another generation to do anything.
Fairness ==
    /\ WF_vars(Tick)
    /\ WF_vars(AcquireCall)
    /\ WF_vars(AcquireAnsweredClosed)
    /\ WF_vars(AcquireAnswered)
    /\ WF_vars(startRenewal)
    /\ WF_vars(AcquireCompensate)
    /\ WF_vars(ReleaseCall)
    /\ WF_vars(ReleaseAnswered)
    /\ \A i \in Loops : WF_vars(Renewal(i)) /\ SF_vars(RenewCanceled(i))

FairSpec == Spec /\ Fairness

-----------------------------------------------------------------------------

\* A valid lease never carries a token the store has not reached, and if it
\* carries the current one, no other generation owns the claim: a stale
\* lease is always recognisable by its smaller token.
LeaseEpochIsOwn ==
    lease # 0 =>
        /\ lease <= claim.token
        /\ lease = claim.token => claim.owner \in {Self, NoGen}

\* A valid lease is always being renewed: some renewal goroutine is alive, or
\* the acquirer is about to start one.  The renewing flag is lowered by four
\* code paths and raised by one; if a path forgot to lower it, a later lease
\* would never be renewed.
RenewalCoversLease ==
    lease # 0 => \/ acquire.pc = "arm"
                 \/ \E i \in Loops : loop[i].pc \in {"wait", "call", "answered", "lost"}

\* A lease of a past epoch does not stay valid for ever: its renewals fail
\* and the lease context is canceled (docs/handoff-protocol.md, step 7).
StaleLeaseEnds ==
    (lease # 0 /\ lease < claim.token) ~> (lease = 0 \/ lease = claim.token)

\* Self is the recorded owner and its lease has not run out in the store.
Holds == claim.owner = Self /\ ~Lapsed(claim)

\* A closed coordinator does not keep the claim: in-flight acquires are
\* compensated or expire and no goroutine keeps renewing (coordinator.go,
\* Close: a successor may take over via expiry).
ClosedLetsGo == (closed /\ Holds) ~> ~Holds

\* The token of a lease that stays valid never goes back to an earlier one
\* (docs/fencing-tokens.md: tokens never decrease).
LeaseTokenNeverDecreases ==
    [][lease # 0 /\ lease' # 0 => lease' >= lease]_vars

\* When the lease context was canceled, ownership is lost too, sooner or
\* later, unless the application acquires again (ownership.go, comment on
\* Lease).
CanceledLeaseLosesClaim ==
    (lease = 0 /\ Holds) ~> (~Holds \/ lease # 0 \/ acquire # Idle)

-----------------------------------------------------------------------------
(* The proofs, for any generations, TTLs, tokens and renewal goroutines.   *)

\* Self's own epochs, also those of answers that are still to be applied: the
\* backend gave them before other generations made their calls.
EpochsOwn ==
    /\ lease # 0 => EpochOf(claim, Self, lease)
    /\ acquire.pc = "answered" =>
          Controls(acquire.view, Self) /\ EpochOf(claim, Self, acquire.view.token)
    /\ \A i \in Loops : loop[i].pc = "answered" =>
          Controls(loop[i].view, Self) /\ EpochOf(claim, Self, loop[i].view.token)

\* A goroutine that has not come to its end.
Live(i) == loop[i].pc \in {"wait", "call", "answered", "lost"}

\* The renewing flag stands for a live goroutine.  RenewalCoversLease needs it
\* when an acquirer finds the flag raised, and it holds because a goroutine
\* finds neither lease nor a record of its own only on a closed handle.
FlagIsLive ==
    /\ closed => lease = 0
    /\ ~closed /\ renewing => \E i \in Loops : Live(i)
    /\ ~closed /\ acquire.pc = "arm" => Controls(record, Self)
    /\ ~closed => \A i \in Loops : loop[i].pc # "idle" => Controls(record, Self)

IInv ==
    /\ TypeOK
    /\ Consistent(claim)
    /\ EpochsOwn
    /\ FlagIsLive
    /\ RenewalCoversLease

\* The record made a good step: what Self's tokens were, they still are.
LEMMA RecordStep ==
  ASSUME IInv, Good(claim, claim')
  PROVE  /\ claim' \in Records /\ Consistent(claim')
         /\ \A t \in Nat : EpochOf(claim, Self, t) => EpochOf(claim', Self, t)
<1>1. claim \in Records
  BY DEF IInv, TypeOK
<1>2. claim' \in Records /\ Consistent(claim')
  BY DEF Good
<1>3. ASSUME NEW t \in Nat, EpochOf(claim, Self, t) PROVE EpochOf(claim', Self, t)
  BY <1>1, <1>3, EpochKept
<1> QED  BY <1>2, <1>3

\* The handle starts with nothing.
LEMMA InitInv == Init => IInv
<1> SUFFICES ASSUME Init PROVE IInv
  OBVIOUS
<1>1. TypeOK
  BY AbsentRecordGood, NoGenAssumption
     DEF Init, TypeOK, Idle, At, NoView, Views, Owners, Phases
<1>2. Consistent(claim)
  BY AbsentRecordGood DEF Init
<1>3. EpochsOwn /\ FlagIsLive /\ RenewalCoversLease
  BY DEF Init, EpochsOwn, FlagIsLive, RenewalCoversLease, Idle, At
<1> QED  BY <1>1, <1>2, <1>3 DEF IInv

\* Time, and the calls of the other generations.
LEMMA OthersInv ==
  ASSUME IInv, Tick \/ \E g \in Gens : Rival(g)
  PROVE  IInv'
<1>0. claim \in Records /\ Consistent(claim) /\ TTL \in Int /\ Self \in Gens
  BY LeaseTTLAssumption, TTLAssumption, SelfAssumption DEF IInv, TypeOK
<1>1. Good(claim, claim')
  <2>1. CASE Tick
    BY <1>0, <2>1, AgeGood DEF Tick
  <2>2. ASSUME NEW g \in Gens, Rival(g) PROVE Good(claim, claim')
    BY <1>0, <2>2, AcquireGood, RenewGood, PrepareGood, CommitGood, AbortGood,
       ReleaseGood DEF Rival
  <2> QED  BY <2>1, <2>2
<1>2. UNCHANGED <<local, acquire, release, loop>>
  BY DEF Tick, Rival
<1>3. TypeOK'
  BY <1>1, <1>2, RecordStep DEF IInv, TypeOK, local
<1>4. EpochsOwn'
  BY <1>1, <1>2, RecordStep DEF IInv, TypeOK, EpochsOwn, Controls, Views, local
<1>5. FlagIsLive' /\ RenewalCoversLease'
  BY <1>2 DEF IInv, FlagIsLive, RenewalCoversLease, Live, Controls, local
<1> QED  BY <1>1, <1>3, <1>4, <1>5, RecordStep DEF IInv

\* TryAcquire and the goroutine it starts.
LEMMA AcquireInv ==
  ASSUME IInv,
         \/ TryAcquire \/ AcquireCall \/ AcquireAnsweredClosed
         \/ AcquireAnswered \/ startRenewal \/ AcquireCompensate
  PROVE  IInv'
<1>0. claim \in Records /\ Consistent(claim) /\ TTL \in Int /\ Self \in Gens
  BY LeaseTTLAssumption, TTLAssumption, SelfAssumption DEF IInv, TypeOK
<1>v. NoView \in Views
  BY DEF NoView, Views, Owners, Phases
<1> USE DEF IInv
<1>1. CASE TryAcquire
  <2>1. TypeOK'
    BY <1>1, <1>v DEF TryAcquire, TypeOK, At, local
  <2>2. EpochsOwn' /\ Consistent(claim)'
    BY <1>1 DEF TryAcquire, EpochsOwn, EpochOf, Controls, At, local
  <2>3. FlagIsLive' /\ RenewalCoversLease'
    BY <1>1 DEF TryAcquire, FlagIsLive, RenewalCoversLease, Live, Controls,
                Idle, At, local
  <2> QED  BY <2>1, <2>2, <2>3
<1>2. CASE AcquireCall
  <2> DEFINE o == AcquireClaim(claim, Self, TTL)
  <2>1. PICK a \in Answers(claim, o) :
           /\ claim' = a.claim
           /\ acquire' = IF a.err = "ok" THEN At("answered", View(a.claim)) ELSE Idle
    BY <1>2 DEF AcquireCall
  <2>2. Good(claim, o.claim)
    BY <1>0, AcquireGood
  <2>3. Good(claim, claim') /\ (a.err = "ok" => a = o)
    BY <1>0, <2>1, <2>2, AnswersGood
  <2>4. UNCHANGED <<local, release, loop>> /\ acquire.pc = "call"
    BY <1>2 DEF AcquireCall
  <2>5. a.err = "ok" => claim'.owner = Self /\ claim'.phase \in HeldPhases
    BY <1>0, <2>1, <2>3, AcquireOk
  <2>6. claim' \in Records /\ Consistent(claim)'
    BY <2>3, RecordStep
  <2>7. a.err = "ok" => /\ View(claim') \in Views
                        /\ Controls(View(claim'), Self)
                        /\ EpochOf(claim', Self, View(claim').token)
    BY <2>5, <2>6, NoGenAssumption, SelfAssumption
       DEF View, Views, Controls, EpochOf, Consistent, Records
  <2> HIDE DEF o
  <2>8. TypeOK'
    BY <2>1, <2>4, <2>6, <2>7, <1>v DEF TypeOK, Idle, At, local
  <2>9. EpochsOwn'
    BY <2>1, <2>3, <2>4, <2>7, RecordStep
       DEF EpochsOwn, TypeOK, Views, Controls, Idle, At, local
  <2>10. FlagIsLive' /\ RenewalCoversLease'
    BY <2>1, <2>4 DEF FlagIsLive, RenewalCoversLease, Live, Controls, Idle,
                      At, local
  <2> QED  BY <2>6, <2>8, <2>9, <2>10
<1>3. CASE AcquireAnsweredClosed
  <2>1. TypeOK'
    BY <1>3 DEF AcquireAnsweredClosed, TypeOK, At, local
  <2>2. EpochsOwn' /\ Consistent(claim)'
    BY <1>3 DEF AcquireAnsweredClosed, EpochsOwn, EpochOf, Controls, At, local
  <2>3. FlagIsLive' /\ RenewalCoversLease'
    BY <1>3 DEF AcquireAnsweredClosed, FlagIsLive, RenewalCoversLease, Live,
                Controls, At, local
  <2> QED  BY <2>1, <2>2, <2>3
<1>4. CASE AcquireAnswered
  <2>1. TypeOK'
    BY <1>4, <1>v DEF AcquireAnswered, TypeOK, At, Idle, Views
  <2>2. EpochsOwn' /\ Consistent(claim)'
    BY <1>4 DEF AcquireAnswered, EpochsOwn, EpochOf, Controls, At, Idle
  <2>3. FlagIsLive' /\ RenewalCoversLease'
    BY <1>4 DEF AcquireAnswered, FlagIsLive, RenewalCoversLease, EpochsOwn,
                Live, Controls, At, Idle
  <2> QED  BY <2>1, <2>2, <2>3
<1>5. CASE startRenewal
  <2>1. TypeOK'
    <3>1. /\ acquire' = Idle /\ renewing' \in BOOLEAN
          /\ UNCHANGED <<claim, record, lease, closed, release>>
      BY <1>5 DEF startRenewal, TypeOK
    <3>2. loop' = loop \/ \E i \in Loops : loop' = [loop EXCEPT ![i] = At("wait", NoView)]
      BY <1>5 DEF startRenewal
    <3> QED  BY <3>1, <3>2, <1>v DEF TypeOK, At, Idle
  <2>2. EpochsOwn' /\ Consistent(claim)'
    BY <1>5 DEF startRenewal, EpochsOwn, EpochOf, Controls, At, Idle, TypeOK
  <2>3. FlagIsLive' /\ RenewalCoversLease'
    BY <1>5 DEF startRenewal, FlagIsLive, RenewalCoversLease, TypeOK,
                Live, Controls, At, Idle
  <2> QED  BY <2>1, <2>2, <2>3
<1>6. CASE AcquireCompensate
  <2> DEFINE o == ReleaseClaim(claim, Self, acquire.view.token)
  <2>1. PICK a \in Answers(claim, o) : claim' = a.claim
    BY <1>6 DEF AcquireCompensate
  <2>2. Good(claim, o.claim)
    BY <1>0, ReleaseGood
  <2>3. Good(claim, claim')
    BY <1>0, <2>1, <2>2, AnswersGood
  <2>4. /\ UNCHANGED <<local, release, loop>>
        /\ acquire.pc = "compensate" /\ acquire' = Idle
    BY <1>6 DEF AcquireCompensate
  <2>5. TypeOK' /\ Consistent(claim)'
    BY <2>3, <2>4, <1>v, RecordStep DEF TypeOK, Idle, At, local
  <2>6. EpochsOwn'
    BY <2>3, <2>4, RecordStep DEF EpochsOwn, TypeOK, Views, Controls, Idle, At, local
  <2>7. FlagIsLive' /\ RenewalCoversLease'
    BY <2>4 DEF FlagIsLive, RenewalCoversLease, Live, Controls, Idle, At, local
  <2> QED  BY <2>5, <2>6, <2>7
<1> QED  BY <1>1, <1>2, <1>3, <1>4, <1>5, <1>6

\* Release, Close and a crash.
LEMMA ReleaseInv ==
  ASSUME IInv, Release \/ ReleaseCall \/ ReleaseAnswered \/ Close \/ Crash
  PROVE  IInv'
<1>0. claim \in Records /\ Consistent(claim) /\ Self \in Gens
  BY SelfAssumption DEF IInv, TypeOK
<1>v. NoView \in Views /\ \A t \in Nat : [NoView EXCEPT !.token = t] \in Views
  BY DEF NoView, Views, Owners, Phases
<1> USE DEF IInv
<1>1. CASE Release
  <2>1. TypeOK'
    BY <1>1, <1>v DEF Release, TypeOK, At, local
  <2>2. EpochsOwn' /\ Consistent(claim)'
    BY <1>1 DEF Release, EpochsOwn, EpochOf, Controls, local
  <2>3. FlagIsLive' /\ RenewalCoversLease'
    BY <1>1 DEF Release, FlagIsLive, RenewalCoversLease, Live, Controls, local
  <2> QED  BY <2>1, <2>2, <2>3
<1>2. CASE ReleaseCall
  <2> DEFINE o == ReleaseClaim(claim, Self, release.view.token)
  <2>1. PICK a \in Answers(claim, o) :
           /\ claim' = a.claim
           /\ release' = IF a.err = "ok" THEN At("answered", NoView) ELSE Idle
    BY <1>2 DEF ReleaseCall
  <2>2. Good(claim, o.claim)
    BY <1>0, ReleaseGood
  <2>3. Good(claim, claim')
    BY <1>0, <2>1, <2>2, AnswersGood
  <2>4. UNCHANGED <<local, acquire, loop>>
    BY <1>2 DEF ReleaseCall
  <2>5. TypeOK' /\ Consistent(claim)'
    BY <2>1, <2>3, <2>4, <1>v, RecordStep DEF TypeOK, Idle, At, local
  <2>6. EpochsOwn'
    BY <2>3, <2>4, RecordStep DEF EpochsOwn, TypeOK, Views, Controls, local
  <2>7. FlagIsLive' /\ RenewalCoversLease'
    BY <2>4 DEF FlagIsLive, RenewalCoversLease, Live, Controls, local
  <2> QED  BY <2>5, <2>6, <2>7
<1>3. CASE ReleaseAnswered \/ Close
  <2>0. /\ lease' = 0 /\ renewing' = FALSE /\ closed' \in BOOLEAN
        /\ release' \in {release, Idle} /\ (closed => closed')
        /\ UNCHANGED <<claim, record, acquire, loop>>
    BY <1>3 DEF ReleaseAnswered, revokeLease, Close, TypeOK
  <2>1. TypeOK'
    <3>1. release' \in [pc : {"idle", "call", "answered"}, view : Views]
      BY <2>0, <1>v DEF TypeOK, At, Idle
    <3> QED  BY <2>0, <3>1 DEF TypeOK
  <2>2. EpochsOwn' /\ Consistent(claim)'
    BY <2>0 DEF EpochsOwn, EpochOf, Controls
  <2>3. FlagIsLive' /\ RenewalCoversLease'
    BY <2>0 DEF FlagIsLive, RenewalCoversLease, Live, Controls
  <2> QED  BY <2>1, <2>2, <2>3
<1>4. CASE Crash
  <2>1. TypeOK'
    BY <1>4, <1>v DEF Crash, TypeOK, At, Idle
  <2>2. EpochsOwn' /\ Consistent(claim)'
    BY <1>4 DEF Crash, EpochsOwn, At, Idle
  <2>3. FlagIsLive' /\ RenewalCoversLease'
    BY <1>4 DEF Crash, FlagIsLive, RenewalCoversLease
  <2> QED  BY <2>1, <2>2, <2>3
<1> QED  BY <1>1, <1>2, <1>3, <1>4

\* A renewal goroutine.
LEMMA RenewalInv ==
  ASSUME IInv, NEW i \in Loops, Renewal(i) \/ RenewCanceled(i)
  PROVE  IInv'
<1>0. /\ claim \in Records /\ Consistent(claim) /\ TTL \in Int /\ Self \in Gens
      /\ record \in Views /\ lease \in Nat
      /\ loop \in [Loops -> [pc : {"idle", "wait", "call", "answered", "lost",
                                   "exit"}, view : Views]]
  BY LeaseTTLAssumption, TTLAssumption, SelfAssumption DEF IInv, TypeOK
<1>v. NoView \in Views /\ \A t \in Nat : [NoView EXCEPT !.token = t] \in Views
  BY DEF NoView, Views, Owners, Phases
<1> USE DEF IInv
<1>1. CASE RenewTick(i)
  <2>1. PICK v \in Views : \/ Goto(i, At("call", v))
                           \/ closed /\ Goto(i, At("exit", v))
    BY <1>0, <1>1, <1>v DEF RenewTick, FlagIsLive, Views, Controls
  <2>2. UNCHANGED <<claim, local, acquire, release>> /\ loop[i].pc = "wait"
    BY <1>1 DEF RenewTick
  <2>3. TypeOK'
    BY <2>1, <2>2 DEF TypeOK, Goto, At, local
  <2>4. EpochsOwn' /\ Consistent(claim)'
    BY <1>0, <2>1, <2>2 DEF EpochsOwn, EpochOf, Goto, At, Controls, local
  <2>5. FlagIsLive' /\ RenewalCoversLease'
    BY <1>0, <2>1, <2>2 DEF FlagIsLive, RenewalCoversLease, Live, Goto, At,
                            Controls, local
  <2> QED  BY <2>3, <2>4, <2>5
<1>2. CASE RenewCall(i)
  <2> DEFINE o == RenewClaim(claim, Self, loop[i].view.token, TTL)
  <2>1. PICK a \in Answers(claim, o) :
           /\ claim' = a.claim
           /\ Goto(i, IF a.err = "ok" THEN At("answered", View(a.claim))
                                      ELSE At("lost", NoView))
    BY <1>2 DEF RenewCall
  <2>2. Good(claim, o.claim)
    BY <1>0, RenewGood
  <2>3. Good(claim, claim') /\ (a.err = "ok" => a = o)
    BY <1>0, <2>1, <2>2, AnswersGood
  <2>4. UNCHANGED <<local, acquire, release>> /\ loop[i].pc = "call"
    BY <1>2 DEF RenewCall
  <2>5. a.err = "ok" => claim'.owner = Self /\ claim'.phase \in HeldPhases
    BY <1>0, <2>1, <2>3, RenewOk
  <2>6. claim' \in Records /\ Consistent(claim)'
    BY <2>3, RecordStep
  <2>7. a.err = "ok" => /\ View(claim') \in Views
                        /\ Controls(View(claim'), Self)
                        /\ EpochOf(claim', Self, View(claim').token)
    BY <2>5, <2>6, NoGenAssumption, SelfAssumption
       DEF View, Views, Controls, EpochOf, Consistent, Records
  <2> HIDE DEF o
  <2>8. TypeOK'
    BY <2>1, <2>4, <2>6, <2>7, <1>v DEF TypeOK, Goto, At, local
  <2>9. EpochsOwn'
    BY <1>0, <2>1, <2>3, <2>4, <2>7, RecordStep
       DEF EpochsOwn, TypeOK, Views, Controls, Goto, At, local
  <2>10. FlagIsLive' /\ RenewalCoversLease'
    BY <1>0, <2>1, <2>4 DEF FlagIsLive, RenewalCoversLease, Live, Controls,
                            Goto, At, local
  <2> QED  BY <2>6, <2>8, <2>9, <2>10
<1>3. CASE RenewAnswered(i)
  <2> DEFINE v == loop[i].view
  <2>1. v \in Views /\ Controls(v, Self) /\ EpochOf(claim, Self, v.token)
    BY <1>0, <1>3 DEF RenewAnswered, EpochsOwn
  <2>2. /\ record' = v /\ renewing' = renewing
        /\ lease' = IF lease = 0 THEN 0 ELSE v.token
        /\ loop' = [loop EXCEPT ![i] = At("wait", NoView)]
        /\ loop[i].pc = "answered"
        /\ UNCHANGED <<claim, closed, acquire, release>>
    BY <1>3, <2>1 DEF RenewAnswered, applyRecord, Goto
  <2> HIDE DEF v
  <2>3. TypeOK'
    BY <1>v, <2>1, <2>2 DEF TypeOK, At, Views
  <2>4. EpochsOwn' /\ Consistent(claim)'
    BY <1>0, <2>1, <2>2 DEF EpochsOwn, EpochOf, At, Controls
  <2>5. FlagIsLive' /\ RenewalCoversLease'
    BY <1>0, <2>1, <2>2 DEF FlagIsLive, RenewalCoversLease, Live, At
  <2> QED  BY <2>3, <2>4, <2>5
<1>4. CASE RenewLost(i) \/ RenewExit(i) \/ RenewCanceled(i)
  <2>1. /\ loop' = [loop EXCEPT ![i] = At("exit", NoView)]
           \/ loop' = [loop EXCEPT ![i] = Idle]
        /\ \/ lease' = 0
           \/ lease' = lease /\ (closed \/ loop[i].pc = "exit")
        /\ renewing' = FALSE \/ (closed /\ renewing' = renewing)
        /\ loop[i].pc # "idle"
        /\ UNCHANGED <<claim, record, closed, acquire, release>>
    BY <1>4 DEF RenewLost, RenewExit, RenewCanceled, revokeLease, Goto, local
  <2>2. TypeOK'
    <3>1. loop' \in [Loops -> [pc : {"idle", "wait", "call", "answered",
                                     "lost", "exit"}, view : Views]]
      BY <1>0, <1>v, <2>1 DEF At, Idle
    <3>2. lease' \in Nat
      BY <2>1 DEF TypeOK
    <3>3. renewing' \in BOOLEAN
      BY <2>1, Zenon DEF TypeOK
    <3> QED  BY <2>1, <3>1, <3>2, <3>3 DEF TypeOK
  <2>3. EpochsOwn' /\ Consistent(claim)'
    BY <1>0, <2>1 DEF EpochsOwn, EpochOf, At, Idle, Controls
  <2>4. FlagIsLive' /\ RenewalCoversLease'
    BY <1>0, <2>1 DEF FlagIsLive, RenewalCoversLease, Live, At, Idle, Controls
  <2> QED  BY <2>2, <2>3, <2>4
<1> QED  BY <1>1, <1>2, <1>3, <1>4 DEF Renewal

\* Every step of the handle keeps the invariant.
LEMMA StepInv == IInv /\ [Next]_vars => IInv'
<1>1. ASSUME IInv, UNCHANGED vars PROVE IInv'
  BY <1>1 DEF vars, IInv, TypeOK, EpochsOwn, FlagIsLive, RenewalCoversLease,
              Live, Controls, EpochOf
<1> QED  BY <1>1, AcquireInv, ReleaseInv, RenewalInv, OthersInv DEF Next

\* The invariant holds in every state a handle can get into.
THEOREM Invariance == Spec => []IInv
  BY InitInv, StepInv, PTL DEF Spec

\* Type correctness of the handle.
THEOREM TypeCorrect == Spec => []TypeOK
<1>1. IInv => TypeOK
  BY DEF IInv
<1> QED  BY <1>1, Invariance, PTL

\* A stale lease is always recognisable by its smaller token, however long
\* answers of the backend are under way before applyRecord and TryAcquire
\* install them, and whatever the other generations do meanwhile.
THEOREM LeaseEpoch == Spec => []LeaseEpochIsOwn
<1>1. IInv => LeaseEpochIsOwn
  BY DEF IInv, EpochsOwn, EpochOf, LeaseEpochIsOwn
<1> QED  BY <1>1, Invariance, PTL

\* No path through startRenewal, revokeLease, applyRecord and clearRenewing
\* leaves a valid lease without a goroutine that renews it.
THEOREM LeaseIsRenewed == Spec => []RenewalCoversLease
<1>1. IInv => RenewalCoversLease
  BY DEF IInv
<1> QED  BY <1>1, Invariance, PTL
=============================================================================
