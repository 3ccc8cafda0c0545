---------------------------- MODULE MCResources -----------------------------
(***************************************************************************)
(* The protocol model, the writers of fenced resources, and components     *)
(* whose calls must end, each checked by itself: the fencing-token         *)
(* validator, the HTTP service, the cache generations, ordered             *)
(* acquisition, the rate limiter, the workflow engine with a parallel      *)
(* wave, and a migration.                                                  *)
(*                                                                         *)
(* They share no state that these modules model, so every behaviour is one *)
(* of one component: part says of which, for ever.  The protocol model has *)
(* its own variables; those of the others are v1, v2, ..., and whatever    *)
(* does not run rests in its initial state.                                *)
(***************************************************************************)
EXTENDS ProtocolWorld, TLAPS

CONSTANTS
    Callers,                        \* goroutines
    Tokens,                         \* the validator's
    ResourceCount, CallBound,       \* of ordered acquisition
    GrantBound,                     \* of the writers
    Capacity, Refill, Cost, MaxConcurrent, MaxTime      \* of the rate limiter

VARIABLES
    part,       \* the component that runs
    v1, v2, v3, v4, v5, v6, v7, v8, v9, v10, v11, v12, v13, v14      \* its variables, in the order of its module

all == <<part, vars, v1, v2, v3, v4, v5, v6, v7, v8, v9, v10, v11, v12, v13, v14>>

\* The variables that a component with fewer of them leaves unused.
Blank14 == v14 = {}
Blank13 == v13 = {} /\ Blank14
Blank12 == v12 = {} /\ Blank13
Blank11 == v11 = {} /\ Blank12
Blank10 == v10 = {} /\ Blank11
Blank9 == v9 = {} /\ Blank10
Blank8 == v8 = {} /\ Blank9
Blank7 == v7 = {} /\ Blank8
Blank6 == v6 = {} /\ Blank7
Blank5 == v5 = {} /\ Blank6
Blank4 == v4 = {} /\ Blank5
Blank3 == v3 = {} /\ Blank4
Blank2 == v2 = {} /\ Blank3
Blank1 == v1 = {} /\ Blank2

-----------------------------------------------------------------------------
(* Proofs: the protocol model.                                              *)

\* An expired claim is swept to one of the phases the claim may be in, with an owner
\* exactly if it is held (expireIfNeeded).
LEMMA SweptHeld ==
    ASSUME TypeOK, HeldHasOwner, NEW l \in Int, NEW d \in Int
    PROVE  LET swept == expireIfNeeded(l, d)
           IN  /\ swept.owner \in Gens \cup {NoGen} /\ swept.pending \in Gens \cup {NoGen}
               /\ swept.phase \in {"unowned", "owned", "reserved"}
               /\ swept.owner # NoGen <=> swept.phase # "unowned"
  BY GensAssumption DEF TypeOK, HeldHasOwner, expireIfNeeded

\* A grant keeps the invariant.
LEMMA GrantKeepsOwner ==
    ASSUME OwnerInv, NEW g \in Gens, NEW op \in OpIds \cup {NoOp}, Grant(g, op)
    PROVE  OwnerInv'
<1> DEFINE snap == [owner |-> g, token |-> token', phase |-> "owned"]
<1>1. TypeOK
  BY DEF OwnerInv
<1>2. snap \in Snaps /\ token' \in Nat /\ epoch' \in Nat
  BY <1>1 DEF Grant, Snaps, TypeOK
<1>3. results' = IF op \in OpIds THEN [results EXCEPT ![op] = snap] ELSE results
  BY DEF Grant, Store
<1>4. TypeOK'
  <2>1. results' \in [OpIds -> Snaps]
    BY <1>1, <1>2, <1>3 DEF TypeOK
  <2>2. left' \in Int /\ deadline' \in Int /\ up' \subseteq Gens /\ paused' \subseteq Gens
    BY <1>1, TimesAssumption DEF Grant, TypeOK
  <2>3. begun' \in BOOLEAN /\ timed' \in BOOLEAN
    BY <1>1 DEF Grant, TypeOK
  <2> QED
    BY <1>2, <2>1, <2>2, <2>3 DEF Grant, TypeOK
<1>5. HeldHasOwner'
  BY GensAssumption DEF Grant, HeldHasOwner
<1>6. ResultsHeld'
  <2> SUFFICES ASSUME NEW o \in OpIds, results'[o] # None
               PROVE  /\ results'[o].phase \in {"owned", "unowned"}
                      /\ results'[o].owner # NoGen <=> results'[o].phase # "unowned"
    BY DEF ResultsHeld, None
  <2>1. results'[o] = snap \/ results'[o] = results[o]
    BY <1>1, <1>3 DEF TypeOK
  <2> QED
    BY <2>1, GensAssumption DEF OwnerInv, ResultsHeld
<1> QED
  BY <1>4, <1>5, <1>6 DEF OwnerInv

\* So does a call that is replayed.
LEMMA ReplayKeepsOwner ==
    ASSUME OwnerInv, NEW op \in OpIds, Known(op), Replay(op)
    PROVE  OwnerInv'
<1>1. /\ results[op] \in Snaps
      /\ results[op].phase \in {"owned", "unowned"}
      /\ results[op].owner # NoGen <=> results[op].phase # "unowned"
  BY DEF OwnerInv, ResultsHeld, TypeOK, Known
<1>2. TypeOK' /\ HeldHasOwner'
  BY <1>1 DEF OwnerInv, TypeOK, HeldHasOwner, Replay, Snaps
<1>3. ResultsHeld'
  BY DEF OwnerInv, ResultsHeld, Replay, None
<1> QED
  BY <1>2, <1>3 DEF OwnerInv

\* And every other action.
LEMMA StepKeepsOwner == OwnerInv /\ [Next]_vars => OwnerInv'
<1> SUFFICES ASSUME OwnerInv, [Next]_vars PROVE OwnerInv'
  OBVIOUS
<1> USE GensAssumption, OpsAssumption, TimesAssumption
<1>0. TypeOK /\ HeldHasOwner /\ ResultsHeld
  BY DEF OwnerInv
<1>1. CASE UNCHANGED vars
  BY <1>0, <1>1 DEF OwnerInv, vars, TypeOK, HeldHasOwner, ResultsHeld
<1>2. CASE expire
  <2>1. TypeOK' /\ HeldHasOwner'
    BY <1>0, <1>2, SweptHeld DEF expire, TypeOK, HeldHasOwner
  <2>2. ResultsHeld'
    BY <1>0, <1>2 DEF expire, ResultsHeld
  <2> QED
    BY <2>1, <2>2 DEF OwnerInv
<1>3. CASE crashOwner \/ crashCandidate
  BY <1>0, <1>3 DEF OwnerInv, crashOwner, crashCandidate, claimVars, TypeOK, HeldHasOwner, ResultsHeld
<1>4. ASSUME NEW d \in Deltas, AdvanceTime(d) PROVE OwnerInv'
  <2> DEFINE later(t) == IF t + TransferTO < 0 THEN t ELSE t - d
  <2>1. later(left) \in Int /\ later(deadline) \in Int
    BY <1>0 DEF TypeOK
  <2>2. TypeOK' /\ HeldHasOwner'
    BY <1>0, <1>4, <2>1, SweptHeld DEF AdvanceTime, TypeOK, HeldHasOwner
  <2>3. ResultsHeld'
    BY <1>0, <1>4 DEF AdvanceTime, ResultsHeld
  <2> QED
    BY <2>2, <2>3 DEF OwnerInv
<1>5. ASSUME NEW g \in Gens, renewClaim(g) \/ abort(g) \/ forceRevoke(g) PROVE OwnerInv'
  BY <1>0, <1>5 DEF OwnerInv, renewClaim, abort, forceRevoke, TypeOK, HeldHasOwner, ResultsHeld
<1>6. ASSUME NEW g \in Gens, Toggle(g) PROVE OwnerInv'
  <2>1. UNCHANGED <<owner, token, phase, pending, left, deadline, begun, timed, epoch, results>>
    BY <1>6 DEF Toggle, claimVars
  <2>2. up' \subseteq Gens /\ paused' \subseteq Gens
    BY <1>0, <1>6 DEF Toggle, TypeOK
  <2> QED
    BY <1>0, <2>1, <2>2 DEF OwnerInv, TypeOK, HeldHasOwner, ResultsHeld
<1>7. ASSUME NEW g \in Gens, NEW s \in Gens, prepare(g, s) PROVE OwnerInv'
  BY <1>0, <1>7 DEF OwnerInv, prepare, Longer, TypeOK, HeldHasOwner, ResultsHeld
<1>8. ASSUME NEW g \in Gens, NEW op \in OpIds \cup {NoOp}, requestClaim(g, op) PROVE OwnerInv'
  <2>1. CASE Known(op) /\ Replay(op)
    BY <2>1, ReplayKeepsOwner DEF Known
  <2>2. CASE Grant(g, op)
    BY <2>2, GrantKeepsOwner
  <2>3. CASE /\ phase # "unowned" /\ ~Expired /\ owner = g
             /\ left' = LeaseTTL
             /\ phase' = expireIfNeeded(left, deadline).phase
             /\ pending' = expireIfNeeded(left, deadline).pending
             /\ UNCHANGED <<owner, token, deadline, begun, timed, epoch, up, paused, results>>
    BY <1>0, <2>3 DEF OwnerInv, Expired, expireIfNeeded, TypeOK, HeldHasOwner, ResultsHeld
  <2> QED
    BY <1>8, <2>1, <2>2, <2>3 DEF requestClaim
<1>9. ASSUME NEW g \in Gens, NEW op \in OpIds \cup {NoOp}, releaseClaim(g, op) PROVE OwnerInv'
  <2> DEFINE snap == [owner |-> NoGen, token |-> token, phase |-> "unowned"]
  <2>1. results' = IF op \in OpIds THEN [results EXCEPT ![op] = snap] ELSE results
    BY <1>9 DEF releaseClaim, Store
  <2>2. results' \in [OpIds -> Snaps]
    BY <1>0, <2>1 DEF TypeOK, Snaps
  <2>3. TypeOK' /\ HeldHasOwner'
    BY <1>0, <1>9, <2>2 DEF releaseClaim, TypeOK, HeldHasOwner
  <2>4. \A o \in OpIds : results'[o] = snap \/ results'[o] = results[o]
    BY <1>0, <2>1 DEF TypeOK
  <2>5. ResultsHeld'
    BY <1>0, <2>4 DEF ResultsHeld, None
  <2> QED
    BY <2>3, <2>5 DEF OwnerInv
<1>10. ASSUME NEW g \in Gens, NEW s \in Gens, NEW op \in OpIds \cup {NoOp}, commit(g, s, op)
       PROVE  OwnerInv'
  BY <1>10, ReplayKeepsOwner, GrantKeepsOwner DEF commit, Known
<1> QED
  BY <1>1, <1>2, <1>3, <1>4, <1>5, <1>6, <1>7, <1>8, <1>9, <1>10 DEF Next

\* The invariant holds at the start, when the claim is free and nothing was called.
LEMMA InitOwner == Init => OwnerInv
<1> SUFFICES ASSUME Init PROVE OwnerInv
  OBVIOUS
<1>1. begun \in BOOLEAN /\ timed \in BOOLEAN
  BY Zenon DEF Init
<1>2. results \in [OpIds -> Snaps] /\ ResultsHeld
  BY DEF Init, ResultsHeld, Snaps, None
<1>3. /\ owner \in Gens \cup {NoGen} /\ pending \in Gens \cup {NoGen}
      /\ token \in Nat /\ epoch \in Nat /\ left \in Int /\ deadline \in Int
      /\ phase \in {"unowned", "owned", "reserved"} /\ up \subseteq Gens /\ paused \subseteq Gens
  BY DEF Init
<1>4. HeldHasOwner
  BY DEF Init, HeldHasOwner
<1> QED
  BY <1>1, <1>2, <1>3, <1>4 DEF OwnerInv, TypeOK

\* At the start the claim is free and both tokens are zero.
LEMMA InitWorld == Init => WorldInv
  BY InitOwner DEF Init, WorldInv, OwnerInv, CheckInvariants

\* With ids used once no call is replayed, and an action that changes the token is a
\* grant, which also gives the claim its lease.
LEMMA StepKeepsWorld ==
    ASSUME Replayed = {}, WorldInv, [Next]_vars
    PROVE  /\ CheckInvariants'
           /\ token' = token \/ (token' = token + 1 /\ phase' = "owned" /\ left' = LeaseTTL)
<1> USE GensAssumption, OpsAssumption, TimesAssumption
<1> DEFINE Goal == /\ CheckInvariants'
                   /\ \/ token' = token
                      \/ token' = token + 1 /\ phase' = "owned" /\ left' = LeaseTTL
<1>0. TypeOK /\ CheckInvariants
  BY DEF WorldInv, OwnerInv
<1>1. CASE UNCHANGED vars
  BY <1>0, <1>1 DEF vars, CheckInvariants, HeldHasOwner
<1>2. CASE expire
  BY <1>0, <1>2 DEF expire, expireIfNeeded, TypeOK, CheckInvariants, HeldHasOwner
<1>3. CASE crashOwner \/ crashCandidate
  BY <1>0, <1>3 DEF crashOwner, crashCandidate, claimVars, CheckInvariants, HeldHasOwner
<1>4. ASSUME NEW d \in Deltas, AdvanceTime(d) PROVE Goal
  BY <1>0, <1>4 DEF AdvanceTime, expireIfNeeded, TypeOK, CheckInvariants, HeldHasOwner
<1>5. ASSUME NEW g \in Gens, renewClaim(g) \/ abort(g) \/ forceRevoke(g) PROVE Goal
  BY <1>0, <1>5 DEF renewClaim, abort, forceRevoke, TypeOK, CheckInvariants, HeldHasOwner
<1>6. ASSUME NEW g \in Gens, Toggle(g) PROVE Goal
  BY <1>0, <1>6 DEF Toggle, claimVars, CheckInvariants, HeldHasOwner
<1>7. ASSUME NEW g \in Gens, NEW s \in Gens, prepare(g, s) PROVE Goal
  BY <1>0, <1>7 DEF prepare, Longer, TypeOK, CheckInvariants, HeldHasOwner
<1>8. ASSUME NEW g \in Gens, NEW op, Grant(g, op) PROVE Goal
  BY <1>0, <1>8 DEF Grant, TypeOK, CheckInvariants, HeldHasOwner
<1>9. ASSUME NEW g \in Gens, NEW op, MayUse(op), requestClaim(g, op) PROVE Goal
  <2>1. ~Known(op)
    BY <1>9 DEF MayUse
  <2>2. CASE Grant(g, op)
    BY <1>8, <2>2
  <2>3. CASE /\ phase # "unowned" /\ ~Expired /\ owner = g
             /\ left' = LeaseTTL
             /\ phase' = expireIfNeeded(left, deadline).phase
             /\ pending' = expireIfNeeded(left, deadline).pending
             /\ UNCHANGED <<owner, token, deadline, begun, timed, epoch, up, paused, results>>
    BY <1>0, <2>3 DEF Expired, expireIfNeeded, TypeOK, CheckInvariants, HeldHasOwner
  <2> QED
    BY <1>9, <2>1, <2>2, <2>3 DEF requestClaim
<1>10. ASSUME NEW g \in Gens, NEW op, releaseClaim(g, op) PROVE Goal
  BY <1>0, <1>10 DEF releaseClaim, CheckInvariants, HeldHasOwner
<1>11. ASSUME NEW g \in Gens, NEW s \in Gens, NEW op, MayUse(op), commit(g, s, op) PROVE Goal
  BY <1>8, <1>11 DEF commit, MayUse
<1> QED
  BY <1>1, <1>2, <1>3, <1>4, <1>5, <1>6, <1>7, <1>9, <1>10, <1>11 DEF Next

-----------------------------------------------------------------------------

\* Goroutines that call Accept of one validator.
Tv == INSTANCE TokenValidator WITH current <- v1, call <- v2, accepted <- v3

ASSUME TvTokensAssumption == Tv!TokensAssumption

-----------------------------------------------------------------------------
(* Proofs: the validator.                                                   *)

\* The initial state satisfies the inductive invariant.
LEMMA InitInv == Tv!Init => Tv!IInv
  BY TvTokensAssumption DEF Tv!TokensAssumption, Tv!Init, Tv!IInv, Tv!TypeOK, Tv!Calls, Tv!StaleIsRefused, Tv!RefusedIsStale

\* Beginning a call keeps it: the floor is what is accepted now.
LEMMA AcceptInv ==
    ASSUME Tv!IInv, NEW c \in Callers, NEW tok \in Tokens \cup {0}, Tv!Accept(c, tok)
    PROVE  Tv!IInv'
  BY TvTokensAssumption DEF Tv!TokensAssumption, Tv!IInv, Tv!TypeOK, Tv!Calls, Tv!Accept, Tv!StaleIsRefused, Tv!RefusedIsStale

\* Moving a caller on, with the epoch as it is, keeps the invariant when the
\* verdict it moves to is the right one.
LEMMA PcInv ==
    ASSUME Tv!IInv, NEW c \in Callers, NEW pc \in {"load", "true", "false"},
           v2' = [v2 EXCEPT ![c].pc = pc], UNCHANGED <<v3, v1>>,
           v2[c].token # 0,
           pc = "true" => v2[c].token >= v1,
           pc = "false" => v2[c].token < v1
    PROVE  Tv!IInv'
<1>1. v2 \in [Callers -> Tv!Calls] /\ v2' \in [Callers -> Tv!Calls]
  BY DEF Tv!IInv, Tv!TypeOK, Tv!Calls
<1>2. /\ v2'[c].pc = pc /\ v2'[c].cur = v2[c].cur
      /\ v2'[c].token = v2[c].token /\ v2'[c].floor = v2[c].floor
      /\ \A d \in Callers \ {c} : v2'[d] = v2[d]
  BY <1>1 DEF Tv!Calls
<1>3. /\ v2[c].token \in Nat /\ v2[c].floor \in Nat /\ v1 \in Nat
      /\ v2[c].floor <= v1 /\ v3 = v1
  BY <1>1, TvTokensAssumption DEF Tv!TokensAssumption, Tv!Calls, Tv!IInv, Tv!TypeOK
<1>. QED  BY <1>1, <1>2, <1>3 DEF Tv!IInv, Tv!TypeOK, Tv!StaleIsRefused, Tv!RefusedIsStale

\* A load keeps it, whichever of the three ways it goes.
LEMMA LoadInv ==
    ASSUME Tv!IInv, NEW c \in Callers, Tv!Load(c)
    PROVE  Tv!IInv' /\ v1' = v1
<1>0. /\ v2 \in [Callers -> Tv!Calls] /\ v1 \in Nat /\ v3 = v1
      /\ v2[c].token \in Nat /\ v2[c].floor <= v1 /\ v2[c].token # 0
      /\ v1 \in Tokens \cup {0}
  BY TvTokensAssumption DEF Tv!TokensAssumption, Tv!IInv, Tv!TypeOK, Tv!Calls, Tv!Load
<1>1. CASE v2[c].token < v1
  <2>1. v2' = [v2 EXCEPT ![c].pc = "false"] /\ UNCHANGED <<v3, v1>>
    BY <1>1 DEF Tv!Load, Tv!Goto
  <2>. QED  BY <1>0, <1>1, <2>1, PcInv, Zenon
<1>2. CASE v2[c].token = v1
  <2>1. v2' = [v2 EXCEPT ![c].pc = "true"] /\ UNCHANGED <<v3, v1>>
    BY <1>0, <1>2 DEF Tv!Load, Tv!ReturnTrue, Tv!Goto
  <2>2. v2[c].token >= v1 /\ "true" \in {"load", "true", "false"}
    BY <1>0, <1>2
  <2>3. Tv!IInv'
    BY <1>0, <2>1, <2>2, PcInv, Zenon
  <2>. QED  BY <2>1, <2>3
<1>3. CASE v2[c].token > v1
  <2>1. /\ v2' = [v2 EXCEPT ![c].pc = "cas", ![c].cur = v1]
        /\ UNCHANGED <<v3, v1>>
    BY <1>0, <1>3 DEF Tv!Load
  <2>2. v2' \in [Callers -> Tv!Calls]
    BY <1>0, <2>1, Zenon DEF Tv!Calls
  <2>3. /\ v2'[c].pc = "cas" /\ v2'[c].cur = v1
        /\ v2'[c].token = v2[c].token /\ v2'[c].floor = v2[c].floor
        /\ \A d \in Callers \ {c} : v2'[d] = v2[d]
    BY <1>0, <2>1 DEF Tv!Calls
  <2>. QED  BY <1>0, <1>3, <2>1, <2>2, <2>3
            DEF Tv!IInv, Tv!TypeOK, Tv!StaleIsRefused, Tv!RefusedIsStale
<1>. QED  BY <1>0, <1>1, <1>2, <1>3

\* A swap keeps it and only raises the epoch.
LEMMA SwapInv ==
    ASSUME Tv!IInv, NEW c \in Callers, Tv!CompareAndSwap(c)
    PROVE  Tv!IInv' /\ v1' >= v1
<1>a. v2 \in [Callers -> Tv!Calls] /\ v3 = v1 /\ v1 \in Nat
  BY TvTokensAssumption DEF Tv!TokensAssumption, Tv!IInv, Tv!TypeOK
<1>b. v2[c].pc = "cas" /\ v2[c].token \in Tokens \cup {0} /\ v2[c].token # 0
  BY <1>a DEF Tv!IInv, Tv!Calls, Tv!CompareAndSwap
<1>c. v2[c].token > v2[c].cur /\ v2[c].floor <= v1
  BY <1>a, <1>b DEF Tv!IInv
<1>0. v2[c].token \in Tokens /\ v2[c].token \in Nat
  BY <1>b, TvTokensAssumption DEF Tv!TokensAssumption
<1>1. CASE v1 = v2[c].cur
  <2>1. /\ v1' = v2[c].token /\ v3' = v2[c].token
        /\ v2[c].token > v1 /\ v2' = [v2 EXCEPT ![c].pc = "true"]
    BY <1>a, <1>c, <1>0, <1>1 DEF Tv!CompareAndSwap, Tv!ReturnTrue, Tv!Goto
  <2>2. v2' \in [Callers -> Tv!Calls]
    BY <1>a, <1>0, <2>1 DEF Tv!Calls
  <2>3. /\ v2'[c].pc = "true" /\ v2'[c].cur = v2[c].cur
        /\ v2'[c].token = v2[c].token /\ v2'[c].floor = v2[c].floor
        /\ \A d \in Callers \ {c} : v2'[d] = v2[d]
    BY <1>a, <1>0, <2>1 DEF Tv!Calls
  <2>3a. \A d \in Callers : v2[d].floor \in Nat /\ v2[d].token \in Tokens \cup {0}
    BY <1>a DEF Tv!Calls
  <2>z. \A x \in Tokens \cup {0} : x \in Nat
    BY TvTokensAssumption DEF Tv!TokensAssumption
  <2>3b. \A d \in Callers : v2[d].token \in Nat
    BY <2>3a, <2>z
  <2>4. \A d \in Callers : v2[d].floor <= v1
    BY <1>a DEF Tv!IInv
  <2>. QED  BY <1>a, <1>0, <1>1, <2>1, <2>2, <2>3, <2>3a, <2>3b, <2>4
            DEF Tv!IInv, Tv!TypeOK, Tv!StaleIsRefused, Tv!RefusedIsStale
<1>2. CASE v1 # v2[c].cur
  <2>1. v2' = [v2 EXCEPT ![c].pc = "load"] /\ UNCHANGED <<v3, v1>>
    BY <1>2 DEF Tv!CompareAndSwap, Tv!Goto
  <2>2. Tv!IInv'
    BY <1>b, <2>1, PcInv, Zenon
  <2>. QED  BY <1>a, <2>1, <2>2
<1>. QED  BY <1>1, <1>2

\* One step: the invariant is kept and the epoch does not decrease.
LEMMA StepInv ==
    ASSUME Tv!IInv, [Tv!Next]_(Tv!vars)
    PROVE  Tv!IInv' /\ Tv!NeverDecreases
<1>0. v1 \in Nat
  BY TvTokensAssumption DEF Tv!TokensAssumption, Tv!IInv, Tv!TypeOK
<1>1. ASSUME NEW c \in Callers, NEW tok \in Tokens \cup {0}, Tv!Accept(c, tok)
      PROVE  Tv!IInv' /\ Tv!NeverDecreases
  <2>1. v1' = v1
    BY <1>1 DEF Tv!Accept
  <2>. QED  BY <1>0, <1>1, <2>1, AcceptInv DEF Tv!NeverDecreases
<1>2. ASSUME NEW c \in Callers, Tv!Load(c)
      PROVE  Tv!IInv' /\ Tv!NeverDecreases
  BY <1>0, <1>2, LoadInv DEF Tv!NeverDecreases
<1>3. ASSUME NEW c \in Callers, Tv!CompareAndSwap(c)
      PROVE  Tv!IInv' /\ Tv!NeverDecreases
  BY <1>3, SwapInv DEF Tv!NeverDecreases
<1>4. CASE UNCHANGED Tv!vars
  <2>1. v1' = v1 /\ v2' = v2 /\ v3' = v3
    BY <1>4 DEF Tv!vars
  <2>2. Tv!IInv'
    BY <2>1 DEF Tv!IInv, Tv!TypeOK, Tv!StaleIsRefused, Tv!RefusedIsStale
  <2>. QED  BY <1>0, <2>1, <2>2 DEF Tv!NeverDecreases
<1>5. CASE Tv!Next
  <2>1. PICK c \in Callers : \/ \E tok \in Tokens \cup {0} : Tv!Accept(c, tok)
                            \/ Tv!Load(c) \/ Tv!CompareAndSwap(c)
    BY <1>5, Zenon DEF Tv!Next, Tv!Step
  <2>. QED  BY <1>1, <1>2, <1>3, <2>1, Zenon
<1>. QED  BY <1>4, <1>5, Zenon

-----------------------------------------------------------------------------

\* Callers that want sets of resources.
Oa == INSTANCE OrderedAcquire WITH
    Callers <- Callers, Last <- ResourceCount, MaxCalls <- CallBound,
    pc <- v1, todo <- v2, held <- v3, calls <- v4

\* Generations that write to a resource under tokens they were granted.
Fw == INSTANCE FencedWriters WITH
    Gens <- Callers, NoGen <- "none", MaxToken <- GrantBound, Rounds <- FALSE,
    Exact <- 4, Base <- 4,
    owner <- v1, token <- v2, granted <- v3, stored <- v4, last <- v5, written <- v6

ASSUME FwRoundsAssumption == Fw!RoundsAssumption
ASSUME FwNoGenAssumption == Fw!NoGenAssumption

-----------------------------------------------------------------------------
(* Proofs: ordered acquisition.                                             *)

LEMMA OrderInit == Oa!Init => Oa!OrderInv
BY DEF Oa!Init, Oa!OrderInv, Oa!TypeOK, Oa!WaitsAscend, Oa!AllOrNothing

\* Every step of AcquireAll and ReleaseAll keeps the invariant.
LEMMA OrderStep == Oa!OrderInv /\ [Oa!Next]_(Oa!vars) => Oa!OrderInv'
<1> SUFFICES ASSUME Oa!OrderInv, [Oa!Next]_(Oa!vars) PROVE Oa!OrderInv'
  OBVIOUS
<1> USE DEF Oa!Resources, Oa!OrderInv, Oa!TypeOK, Oa!WaitsAscend, Oa!AllOrNothing
<1>1. ASSUME NEW c \in Callers, NEW ids \in SUBSET Oa!Resources, Oa!AcquireAll(c, ids) PROVE Oa!OrderInv'
  BY <1>1 DEF Oa!AcquireAll
<1>2. ASSUME NEW c \in Callers, NEW r \in Oa!Resources, Oa!Acquire(c, r) PROVE Oa!OrderInv'
  <2>1. Oa!TypeOK' /\ Oa!AllOrNothing'
    BY <1>2 DEF Oa!Acquire
  <2>2. ASSUME NEW d \in Callers, v1'[d] = "acquire", NEW h \in v3'[d], NEW q \in v2'[d]
        PROVE h < q
    <3>1. CASE d = c /\ h = r
      <4>1. q \in v2[c] /\ q # r /\ r <= q
        BY <1>2, <2>2, <3>1 DEF Oa!Acquire, Oa!NextId
      <4> QED
        BY <3>1, <4>1
    <3>2. CASE ~(d = c /\ h = r)
      BY <1>2, <2>2, <3>2 DEF Oa!Acquire
    <3> QED
      BY <3>1, <3>2
  <2> QED
    BY <2>1, <2>2
<1>3. ASSUME NEW c \in Callers, Oa!Acquired(c) \/ Oa!Fail(c) \/ Oa!ReleaseAll(c) \/ Oa!Released(c) PROVE Oa!OrderInv'
  BY <1>3 DEF Oa!Acquired, Oa!Fail, Oa!ReleaseAll, Oa!Released
<1>4. ASSUME NEW c \in Callers, NEW r \in Oa!Resources, Oa!releasePartial(c, r) PROVE Oa!OrderInv'
  BY <1>4 DEF Oa!releasePartial
<1>5. CASE UNCHANGED Oa!vars
  BY <1>5 DEF Oa!vars
<1> QED
  BY <1>1, <1>2, <1>3, <1>4, <1>5 DEF Oa!Next, Oa!Step

-----------------------------------------------------------------------------
(* Proofs: the claim and the writers.                                       *)

\* The initial state satisfies the invariant and every step keeps it.
LEMMA FInvInductive == (Fw!FInit => Fw!FInv) /\ (Fw!FInv /\ [Fw!FNext]_(Fw!fvars) => Fw!FInv')
<1>1. Fw!FInit => Fw!FInv
  BY DEF Fw!FInit, Fw!FInv, Fw!FTypeOK, Fw!GrantsCovered, Fw!OneOwnerPerEpoch
<1>2. ASSUME Fw!FInv, [Fw!FNext]_(Fw!fvars) PROVE Fw!FInv'
  <2> USE <1>2 DEF Fw!FInv, Fw!FTypeOK
  <2>1. CASE \E g \in Callers : Fw!Grant(g)
    <3>1. PICK g \in Callers : Fw!Grant(g)
      BY <2>1
    <3>2. Fw!FTypeOK'
      BY <3>1 DEF Fw!Grant
    <3>3. Fw!GrantsCovered'
      BY <3>1 DEF Fw!Grant, Fw!GrantsCovered
    <3>4. Fw!OneOwnerPerEpoch'
      BY <3>1 DEF Fw!Grant, Fw!GrantsCovered, Fw!OneOwnerPerEpoch
    <3> QED  BY <3>2, <3>3, <3>4
  <2>2. CASE Fw!Lose
    BY <2>2 DEF Fw!Lose, Fw!GrantsCovered, Fw!OneOwnerPerEpoch
  <2>3. CASE UNCHANGED Fw!fvars
    BY <2>3 DEF Fw!fvars, Fw!GrantsCovered, Fw!OneOwnerPerEpoch
  <2> QED  BY <1>2, <2>1, <2>2, <2>3 DEF Fw!FNext
<1> QED  BY <1>1, <1>2

\* Every backend that implements the fenced claim has one owner per epoch.
THEOREM FencedInvariant == Fw!FSpec => []Fw!FInv
  BY FInvInductive, PTL DEF Fw!FSpec

\* Tokens never decrease in any implementation of the fenced claim.
THEOREM FencedTokens == Fw!FSpec => Fw!TokenNeverDecreases
<1>1. Fw!FInv /\ [Fw!FNext]_(Fw!fvars) => [v2' >= v2]_(Fw!fvars)
  BY DEF Fw!FInv, Fw!FTypeOK, Fw!FNext, Fw!Grant, Fw!Lose, Fw!fvars
<1> QED  BY <1>1, FencedInvariant, PTL DEF Fw!FSpec, Fw!TokenNeverDecreases

\* Every step keeps the invariant of the writers, whose resource rounds no token.
LEMMA WInvInductive ==
    (Fw!WInit => Fw!WInv) /\ (Fw!WInv /\ [Fw!WNext]_(Fw!wvars) => Fw!WInv')
<1>1. Fw!WInit => Fw!WInv
  BY FInvInductive DEF Fw!WInit, Fw!WInv, Fw!ResourceInv, Fw!LastIsNewest, Fw!FInit
<1>2. ASSUME Fw!WInv, [Fw!WNext]_(Fw!wvars) PROVE Fw!WInv'
  <2>0. Fw!FInv /\ Fw!ResourceInv /\ Fw!LastIsNewest /\ (v1 # "none" => v2 # 0)
    BY <1>2 DEF Fw!WInv
  <2>1. CASE UNCHANGED Fw!wvars
    <3>1. UNCHANGED Fw!fvars
      BY <2>1 DEF Fw!wvars, Fw!fvars
    <3>2. Fw!FInv'
      BY <2>0, <3>1, FInvInductive
    <3> QED
      BY <2>0, <2>1, <3>2 DEF Fw!WInv, Fw!ResourceInv, Fw!LastIsNewest, Fw!wvars
  <2>2. CASE Fw!ClaimStep
    <3>1. Fw!FNext /\ UNCHANGED Fw!resource
      BY <2>2 DEF Fw!ClaimStep, Fw!FNext
    <3>2. Fw!FInv'
      BY <2>0, <3>1, FInvInductive
    <3>3. v2 \in Nat /\ v2' \in Nat /\ v2 <= v2' /\ v3 \subseteq v3'
      BY <2>0, <3>1 DEF Fw!FNext, Fw!Lose, Fw!Grant, Fw!FInv, Fw!FTypeOK
    <3>4. Fw!ResourceInv' /\ Fw!LastIsNewest'
      BY <2>0, <3>1, <3>3 DEF Fw!ResourceInv, Fw!LastIsNewest, Fw!resource
    <3>5. v1' # "none" => v2' # 0
      BY <2>0, <3>1 DEF Fw!FNext, Fw!Lose, Fw!Grant, Fw!FInv, Fw!FTypeOK
    <3> QED
      BY <3>2, <3>4, <3>5 DEF Fw!WInv
  <2>3. CASE \E p \in v3 : Fw!Write(p)
    <3>1. PICK p \in v3 : Fw!Write(p)
      BY <2>3
    <3>2. Fw!FInv' /\ UNCHANGED <<v1, v2, v3>>
      BY <2>0, <3>1, FInvInductive DEF Fw!Write, Fw!fvars
    <3>3. p \in Nat \X Callers /\ p[1] \in Nat /\ p[1] <= v2 /\ p[1] # 0 /\ v4 <= p[1]
      BY <2>0, <3>1 DEF Fw!Write, Fw!Accepts, Fw!FInv, Fw!FTypeOK, Fw!GrantsCovered
    <3>4. v4' = p[1] /\ v5' = p /\ v6' = v6 \cup {p}
      BY <3>1 DEF Fw!Write, Fw!Stored
    <3>5. Fw!ResourceInv'
      BY <2>0, <3>2, <3>3, <3>4 DEF Fw!ResourceInv
    <3>6. ASSUME NEW q \in v6 PROVE q[1] < p[1] \/ q = p
      <4>1. q \in Nat \X Callers /\ q \in v3 /\ q[1] <= v4
        BY <2>0 DEF Fw!ResourceInv, Fw!LastIsNewest, Fw!FInv, Fw!FTypeOK
      <4>2. q[1] = p[1] => q[2] = p[2]
        BY <2>0, <4>1 DEF Fw!FInv, Fw!OneOwnerPerEpoch
      <4>3. q[1] \in Nat /\ v4 \in Nat /\ q[1] <= p[1]
        BY <2>0, <3>3, <4>1 DEF Fw!ResourceInv
      <4>4. q[1] = p[1] => q = p
        BY <3>3, <4>1, <4>2
      <4> QED
        BY <3>3, <4>3, <4>4
    <3>7. Fw!LastIsNewest'
      BY <3>4, <3>6 DEF Fw!LastIsNewest
    <3> QED
      BY <2>0, <3>2, <3>5, <3>7 DEF Fw!WInv
  <2> QED
    BY <1>2, <2>1, <2>2, <2>3 DEF Fw!WNext
<1> QED
  BY <1>1, <1>2

-----------------------------------------------------------------------------

\* Callers of a rate limiter.
Rt == INSTANCE RateLimit WITH
    tokens <- v1, last <- v2, inFlight <- v3, now <- v4, pc <- v5, allowed <- v6,
    mark <- v7

ASSUME RtRateAssumption == Rt!RateAssumption

-----------------------------------------------------------------------------
(* Proofs: the rate limiter.                                                *)

\* The refilled bucket holds no more than its capacity, nor less than it did.
LEMMA RefilledType ==
    ASSUME Rt!TypeOK
    PROVE  /\ Rt!Refilled \in 0..Capacity
           /\ v1 <= Rt!Refilled
  <1>1. /\ Capacity \in Nat /\ v1 \in 0..Capacity
        /\ Refill \in Nat /\ v4 - v2 \in Nat
    BY RtRateAssumption DEF Rt!RateAssumption, Rt!TypeOK
  <1>2. Refill * (v4 - v2) \in Nat
    BY <1>1
  <1> QED
    BY <1>1, <1>2 DEF Rt!Refilled, Rt!AtMost

\* Every field of the limiter keeps its type: the tokens stay within the bucket.
LEMMA RateTyped ==
    (Rt!Init => Rt!TypeOK) /\ (Rt!TypeOK /\ [Rt!Next]_(Rt!vars) => Rt!TypeOK')
  <1>1. Rt!Init => Rt!TypeOK
    BY RtRateAssumption DEF Rt!RateAssumption, Rt!Init, Rt!TypeOK
  <1>2. Rt!TypeOK /\ [Rt!Next]_(Rt!vars) => Rt!TypeOK'
    <2> SUFFICES ASSUME Rt!TypeOK, [Rt!Next]_(Rt!vars) PROVE Rt!TypeOK'
      OBVIOUS
    <2> USE RtRateAssumption DEF Rt!RateAssumption
    <2>0. Rt!Refilled \in 0..Capacity
      BY RefilledType
    <2>1. CASE Rt!Tick
      BY <2>1 DEF Rt!Tick, Rt!TypeOK
    <2>2. CASE Rt!Health
      BY <2>0, <2>2 DEF Rt!Health, Rt!RefillNoted, Rt!TypeOK
    <2>3. CASE Rt!Mark
      BY <2>3 DEF Rt!Mark, Rt!TypeOK
    <2>4. ASSUME NEW c \in Callers, Rt!Wait(c) PROVE Rt!TypeOK'
      BY <2>4 DEF Rt!Wait, Rt!TypeOK
    <2>5. ASSUME NEW c \in Callers, Rt!ContextDone(c) PROVE Rt!TypeOK'
      BY <2>5 DEF Rt!ContextDone, Rt!TypeOK
    <2>6. ASSUME NEW c \in Callers, Rt!Allow(c) PROVE Rt!TypeOK'
      <3>1. CASE Rt!Full \/ Rt!Refilled < Cost
        BY <2>0, <2>6, <3>1 DEF Rt!Allow, Rt!RefillNoted, Rt!TypeOK
      <3>2. CASE ~(Rt!Full \/ Rt!Refilled < Cost)
        BY <2>0, <2>6, <3>2 DEF Rt!Allow, Rt!RefillNoted, Rt!TypeOK
      <3> QED
        BY <3>1, <3>2
    <2>7. ASSUME NEW c \in Callers, Rt!Release(c) PROVE Rt!TypeOK'
      BY <2>7 DEF Rt!Release, Rt!TypeOK
    <2>8. CASE UNCHANGED Rt!vars
      BY <2>8 DEF Rt!vars, Rt!TypeOK
    <2> QED
      BY <2>1, <2>2, <2>3, <2>4, <2>5, <2>6, <2>7, <2>8 DEF Rt!Next
  <1> QED
    BY <1>1, <1>2

\* A refill changes nothing about what the bucket would hold.
LEMMA RefillKeepsRefilled ==
    ASSUME Rt!TypeOK, v1' = Rt!Refilled, Rt!RefillNoted, v4' = v4
    PROVE  Rt!Refilled' = Rt!Refilled
  <1>1. Rt!Refilled \in 0..Capacity
    BY RefilledType
  <1>2. v4' - v2' = 0
    BY DEF Rt!RefillNoted, Rt!TypeOK
  <1>3. Refill * (v4' - v2') = 0
    BY <1>2, RtRateAssumption DEF Rt!RateAssumption
  <1>4. Rt!Refilled' = Rt!AtMost(v1' + Refill * (v4' - v2'), Capacity)
    BY DEF Rt!Refilled, Rt!AtMost
  <1> QED
    BY <1>1, <1>3, <1>4, RtRateAssumption DEF Rt!RateAssumption, Rt!AtMost

\* A tick adds at most Refill to what the bucket would hold.
LEMMA TickRefills ==
    ASSUME Rt!TypeOK, Rt!Tick
    PROVE  Rt!Refilled' <= Rt!Refilled + Refill /\ Rt!Refilled' \in Int /\ Rt!Refilled \in Int
  <1> DEFINE d == v4 - v2
  <1>1. /\ Capacity \in Nat /\ v1 \in Nat /\ Refill \in Nat /\ d \in Nat
    BY RtRateAssumption DEF Rt!RateAssumption, Rt!TypeOK
  <1>2. v4' - v2' = d + 1 /\ v1' = v1
    BY DEF Rt!Tick, Rt!TypeOK
  <1>3. Refill * (d + 1) = Refill * d + Refill /\ Refill * d \in Nat
    BY <1>1
  <1>4. Rt!Refilled' = Rt!AtMost(v1 + (Refill * d + Refill), Capacity)
    BY <1>2, <1>3 DEF Rt!Refilled, Rt!AtMost
  <1>5. Rt!Refilled = Rt!AtMost(v1 + Refill * d, Capacity)
    BY DEF Rt!Refilled
  <1> HIDE DEF d
  <1> QED
    BY <1>1, <1>3, <1>4, <1>5 DEF Rt!AtMost

\* Arithmetic of a tick.
LEMMA AddRefill ==
    ASSUME NEW a \in Int, NEW b \in Int, NEW r \in Int, NEW q \in Int, NEW k \in Int, NEW f \in Int,
           a + r <= k + b, q <= r + f
    PROVE  a + q <= k + (b + f)
  OBVIOUS

\* What was allowed since the observer began, with what the bucket would hold, is within
\* a full bucket and what was refilled: at first, and after every step.
LEMMA RateInductive ==
    (Rt!Init => Rt!RateInv) /\ (Rt!TypeOK /\ Rt!RateInv /\ [Rt!Next]_(Rt!vars) => Rt!RateInv')
  <1>1. Rt!Init => Rt!RateInv
    <2> SUFFICES ASSUME Rt!Init PROVE Rt!RateInv
      OBVIOUS
    <2>1. Rt!Refilled <= Capacity /\ Rt!Refilled \in Int
      BY RtRateAssumption DEF Rt!RateAssumption, Rt!Init, Rt!Refilled, Rt!AtMost
    <2> QED
      BY <2>1, RtRateAssumption DEF Rt!RateAssumption, Rt!Init, Rt!RateInv
  <1>2. Rt!TypeOK /\ Rt!RateInv /\ [Rt!Next]_(Rt!vars) => Rt!RateInv'
    <2> SUFFICES ASSUME Rt!TypeOK, Rt!RateInv, [Rt!Next]_(Rt!vars) PROVE Rt!RateInv'
      OBVIOUS
    <2> DEFINE spent == v6 - v7.allowed
    <2> DEFINE span == v4 - v7.at
    <2>0. /\ Rt!Refilled \in 0..Capacity /\ Capacity \in Nat
          /\ Refill \in Nat /\ Cost \in Nat /\ spent \in Nat /\ span \in Nat
          /\ Cost * spent \in Nat /\ Refill * span \in Nat
          /\ Cost * spent + Rt!Refilled <= Capacity + Refill * span
      BY RefilledType, RtRateAssumption DEF Rt!RateAssumption, Rt!TypeOK, Rt!RateInv
    <2>1. CASE Rt!Tick
      <3>1. spent' = spent /\ span' = span + 1
        BY <2>1 DEF Rt!Tick, Rt!TypeOK
      <3>2. Refill * (span + 1) = Refill * span + Refill
        BY <2>0
      <3>3. Rt!Refilled' <= Rt!Refilled + Refill /\ Rt!Refilled' \in Int
        BY <2>1, TickRefills
      <3>4. Cost * spent + Rt!Refilled' <= Capacity + (Refill * span + Refill)
        <4>1. Rt!Refilled \in Int /\ Refill \in Int /\ Capacity \in Int
          BY <2>0
        <4> QED
          BY <2>0, <3>3, <4>1, AddRefill
      <3> QED
        BY <3>1, <3>2, <3>4 DEF Rt!RateInv
    <2>2. CASE Rt!Health
      <3>1. Rt!Refilled' = Rt!Refilled
        BY <2>2, RefillKeepsRefilled DEF Rt!Health
      <3> QED
        BY <2>2, <3>1 DEF Rt!Health, Rt!RateInv
    <2>3. CASE Rt!Mark
      <3>1. Rt!Refilled' = Rt!Refilled /\ v6' - v7'.allowed = 0 /\ v4' - v7'.at = 0
        BY <2>3 DEF Rt!Mark, Rt!Refilled, Rt!AtMost, Rt!TypeOK
      <3>2. Cost * 0 = 0 /\ Refill * 0 = 0
        BY <2>0
      <3> QED
        BY <2>0, <3>1, <3>2 DEF Rt!RateInv
    <2>4. ASSUME NEW c \in Callers, Rt!Allow(c) PROVE Rt!RateInv'
      <3>1. CASE Rt!Full \/ Rt!Refilled < Cost
        <4>1. Rt!Refilled' = Rt!Refilled
          BY <2>4, <3>1, RefillKeepsRefilled DEF Rt!Allow
        <4> QED
          BY <2>4, <3>1, <4>1 DEF Rt!Allow, Rt!RateInv
      <3>2. CASE ~(Rt!Full \/ Rt!Refilled < Cost)
        <4>1. /\ v1' = Rt!Refilled - Cost /\ v6' = v6 + 1
              /\ v2' = v4 /\ v4' = v4 /\ v7' = v7
          BY <2>4, <3>2 DEF Rt!Allow, Rt!RefillNoted
        <4>2. v4' - v2' = 0 /\ Refill * 0 = 0
          BY <2>0, <4>1 DEF Rt!TypeOK
        <4>3. Rt!Refilled' = Rt!AtMost(Rt!Refilled - Cost + 0, Capacity)
          BY <4>1, <4>2 DEF Rt!Refilled, Rt!AtMost
        <4>4. Rt!Refilled' = Rt!Refilled - Cost
          BY <2>0, <4>3 DEF Rt!AtMost
        <4>5. spent' = spent + 1 /\ span' = span
          BY <4>1 DEF Rt!TypeOK
        <4>6. Cost * (spent + 1) = Cost * spent + Cost
          BY <2>0
        <4>7. (Cost * spent + Cost) + (Rt!Refilled - Cost) <= Capacity + Refill * span
          <5> HIDE DEF spent, span
          <5> QED
            BY <2>0
        <4> QED
          BY <4>4, <4>5, <4>6, <4>7 DEF Rt!RateInv
      <3> QED
        BY <3>1, <3>2
    <2>5. CASE UNCHANGED <<v1, v2, v4, v6, v7>>
      BY <2>5 DEF Rt!RateInv, Rt!Refilled, Rt!AtMost
    <2>6. ASSUME NEW c \in Callers, Rt!Wait(c) \/ Rt!ContextDone(c) \/ Rt!Release(c) PROVE Rt!RateInv'
      BY <2>5, <2>6 DEF Rt!Wait, Rt!ContextDone, Rt!Release
    <2> QED
      BY <2>1, <2>2, <2>3, <2>4, <2>5, <2>6 DEF Rt!Next, Rt!vars
  <1> QED
    BY <1>1, <1>2

\* What the bucket would hold is not negative.
LEMMA RateFollows == Rt!TypeOK /\ Rt!RateInv => Rt!RateBounded
  <1> SUFFICES ASSUME Rt!TypeOK, Rt!RateInv PROVE Rt!RateBounded
    OBVIOUS
  <1> DEFINE spent == v6 - v7.allowed
  <1> DEFINE span == v4 - v7.at
  <1>1. /\ Rt!Refilled \in Nat /\ Capacity \in Nat
        /\ Cost * spent \in Int /\ Refill * span \in Int
    BY RefilledType, RtRateAssumption DEF Rt!RateAssumption, Rt!TypeOK
  <1>2. Cost * spent + Rt!Refilled <= Capacity + Refill * span
    BY DEF Rt!RateInv
  <1>3. Cost * spent <= Capacity + Refill * span
    <2> HIDE DEF spent, span
    <2> QED
      BY <1>1, <1>2
  <1> QED
    BY <1>3 DEF Rt!RateBounded

\* A step lets at most one caller in, past the test of the bound, or one out.
LEMMA InsideChanges ==
    ASSUME Rt!TypeOK, [Rt!Next]_(Rt!vars)
    PROVE  \/ Rt!Inside' = Rt!Inside /\ v3' = v3
           \/ \E c \in Callers \ Rt!Inside :
                 Rt!Inside' = Rt!Inside \cup {c} /\ v3' = v3 + 1 /\ ~Rt!Full
           \/ \E c \in Rt!Inside :
                 Rt!Inside' = Rt!Inside \ {c} /\ v3' = IF v3 > 0 THEN v3 - 1 ELSE v3
  <1>1. ASSUME NEW c \in Callers, Rt!Allow(c), ~(Rt!Full \/ Rt!Refilled < Cost)
        PROVE  c \notin Rt!Inside /\ Rt!Inside' = Rt!Inside \cup {c} /\ v3' = v3 + 1 /\ ~Rt!Full
    BY <1>1 DEF Rt!Allow, Rt!Inside, Rt!TypeOK
  <1>2. ASSUME NEW c \in Callers, Rt!Allow(c), Rt!Full \/ Rt!Refilled < Cost
        PROVE  Rt!Inside' = Rt!Inside /\ v3' = v3
    BY <1>2 DEF Rt!Allow, Rt!Inside
  <1>3. ASSUME NEW c \in Callers, Rt!Release(c)
        PROVE  /\ c \in Rt!Inside /\ Rt!Inside' = Rt!Inside \ {c}
               /\ v3' = IF v3 > 0 THEN v3 - 1 ELSE v3
    BY <1>3 DEF Rt!Release, Rt!Inside, Rt!TypeOK
  <1>4. ASSUME NEW c \in Callers, Rt!Wait(c) \/ Rt!ContextDone(c)
        PROVE  Rt!Inside' = Rt!Inside /\ v3' = v3
    BY <1>4 DEF Rt!Wait, Rt!ContextDone, Rt!Inside, Rt!TypeOK
  <1>5. CASE Rt!Tick \/ Rt!Health \/ Rt!Mark \/ UNCHANGED Rt!vars
    BY <1>5 DEF Rt!Tick, Rt!Health, Rt!Mark, Rt!vars, Rt!Inside
  <1> QED
    BY <1>1, <1>2, <1>3, <1>4, <1>5 DEF Rt!Next

-----------------------------------------------------------------------------
(* Proofs: the rate limiter's count of callers.                             *)

Fs == INSTANCE FiniteSetTheorems

\* The cardinality the limiter is modelled with is the one of the theorems.
LEMMA SameCount ==
    /\ \A S : Rt!IsFiniteSet(S) <=> Fs!IsFiniteSet(S)
    /\ \A S : Rt!Cardinality(S) = Fs!Cardinality(S)
  BY Zenon DEF Rt!Cardinality, Fs!Cardinality, Rt!IsFiniteSet, Fs!IsFiniteSet

\* One caller more inside counts one more, one less one less.
LEMMA InsideCount ==
    /\ Rt!Cardinality({}) = 0
    /\ Rt!Cardinality(Rt!Inside) \in Nat
    /\ \A c \in Callers \ Rt!Inside : Rt!Cardinality(Rt!Inside \cup {c}) = Rt!Cardinality(Rt!Inside) + 1
    /\ \A c \in Rt!Inside :
          Rt!Cardinality(Rt!Inside \ {c}) = Rt!Cardinality(Rt!Inside) - 1 /\ Rt!Cardinality(Rt!Inside) # 0
  <1>1. Fs!IsFiniteSet(Rt!Inside)
    BY RtRateAssumption, SameCount, Fs!FS_Subset DEF Rt!RateAssumption, Rt!Inside
  <1> QED
    BY Zenon, <1>1, SameCount, Fs!FS_EmptySet, Fs!FS_CardinalityType, Fs!FS_AddElement, Fs!FS_RemoveElement

\* CountInv and ConcurrencyBounded hold at first, and every step keeps them: the counter is
\* the number of callers between Allow and Release, which MaxConcurrent bounds.
LEMMA CountInductive ==
    /\ Rt!Init => Rt!CountInv /\ Rt!ConcurrencyBounded
    /\ Rt!TypeOK /\ Rt!CountInv /\ Rt!ConcurrencyBounded /\ [Rt!Next]_(Rt!vars)
          => Rt!CountInv' /\ Rt!ConcurrencyBounded'
  <1>1. Rt!Init => Rt!CountInv /\ Rt!ConcurrencyBounded
    <2>1. Rt!Init => Rt!Inside = {}
      BY DEF Rt!Init, Rt!Inside
    <2>2. Rt!Init => Rt!Cardinality(Rt!Inside) = 0
      BY Zenon, <2>1, InsideCount
    <2> QED
      BY <2>2, RtRateAssumption
      DEF Rt!RateAssumption, Rt!Init, Rt!CountInv, Rt!ConcurrencyBounded
  <1>2. ASSUME Rt!TypeOK, Rt!CountInv, Rt!ConcurrencyBounded, [Rt!Next]_(Rt!vars)
        PROVE  Rt!CountInv' /\ Rt!ConcurrencyBounded'
    <2> USE <1>2, RtRateAssumption, InsideCount DEF Rt!RateAssumption, Rt!CountInv, Rt!ConcurrencyBounded
    <2>1. CASE Rt!Inside' = Rt!Inside /\ v3' = v3
      BY <2>1
    <2>2. ASSUME NEW c \in Callers \ Rt!Inside,
                 Rt!Inside' = Rt!Inside \cup {c}, v3' = v3 + 1, ~Rt!Full
          PROVE  Rt!CountInv' /\ Rt!ConcurrencyBounded'
      BY <2>2 DEF Rt!Full
    <2>3. ASSUME NEW c \in Rt!Inside,
                 Rt!Inside' = Rt!Inside \ {c}, v3' = IF v3 > 0 THEN v3 - 1 ELSE v3
          PROVE  Rt!CountInv' /\ Rt!ConcurrencyBounded'
      BY <2>3
    <2> QED
      BY <2>1, <2>2, <2>3, InsideChanges
  <1> QED
    BY <1>1, <1>2

\* The limiter's invariant holds at first, and every step keeps it.
LEMMA LimitInductive ==
    (Rt!Init => Rt!LimitInv) /\ (Rt!LimitInv /\ [Rt!Next]_(Rt!vars) => Rt!LimitInv')
BY RateTyped, RateInductive, CountInductive DEF Rt!LimitInv

-----------------------------------------------------------------------------

\* What is stale is stopped, and nothing else: once Accept returned true for a token it
\* returns false for a smaller one, and it refuses a token that is not zero only after a
\* newer one; the last write that a fenced resource took is the newest, so that no
\* generation writes over what a later owner of the claim has written, and a fenced
\* resource never refuses the owner of the claim.
StaleIsStopped ==
    /\ part = "validator" => Tv!StaleIsRefused /\ Tv!RefusedIsStale
    /\ part = "writers" => Fw!LastIsNewest /\ Fw!OwnerMayWrite

\* What fences never goes back: the token of the protocol model grows, by one, and only
\* with a new owner, and the epoch a validator stores grows (fencing.go:39).
TokensAdvance ==
    /\ TokenMonotonic /\ AdvancesOnce
    /\ [][part = "validator" => Tv!NeverDecreases]_all

\* Resources are shared in order and within their limits.  Whoever waits in AcquireAll holds
\* only resources that come before those it still wants, so that no circle of callers waits
\* for each other, and a call that failed has given back all it held when it returns; a rate
\* limiter grants, in every span of time, what a full bucket and the span have earned, and
\* its count of callers is exact and within the maximum, whoever comes at once.
SharedInOrder ==
    /\ part = "acquire" => Oa!WaitsAscend /\ Oa!AllOrNothing
    /\ part = "rate" => Rt!LimitInv /\ Rt!RateBounded

-----------------------------------------------------------------------------
(* Proofs: these components in the run.                                     *)

\* The run, as far as the protocol model, the validator, ordered acquisition, the
\* writers and the rate limiter go.
CoreInit ==
    /\ Init
    /\ part = "validator" => Tv!Init
    /\ part = "acquire" => Oa!Init
    /\ part = "writers" => Fw!WInit
    /\ part = "rate" => Rt!Init

CoreNext ==
    /\ part' = part
    /\ [Next]_vars
    /\ part = "validator" => [Tv!Next]_(Tv!vars)
    /\ part = "acquire" => [Oa!Next]_(Oa!vars)
    /\ part = "writers" => [Fw!WNext]_(Fw!wvars)
    /\ part = "rate" => [Rt!Next]_(Rt!vars)

CoreSpec == CoreInit /\ [][CoreNext]_all

\* Its inductive invariant; and what it says besides when operation ids are used once.
CoreInv ==
    /\ OwnerInv
    /\ part = "validator" => Tv!IInv
    /\ part = "acquire" => Oa!OrderInv
    /\ part = "writers" => Fw!WInv
    /\ part = "rate" => Rt!LimitInv

CoreOnce == Replayed = {} => CheckInvariants

\* It holds at first.
LEMMA CoreInitial == CoreInit => CoreInv /\ CoreOnce
BY InitOwner, InitWorld, InitInv, OrderInit, WInvInductive, LimitInductive
DEF CoreInit, CoreInv, CoreOnce, WorldInv

\* A step that leaves all variables alone is one of the run.
LEMMA CoreStutter == UNCHANGED all => CoreNext
BY DEF CoreNext, all, Tv!vars, Oa!vars, Fw!wvars, Rt!vars

\* Every step keeps it.
LEMMA CoreStep == CoreInv /\ CoreOnce /\ [CoreNext]_all => CoreInv' /\ CoreOnce'
<1> SUFFICES ASSUME CoreInv, CoreOnce, CoreNext PROVE CoreInv' /\ CoreOnce'
  BY CoreStutter
<1>1. OwnerInv' /\ CoreOnce'
  BY StepKeepsOwner, StepKeepsWorld DEF CoreNext, CoreInv, CoreOnce, WorldInv
<1>2. part = "validator" => Tv!IInv'
  BY StepInv DEF CoreNext, CoreInv
<1>3. part = "acquire" => Oa!OrderInv'
  BY OrderStep DEF CoreNext, CoreInv
<1>4. part = "writers" => Fw!WInv'
  BY WInvInductive DEF CoreNext, CoreInv
<1>5. part = "rate" => Rt!LimitInv'
  BY LimitInductive DEF CoreNext, CoreInv
<1> QED
  BY <1>1, <1>2, <1>3, <1>4, <1>5 DEF CoreNext, CoreInv

\* What the invariant gives.
LEMMA CoreImplies ==
    ASSUME CoreInv
    PROVE  StaleIsStopped /\ SharedInOrder /\ HeldHasOwner
<1>1. Fw!WInv => Fw!OwnerMayWrite
  BY DEF Fw!WInv, Fw!ResourceInv, Fw!OwnerMayWrite, Fw!Accepts
<1>2. Rt!LimitInv => Rt!RateBounded
  BY RateFollows DEF Rt!LimitInv
<1> QED
  BY <1>1, <1>2 DEF CoreInv, OwnerInv, Tv!IInv, Oa!OrderInv, Fw!WInv, StaleIsStopped, SharedInOrder

\* And of a step.
LEMMA CoreAdvances ==
    ASSUME Replayed = {}, CoreInv, CoreOnce, [CoreNext]_all
    PROVE  /\ [token' >= token]_vars
           /\ [token' # token => token' = token + 1 /\ phase' = "owned" /\ left' = LeaseTTL]_vars
           /\ [part = "validator" => Tv!NeverDecreases]_all
<1>1. CoreNext /\ WorldInv
  BY CoreStutter DEF CoreInv, CoreOnce, WorldInv
<1>2. token \in Nat
  BY <1>1 DEF WorldInv, OwnerInv, TypeOK
<1>3. token' = token \/ (token' = token + 1 /\ phase' = "owned" /\ left' = LeaseTTL)
  BY <1>1, StepKeepsWorld DEF CoreNext
<1>4. part = "validator" => Tv!NeverDecreases
  BY <1>1, StepInv DEF CoreNext, CoreInv
<1> QED
  BY <1>2, <1>3, <1>4

\* So these hold in every state,
LEMMA CoreSafe ==
    /\ CoreSpec => []StaleIsStopped
    /\ CoreSpec => []SharedInOrder
    /\ CoreSpec => []HeldHasOwner
BY CoreInitial, CoreStep, CoreImplies, PTL DEF CoreSpec

\* these too when operation ids are used once,
LEMMA CoreChecked == ASSUME Replayed = {} PROVE CoreSpec => []CheckInvariants
<1>1. CoreOnce => CheckInvariants
  BY DEF CoreOnce
<1> QED
  BY <1>1, CoreInitial, CoreStep, PTL DEF CoreSpec

\* and with them this of every step.

LEMMA CoreGrows == ASSUME Replayed = {} PROVE CoreSpec => TokensAdvance
BY CoreInitial, CoreStep, CoreAdvances, PTL
DEF CoreSpec, TokensAdvance, TokenMonotonic, AdvancesOnce

-----------------------------------------------------------------------------

Diamond == <<1, 2, 3, 4>>
DiamondModes == <<"Idempotent", "RequiresOperationID", "NotRetryable", "Idempotent">>

\* Three calls with two ids between them, two of which may be under way.
Ht == INSTANCE HTTPService WITH
    Callers <- {"c1", "c2", "c3"}, Ids <- {"i1", "i2"}, NoID <- "none",
    MaxConcurrent <- 2, CircuitThreshold <- 2, CircuitOpenFor <- 1,
    Durations <- {0, 2}, MaxSeen <- 2, MaxCalls <- 3, MaxOpenings <- 1,
    seenIDs <- v1, failures <- v2, left <- v3, call <- v4, calls <- v5,
    openings <- v6, sent <- v7

\* Three flows that rebuild one cache.
Ca == INSTANCE CacheGeneration WITH
    Flows <- {"f1", "f2", "f3"}, MaxGeneration <- 2, MaxWrites <- 1,
    generation <- v1, building <- v2, data <- v3, flow <- v4, retired <- v5,
    verified <- v6

\* A workflow of a step, two in parallel and a last one, run and resumed.
Wf == INSTANCE WorkflowEngine WITH
    Order <- Diamond, DependsOn <- <<{}, {1}, {1}, {2, 3}>>, Group <- <<0, 1, 1, 0>>,
    Idempotency <- DiamondModes, Compensable <- {1, 2}, Mutates <- {1, 2, 3},
    Fenced <- {1}, MaxParallel <- 2, OpIds <- {"op", "none"}, NoOp <- "none",
    DryRuns <- {FALSE}, SaveResults <- {TRUE}, MaxRuns <- 2, MaxEpoch <- 1,
    store <- v1, inst <- v2, pc <- v3, op <- v4, calls <- v5, seen <- v6, k <- v7,
    runs <- v8, closed <- v9, lockdown <- v10, epoch <- v11, ran <- v12,
    inPlace <- v13, late <- v14

\* A migration that two callers start and an operator may move.
Mi == INSTANCE Migration WITH
    Callers <- {"c1", "c2"}, PauseAfters <- {"", "verifying"},
    OperatorPhases <- {"paused", "cutover"}, MaxStarts <- 2, MaxMoves <- 1,
    phase <- v1, dryRun <- v2, resumeFrom <- v3, call <- v4, gates <- v5,
    starts <- v6, moves <- v7, verified <- v8, cuts <- v9, asked <- v10, manual <- v11

ASSUME WfWorkflowAssumption == Wf!WorkflowAssumption

-----------------------------------------------------------------------------

AllInit ==
    /\ Init
    /\ \/ part = "protocol" /\ Blank1
       \/ part = "validator" /\ Tv!Init /\ Blank4
       \/ part = "http" /\ Ht!Init /\ Blank8
       \/ part = "cache" /\ Ca!Init /\ Blank7
       \/ part = "acquire" /\ Oa!Init /\ Blank5
       \/ part = "writers" /\ Fw!WInit /\ Blank7
       \/ part = "rate" /\ Rt!Init /\ Blank8
       \/ part = "workflow" /\ Wf!Init
       \/ part = "migration" /\ Mi!Init /\ Blank12

AllNext ==
    /\ UNCHANGED part
    /\ \/ part = "protocol" /\ Next /\ UNCHANGED <<v1, v2, v3, v4, v5, v6, v7, v8, v9, v10, v11, v12, v13, v14>>
       \/ part = "validator" /\ Tv!Next /\ UNCHANGED <<vars, v4, v5, v6, v7, v8, v9, v10, v11, v12, v13, v14>>
       \/ part = "http" /\ Ht!Next /\ UNCHANGED <<vars, v8, v9, v10, v11, v12, v13, v14>>
       \/ part = "cache" /\ Ca!Next /\ UNCHANGED <<vars, v7, v8, v9, v10, v11, v12, v13, v14>>
       \/ part = "acquire" /\ Oa!Next /\ UNCHANGED <<vars, v5, v6, v7, v8, v9, v10, v11, v12, v13, v14>>
       \/ part = "writers" /\ Fw!WNext /\ UNCHANGED <<vars, v7, v8, v9, v10, v11, v12, v13, v14>>
       \/ part = "rate" /\ Rt!Next /\ UNCHANGED <<vars, v8, v9, v10, v11, v12, v13, v14>>
       \/ part = "workflow" /\ Wf!Next /\ UNCHANGED vars
       \/ part = "migration" /\ Mi!Next /\ UNCHANGED <<vars, v12, v13, v14>>
       \* These components may come to their end.
       \/ part \notin {"protocol", "validator", "rate"} /\ UNCHANGED <<vars, v1, v2, v3, v4, v5, v6, v7, v8, v9, v10, v11, v12, v13, v14>>

Tvvars == Tv!vars
Htvars == Ht!vars
Cavars == Ca!vars
Oavars == Oa!vars
Wfvars == Wf!vars
Mivars == Mi!vars

\* Goroutines that can run do run, clients of an HTTP service answer or time out, and
\* what the application passed in (actions, hooks, verifiers) returns.  No context
\* need end, and nothing obliges anybody to call.
CallFairness ==
    /\ \A c \in Callers : WF_Tvvars(part = "validator" /\ Tv!Step(c))
    /\ \A c \in {"c1", "c2", "c3"} : /\ WF_Htvars(part = "http" /\ Ht!Execute(c))
                                     /\ WF_Oavars(part = "acquire" /\ Oa!Step(c))
    /\ \A f \in {"f1", "f2", "f3"} : WF_Cavars(part = "cache" /\ Ca!FlowStep(f))
    /\ \A c \in {"c1", "c2"} : WF_Mivars(part = "migration" /\ Mi!CallStep(c))
    /\ WF_Wfvars(part = "workflow" /\ Wf!EngineStep)

AllSpec == AllInit /\ [][AllNext]_all /\ CallFairness

-----------------------------------------------------------------------------

\* However its retries interleave, the HTTP service sends no idempotency id twice
\* (seenIDs), has no more requests under way than slots (sem), and while the circuit is
\* open sends only what found it closed before it was last opened (Execute looks once,
\* and then waits for its slot).
RequestsSent ==
    /\ [](part = "http" => Ht!SentOnce /\ Ht!SlotsBounded)
    /\ [][part = "http" => Ht!SentWhileOpenIsOld]_all

\* Only what was verified goes into use.  The active data of a cache are the seed of a flow
\* that verified it for exactly this generation, whose reservation is its own
\* (Controller.Activate); a migration's cutover hook runs only behind verify steps that
\* passed, unless an operator set the phase by hand, and never when it was only ever
\* started dry, not even paused and resumed without the option.
VerifiedFirst ==
    /\ part = "cache" => Ca!ActiveWasVerified /\ Ca!ReservationOwned
    /\ part = "migration" => Mi!VerifiedBeforeCutover /\ Mi!DryRunNeverCutsOver

\* The action of a step that must not be retried, and that nothing undoes, is called at
\* most once however often the instance crashes and is resumed; and once lockdown is on,
\* the mutating actions of the wave already let through are the last ones called.
StepsGuarded == part = "workflow" => Wf!NotRetryableOnce /\ Wf!LockdownStopsMutations

\* The i-th of the things in a component that must come to an end: a call of Accept
\* (whose loop retries a compare-and-swap), of Execute, of AcquireAll, of Start or
\* Resume, a flow's reservation of a cache generation, and a Run of the workflow engine.
Pending(i) ==
    \/ part = "validator" /\ ~Tv!Returned(<<"c1", "c2", "c3">>[i])
    \/ part = "http" /\ Ht!Busy(<<"c1", "c2", "c3">>[i])
    \/ part = "acquire" /\ Oa!Busy(<<"c1", "c2", "c3">>[i])
    \/ part = "migration" /\ i <= 2 /\ Mi!Busy(<<"c1", "c2">>[i])
    \/ part = "cache" /\ i = 1 /\ Ca!Building
    \/ part = "workflow" /\ i = 1 /\ Wf!Running

\* These calls return however they interleave with others, and a failed rebuild does not
\* block the next one.
NothingHangs == \A i \in 1..3 : Pending(i) ~> ~Pending(i)

-----------------------------------------------------------------------------
(* Proofs: what holds in every behaviour of the run.                        *)

\* The whole run is one as far as these components go.
LEMMA AllIsCore == AllSpec => CoreSpec
<1>1. AllInit => CoreInit
  BY DEF AllInit, CoreInit
<1>2. [AllNext]_all => [CoreNext]_all
  BY DEF AllNext, all, CoreNext, Tv!vars, Oa!vars, Fw!wvars, Rt!vars
<1> QED
  BY <1>1, <1>2, PTL DEF AllSpec, CoreSpec

\* For any callers, tokens and grants, whatever is delayed or repeated, what is stale is
\* stopped, and the owner of the claim is not (EpochValidator.Accept, Write of the fenced
\* resources).
THEOREM StaleStopped == AllSpec => []StaleIsStopped
BY AllIsCore, CoreSafe

\* However many callers ask for whichever of any number of resources, waiting follows the
\* order of the ids, so that no circle of callers waits for each other, and a failed call
\* has given back all it held when it returns (resource.AcquireAll, releasePartial); and for
\* any size of bucket, rate, maximum and callers a rate limiter keeps to both its limits
\* (ratelimit.Resource).
THEOREM SharingIsSound == AllSpec => []SharedInOrder
BY AllIsCore, CoreSafe

\* HeldHasOwner holds in every behaviour, whichever operation ids are used again: a
\* claim that is held, reserved or not, has an owner (transition.go).
THEOREM OwnerTheorem == AllSpec => []HeldHasOwner
BY AllIsCore, CoreSafe

\* The invariants the repository's random tests evaluate hold in every behaviour, for
\* any generations and times, when operation ids are used once (invariant.go).
THEOREM WorldTheorem == ASSUME Replayed = {} PROVE AllSpec => []CheckInvariants
BY AllIsCore, CoreChecked

\* Fences never go back, for any callers, tokens, generations and times: the token of the
\* protocol model grows by one at a time, and only with a grant (expiry, release, renewal
\* and an aborted transfer keep it), and the epoch a validator stores never decreases.
THEOREM TokensGrow == ASSUME Replayed = {} PROVE AllSpec => TokensAdvance
BY AllIsCore, CoreGrows
=============================================================================
