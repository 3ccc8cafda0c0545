------------------------------ MODULE RateLimit ------------------------------
(***************************************************************************)
(* resource/ratelimit: a token bucket with a bound on the calls in flight. *)
(* Tokens are counted in units, Cost of them to a call, so that the        *)
(* fractions the code's floating point holds are there.                    *)
(***************************************************************************)
EXTENDS Integers, FiniteSets

CONSTANTS
    Callers,
    Capacity,       \* units in a full bucket
    Refill,         \* units a tick of the clock adds
    Cost,           \* units in one token
    MaxConcurrent,  \* 0: no bound
    MaxTime         \* bound on the clock

RateAssumption ==
    /\ Capacity \in Nat /\ Refill \in Nat /\ Cost \in Nat \ {0}
    /\ MaxConcurrent \in Nat /\ MaxTime \in Nat
    /\ IsFiniteSet(Callers)

VARIABLES
    tokens, last, inFlight,     \* Resource
    now,
    pc,                         \* caller -> idle, waiting or inside
    allowed,                    \* Resource.allowed
    mark                        \* history: a moment, and what was allowed until then

vars == <<tokens, last, inFlight, now, pc, allowed, mark>>

TypeOK ==
    /\ tokens \in 0..Capacity
    /\ now \in Nat /\ last \in 0..now
    /\ inFlight \in Nat /\ allowed \in Nat
    /\ pc \in [Callers -> {"idle", "waiting", "inside"}]
    /\ mark \in [at : Nat, allowed : Nat] /\ mark.at <= now /\ mark.allowed <= allowed

Init ==
    /\ tokens = Capacity /\ last = 0 /\ inFlight = 0 /\ now = 0
    /\ pc = [c \in Callers |-> "idle"]
    /\ allowed = 0 /\ mark = [at |-> 0, allowed |-> 0]

-----------------------------------------------------------------------------

AtMost(n, bound) == IF n > bound THEN bound ELSE n

\* Faulty: the bucket is refilled past its size.
RefilledUncapped == tokens + Refill * (now - last)

\* refillLocked, which every call begins with.
Refilled == AtMost(tokens + Refill * (now - last), Capacity)

\* Faulty: the time of the refill is not noted.
RefillForgotten == last' = last

RefillNoted == last' = now

Tick ==
    /\ now < MaxTime
    /\ now' = now + 1
    /\ UNCHANGED <<tokens, last, inFlight, pc, allowed, mark>>

\* A call to Wait, which tries Allow until it succeeds or its context ends.
Wait(c) ==
    /\ pc[c] = "idle"
    /\ pc' = [pc EXCEPT ![c] = "waiting"]
    /\ UNCHANGED <<tokens, last, inFlight, now, allowed, mark>>

ContextDone(c) ==
    /\ pc[c] = "waiting"
    /\ pc' = [pc EXCEPT ![c] = "idle"]
    /\ UNCHANGED <<tokens, last, inFlight, now, allowed, mark>>

\* Faulty: the bound is tested with the number in flight before this one.
FullLate == MaxConcurrent > 0 /\ inFlight > MaxConcurrent

Full == MaxConcurrent > 0 /\ inFlight >= MaxConcurrent

Allow(c) ==
    /\ pc[c] \in {"idle", "waiting"}
    /\ RefillNoted
    /\ IF Full \/ Refilled < Cost
       THEN tokens' = Refilled /\ UNCHANGED <<inFlight, pc, allowed>>
       ELSE /\ tokens' = Refilled - Cost
            /\ inFlight' = inFlight + 1
            /\ allowed' = allowed + 1
            /\ pc' = [pc EXCEPT ![c] = "inside"]
    /\ UNCHANGED <<now, mark>>

\* Faulty: the slot is not given back.
ReleaseForgets(c) ==
    /\ pc[c] = "inside"
    /\ pc' = [pc EXCEPT ![c] = "idle"]
    /\ UNCHANGED <<tokens, last, inFlight, now, allowed, mark>>

Release(c) ==
    /\ pc[c] = "inside"
    /\ inFlight' = IF inFlight > 0 THEN inFlight - 1 ELSE inFlight
    /\ pc' = [pc EXCEPT ![c] = "idle"]
    /\ UNCHANGED <<tokens, last, now, allowed, mark>>

\* Health and Snapshot refill too.
Health ==
    /\ tokens' = Refilled /\ RefillNoted
    /\ UNCHANGED <<inFlight, now, pc, allowed, mark>>

\* An observer begins to count.
Mark ==
    /\ mark' = [at |-> now, allowed |-> allowed]
    /\ UNCHANGED <<tokens, last, inFlight, now, pc, allowed>>

Next ==
    \/ Tick \/ Health \/ Mark
    \/ \E c \in Callers : Wait(c) \/ ContextDone(c) \/ Allow(c) \/ Release(c)

Spec == Init /\ [][Next]_vars

-----------------------------------------------------------------------------

Inside == {c \in Callers : pc[c] = "inside"}

\* MaxConcurrent bounds the callers between Allow and Release.
ConcurrencyBounded == MaxConcurrent > 0 => Cardinality(Inside) <= MaxConcurrent

\* In every span of time the calls allowed cost at most a full bucket and what
\* the span refilled, however Allow, Health and idle time alternate.
RateBounded ==
    Cost * (allowed - mark.allowed) <= Capacity + Refill * (now - mark.at)

\* What makes ConcurrencyBounded inductive: the counter is the number of callers
\* inside, however refusals and releases alternate.
CountInv == inFlight = Cardinality(Inside)

\* What makes RateBounded inductive: the same with what the bucket would hold.
RateInv ==
    Cost * (allowed - mark.allowed) + Refilled <= Capacity + Refill * (now - mark.at)

\* What every step keeps.
LimitInv == TypeOK /\ RateInv /\ CountInv /\ ConcurrencyBounded
=============================================================================
