--------------------------- MODULE CacheGeneration ---------------------------
(***************************************************************************)
(* cache.RunGenerationFlow on the memory cache: concurrent flows rebuild   *)
(* the cache in a reserved generation, verify it, activate it, advance the *)
(* epoch and retire the generation before it.                              *)
(***************************************************************************)
EXTENDS Integers, FiniteSets

CONSTANTS
    Flows,
    MaxGeneration,  \* bound on the generations
    MaxWrites       \* bound on Set and Delete

VARIABLES
    generation, building,   \* Resource.generation, Resource.building
    data,                   \* [seed, writes]: the seed and what was set since
    flow,                   \* flow -> where it is
    retired,                \* history: the generations Retire was called with
    verified                \* history: the generation each verified seed was built for

vars == <<generation, building, data, flow, retired, verified>>

Idle == [pc |-> "idle"]

Init ==
    /\ generation = 0 /\ building = FALSE /\ data = [seed |-> "empty", writes |-> 0]
    /\ flow = [f \in Flows |-> Idle] /\ retired = {} /\ verified = {}

-----------------------------------------------------------------------------

\* The flow notes the generation it replaces ...
Begin(f) ==
    /\ flow[f].pc = "idle"
    /\ flow' = [flow EXCEPT ![f] = [pc |-> "reserve", prev |-> generation]]
    /\ UNCHANGED <<generation, building, data, retired, verified>>

\* Faulty: a generation is reserved beside the one being built.
BuildBeside(f) ==
    /\ flow[f].pc = "reserve" /\ generation < MaxGeneration
    /\ flow' = [flow EXCEPT ![f] = [pc |-> "build", prev |-> flow[f].prev, gen |-> generation + 1]]
    /\ building' = TRUE
    /\ UNCHANGED <<generation, data, retired, verified>>

\* ... and reserves the next one, unless one is being built.
BuildGeneration(f) ==
    /\ flow[f].pc = "reserve" /\ generation < MaxGeneration
    /\ IF building THEN flow' = [flow EXCEPT ![f] = Idle] /\ UNCHANGED building
       ELSE /\ flow' = [flow EXCEPT ![f] = [pc |-> "build", prev |-> flow[f].prev, gen |-> generation + 1]]
            /\ building' = TRUE
    /\ UNCHANGED <<generation, data, retired, verified>>

AbortGeneration(f) == flow' = [flow EXCEPT ![f] = Idle] /\ building' = FALSE

\* Faulty: a seed that failed its verification is activated.
BuildUnverified(f) ==
    /\ flow[f].pc = "build"
    /\ \/ AbortGeneration(f) /\ UNCHANGED verified
       \/ /\ flow' = [flow EXCEPT ![f].pc = "activate"]
          /\ \E ok \in BOOLEAN : verified' = IF ok THEN verified \cup {<<f, flow[f].gen>>} ELSE verified
          /\ UNCHANGED building
    /\ UNCHANGED <<generation, data, retired>>

\* Build and Verify of the application; a dry run stops behind them.
BuildAndVerify(f) ==
    /\ flow[f].pc = "build"
    /\ \/ AbortGeneration(f) /\ UNCHANGED verified
       \/ /\ flow' = [flow EXCEPT ![f].pc = "activate"]
          /\ verified' = verified \cup {<<f, flow[f].gen>>}
          /\ UNCHANGED building
    /\ UNCHANGED <<generation, data, retired>>

ActivateGeneration(f) ==
    /\ flow[f].pc = "activate"
    /\ IF building /\ flow[f].gen = generation + 1
       THEN /\ generation' = flow[f].gen /\ building' = FALSE
            /\ data' = [seed |-> f, writes |-> 0]
            /\ flow' = [flow EXCEPT ![f].pc = "epoch"]
       ELSE AbortGeneration(f) /\ UNCHANGED <<generation, data>>
    /\ UNCHANGED <<retired, verified>>

\* The epoch is advanced, or that fails and the flow ends.
AdvanceEpoch(f) ==
    /\ flow[f].pc = "epoch"
    /\ \E ok \in BOOLEAN : flow' = [flow EXCEPT ![f] = IF ok THEN [@ EXCEPT !.pc = "retire"] ELSE Idle]
    /\ UNCHANGED <<generation, building, data, retired, verified>>

Retire(f) ==
    /\ flow[f].pc = "retire"
    /\ retired' = retired \cup {flow[f].prev}
    /\ flow' = [flow EXCEPT ![f] = Idle]
    /\ UNCHANGED <<generation, building, data, verified>>

\* Set and Delete change the active generation in place.
Write ==
    /\ data.writes < MaxWrites
    /\ data' = [data EXCEPT !.writes = @ + 1]
    /\ UNCHANGED <<generation, building, flow, retired, verified>>

FlowStep(f) ==
    \/ BuildGeneration(f) \/ BuildAndVerify(f) \/ ActivateGeneration(f)
    \/ AdvanceEpoch(f) \/ Retire(f)

Next == Write \/ \E f \in Flows : Begin(f) \/ FlowStep(f)

Spec == Init /\ [][Next]_vars

-----------------------------------------------------------------------------

\* The active data are the seed of a flow that verified it for exactly this
\* generation: no other flow's build slips in between.
ActiveWasVerified == generation > 0 => <<data.seed, generation>> \in verified

\* A reservation belongs to exactly one flow, which will give it up.
ReservationOwned ==
    Cardinality({f \in Flows : flow[f].pc \in {"build", "activate"}}) = IF building THEN 1 ELSE 0

\* The active generation is never retired, and a flow retires the one it
\* replaced.
\* The code does not keep this (README, Disagreements).
RetiresPrior == \A f \in Flows : flow[f].pc = "retire" /\ flow'[f].pc = "idle" =>
                   flow[f].prev = flow[f].gen - 1

-----------------------------------------------------------------------------
(* What the liveness properties of the runs speak of.                       *)

Building == building
=============================================================================
