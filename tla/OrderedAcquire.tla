--------------------------- MODULE OrderedAcquire ---------------------------
(***************************************************************************)
(* resource.AcquireAll and ReleaseAll over an AcquireFunc that waits for   *)
(* its resource: concurrent callers with overlapping sets of distinct ids. *)
(* A ReleaseFunc gives its resource back also when the context has ended.  *)
(***************************************************************************)
EXTENDS Integers, FiniteSets

CONSTANTS
    Callers,
    Last,           \* how many resources there are
    MaxCalls        \* bound on the calls

\* The resources, numbered in the canonical order of their ids.
Resources == 1..Last

VARIABLES
    pc,             \* caller -> idle, acquire, holding or release
    todo, held,     \* caller -> the ids still to be acquired, and those it holds
    calls

vars == <<pc, todo, held, calls>>

TypeOK ==
    /\ pc \in [Callers -> {"idle", "acquire", "holding", "release"}]
    /\ todo \in [Callers -> SUBSET Resources]
    /\ held \in [Callers -> SUBSET Resources]
    /\ calls \in Nat

Init ==
    /\ pc = [c \in Callers |-> "idle"] /\ calls = 0
    /\ todo = [c \in Callers |-> {}] /\ held = [c \in Callers |-> {}]

\* A resource has one holder (the AcquireFunc of the application).
Free(r) == \A c \in Callers : r \notin held[c]

AcquireAll(c, ids) ==
    /\ pc[c] = "idle" /\ calls < MaxCalls /\ calls' = calls + 1
    /\ pc' = [pc EXCEPT ![c] = "acquire"] /\ todo' = [todo EXCEPT ![c] = ids]
    /\ UNCHANGED held

\* Faulty: the ids are taken in the order they came in.
NextIdUnsorted(c, r) == r \in todo[c]

\* The ids are taken in the order they were sorted in.
NextId(c, r) == r \in todo[c] /\ \A t \in todo[c] : r <= t

Acquire(c, r) ==
    /\ pc[c] = "acquire" /\ NextId(c, r) /\ Free(r)
    /\ todo' = [todo EXCEPT ![c] = @ \ {r}] /\ held' = [held EXCEPT ![c] = @ \cup {r}]
    /\ UNCHANGED <<pc, calls>>

\* AcquireAll returns its handle.
Acquired(c) ==
    /\ pc[c] = "acquire" /\ todo[c] = {}
    /\ pc' = [pc EXCEPT ![c] = "holding"]
    /\ UNCHANGED <<todo, held, calls>>

\* Faulty: what was acquired is kept.
FailKeeping(c) ==
    /\ pc[c] = "acquire" /\ todo[c] # {}
    /\ pc' = [pc EXCEPT ![c] = "idle"] /\ todo' = [todo EXCEPT ![c] = {}]
    /\ UNCHANGED <<held, calls>>

\* The context has ended, or an AcquireFunc fails.
Fail(c) ==
    /\ pc[c] = "acquire" /\ todo[c] # {}
    /\ pc' = [pc EXCEPT ![c] = "release"] /\ todo' = [todo EXCEPT ![c] = {}]
    /\ UNCHANGED <<held, calls>>

\* The application gives its handle back.
ReleaseAll(c) ==
    /\ pc[c] = "holding" /\ pc' = [pc EXCEPT ![c] = "release"]
    /\ UNCHANGED <<todo, held, calls>>

\* The last one acquired is released first.
releasePartial(c, r) ==
    /\ pc[c] = "release" /\ r \in held[c] /\ \A h \in held[c] : h <= r
    /\ held' = [held EXCEPT ![c] = @ \ {r}]
    /\ UNCHANGED <<pc, todo, calls>>

Released(c) ==
    /\ pc[c] = "release" /\ held[c] = {}
    /\ pc' = [pc EXCEPT ![c] = "idle"]
    /\ UNCHANGED <<todo, held, calls>>

Step(c) ==
    \/ Acquired(c) \/ ReleaseAll(c) \/ Released(c)
    \/ \E r \in Resources : Acquire(c, r) \/ releasePartial(c, r)

Next == \E c \in Callers : Step(c) \/ Fail(c) \/ \E ids \in SUBSET Resources : AcquireAll(c, ids)

\* Callers go on and give back what they hold; no context need end.
Spec == Init /\ [][Next]_vars

-----------------------------------------------------------------------------

\* A caller that has resources yet to acquire holds only earlier ones.  Whoever it waits
\* for can then only wait for a later one, and waiting never goes round in a circle
\* (AcquireAll's canonical order).
WaitsAscend ==
    \A c \in Callers : pc[c] = "acquire" => \A r \in held[c], q \in todo[c] : r < q

\* A caller whose AcquireAll has failed and returned holds nothing (releasePartial).
AllOrNothing == \A c \in Callers : pc[c] = "idle" => held[c] = {}

-----------------------------------------------------------------------------
(* What the liveness properties of the runs speak of.                       *)

Busy(c) == pc[c] # "idle"

-----------------------------------------------------------------------------
\* The two invariants are inductive together with the types.
OrderInv == TypeOK /\ WaitsAscend /\ AllOrNothing

=============================================================================
