--------------------------- MODULE ResourceRegistry ---------------------------
(***************************************************************************)
(* resource.Registry with its DependencyGraph: resources come and go,      *)
(* epochs advance, dependencies are declared, and the order of activation  *)
(* is computed.  Resources are numbers in the order of their identifiers.  *)
(* Every operation is one critical section of the registry's lock.         *)
(***************************************************************************)
EXTENDS Integers, Sequences, FiniteSets, SequencesExt

CONSTANTS
    Resources,
    MaxResources,
    MaxEpoch        \* the last valid epoch

RegistryAssumption ==
    Resources \subseteq Nat /\ IsFiniteSet(Resources) /\ MaxEpoch \in Nat

VARIABLES
    epoch,      \* resource -> its epoch, None if it is not registered
    edges,      \* resource -> the resources it depends on
    closed,
    lockdown,   \* does LockdownChecker.BlocksMutations hold?
    highest     \* history: the highest epoch each resource ever had

vars == <<epoch, edges, closed, lockdown, highest>>

None == -1
Registered == {r \in Resources : epoch[r] # None}

TypeOK ==
    /\ epoch \in [Resources -> None..MaxEpoch]
    /\ edges \in [Resources -> SUBSET Registered]
    /\ Cardinality(Registered) <= MaxResources
    /\ closed \in BOOLEAN /\ lockdown \in BOOLEAN

Init ==
    /\ epoch = [r \in Resources |-> None] /\ edges = [r \in Resources |-> {}]
    /\ closed = FALSE /\ lockdown = FALSE /\ highest = [r \in Resources |-> 0]

-----------------------------------------------------------------------------

\* The nodes of the graph together with those asked for.
Nodes(known, e) == known \cup {r \in Resources : e[r] # {}} \cup UNION {e[r] : r \in Resources}

\* The resources whose dependencies have all been started.
Ready(e, left) == {r \in left : e[r] \cap left = {}}

\* The ready resources are kept sorted and taken from the front.
RECURSIVE Place(_, _, _)
Place(e, left, order) ==
    LET ready == Ready(e, left) IN
    IF ready = {} THEN order
    ELSE Place(e, left \ {Min(ready)}, Append(order, Min(ready)))

\* Shorter than the nodes if there is a cycle.
StartupOrder(known, e) == Place(e, Nodes(known, e), <<>>)

hasCycle(e) == Len(StartupOrder({}, e)) # Cardinality(Nodes({}, e))

checkMutation == ~closed /\ ~lockdown

Register(r) ==
    /\ checkMutation /\ r \notin Registered /\ Cardinality(Registered) < MaxResources
    /\ epoch' = [epoch EXCEPT ![r] = 0]
    /\ UNCHANGED <<edges, closed, lockdown, highest>>

\* Faulty: only the edges that leave the resource are removed.
RemoveOutgoing(r) ==
    /\ checkMutation /\ r \in Registered
    /\ epoch' = [epoch EXCEPT ![r] = None]
    /\ edges' = [edges EXCEPT ![r] = {}]
    /\ UNCHANGED <<closed, lockdown, highest>>

RemoveEntry(r) ==
    /\ checkMutation /\ r \in Registered
    /\ epoch' = [epoch EXCEPT ![r] = None]
    /\ edges' = [s \in Resources |-> IF s = r THEN {} ELSE edges[s] \ {r}]
    /\ UNCHANGED <<closed, lockdown, highest>>

\* Faulty: the epoch wraps around.
AdvanceWraps(r) ==
    /\ checkMutation /\ r \in Registered
    /\ epoch' = [epoch EXCEPT ![r] = (@ + 1) % (MaxEpoch + 1)]
    /\ UNCHANGED <<edges, closed, lockdown, highest>>

Advance(r) ==
    /\ checkMutation /\ r \in Registered /\ epoch[r] < MaxEpoch
    /\ epoch' = [epoch EXCEPT ![r] = @ + 1]
    /\ highest' = [highest EXCEPT ![r] = IF epoch[r] + 1 > @ THEN epoch[r] + 1 ELSE @]
    /\ UNCHANGED <<edges, closed, lockdown>>

\* Faulty: only an edge back is looked for.
DefineShort(from, to) ==
    /\ checkMutation /\ {from, to} \subseteq Registered /\ from # to
    /\ edges' = IF from \in edges[to] THEN edges ELSE [edges EXCEPT ![from] = @ \cup {to}]
    /\ UNCHANGED <<epoch, closed, lockdown, highest>>

\* An edge that closes a cycle is taken out again.
DefineDependency(from, to) ==
    /\ checkMutation /\ {from, to} \subseteq Registered /\ from # to
    /\ LET added == [edges EXCEPT ![from] = @ \cup {to}] IN
       edges' = IF hasCycle(added) THEN [edges EXCEPT ![from] = @ \ {to}] ELSE added
    /\ UNCHANGED <<epoch, closed, lockdown, highest>>

Close == ~closed /\ closed' = TRUE /\ UNCHANGED <<epoch, edges, lockdown, highest>>

SetLockdown == lockdown' = ~lockdown /\ UNCHANGED <<epoch, edges, closed, highest>>

Next ==
    \/ Close \/ SetLockdown
    \/ \E r \in Resources : Register(r) \/ RemoveEntry(r) \/ Advance(r)
    \/ \E from, to \in Resources : DefineDependency(from, to)

Spec == Init /\ [][Next]_vars

-----------------------------------------------------------------------------

\* Every resource of p comes behind its own dependencies.
Topological(p) == \A i \in DOMAIN p : edges[p[i]] \subseteq {p[j] : j \in 1..(i - 1)}

Smaller(p, q) ==
    \E i \in DOMAIN p : p[i] < q[i] /\ \A j \in 1..(i - 1) : p[j] = q[j]

\* Whatever was declared and removed, the registered resources can be
\* started: the order exists, names all of them and nothing else, respects
\* every dependency and is the same on each call.
AlwaysStartable ==
    LET order == StartupOrder(Registered, edges) IN
    /\ order \in SetToSeqs(Registered) /\ Topological(order)
    /\ \A other \in SetToSeqs(Registered) : Topological(other) => ~Smaller(other, order)

\* While a resource stays registered its epoch never goes back.
EpochGrows ==
    \A r \in Resources : r \in Registered /\ r \in Registered' => epoch'[r] >= epoch[r]

\* The epoch of a resource never falls below one it has had.
\* The code does not keep this (README, Disagreements).
EpochNeverDecreases == \A r \in Registered : epoch[r] >= highest[r]
=============================================================================
