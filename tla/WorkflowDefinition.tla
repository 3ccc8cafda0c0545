------------------------- MODULE WorkflowDefinition -------------------------
(***************************************************************************)
(* workflow.Builder: steps and their dependencies are declared one call at *)
(* a time and Build orders them.  Steps are numbers, in the order of their *)
(* names.  The options of a step (compensation, group, retry mode,         *)
(* mutation, capabilities) are marks: each call sets one of a known step.  *)
(***************************************************************************)
EXTENDS Integers, Sequences, FiniteSets, SequencesExt

CONSTANTS
    Names,          \* step names a caller may use, natural numbers
    Options,        \* Compensate, ParallelGroup, Idempotency, ...
    MaxDepends      \* bound on the declared dependencies of one step

NamesAssumption == Names \subseteq Nat /\ IsFiniteSet(Names)

VARIABLES
    steps,      \* the declared steps: name -> dependencies and options
    err,        \* Builder.err, which sticks
    built       \* the order or the error Build returned

vars == <<steps, err, built>>

NoStep == [deps |-> <<>>, marks |-> {}, known |-> FALSE]
Known == {n \in Names : steps[n].known}
Deps == [n \in Names |-> steps[n].deps]

Failure(e) == [order |-> <<>>, err |-> e]
Order(order) == [order |-> order, err |-> "none"]
Unbuilt == Order(<<>>)

Init == steps = [n \in Names |-> NoStep] /\ err = "none" /\ built = Unbuilt

-----------------------------------------------------------------------------

(* topoSteps: deps is a function from nodes to sequences of nodes.           *)

Occurrences(n, list) == Cardinality({i \in DOMAIN list : list[i] = n})

\* Faulty: a dependency declared twice is counted once when it is met.
DegreesOnce(deps, indeg, n) ==
    [m \in DOMAIN indeg |-> indeg[m] - Min({1, Occurrences(n, deps[m])})]

\* The in-degrees once node n is placed.
Degrees(deps, indeg, n) ==
    [m \in DOMAIN indeg |-> indeg[m] - Occurrences(n, deps[m])]

\* Faulty: the largest ready node is placed.
PickLargest(ready) == Max(ready)

\* The ready list is kept sorted and taken from its front.
Pick(ready) == Min(ready)

\* A ready node is placed until none is left.
RECURSIVE Place(_, _, _, _)
Place(deps, indeg, ready, order) ==
    IF ready = {} THEN order
    ELSE LET n == Pick(ready)
             next == Degrees(deps, indeg, n)
             freed == {m \in DOMAIN indeg : indeg[m] # 0 /\ next[m] = 0}
         IN  Place(deps, next, (ready \ {n}) \cup freed, Append(order, n))

\* The order of the nodes; shorter than the nodes if there is a cycle.
Kahn(nodes, deps) ==
    LET indeg == [n \in nodes |-> Len(deps[n])] IN
    Place(deps, indeg, {n \in nodes : indeg[n] = 0}, <<>>)

topoSteps ==
    LET order == Kahn(Known, Deps) IN
    IF Len(order) = Cardinality(Known) THEN Order(order) ELSE Failure("ErrCycle")

-----------------------------------------------------------------------------

\* Step adds a step or replaces it, its dependencies and options included.
Step(n) ==
    /\ built = Unbuilt /\ err = "none"
    /\ steps' = [steps EXCEPT ![n] = [NoStep EXCEPT !.known = TRUE]]
    /\ UNCHANGED <<err, built>>

\* A call for a step that was not declared fails, and so does Build.
Declare(n, step) ==
    /\ built = Unbuilt /\ err = "none"
    /\ IF n \in Known
       THEN steps' = [steps EXCEPT ![n] = step] /\ UNCHANGED err
       ELSE err' = "ErrUnknownStep" /\ UNCHANGED steps
    /\ UNCHANGED built

\* The step depended on need not be declared yet.
Depend(n, d) ==
    /\ Len(steps[n].deps) < MaxDepends
    /\ Declare(n, [steps[n] EXCEPT !.deps = Append(@, d)])

SetOption(n, o) == Declare(n, [steps[n] EXCEPT !.marks = @ \cup {o}])

Build ==
    /\ built = Unbuilt
    /\ built' = IF err # "none" THEN Failure(err)
                ELSE IF Known = {} THEN Failure("ErrInvalidDefinition")
                ELSE IF \E n \in Known : ~ Range(steps[n].deps) \subseteq Known
                THEN Failure("ErrUnknownStep")
                ELSE topoSteps
    /\ UNCHANGED <<steps, err>>

Next ==
    \/ Build
    \/ \E n \in Names : \/ Step(n)
                        \/ \E d \in Names : Depend(n, d)
                        \/ \E o \in Options : SetOption(n, o)

Spec == Init /\ [][Next]_vars

-----------------------------------------------------------------------------

\* Every node of p comes behind its own dependencies.
Topological(p, deps) ==
    \A i \in DOMAIN p : Range(deps[p[i]]) \subseteq {p[j] : j \in 1..(i - 1)}

Smaller(p, q) ==
    \E i \in DOMAIN p : p[i] < q[i] /\ \A j \in 1..(i - 1) : p[j] = q[j]

\* p is the first topological order of the nodes in dictionary order.
LeastTopological(p, nodes, deps) ==
    /\ p \in SetToSeqs(nodes) /\ Topological(p, deps)
    /\ \A q \in SetToSeqs(nodes) : Topological(q, deps) => ~Smaller(q, p)

Cyclic(nodes, deps) == \A p \in SetToSeqs(nodes) : ~Topological(p, deps)

\* The order Build returns is the first topological one: it is the same
\* whatever order Go's maps are walked in.
OrderIsLeast ==
    built # Unbuilt /\ built.err = "none" => LeastTopological(built.order, Known, Deps)

\* Build reports a cycle only when no order puts every step behind its
\* dependencies.
CycleIsReal == built.err = "ErrCycle" => Cyclic(Known, Deps)
=============================================================================
