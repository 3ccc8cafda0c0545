----------------------------- MODULE Readiness -----------------------------
(***************************************************************************)
(* readiness.go: one Run over its gates, in order or all at once, with     *)
(* retries, consecutive successes and a deadline; a check may end either   *)
(* way at any time.                                                        *)
(***************************************************************************)
EXTENDS Integers, Sequences

CONSTANTS
    Gates,          \* a sequence of [required, need, retries]
    Parallel        \* GateParallel

GatesAssumption ==
    \A i \in DOMAIN Gates : Gates[i].need \in Nat \ {0} /\ Gates[i].retries \in Nat

VARIABLES
    pc, stable, retries, attempts, passed,  \* evalGate, of each gate
    ctxDone,        \* the deadline passed or the caller gave up
    firstErr,       \* some error was noted
    run,            \* "running", then "ready" or "not ready"
    outcomes        \* history: what each gate's checks returned

vars == <<pc, stable, retries, attempts, passed, ctxDone, firstErr, run, outcomes>>

Ids == DOMAIN Gates

Init ==
    /\ pc = [i \in Ids |-> IF Parallel \/ i = 1 THEN "loop" ELSE "wait"]
    /\ stable = [i \in Ids |-> 0] /\ attempts = [i \in Ids |-> 0]
    /\ retries = [i \in Ids |-> Gates[i].retries] /\ passed = [i \in Ids |-> FALSE]
    /\ ctxDone = FALSE /\ firstErr = FALSE /\ run = "running"
    /\ outcomes = [i \in Ids |-> <<>>]

\* runSequential and runParallel note the failure of a required gate; the one in
\* order also notes that the deadline has passed, and goes on to the next gate.
Report(i, ok) ==
    /\ passed' = [passed EXCEPT ![i] = ok]
    /\ firstErr' = (firstErr \/ (~ok /\ Gates[i].required) \/ (~Parallel /\ ctxDone))
    /\ pc' = [j \in Ids |-> IF j = i THEN "done"
                            ELSE IF ~Parallel /\ j = i + 1 THEN "loop" ELSE pc[j]]

\* evalGate looks at the context before it calls the check.
EvalStart(i) ==
    /\ pc[i] = "loop"
    /\ IF ctxDone THEN Report(i, FALSE) /\ UNCHANGED attempts
       ELSE /\ attempts' = [attempts EXCEPT ![i] = @ + 1]
            /\ pc' = [pc EXCEPT ![i] = "check"]
            /\ UNCHANGED <<passed, firstErr>>
    /\ UNCHANGED <<stable, retries, ctxDone, run, outcomes>>

CheckPassed(i) ==
    /\ pc[i] = "check"
    /\ stable' = [stable EXCEPT ![i] = @ + 1]
    /\ outcomes' = [outcomes EXCEPT ![i] = Append(@, TRUE)]
    /\ IF stable'[i] < Gates[i].need
       THEN pc' = [pc EXCEPT ![i] = "loop"] /\ UNCHANGED <<passed, firstErr>>
       ELSE Report(i, TRUE)
    /\ UNCHANGED <<retries, attempts, ctxDone, run>>

\* Faulty: the successes before a failure still count.
CheckFailedKeeps(i) ==
    /\ pc[i] = "check"
    /\ outcomes' = [outcomes EXCEPT ![i] = Append(@, FALSE)]
    /\ IF retries[i] <= 0 THEN Report(i, FALSE) /\ UNCHANGED retries
       ELSE /\ retries' = [retries EXCEPT ![i] = @ - 1]
            /\ pc' = [pc EXCEPT ![i] = "delay"]
            /\ UNCHANGED <<passed, firstErr>>
    /\ UNCHANGED <<stable, attempts, ctxDone, run>>

\* Faulty: a retry is not counted.
CheckFailedFree(i) ==
    /\ pc[i] = "check" /\ Len(outcomes[i]) < 6
    /\ stable' = [stable EXCEPT ![i] = 0]
    /\ outcomes' = [outcomes EXCEPT ![i] = Append(@, FALSE)]
    /\ IF retries[i] <= 0 THEN Report(i, FALSE)
       ELSE pc' = [pc EXCEPT ![i] = "delay"] /\ UNCHANGED <<passed, firstErr>>
    /\ UNCHANGED <<retries, attempts, ctxDone, run>>

CheckFailed(i) ==
    /\ pc[i] = "check"
    /\ stable' = [stable EXCEPT ![i] = 0]
    /\ outcomes' = [outcomes EXCEPT ![i] = Append(@, FALSE)]
    /\ IF retries[i] <= 0 THEN Report(i, FALSE) /\ UNCHANGED retries
       ELSE /\ retries' = [retries EXCEPT ![i] = @ - 1]
            /\ pc' = [pc EXCEPT ![i] = "delay"]
            /\ UNCHANGED <<passed, firstErr>>
    /\ UNCHANGED <<attempts, ctxDone, run>>

\* The pause before a retry: its timer and the context may both be ready.
DelayOver(i) ==
    /\ pc[i] = "delay"
    /\ pc' = [pc EXCEPT ![i] = "loop"]
    /\ UNCHANGED <<stable, retries, attempts, passed, ctxDone, firstErr, run, outcomes>>

DelayCanceled(i) ==
    /\ pc[i] = "delay" /\ ctxDone
    /\ Report(i, FALSE)
    /\ UNCHANGED <<stable, retries, attempts, ctxDone, run, outcomes>>

Deadline ==
    /\ run = "running" /\ ~ctxDone
    /\ ctxDone' = TRUE
    /\ UNCHANGED <<pc, stable, retries, attempts, passed, firstErr, run, outcomes>>

\* Faulty: Run does not wait for all of its gates.
ReturnEarly ==
    /\ run = "running" /\ \E i \in Ids : pc[i] = "done"
    /\ run' = IF firstErr THEN "not ready" ELSE "ready"
    /\ UNCHANGED <<pc, stable, retries, attempts, passed, ctxDone, firstErr, outcomes>>

Return ==
    /\ run = "running" /\ \A i \in Ids : pc[i] = "done"
    /\ run' = IF firstErr THEN "not ready" ELSE "ready"
    /\ UNCHANGED <<pc, stable, retries, attempts, passed, ctxDone, firstErr, outcomes>>

GateStep(i) ==
    EvalStart(i) \/ CheckPassed(i) \/ CheckFailed(i) \/ DelayOver(i) \/ DelayCanceled(i)

Next == Deadline \/ Return \/ \E i \in Ids : GateStep(i)

\* A check returns and a pause ends.
Spec == Init /\ [][Next]_vars

-----------------------------------------------------------------------------

\* A gate counts as passed exactly when the last need checks it made succeeded.
PassedIsEarned ==
    \A i \in Ids : pc[i] = "done" =>
        (passed[i] <=> /\ Len(outcomes[i]) >= Gates[i].need
                       /\ \A k \in Len(outcomes[i]) - Gates[i].need + 1..Len(outcomes[i]) :
                             outcomes[i][k])

\* Run says ready only when every required gate has passed, and not ready only
\* because a required gate has not or, in order, because the time was up.
ReadyIsDecided ==
    /\ run = "ready" => \A i \in Ids : Gates[i].required => passed[i]
    /\ run = "not ready" => \/ \E i \in Ids : Gates[i].required /\ ~passed[i]
                            \/ ~Parallel /\ ctxDone

\* However the failures fall, a gate's checks are bounded by its retries.
AttemptsBounded == \A i \in Ids : attempts[i] <= Gates[i].need * (Gates[i].retries + 1)

-----------------------------------------------------------------------------
(* What the liveness properties of the runs speak of.                       *)

\* Run has returned.
RunDone == run # "running"
=============================================================================
