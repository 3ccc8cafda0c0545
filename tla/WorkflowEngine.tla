--------------------------- MODULE WorkflowEngine ---------------------------
(***************************************************************************)
(* workflow.Engine: one workflow instance, run and resumed from its        *)
(* checkpoint.                                                             *)
(*                                                                         *)
(* A run walks the steps in the definition's order (executeSequential) or, *)
(* when a step has a parallel group, in waves of ready steps               *)
(* (executeParallel).  The statuses alone say which steps are done, so the *)
(* loop needs no other state.  The process may crash between any two       *)
(* steps; the checkpoint last saved survives.  Steps are numbered in the   *)
(* order of their names; group 0 is no group.                              *)
(***************************************************************************)
EXTENDS Integers, Sequences, FiniteSets, SequencesExt

CONSTANTS
    Order,          \* the definition's order, a sequence of all steps
    DependsOn,      \* step -> set of steps
    Group,          \* step -> parallel group, 0 for none
    Idempotency,    \* step -> its retry mode
    Compensable,    \* steps with a compensating action
    Mutates,        \* steps blocked under lockdown
    Fenced,         \* steps with a resource, whose epoch fences their undo
    MaxParallel,    \* actions of one wave that run at the same time
    OpIds,          \* operation ids a caller may give, NoOp among them
    NoOp,
    DryRuns,        \* values of RunOptions.DryRun
    SaveResults,    \* outcomes of Store.Save: TRUE, and FALSE if it may fail
    MaxRuns,        \* bound on calls of Run
    MaxEpoch        \* bound on the resource epoch

Steps == Range(Order)

Modes == {"Idempotent", "RequiresOperationID", "NotRetryable",
          "RequiresReconciliation"}

WorkflowAssumption ==
    /\ DependsOn \in [Steps -> SUBSET Steps]
    /\ Group \in [Steps -> Nat]
    /\ Idempotency \in [Steps -> Modes]
    /\ MaxParallel \in Nat \ {0}
    /\ TRUE \in SaveResults /\ SaveResults \subseteq BOOLEAN

VARIABLES
    store,      \* the checkpoint last saved
    inst,       \* the checkpoint of the run in progress
    pc,         \* where the run is
    op,         \* RunOptions.OperationID of the run
    calls,      \* step of the current wave -> what became of its action
    seen,       \* step of the current wave -> epoch read for it
    k,          \* compensate: position in the completed steps
    runs,       \* calls of Run so far
    closed,     \* Engine.Close was called
    lockdown,   \* hooks.Lockdown.BlocksMutations()
    epoch,      \* epoch of the resource in the registry
    ran,        \* history: step -> calls of its action
    inPlace,    \* history: steps known to have completed and not undone
    late        \* history: mutating calls started since lockdown began

run == <<inst, pc, op, calls, seen, k>>
env == <<closed, lockdown, epoch>>
history == <<ran, inPlace, late>>
vars == <<store, run, runs, env, history>>

States == {"created", "validating", "running", "compensating", "completed",
           "failed", "cancelled", "locked-down", "requires-intervention",
           "requires-reconciliation"}

Statuses == {"pending", "running", "completed", "failed", "compensating",
             "compensated", "reconcile"}

Answers == {"ok", "error", "ambiguous", "cancelled"}

NoCalls == [s \in {} |-> "ok"]

Created(dry) ==
    [state |-> "created", steps |-> [s \in Steps |-> "pending"],
     completed |-> <<>>, epochAt |-> [s \in Steps |-> 0], dry |-> dry]

TypeOK ==
    /\ \A cp \in {store, inst} :
          /\ cp.state \in States
          /\ cp.steps \in [Steps -> Statuses]
          /\ Range(cp.completed) \subseteq Steps
          /\ cp.epochAt \in [Steps -> 0..MaxEpoch]
          \* A step is listed as completed exactly when its status says so,
          \* apart from those compensation has touched since.
          /\ \A s \in Steps : cp.steps[s] \in {"completed", "compensated"} =>
                                 s \in Range(cp.completed)
    /\ pc \in {"idle", "validating", "loop", "acting", "compensating", "undoing"}
    /\ op \in OpIds
    /\ DOMAIN calls \subseteq Steps
    /\ Range(calls) \subseteq {"ready", "acting"} \cup Answers
    /\ k \in 0..Len(inst.completed)

Init ==
    /\ \E dry \in DryRuns : store = Created(dry) /\ inst = Created(dry)
    /\ pc = "idle" /\ op = NoOp /\ calls = NoCalls /\ seen = NoCalls /\ k = 0
    /\ runs = 0 /\ closed = FALSE /\ lockdown = FALSE /\ epoch = 0
    /\ ran = [s \in Steps |-> 0] /\ inPlace = {} /\ late = 0

-----------------------------------------------------------------------------

Done(cp) == {s \in Steps : cp.steps[s] \in {"completed", "compensated"}}

\* All steps are assigned the status st.
Mark(cp, marked, st) ==
    [cp EXCEPT !.steps = [s \in Steps |-> IF s \in marked THEN st ELSE @[s]]]

\* Store.Save may fail, which the engine mostly ignores.
persist(cp) == \E saved \in SaveResults : store' = IF saved THEN cp ELSE store

\* The run ends in the given state; the last save is part of its end.
Return(cp, state) ==
    /\ inst' = [cp EXCEPT !.state = state]
    /\ persist(inst')
    /\ pc' = "idle" /\ calls' = NoCalls /\ seen' = NoCalls /\ k' = 0
    /\ UNCHANGED <<op, runs, env>>

StartCompensation(cp) ==
    /\ inst' = [cp EXCEPT !.state = "compensating"]
    /\ persist(inst')
    /\ pc' = "compensating" /\ calls' = NoCalls /\ seen' = NoCalls
    /\ k' = Len(cp.completed)
    /\ UNCHANGED <<op, runs, env>>

\* Run, fresh or resumed: the first save must succeed.
Run ==
    /\ pc = "idle" /\ ~closed /\ runs < MaxRuns
    /\ runs' = runs + 1
    /\ inst' = [store EXCEPT !.state = "validating"]
    /\ \E o \in OpIds, saved \in SaveResults :
          /\ op' = o
          /\ store' = IF saved THEN inst' ELSE store
          /\ pc' = IF saved THEN "validating" ELSE "idle"
    /\ UNCHANGED <<calls, seen, k, env, history>>

\* validateCaps may refuse: a resource is gone or lacks a capability.
CapsMissing == Fenced # {}

execute ==
    /\ pc = "validating"
    /\ \/ /\ CapsMissing
          /\ Return(inst, "failed")
       \/ /\ inst' = [inst EXCEPT !.state = "running"]
          /\ persist(inst')
          /\ pc' = "loop"
          /\ UNCHANGED <<op, calls, seen, k, runs, env>>
    /\ UNCHANGED history

-----------------------------------------------------------------------------

Parallel == \E s \in Steps : Group[s] # 0

\* Faulty: an interrupted step is retried whatever its mode.
prepareRetryInterrupted(s) ==
    IF inst.steps[s] = "reconcile" THEN "reconcile" ELSE "run"

\* What a run that meets step s again does with it.
prepareStepResume(s) ==
    LET mode == Idempotency[s]
        unnamed == mode = "RequiresOperationID" /\ op = NoOp
    IN  CASE inst.steps[s] = "failed" /\ (mode = "NotRetryable" \/ unnamed) ->
                "giveUp"
          [] inst.steps[s] = "running"
             /\ mode \in {"NotRetryable", "RequiresReconciliation"} -> "reconcile"
          [] inst.steps[s] = "running" /\ unnamed -> "giveUp"
          [] inst.steps[s] = "reconcile" -> "reconcile"
          [] OTHER -> "run"

Ready(s) ==
    /\ inst.steps[s] \notin {"completed", "compensated", "failed", "reconcile"}
    /\ DependsOn[s] \subseteq Done(inst)

\* The steps one pass of the loop considers, in order.
Considered ==
    LET left == SelectSeq(Order, LAMBDA s : s \notin Done(inst)) IN
    IF Parallel THEN SelectSeq(Order, Ready) ELSE <<Head(left)>>

\* The wave to run: the smallest group, or else the first step.
Wave(names) ==
    LET groups == {Group[s] : s \in Range(names)} \ {0}
    IN  IF groups = {} THEN {Head(names)}
        ELSE {s \in Range(names) : Group[s] = Min(groups)}

\* Steps to be retried are set back to pending before anything is checked.
Reset(names) ==
    Mark(inst, {s \in Range(names) : inst.steps[s] \in {"failed", "running"}},
         "pending")

Blocked(names) == SelectInSeq(names, LAMBDA s : prepareStepResume(s) # "run")

Complete ==
    /\ pc = "loop" /\ Done(inst) = Steps
    /\ Return(inst, "completed")
    /\ UNCHANGED history

\* The caller's context has ended.
Cancel ==
    /\ pc = "loop" /\ Done(inst) # Steps
    /\ Return(inst, "cancelled")
    /\ UNCHANGED history

\* A step that must not run again ends the run.
StopAtStep ==
    /\ pc = "loop" /\ Done(inst) # Steps
    /\ LET names == Considered
           b == Blocked(names)
           s == names[b]
           cp == Reset(SubSeq(names, 1, b - 1))
       IN  /\ b # 0
           /\ IF prepareStepResume(s) = "giveUp"
              THEN StartCompensation(Mark(cp, {s}, "failed"))
              ELSE Return(Mark(cp, {s}, "reconcile"), "requires-reconciliation")
    /\ UNCHANGED history

\* executeParallel: what is left has failed or awaits reconciliation.
NothingReady ==
    /\ pc = "loop" /\ Done(inst) # Steps /\ Considered = <<>>
    /\ LET stuck == SelectSeq(Order, LAMBDA s :
                                 inst.steps[s] \in {"failed", "reconcile"})
       IN  Return(inst, IF inst.steps[Head(stuck)] = "failed"
                        THEN "failed" ELSE "requires-reconciliation")
    /\ UNCHANGED history

Grouped(s) == Group[s] # 0

\* The run saves cp and goes on with the wave; where the code looks at the
\* error of Save, a failed one ends the run.
Proceed(cp, to, wave, checked) ==
    /\ inst' = cp
    /\ \E saved \in SaveResults :
          LET on == IF saved \/ ~checked THEN wave ELSE {} IN
          /\ store' = IF saved THEN cp ELSE store
          /\ pc' = IF saved \/ ~checked THEN to ELSE "idle"
          /\ calls' = [s \in on |-> "ready"]
          /\ seen' = [s \in on |-> epoch]
    /\ UNCHANGED <<op, k, runs, env>>

\* Faulty: lockdown is not consulted.
StartWaveUnchecked ==
    /\ pc = "loop" /\ Done(inst) # Steps
    /\ LET names == Considered IN
       /\ names # <<>> /\ Blocked(names) = 0
       /\ Proceed(Mark(Reset(names), Wave(names), "running"), "acting",
                  Wave(names), FALSE)
    /\ UNCHANGED history

StartWave ==
    /\ pc = "loop" /\ Done(inst) # Steps
    /\ LET names == Considered
           wave == Wave(names)
       IN  /\ names # <<>> /\ Blocked(names) = 0
           /\ IF lockdown /\ wave \cap Mutates # {}
              THEN Return(Reset(names), "locked-down")
              ELSE Proceed(Mark(Reset(names), wave, "running"), "acting",
                           wave, \E s \in wave : Grouped(s))
    /\ UNCHANGED history

\* The step's action is called, unless the run is dry.  A step outside a
\* group reads the epoch only now.
CallAction(s) ==
    /\ pc = "acting" /\ s \in DOMAIN calls /\ calls[s] = "ready"
    /\ Cardinality({t \in DOMAIN calls : calls[t] = "acting"}) < MaxParallel
    /\ IF inst.dry
       THEN calls' = [calls EXCEPT ![s] = "ok"] /\ UNCHANGED <<ran, late>>
       ELSE /\ calls' = [calls EXCEPT ![s] = "acting"]
            /\ ran' = [ran EXCEPT ![s] = @ + 1]
            /\ late' = late + IF lockdown /\ s \in Mutates THEN 1 ELSE 0
    /\ seen' = IF Grouped(s) THEN seen ELSE [seen EXCEPT ![s] = epoch]
    /\ UNCHANGED <<store, inst, pc, op, k, runs, env, inPlace>>

\* The action answers, or a grouped one finds the context ended before it
\* was called.
Answer(s, a) ==
    /\ pc = "acting" /\ s \in DOMAIN calls
    /\ \/ calls[s] = "acting"
       \/ calls[s] = "ready" /\ a = "cancelled"
    /\ a = "cancelled" => Grouped(s)
    /\ calls' = [calls EXCEPT ![s] = a]
    /\ UNCHANGED <<store, inst, pc, op, seen, k, runs, env, history>>

handleStepFailure(cp, s) ==
    IF calls[s] = "ambiguous" \/ Idempotency[s] = "RequiresReconciliation"
    THEN Return(Mark(cp, {s}, "reconcile"), "requires-reconciliation")
    ELSE StartCompensation(Mark(cp, {s}, "failed"))

\* The steps of a wave that succeeded, recorded by name.
Completed(ok) ==
    [Mark(inst, ok, "completed") EXCEPT
       !.completed = @ \o SetToSortSeq(ok, <),
       !.epochAt = [s \in Steps |-> IF s \in ok THEN seen[s] ELSE @[s]]]

\* Every action of the wave has answered.  The first failure by name is the
\* one acted on, its siblings that did not complete are marked failed.
ApplyAnswers ==
    /\ pc = "acting"
    /\ Range(calls) \subseteq Answers
    /\ LET ok == {s \in DOMAIN calls : calls[s] = "ok"}
           failed == DOMAIN calls \ ok
           cp == Completed(ok)
           first == Min(failed)
           marked == Mark(cp, failed \ {first}, "failed")
       IN  IF failed = {}
           THEN Proceed(cp, "loop", {}, ~ \E s \in ok : Grouped(s))
           ELSE IF calls[first] = "cancelled" THEN Return(marked, "cancelled")
           ELSE handleStepFailure(marked, first)
    /\ inPlace' = IF inst.dry THEN inPlace
                   ELSE inPlace \cup {s \in DOMAIN calls : calls[s] = "ok"}
    /\ UNCHANGED <<ran, late>>

-----------------------------------------------------------------------------

\* Faulty: completed steps are undone in the order they completed.
NextUndoForward == inst.completed[Len(inst.completed) - k + 1]

NextUndo == inst.completed[k]

\* One round of the loop of compensate, up to the compensating call.
compensate ==
    /\ pc = "compensating"
    /\ IF k = 0 THEN Return(inst, "failed")
       ELSE LET s == NextUndo IN
            IF s \notin Compensable \/ inst.steps[s] = "compensated"
            THEN k' = k - 1 /\ UNCHANGED <<store, inst, pc, op, calls, seen, runs, env>>
            ELSE IF \/ lockdown /\ s \in Mutates
                    \/ s \in Fenced /\ epoch > inst.epochAt[s]
            THEN Return(inst, "requires-intervention")
            ELSE /\ inst' = Mark(inst, {s}, "compensating")
                 /\ persist(inst')
                 /\ pc' = "undoing"
                 /\ UNCHANGED <<op, calls, seen, k, runs, env>>
    /\ UNCHANGED history

\* The compensating action has been carried out, or has failed.
Undone ==
    /\ pc = "undoing"
    /\ LET s == NextUndo IN
       \/ /\ inst' = Mark(inst, {s}, "compensated")
          /\ persist(inst')
          /\ pc' = "compensating" /\ k' = k - 1
          /\ inPlace' = IF inst.dry THEN inPlace ELSE inPlace \ {s}
          /\ UNCHANGED <<op, calls, seen, runs, env, ran, late>>
       \/ /\ ~inst.dry
          /\ Return(Mark(inst, {s}, "failed"), "requires-intervention")
          /\ UNCHANGED history

\* The process ends; a new one has an open engine and the saved checkpoint.
Crash ==
    /\ pc # "idle" \/ closed
    /\ inst' = store
    /\ pc' = "idle" /\ calls' = NoCalls /\ seen' = NoCalls /\ k' = 0
    /\ closed' = FALSE
    /\ UNCHANGED <<store, op, runs, lockdown, epoch, history>>

Close ==
    /\ ~closed
    /\ closed' = TRUE
    /\ UNCHANGED <<store, run, runs, lockdown, epoch, history>>

SetLockdown ==
    /\ lockdown' = ~lockdown
    /\ late' = 0
    /\ UNCHANGED <<store, run, runs, closed, epoch, ran, inPlace>>

\* Another owner takes the resource over.
BumpEpoch ==
    /\ epoch < MaxEpoch
    /\ epoch' = epoch + 1
    /\ UNCHANGED <<store, run, runs, closed, lockdown, history>>

EngineStep ==
    \/ execute \/ Complete \/ StopAtStep \/ NothingReady \/ StartWave
    \/ ApplyAnswers \/ compensate \/ Undone
    \/ \E s \in Steps : CallAction(s) \/ \E a \in Answers : Answer(s, a)

Next ==
    \/ EngineStep \/ Run \/ Cancel \/ Crash \/ Close \/ SetLockdown \/ BumpEpoch

Spec == Init /\ [][Next]_vars

-----------------------------------------------------------------------------

\* An action that must never be retried, and that nothing undoes, is called
\* at most once however often the instance crashes and is resumed.
NotRetryableOnce ==
    \A s \in Steps \ Compensable : Idempotency[s] = "NotRetryable" => ran[s] <= 1

\* The same without the exception for steps that can be undone.
\* The code does not keep this (README, Disagreements).
NeverBlindlyRetried ==
    \A s \in Steps : Idempotency[s] = "NotRetryable" => ran[s] <= 1

\* A step is undone only after the steps that build on it.
UndoesInReverse ==
    pc' = "undoing" /\ pc # "undoing" =>
      \A t \in Compensable : NextUndo \in DependsOn[t] => t \notin inPlace

\* Once lockdown is on, the mutating actions of the wave that was already
\* let through are the last ones to be called.
LockdownStopsMutations ==
    late <= Max({1} \cup {Cardinality({s \in Steps : Group[s] = g}) :
                             g \in Range(Group) \ {0}})

\* A step that needs an operation id is never called again without one.
\* The code does not keep this (README, Disagreements).
RetriesAreNamed ==
    \A s \in Steps :
       Idempotency[s] = "RequiresOperationID" /\ ran'[s] > ran[s] /\ ran[s] > 0
          => op # NoOp

\* The epoch recorded for a step is the one at its completion.
\* The code does not keep this (README, Disagreements).
EpochAtCompletion ==
    \A s \in Steps : inst'.steps[s] = "completed" /\ inst.steps[s] = "running"
                        => inst'.epochAt[s] = epoch

\* An ambiguous answer never leads to compensation.
\* The code does not keep this (README, Disagreements).
AmbiguousIsReconciled ==
    (\E s \in DOMAIN calls : calls[s] = "ambiguous") =>
       inst'.state # "compensating"

Terminal(state) == state \in {"completed", "failed", "cancelled"}

\* A terminal state is left by no transition.
\* The code does not keep this (README, Disagreements).
TerminalIsFinal == Terminal(store.state) => store'.state = store.state

-----------------------------------------------------------------------------
(* What the liveness properties of the runs speak of.                       *)

Running == pc # "idle"
=============================================================================
