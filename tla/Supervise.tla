------------------------------ MODULE Supervise ------------------------------
(***************************************************************************)
(* supervise.Supervisor: each Start spawns a goroutine that runs the task, *)
(* again and again as its mode and failure policy say, until its context   *)
(* is cancelled.  The gate is the runtime's (lockdown, maintenance).       *)
(***************************************************************************)
EXTENDS Integers, Sequences, FiniteSets

CONSTANTS
    Tasks,
    TaskSpec,       \* task -> [mode, failure, zone]; zone "" is none
    Callers,        \* goroutines that call Start
    MaxRestarts,
    MaxLoops,       \* bound on the loops spawned
    MaxSwitches     \* bound on changes of the gate

VARIABLES
    registered,     \* Supervisor.tasks
    isolated,       \* the isolated members of Supervisor.zones
    closed,
    current,        \* task -> the loop task.cancel cancels, 0 for nil
    call,           \* caller -> the Start under way
    loops,          \* the goroutines: [task, pc, cancelled, fails]
    closer,         \* Close: "idle", "waiting" or "returned"
    gate,           \* does AllowTask allow?
    switches

vars == <<registered, isolated, closed, current, call, loops, closer, gate, switches>>

Idle == [pc |-> "idle"]
Failed(l) == loops[l].fails
Cancelled(l) == loops[l].cancelled \/ closed
Live(l) == loops[l].pc # "ended"
Zones == {TaskSpec[t].zone : t \in Tasks} \ {""}

TypeOK ==
    /\ registered \subseteq Tasks /\ isolated \subseteq Zones
    /\ closed \in BOOLEAN /\ gate \in BOOLEAN
    /\ current \in [Tasks -> 0..Len(loops)]
    /\ \A l \in DOMAIN loops :
          /\ loops[l].task \in Tasks
          /\ loops[l].pc \in {"new", "gate", "running", "delay", "ended"}
          /\ loops[l].fails \in 0..MaxRestarts + 1
    /\ closer \in {"idle", "waiting", "returned"}

Init ==
    /\ registered = {} /\ isolated = {} /\ closed = FALSE
    /\ current = [t \in Tasks |-> 0] /\ call = [c \in Callers |-> Idle]
    /\ loops = <<>> /\ closer = "idle" /\ gate = TRUE /\ switches = 0

-----------------------------------------------------------------------------

Register(t) ==
    /\ ~closed /\ t \notin registered
    /\ registered' = registered \cup {t}
    /\ UNCHANGED <<isolated, closed, current, call, loops, closer, gate, switches>>

\* Start looks at closed and at the map, and gives the lock back.
Start(c, t) ==
    /\ call[c].pc = "idle" /\ ~closed /\ t \in registered
    /\ call' = [call EXCEPT ![c] = [pc |-> "allow", task |-> t]]
    /\ UNCHANGED <<registered, isolated, closed, current, loops, closer, gate, switches>>

AllowTask(c) ==
    /\ call[c].pc = "allow"
    /\ call' = [call EXCEPT ![c] = IF gate THEN [@ EXCEPT !.pc = "spawn"] ELSE Idle]
    /\ UNCHANGED <<registered, isolated, closed, current, loops, closer, gate, switches>>

Stopped(ls, l) == IF l = 0 THEN ls ELSE [ls EXCEPT ![l].cancelled = TRUE]

\* A new loop becomes the one task.cancel cancels.
Replace(c, ls) ==
    LET t == call[c].task IN
    /\ loops' = Append(ls, [task |-> t, pc |-> "new", cancelled |-> FALSE, fails |-> 0])
    /\ current' = [current EXCEPT ![t] = Len(loops) + 1]
    /\ call' = [call EXCEPT ![c] = [pc |-> "launch", loop |-> Len(loops) + 1]]
    /\ UNCHANGED <<registered, isolated, closed, closer, gate, switches>>

\* Faulty: the loop of an earlier Start is not cancelled.
SpawnBeside(c) ==
    /\ call[c].pc = "spawn" /\ Len(loops) < MaxLoops
    /\ Replace(c, loops)

\* Faulty: the zone is not looked at.
SpawnAnyway(c) ==
    /\ call[c].pc = "spawn" /\ Len(loops) < MaxLoops
    /\ Replace(c, Stopped(loops, current[call[c].task]))

\* The part of spawn under the lock.
spawn(c) ==
    /\ call[c].pc = "spawn" /\ Len(loops) < MaxLoops
    /\ IF TaskSpec[call[c].task].zone \in isolated
       THEN /\ call' = [call EXCEPT ![c] = Idle]
            /\ UNCHANGED <<registered, isolated, closed, current, loops, closer, gate, switches>>
       ELSE Replace(c, Stopped(loops, current[call[c].task]))

\* The rest of it: wg.Add and the go statement, without the lock.
Launch(c) ==
    /\ call[c].pc = "launch"
    /\ loops' = [loops EXCEPT ![call[c].loop].pc = "gate"]
    /\ call' = [call EXCEPT ![c] = Idle]
    /\ UNCHANGED <<registered, isolated, closed, current, closer, gate, switches>>

Stop(t) ==
    /\ current[t] # 0
    /\ loops' = Stopped(loops, current[t])
    /\ current' = [current EXCEPT ![t] = 0]
    /\ UNCHANGED <<registered, isolated, closed, call, closer, gate, switches>>

\* Close cancels every context, then waits for the wait group.
Close ==
    /\ closer = "idle"
    /\ closed' = TRUE /\ closer' = "waiting"
    /\ UNCHANGED <<registered, isolated, current, call, loops, gate, switches>>

CloseReturns ==
    /\ closer = "waiting"
    /\ \A l \in DOMAIN loops : loops[l].pc \in {"new", "ended"}
    /\ closer' = "returned"
    /\ UNCHANGED <<registered, isolated, closed, current, call, loops, gate, switches>>

-----------------------------------------------------------------------------

Goto(l, pc) == loops' = [loops EXCEPT ![l].pc = pc]

\* One round of runLoop: the gate is asked again, then the task runs, even
\* if its context is cancelled already.
gateCheck(l) ==
    /\ loops[l].pc = "gate"
    /\ Goto(l, IF gate THEN "running" ELSE "ended")
    /\ UNCHANGED <<registered, isolated, closed, current, call, closer, gate, switches>>

\* The task fails while its context lives.
Fail(l) ==
    LET spec == TaskSpec[loops[l].task]
        over == Failed(l) + 1 > MaxRestarts
    IN  CASE spec.failure = "stop" -> Goto(l, "ended") /\ UNCHANGED isolated
          [] spec.failure = "isolate-zone" ->
                Goto(l, "ended") /\ isolated' = isolated \cup ({spec.zone} \ {""})
          [] OTHER ->
                /\ loops' = [loops EXCEPT ![l] = [@ EXCEPT
                                !.fails = @ + 1, !.pc = IF over THEN "ended" ELSE "delay"]]
                /\ UNCHANGED isolated

\* The task returns, or panics, which counts as a failure.
invoke(l, ok) ==
    /\ loops[l].pc = "running"
    /\ LET mode == TaskSpec[loops[l].task].mode IN
       IF Cancelled(l) \/ mode = "one-shot" \/ (ok /\ mode # "scheduled")
       THEN Goto(l, "ended") /\ UNCHANGED isolated
       ELSE IF ok THEN Goto(l, "delay") /\ UNCHANGED isolated
       ELSE Fail(l)
    /\ UNCHANGED <<registered, closed, current, call, closer, gate, switches>>

\* The schedule's or the back-off's timer fires.
Elapse(l) ==
    /\ loops[l].pc = "delay"
    /\ Goto(l, "gate")
    /\ UNCHANGED <<registered, isolated, closed, current, call, closer, gate, switches>>

\* ... or the context ends while it is waited for.
Interrupt(l) ==
    /\ loops[l].pc = "delay" /\ Cancelled(l)
    /\ Goto(l, "ended")
    /\ UNCHANGED <<registered, isolated, closed, current, call, closer, gate, switches>>

Switch ==
    /\ switches < MaxSwitches
    /\ switches' = switches + 1 /\ gate' = ~gate
    /\ UNCHANGED <<registered, isolated, closed, current, call, loops, closer>>

LoopStep(l) == gateCheck(l) \/ (\E ok \in BOOLEAN : invoke(l, ok)) \/ Interrupt(l)

Next ==
    \/ Close \/ CloseReturns \/ Switch
    \/ \E t \in Tasks : Register(t) \/ Stop(t)
    \/ \E c \in Callers : (\E t \in Tasks : Start(c, t)) \/ AllowTask(c) \/ spawn(c) \/ Launch(c)
    \/ \E l \in DOMAIN loops : LoopStep(l) \/ Elapse(l)

Spec == Init /\ [][Next]_vars

-----------------------------------------------------------------------------

\* However Starts and Stops interleave, a loop nobody cancelled is the one
\* its task's cancel function cancels: Stop can always reach it, and no task
\* has two loops that both mean to go on.
StopReachesEveryLoop ==
    \A l \in DOMAIN loops :
        Live(l) /\ ~loops[l].cancelled => current[loops[l].task] = l

\* No loop starts in a zone that is isolated, even if the zone was still
\* sound when Start passed the gate.
IsolatedStartsNothing ==
    Len(loops') > Len(loops) => TaskSpec[loops'[Len(loops')].task].zone \notin isolated

\* Close returns only when all tasks have ended, and none runs after it.
\* The code does not keep this (README, Disagreements).
NoTaskAfterClose ==
    closer = "returned" => \A l \in DOMAIN loops : loops[l].pc # "running"

-----------------------------------------------------------------------------
(* What the liveness properties of the runs speak of.                       *)

\* A loop is cancelled; it has ended.
MustEnd(l) == l \in DOMAIN loops /\ Cancelled(l)
HasEnded(l) == l \in DOMAIN loops /\ ~Live(l)
=============================================================================
