---------------------------- MODULE RuntimeGates ----------------------------
(***************************************************************************)
(* The Runtime around the coordinator: the gate every acquisition,         *)
(* election and capability passes, the elections and barriers it keeps,    *)
(* and Close.                                                              *)
(***************************************************************************)
EXTENDS Integers, FiniteSets

CONSTANTS
    Callers, Names,
    Modes,          \* of a lockdown
    MaxCalls        \* bound on the calls

VARIABLES
    closed, quarantined,    \* Runtime
    elections,              \* name -> the election the map holds
    running,                \* the elections whose loop runs
    barriers,               \* the open barriers of the map
    lock,                   \* the mode of the lockdown in force, or "none"
    call,                   \* caller -> where it is
    calls,
    closing,                \* Close: idle, closing the elections left, or done
    passed                  \* history: the calls that passed

vars == <<closed, quarantined, elections, running, barriers, lock, call, calls, closing, passed>>

Idle == [pc |-> "idle"]
Nothing == 0

Init ==
    /\ closed = FALSE /\ quarantined = FALSE
    /\ elections = [n \in Names |-> Nothing] /\ running = {} /\ barriers = {}
    /\ lock = "none" /\ call = [c \in Callers |-> Idle] /\ calls = 0
    /\ closing = [pc |-> "idle", left |-> {}] /\ passed = {}

-----------------------------------------------------------------------------

Blocks(m) == m \in {"fail-closed", "full-service", "isolate-claims"}

\* A call begins.  What stands in its way from now on is noted for the
\* properties: the quarantine, and the lockdown until it is lifted.
Begin(c, k, n) ==
    /\ call[c].pc = "idle" /\ calls < MaxCalls
    /\ calls' = calls + 1
    /\ call' = [call EXCEPT ![c] = [pc |-> "gate", id |-> calls', kind |-> k, name |-> n,
                                    barred |-> closed \/ quarantined,
                                    locked |-> Blocks(lock)]]
    /\ UNCHANGED <<closed, quarantined, elections, running, barriers, lock, closing, passed>>

\* Faulty: a quarantined runtime passes.
GateHalf(c) ==
    /\ call[c].pc = "gate"
    /\ call' = [call EXCEPT ![c] = IF closed THEN Idle ELSE [@ EXCEPT !.pc = "lock"]]
    /\ UNCHANGED <<closed, quarantined, elections, running, barriers, lock, calls, closing, passed>>

\* checkControlGates: the runtime's own state ...
Gate(c) ==
    /\ call[c].pc = "gate"
    /\ call' = [call EXCEPT ![c] = IF closed \/ quarantined THEN Idle ELSE [@ EXCEPT !.pc = "lock"]]
    /\ UNCHANGED <<closed, quarantined, elections, running, barriers, lock, calls, closing, passed>>

\* ... whether a lockdown is active ...
GateActive(c) ==
    /\ call[c].pc = "lock"
    /\ call' = [call EXCEPT ![c].pc = IF lock = "none" THEN "pass" ELSE "mode"]
    /\ UNCHANGED <<closed, quarantined, elections, running, barriers, lock, calls, closing, passed>>

\* ... and its mode, read once more.
GateMode(c) ==
    /\ call[c].pc = "mode"
    /\ call' = [call EXCEPT ![c] = IF Blocks(lock) THEN Idle ELSE [@ EXCEPT !.pc = "pass"]]
    /\ UNCHANGED <<closed, quarantined, elections, running, barriers, lock, calls, closing, passed>>

\* Behind the gate the claim is acquired, or the election's loop started.
Pass(c) ==
    /\ call[c].pc = "pass"
    /\ passed' = passed \cup {call[c]}
    /\ IF call[c].kind = "join"
       THEN call' = [call EXCEPT ![c].pc = "joined"] /\ running' = running \cup {call[c].id}
       ELSE call' = [call EXCEPT ![c] = Idle] /\ UNCHANGED running
    /\ UNCHANGED <<closed, quarantined, elections, barriers, lock, calls, closing>>

\* The election is put in the map, over one of that name that may be there.
Joined(c) ==
    /\ call[c].pc = "joined"
    /\ elections' = [elections EXCEPT ![call[c].name] = call[c].id]
    /\ call' = [call EXCEPT ![c] = Idle]
    /\ UNCHANGED <<closed, quarantined, running, barriers, lock, calls, closing, passed>>

NewBarrier(n) ==
    /\ n \notin barriers
    /\ barriers' = barriers \cup {n}
    /\ UNCHANGED <<closed, quarantined, elections, running, lock, call, calls, closing, passed>>

EnterQuarantine ==
    /\ ~quarantined
    /\ quarantined' = TRUE
    /\ UNCHANGED <<closed, elections, running, barriers, lock, call, calls, closing, passed>>

\* An operator enters or lifts lockdown.
SetLockdown(m) ==
    /\ (lock = "none") # (m = "none")
    /\ lock' = m
    /\ call' = [c \in Callers |-> IF call[c].pc # "idle" /\ ~Blocks(m) THEN [call[c] EXCEPT !.locked = FALSE]
                                  ELSE call[c]]
    /\ UNCHANGED <<closed, quarantined, elections, running, barriers, calls, closing, passed>>

\* Close marks the runtime and copies the elections ...
Close ==
    /\ closing.pc = "idle" /\ ~closed
    /\ closed' = TRUE
    /\ closing' = [pc |-> "closing", left |-> {elections[n] : n \in Names} \ {Nothing}]
    /\ UNCHANGED <<quarantined, elections, running, barriers, lock, call, calls, passed>>

\* ... closes them, and then the other subsystems.
CloseElections ==
    /\ closing.pc = "closing"
    /\ running' = running \ closing.left
    /\ closing' = [pc |-> "done", left |-> {}]
    /\ UNCHANGED <<closed, quarantined, elections, barriers, lock, call, calls, passed>>

Next ==
    \/ \E c \in Callers :
          \/ \E k \in {"acquire", "join"} : \E n \in Names : Begin(c, k, n)
          \/ Gate(c) \/ GateActive(c) \/ GateMode(c) \/ Pass(c) \/ Joined(c)
    \/ \E n \in Names : NewBarrier(n)
    \/ \E m \in Modes \cup {"none"} : SetLockdown(m)
    \/ EnterQuarantine \/ Close \/ CloseElections

Spec == Init /\ [][Next]_vars

-----------------------------------------------------------------------------

\* Nothing passes that began behind the quarantine or behind Close, and nothing
\* passes a lockdown that has blocked since the call began, although the gate
\* reads the three one after the other.
GateHolds == \A p \in passed : ~p.barred /\ ~p.locked

\* Once Close has returned and no call is under way, no election runs.
\* The code does not keep this (README, Disagreements).
ElectionsStopped ==
    closing.pc = "done" /\ (\A c \in Callers : call[c].pc = "idle") => running = {}

\* Once Close has returned, no barrier is open.
\* The code does not keep this (README, Disagreements).
BarriersStopped == closing.pc = "done" => barriers = {}
=============================================================================
