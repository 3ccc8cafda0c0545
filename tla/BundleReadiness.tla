-------------------------- MODULE BundleReadiness --------------------------
(***************************************************************************)
(* resource/bundle.go: EvaluateReadiness asks the members of a bundle one  *)
(* after the other while their health changes.                             *)
(***************************************************************************)
EXTENDS Integers, Sequences, FiniteSets

(* resource/health.go: the overall health of a resource is that of its     *)
(* worst dimension.                                                        *)

rankHealth ==
    [healthy |-> 0, degraded |-> 1, unknown |-> 2, blocked |-> 3, unhealthy |-> 4]

HealthStatus == DOMAIN rankHealth

\* ComputeOverall, of the statuses the dimensions have.
ComputeOverall(dims) ==
    IF dims = {} THEN "unknown"
    ELSE CHOOSE s \in dims : \A t \in dims : rankHealth[t] <= rankHealth[s]

-----------------------------------------------------------------------------

CONSTANTS
    IDs,            \* sequence: the members, in their order
    Modes,
    Statuses,       \* the health a resource may have
    MinRequired

VARIABLES
    registered,     \* member -> its health, or "absent"
    mode,
    report,         \* the evaluation under way, or returned
    was             \* history: member -> the health it had since the evaluation began

vars == <<registered, mode, report, was>>

Members == {IDs[i] : i \in DOMAIN IDs}

Fresh == [pc |-> "eval", next |-> 1, ready |-> {}, missing |-> {}, blocked |-> {}, result |-> FALSE]

Init ==
    /\ registered \in [Members -> {"absent"}] /\ mode \in Modes
    /\ report = [Fresh EXCEPT !.pc = "done"]
    /\ was = [i \in Members |-> {}]

\* A resource is registered, removed, or its health changes.
Change(i, s) ==
    /\ registered[i] # s
    /\ registered' = [registered EXCEPT ![i] = s]
    /\ was' = [was EXCEPT ![i] = @ \cup {s}]
    /\ UNCHANGED <<mode, report>>

EvaluateReadiness ==
    /\ report.pc = "done"
    /\ report' = Fresh
    /\ was' = [i \in Members |-> {registered[i]}]
    /\ UNCHANGED <<registered, mode>>

-----------------------------------------------------------------------------

\* Faulty: a blocked member counts as ready.
classifyBlocked(r, i) ==
    CASE registered[i] = "absent" -> [r EXCEPT !.missing = @ \cup {i}]
      [] registered[i] = "unhealthy" -> [r EXCEPT !.blocked = @ \cup {i}]
      [] OTHER -> [r EXCEPT !.ready = @ \cup {i}]

classify(r, i) ==
    CASE registered[i] = "absent" -> [r EXCEPT !.missing = @ \cup {i}]
      [] registered[i] \in {"unhealthy", "blocked"} -> [r EXCEPT !.blocked = @ \cup {i}]
      [] OTHER -> [r EXCEPT !.ready = @ \cup {i}]

\* Whether the modes that stop early stop behind member i.
stops(r, i) ==
    \/ mode = "primary-with-fallbacks" /\ i \in r.ready
    \/ mode = "ordered" /\ i \notin r.ready

minimum == IF MinRequired <= 0 THEN 1 ELSE MinRequired

\* What the mode makes of the members seen.
verdict(r) ==
    CASE mode = "all-required" -> r.ready = Members /\ IDs # <<>>
      [] mode = "minimum-required" -> Cardinality(r.ready) >= minimum
      [] mode = "optional-dependencies" -> TRUE
      [] mode = "primary-with-fallbacks" -> r.ready # {}
      [] mode = "ordered" -> r.ready = Members /\ IDs # <<>>

Ended(r) == [r EXCEPT !.pc = "done", !.result = verdict(r)]

\* Faulty: the fallbacks are asked before the primary.
AskedReversed(n) == IDs[Len(IDs) + 1 - n]

\* The members in the order they are asked, the primary first.
Asked(n) == IDs[n]

\* One member is asked.
Step ==
    /\ report.pc = "eval" /\ report.next <= Len(IDs)
    /\ LET i == Asked(report.next)
           r == [classify(report, i) EXCEPT !.next = @ + 1] IN
       report' = IF stops(r, i) \/ r.next > Len(IDs) THEN Ended(r) ELSE r
    /\ UNCHANGED <<registered, mode, was>>

Next ==
    \/ EvaluateReadiness \/ Step
    \/ \E i \in Members : \E s \in Statuses \cup {"absent"} : Change(i, s)

Spec == Init /\ [][Next]_vars

-----------------------------------------------------------------------------

Usable(i) == was[i] \ {"absent", "unhealthy", "blocked"} # {}

Before(i, j) == \E m, n \in DOMAIN IDs : IDs[m] = i /\ IDs[n] = j /\ m < n

\* A bundle reported ready has, since the evaluation began, had every member
\* its mode asks for usable: all, a minimum of them, or one.
ReadyWasUsable ==
    report.pc = "done" /\ report.result =>
        LET usable == {i \in Members : Usable(i)} IN
        CASE mode \in {"all-required", "ordered"} -> usable = Members
          [] mode = "minimum-required" -> Cardinality(usable) >= minimum
          [] mode = "primary-with-fallbacks" -> usable # {}
          [] OTHER -> TRUE

\* A fallback is chosen only when every member before it was seen unusable.
FallbackOnlyIfNeeded ==
    mode = "primary-with-fallbacks" =>
        \A j \in report.ready : \A i \in Members : Before(i, j) =>
            was[i] \cap {"absent", "unhealthy", "blocked"} # {}

\* An ordered bundle never asks a member behind one that was not ready.
OrderedPrefix ==
    mode = "ordered" => \A j \in report.ready : \A i \in Members : Before(i, j) => i \in report.ready

\* All-required: every member is registered and healthy, as the mode's comment
\* has it.
\* The code does not keep this (README, Disagreements).
AllRequiredHealthy ==
    mode = "all-required" /\ report.pc = "done" /\ report.result =>
        \A i \in Members : "healthy" \in was[i]
=============================================================================
