------------------------------ MODULE DualWrite ------------------------------
(***************************************************************************)
(* migration/dualwrite: concurrent writes of one key to two stores, whose  *)
(* order the mode read at the start of the write gives.                    *)
(***************************************************************************)
EXTENDS Integers, FiniteSets

CONSTANTS
    Writers,            \* each writes its own value once
    FailOpenSecondary,
    HasSecondary        \* whether a secondary was given to New

Modes == {"primary-first", "secondary-first", "primary-only"}

VARIABLES
    mode, closed,       \* Helper
    secondaryErrors,
    store,              \* "primary"/"secondary" -> the value it holds
    applied,            \* history: store -> the writers it has applied
    w                   \* writer -> [pc, mode, result]

vars == <<mode, closed, secondaryErrors, store, applied, w>>

\* New refuses a dual mode without a secondary.
Init ==
    /\ mode \in IF HasSecondary THEN Modes ELSE {"primary-only"}
    /\ closed = FALSE /\ secondaryErrors = 0
    /\ store = [s \in {"primary", "secondary"} |-> "old"]
    /\ applied = [s \in {"primary", "secondary"} |-> {}]
    /\ w = [x \in Writers |-> [pc |-> "idle", mode |-> "none", ok |-> FALSE]]

-----------------------------------------------------------------------------

\* The stores a mode writes, in order.
Order(m) ==
    CASE m = "primary-only" -> <<"primary">>
      [] m = "secondary-first" -> <<"secondary", "primary">>
      [] OTHER -> <<"primary", "secondary">>

\* Write notes the mode under the lock, or finds the helper closed.
Write(x) ==
    /\ w[x].pc = "idle"
    /\ w' = [w EXCEPT ![x] = IF closed THEN [@ EXCEPT !.pc = "returned"]
                             ELSE [@ EXCEPT !.pc = "first", !.mode = mode]]
    /\ UNCHANGED <<mode, closed, secondaryErrors, store, applied>>

Current(x) == Order(w[x].mode)[IF w[x].pc = "first" THEN 1 ELSE 2]

\* Where the writer stands when its current store has answered well.
Behind(x) ==
    IF w[x].pc = "first" /\ w[x].mode # "primary-only" THEN [w[x] EXCEPT !.pc = "second"]
    ELSE [w[x] EXCEPT !.pc = "returned", !.ok = TRUE]

Missing(x) == Current(x) = "secondary" /\ ~HasSecondary

Put(x) ==
    /\ store' = [store EXCEPT ![Current(x)] = x]
    /\ applied' = [applied EXCEPT ![Current(x)] = @ \cup {x}]

\* writePri and writeSec succeed; a secondary that is not there always does.
Apply(x) ==
    /\ w[x].pc \in {"first", "second"}
    /\ IF Missing(x) THEN UNCHANGED <<store, applied>> ELSE Put(x)
    /\ w' = [w EXCEPT ![x] = Behind(x)]
    /\ UNCHANGED <<mode, closed, secondaryErrors>>

\* Faulty: the write goes on to the other store.
FailGoesOn(x) ==
    /\ w[x].pc \in {"first", "second"}
    /\ Put(x) \/ UNCHANGED <<store, applied>>
    /\ w' = [w EXCEPT ![x] = Behind(x)]
    /\ secondaryErrors' = IF Current(x) = "secondary" THEN secondaryErrors + 1 ELSE secondaryErrors
    /\ UNCHANGED <<mode, closed>>

\* They fail, the store having applied the write or not.  An error of the
\* secondary is counted, and swallowed under FailOpenSecondary.
Fail(x) ==
    /\ w[x].pc \in {"first", "second"} /\ ~Missing(x)
    /\ Put(x) \/ UNCHANGED <<store, applied>>
    /\ w' = [w EXCEPT ![x] = IF Current(x) = "secondary" /\ FailOpenSecondary THEN Behind(x)
                             ELSE [@ EXCEPT !.pc = "returned"]]
    /\ secondaryErrors' = IF Current(x) = "secondary" THEN secondaryErrors + 1 ELSE secondaryErrors
    /\ UNCHANGED <<mode, closed>>

SetMode(m) ==
    /\ mode # m
    /\ mode' = m
    /\ UNCHANGED <<closed, secondaryErrors, store, applied, w>>

Close ==
    /\ ~closed
    /\ closed' = TRUE
    /\ UNCHANGED <<mode, secondaryErrors, store, applied, w>>

Next == Close \/ (\E m \in Modes : SetMode(m)) \/ \E x \in Writers : Write(x) \/ Apply(x) \/ Fail(x)

Spec == Init /\ [][Next]_vars

-----------------------------------------------------------------------------

\* A write acknowledged in a dual mode is in both stores, or the error of the
\* secondary was counted, whatever the mode has become meanwhile.
AcknowledgedInBoth ==
    \A x \in Writers : w[x].ok =>
        /\ x \in applied["primary"]
        /\ w[x].mode # "primary-only" =>
              x \in applied["secondary"] \/ (FailOpenSecondary /\ secondaryErrors > 0)

\* In secondary-first mode nothing reaches the primary that the secondary has
\* refused.
SecondaryLeads ==
    ~FailOpenSecondary =>
        \A x \in applied["primary"] : w[x].mode = "secondary-first" => x \in applied["secondary"]

\* When every write was acknowledged in a dual mode and none is under way, the
\* two stores hold the same value.
\* The code does not keep this (README, Disagreements).
StoresAgree ==
    (\A x \in Writers : w[x].ok /\ w[x].mode = "primary-first" /\ x \in applied["secondary"])
        => store["primary"] = store["secondary"]
=============================================================================
