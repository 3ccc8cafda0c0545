----------------------------- MODULE DrainGroup -----------------------------
(***************************************************************************)
(* DrainGroup (drain.go): operations in flight under a claim, the drain    *)
(* that refuses new ones, and the goroutines that wait for it.  Every      *)
(* method but Close and Wait is one critical section.                      *)
(***************************************************************************)
EXTENDS Integers, FiniteSets

CONSTANTS
    Ops,        \* operations the application runs
    Names,      \* names given to BeginNamed
    NoName,     \* the empty name of Begin
    Waiters,    \* goroutines that call Wait
    maxNamed    \* limit of operations with one name, 0 for none

NoNameAssumption == NoName \notin Names
maxNamedAssumption == maxNamed \in Nat

VARIABLES
    active,
    named,      \* count per name, 0 for a name that is not a key
    draining,
    done,       \* channel done is closed
    closed,
    op,         \* each operation: "new", "running" or "released", and its name
    wait        \* each waiter: "no", "waiting", "ok" or "ErrTimeout"

group == <<active, named, draining, done, closed>>
vars == <<group, op, wait>>

OpStates == [state : {"new", "running", "released"}, name : Names \cup {NoName}]

TypeOK ==
    /\ active \in 0..Cardinality(Ops)
    /\ named \in [Names -> 0..Cardinality(Ops)]
    /\ draining \in BOOLEAN
    /\ done \in BOOLEAN
    /\ closed \in BOOLEAN
    /\ op \in [Ops -> OpStates]
    /\ wait \in [Waiters -> {"no", "waiting", "ok", "ErrTimeout"}]

Running == {o \in Ops : op[o].state = "running"}

Init ==
    /\ active = 0
    /\ named = [n \in Names |-> 0]
    /\ draining = FALSE
    /\ done = FALSE
    /\ closed = FALSE
    /\ op = [o \in Ops |-> [state |-> "new", name |-> NoName]]
    /\ wait = [w \in Waiters |-> "no"]

\* The operation is counted; its name only if names are limited.
Admit(o, name) ==
    /\ named' = IF name # NoName /\ maxNamed > 0
                THEN [named EXCEPT ![name] = @ + 1] ELSE named
    /\ active' = active + 1
    /\ op' = [op EXCEPT ![o] = [state |-> "running", name |-> name]]
    /\ UNCHANGED <<draining, done, closed, wait>>

\* Faulty: the drain does not stop new operations.
BeginWhileDraining(o, name) ==
    /\ op[o].state = "new"
    /\ ~closed
    /\ name # NoName /\ maxNamed > 0 => named[name] < maxNamed
    /\ Admit(o, name)

\* Faulty: one operation more than the limit is let in.
BeginOverLimit(o, name) ==
    /\ op[o].state = "new"
    /\ ~closed
    /\ ~draining
    /\ name # NoName /\ maxNamed > 0 => named[name] <= maxNamed
    /\ Admit(o, name)

BeginNamed(o, name) ==
    /\ op[o].state = "new"
    /\ ~closed
    /\ ~draining
    /\ name # NoName /\ maxNamed > 0 => named[name] < maxNamed
    /\ Admit(o, name)

\* A key that reaches zero or less is deleted.
dropName(name) ==
    IF name = NoName THEN named
    ELSE [named EXCEPT ![name] = IF @ > 0 THEN @ - 1 ELSE 0]

\* Faulty: every call of the release function counts, not only the first.
ReleaseTwice(o) ==
    /\ op[o].state # "new"
    /\ op' = [op EXCEPT ![o].state = "released"]
    /\ active' = active - 1
    /\ named' = dropName(op[o].name)
    /\ done' = (done \/ (draining /\ active' = 0))
    /\ UNCHANGED <<draining, closed, wait>>

\* The function BeginNamed returned, guarded by sync.Once.
Release(o) ==
    /\ op[o].state = "running"
    /\ op' = [op EXCEPT ![o].state = "released"]
    /\ active' = active - 1
    /\ named' = dropName(op[o].name)
    /\ done' = (done \/ (draining /\ active' = 0))
    /\ UNCHANGED <<draining, closed, wait>>

StartDrain ==
    /\ draining' = TRUE
    /\ done' = (done \/ (~draining /\ active = 0))
    /\ UNCHANGED <<active, named, closed>>

Drain ==
    /\ ~draining
    /\ StartDrain
    /\ UNCHANGED <<op, wait>>

Wait(w) ==
    /\ wait[w] = "no"
    /\ StartDrain
    /\ wait' = [wait EXCEPT ![w] = "waiting"]
    /\ UNCHANGED op

WaitDone(w) ==
    /\ wait[w] = "waiting"
    /\ done
    /\ wait' = [wait EXCEPT ![w] = "ok"]
    /\ UNCHANGED <<group, op>>

\* The context or the deadline of SetDeadline ends the wait.  Which of several
\* ready cases select takes is open.
WaitTimeout(w) ==
    /\ wait[w] = "waiting"
    /\ wait' = [wait EXCEPT ![w] = "ErrTimeout"]
    /\ UNCHANGED <<group, op>>

\* Close sets the flag without the mutex, then starts the drain (Drain).
Close ==
    /\ ~closed
    /\ closed' = TRUE
    /\ UNCHANGED <<active, named, draining, done, op, wait>>

CloseDrains ==
    /\ closed
    /\ Drain

Next ==
    \/ \E o \in Ops : \/ \E name \in Names \cup {NoName} : BeginNamed(o, name)
                      \/ Release(o)
    \/ \E w \in Waiters : Wait(w) \/ WaitDone(w) \/ WaitTimeout(w)
    \/ Drain
    \/ Close
    \/ CloseDrains

Spec == Init /\ [][Next]_vars

-----------------------------------------------------------------------------

\* A Wait that returned nil saw the last operation end, and none begins after
\* it: the group is idle for good (Wait, BeginNamed).
WaitedMeansIdle == done \/ (\E w \in Waiters : wait[w] = "ok") => Running = {}

\* At most maxNamed operations of one name run at the same time, and the count
\* kept for the name is exact, so the limit neither leaks nor blocks for ever.
NamedLimit ==
    maxNamed > 0 =>
        \A n \in Names :
            LET running == Cardinality({o \in Running : op[o].name = n})
            IN  running <= maxNamed /\ named[n] = running

-----------------------------------------------------------------------------
(* What the liveness properties of the runs speak of.                       *)

\* A drain has begun, also by Close; its end was seen.
DrainBegun == draining \/ closed
DrainSeen == done
=============================================================================
