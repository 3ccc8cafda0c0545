------------------------------- MODULE Barrier -------------------------------
(***************************************************************************)
(* barrier.Barrier: participants arrive, waiters wait until the policy is  *)
(* satisfied.  A waiter that gives up leaves its channel in the list.      *)
(***************************************************************************)
EXTENDS Integers, FiniteSets

CONSTANTS
    Participants,
    Waiters,
    MaxParticipants,
    MinimumCount,
    MaxListed           \* bound on the calls of Wait

BarrierAssumption ==
    /\ MaxParticipants \in Nat \ {0}
    /\ MinimumCount \in Nat \ {0}

VARIABLES
    policy,     \* Config.Policy
    arrived,    \* Barrier.participants
    released, closed,
    listed,     \* length of Barrier.waiters
    wait,       \* waiter -> "idle", "blocked", or what Wait returned
    waits       \* calls of Wait so far

vars == <<policy, arrived, released, closed, listed, wait, waits>>

Policies == {"quorum", "exact", "all", "minimum-count"}

Answers == {"nil", "ErrClosed", "ErrFull", "ctx"}

TypeOK ==
    /\ policy \in Policies
    /\ arrived \subseteq Participants /\ Cardinality(arrived) <= MaxParticipants
    /\ released \in BOOLEAN /\ closed \in BOOLEAN
    /\ listed \in 0..MaxParticipants
    /\ wait \in [Waiters -> {"idle", "blocked"} \cup Answers]

Init ==
    /\ policy \in Policies
    /\ arrived = {} /\ released = FALSE /\ closed = FALSE
    /\ listed = 0 /\ wait = [w \in Waiters |-> "idle"] /\ waits = 0

-----------------------------------------------------------------------------

\* Faulty: half of the participants make a quorum.
HalfSatisfies(n) == n >= MaxParticipants \div 2

satisfiedLocked(n) ==
    CASE policy = "quorum" -> n >= MaxParticipants \div 2 + 1
      [] policy = "exact"  -> n = MinimumCount
      [] policy = "all"    -> n >= MaxParticipants
      [] OTHER             -> n >= MinimumCount

\* Faulty: the flag is set and the waiters are forgotten.
releaseFlagOnly == released' = TRUE /\ listed' = 0 /\ UNCHANGED wait

releaseLocked ==
    /\ released' = TRUE
    /\ listed' = 0
    /\ wait' = [w \in Waiters |-> IF wait[w] = "blocked" THEN "nil" ELSE wait[w]]

\* Other epochs, a second arrival and one too many are refused.
Arrive(p) ==
    /\ ~closed /\ p \notin arrived /\ Cardinality(arrived) < MaxParticipants
    /\ arrived' = arrived \cup {p}
    /\ IF satisfiedLocked(Cardinality(arrived'))
       THEN releaseLocked ELSE UNCHANGED <<released, listed, wait>>
    /\ UNCHANGED <<policy, closed, waits>>

Wait(w) ==
    /\ wait[w] # "blocked" /\ waits < MaxListed
    /\ waits' = waits + 1
    /\ LET full == listed >= MaxParticipants
           queued == ~closed /\ ~released /\ ~full
       IN  /\ wait' = [wait EXCEPT ![w] = IF closed THEN "ErrClosed"
                                          ELSE IF released THEN "nil"
                                          ELSE IF full THEN "ErrFull"
                                          ELSE "blocked"]
           /\ listed' = IF queued THEN listed + 1 ELSE listed
    /\ UNCHANGED <<policy, arrived, released, closed>>

\* The waiter's context ends; its channel stays in the list.
GiveUp(w) ==
    /\ wait[w] = "blocked"
    /\ wait' = [wait EXCEPT ![w] = "ctx"]
    /\ UNCHANGED <<policy, arrived, released, closed, listed, waits>>

Close ==
    /\ ~closed
    /\ closed' = TRUE
    /\ releaseLocked
    /\ UNCHANGED <<policy, arrived, waits>>

Next ==
    \/ Close
    \/ \E p \in Participants : Arrive(p)
    \/ \E w \in Waiters : Wait(w) \/ GiveUp(w)

Spec == Init /\ [][Next]_vars

-----------------------------------------------------------------------------

Majority == 2 * Cardinality(arrived) > MaxParticipants

\* A quorum barrier that is still open releases waiters only behind a
\* majority, so two groups of participants can never both pass.
QuorumIsMajority == policy = "quorum" /\ released /\ ~closed => Majority

\* Wait succeeds only when the policy was satisfied: closing the barrier
\* fails it.
\* The code does not keep this (README, Disagreements).
CloseFailsWaiters ==
    \A w \in Waiters : wait[w] = "blocked" /\ wait'[w] = "nil" => ~closed'

\* Wait is refused only while as many waiters as there may be are blocked.
\* The code does not keep this (README, Disagreements).
FullOnlyWhenFull ==
    \A w \in Waiters : wait'[w] = "ErrFull" /\ waits' # waits /\ wait[w] # "ErrFull" =>
       Cardinality({v \in Waiters : wait[v] = "blocked"}) >= MaxParticipants

-----------------------------------------------------------------------------
(* What the liveness properties of the runs speak of.                       *)

Blocked(w) == wait[w] = "blocked"
=============================================================================
