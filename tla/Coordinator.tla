---------------------------- MODULE Coordinator ----------------------------
(***************************************************************************)
(* coordinator.go, event.go and internal/supervisor: the claims a          *)
(* coordinator hands out, the goroutines it supervises, its events and the *)
(* state of its generation, up to the end of Close.                        *)
(***************************************************************************)
EXTENDS Integers, Sequences, FiniteSets

CONSTANTS
    Callers, Names,
    MaxConcurrentClaims, EventBuffer,
    MaxEvents       \* bound on the events of callers and renewals

VARIABLES
    closed, claims, genState,       \* Coordinator
    handlesClosed,                  \* the claims whose handle is closed
    supClosed, loops,               \* Supervisor: the goroutines that run
    buffer, dropped, dispatched,    \* eventBus: the numbers of events
    stored,                         \* the generation's state at the backend
    call, closing,
    emitted, ahead                  \* history: events so far, and before Shutdown

vars == <<closed, claims, genState, handlesClosed, supClosed, loops, buffer, dropped,
          dispatched, stored, call, closing, emitted, ahead>>
bus == <<buffer, dropped, emitted>>

Idle == [pc |-> "idle"]
Events == "events"

\* What New leaves: a standby generation, and the events of that transition and of
\* the registration, which the event loop has yet to deliver.
Init ==
    /\ closed = FALSE /\ claims = {} /\ genState = "standby" /\ handlesClosed = {}
    /\ supClosed = FALSE /\ loops = {Events} /\ buffer = <<1, 2>> /\ dropped = {} /\ dispatched = {}
    /\ stored = "standby" /\ call = [c \in Callers |-> Idle]
    /\ closing = [pc |-> "idle", left |-> {}] /\ emitted = 2 /\ ahead = 0

-----------------------------------------------------------------------------
(* Events and goroutines.                                                  *)

\* A full buffer drops the event and counts it.
emit ==
    /\ emitted' = emitted + 1
    /\ IF Len(buffer) < EventBuffer THEN buffer' = Append(buffer, emitted') /\ UNCHANGED dropped
       ELSE dropped' = dropped \cup {emitted'} /\ UNCHANGED buffer

dispatch ==
    /\ Events \in loops /\ buffer # <<>>
    /\ dispatched' = dispatched \cup {Head(buffer)} /\ buffer' = Tail(buffer)
    /\ UNCHANGED <<closed, claims, genState, handlesClosed, supClosed, loops, dropped, stored, call, closing, emitted, ahead>>

\* The event loop ends when its context is done and it has drained the buffer.
EventsEnd ==
    /\ Events \in loops /\ supClosed /\ buffer = <<>>
    /\ loops' = loops \ {Events}
    /\ UNCHANGED <<closed, claims, genState, handlesClosed, supClosed, bus, dispatched, stored, call, closing, ahead>>

\* Faulty: a goroutine is started behind Shutdown.
GoUnchecked(n) == loops \cup {n}

\* Supervisor.Go, which does nothing once Shutdown has begun.
Go(n) == IF supClosed THEN loops ELSE loops \cup {n}

\* An acquisition of the claim starts its renewal; one loop per claim is enough here.
startRenewal(n) ==
    /\ n \in claims \ loops
    /\ loops' = Go(n)
    /\ UNCHANGED <<closed, claims, genState, handlesClosed, supClosed, bus, dispatched, stored, call, closing, ahead>>

Renewed(n) ==
    /\ n \in loops \ {Events} /\ emitted < MaxEvents
    /\ emit
    /\ UNCHANGED <<closed, claims, genState, handlesClosed, supClosed, loops, dispatched, stored, call, closing, ahead>>

\* The renewal loop loses its lease ...
RenewalLost(n) ==
    /\ n \in loops \ {Events} /\ ~supClosed
    /\ loops' = loops \ {n}
    /\ UNCHANGED <<closed, claims, genState, handlesClosed, supClosed, bus, dispatched, stored, call, closing, ahead>>

\* ... or sees that its context is done.
RenewalEnds(n) ==
    /\ n \in loops \ {Events} /\ supClosed
    /\ loops' = loops \ {n}
    /\ UNCHANGED <<closed, claims, genState, handlesClosed, supClosed, bus, dispatched, stored, call, closing, ahead>>

-----------------------------------------------------------------------------
(* Claim and setState.                                                     *)

\* Claim checks that the coordinator is open and lets go of the mutex ...
ClaimOpen(c, n) ==
    /\ call[c] = Idle /\ ~closed
    /\ call' = [call EXCEPT ![c] = [pc |-> "claim", name |-> n]]
    /\ UNCHANGED <<closed, claims, genState, handlesClosed, supClosed, loops, bus, dispatched, stored, closing, ahead>>

\* Faulty: the bound is one too large.
MayAddLate(n) == n \in claims \/ Cardinality(claims) <= MaxConcurrentClaims

MayAdd(n) == n \in claims \/ Cardinality(claims) < MaxConcurrentClaims

\* ... and returns the handle of that name, a new one if there is none.
Claim(c) ==
    /\ call[c].pc = "claim"
    /\ claims' = IF MayAdd(call[c].name) THEN claims \cup {call[c].name} ELSE claims
    /\ call' = [call EXCEPT ![c] = Idle]
    /\ UNCHANGED <<closed, genState, handlesClosed, supClosed, loops, bus, dispatched, stored, closing, ahead>>

allowed == [
    joining |-> {"standby", "preparing", "failed", "retired"},
    standby |-> {"preparing", "active", "failed", "retired"},
    preparing |-> {"standby", "active", "failed", "retired"},
    active |-> {"draining", "transferring", "retired", "failed"},
    draining |-> {"transferring", "active", "retired", "failed"},
    transferring |-> {"retired", "active", "failed", "standby"},
    retired |-> {}, failed |-> {}]

CanTransition(from, to) == to \in allowed[from]

\* setState changes the state under the mutex; a transition the table does not
\* have is only reported.
setState(c, to) ==
    /\ call[c] = Idle /\ to # genState /\ emitted < MaxEvents
    /\ IF CanTransition(genState, to)
       THEN /\ genState' = to
            /\ call' = [call EXCEPT ![c] = [pc |-> "update", to |-> to]]
            /\ UNCHANGED bus
       ELSE emit /\ UNCHANGED <<genState, call>>
    /\ UNCHANGED <<closed, claims, handlesClosed, supClosed, loops, dispatched, stored, closing, ahead>>

\* After it, without the mutex, setState tells the backend and the observers.
UpdateGeneration(c) ==
    /\ call[c].pc = "update"
    /\ stored' = call[c].to
    /\ emit
    /\ call' = [call EXCEPT ![c] = Idle]
    /\ UNCHANGED <<closed, claims, genState, handlesClosed, supClosed, loops, dispatched, closing, ahead>>

-----------------------------------------------------------------------------
(* Close.                                                                  *)

Close ==
    /\ ~closed
    /\ closed' = TRUE
    /\ closing' = [pc |-> "claims", left |-> claims]
    /\ UNCHANGED <<claims, genState, handlesClosed, supClosed, loops, bus, dispatched, stored, call, ahead>>

CloseClaims ==
    /\ closing.pc = "claims"
    /\ handlesClosed' = handlesClosed \cup closing.left
    /\ closing' = [closing EXCEPT !.pc = "retire"]
    /\ UNCHANGED <<closed, claims, genState, supClosed, loops, bus, dispatched, stored, call, ahead>>

Retire ==
    /\ closing.pc = "retire"
    /\ LET retires == CanTransition(genState, "retired")
       IN  /\ genState' = IF retires THEN "retired" ELSE genState
           /\ closing' = [closing EXCEPT !.pc = IF retires THEN "update" ELSE "emit"]
           /\ IF retires \/ genState = "retired" THEN UNCHANGED bus ELSE emit
    /\ UNCHANGED <<closed, claims, handlesClosed, supClosed, loops, dispatched, stored, call, ahead>>

CloseUpdate ==
    /\ closing.pc = "update"
    /\ stored' = "retired"
    /\ emit
    /\ closing' = [closing EXCEPT !.pc = "emit"]
    /\ UNCHANGED <<closed, claims, genState, handlesClosed, supClosed, loops, dispatched, call, ahead>>

EmitClosed ==
    /\ closing.pc = "emit"
    /\ emit
    /\ closing' = [closing EXCEPT !.pc = "shutdown"]
    /\ UNCHANGED <<closed, claims, genState, handlesClosed, supClosed, loops, dispatched, stored, call, ahead>>

Shutdown ==
    /\ closing.pc = "shutdown"
    /\ supClosed' = TRUE /\ ahead' = emitted
    /\ closing' = [closing EXCEPT !.pc = "wait"]
    /\ UNCHANGED <<closed, claims, genState, handlesClosed, loops, bus, dispatched, stored, call>>

Wait ==
    /\ closing.pc = "wait" /\ loops = {}
    /\ closing' = [closing EXCEPT !.pc = "done"]
    /\ UNCHANGED <<closed, claims, genState, handlesClosed, supClosed, loops, bus, dispatched, stored, call, ahead>>

CloseStep == CloseClaims \/ Retire \/ CloseUpdate \/ EmitClosed \/ Shutdown \/ Wait

Next ==
    \/ dispatch \/ EventsEnd \/ Close \/ CloseStep
    \/ \E n \in Names : startRenewal(n) \/ Renewed(n) \/ RenewalLost(n) \/ RenewalEnds(n)
    \/ \E c \in Callers :
          \/ \E n \in Names : ClaimOpen(c, n)
          \/ \E to \in DOMAIN allowed \ {"joining"} : setState(c, to)
          \/ Claim(c) \/ UpdateGeneration(c)

Spec == Init /\ [][Next]_vars

-----------------------------------------------------------------------------

\* No more claims than the policy allows, whoever asks at once.
ClaimsBounded == Cardinality(claims) <= MaxConcurrentClaims

\* Once Close has returned no goroutine of the coordinator runs, and none will.
NothingRuns == closing.pc = "done" => loops = {}

\* What was emitted before Close came to Shutdown has been delivered or counted
\* as dropped when Close returns.
EventsAccounted == closing.pc = "done" => 1..ahead \subseteq dispatched \cup dropped

\* Once Close has returned and no call is under way, every handle is closed.
\* The code does not keep this (README, Disagreements).
HandlesClosed ==
    closing.pc = "done" /\ (\A c \in Callers : call[c] = Idle) => claims \subseteq handlesClosed

\* With no call under way the backend has the generation's state.
\* The code does not keep this (README, Disagreements).
BackendKnowsState ==
    (\A c \in Callers : call[c] = Idle) /\ closing.pc \in {"idle", "done"} => stored = genState

-----------------------------------------------------------------------------
(* What the liveness properties of the runs speak of.                       *)

\* Close has been called; it has returned.
CloseBegun == closed
CloseDone == closing.pc = "done"
=============================================================================
