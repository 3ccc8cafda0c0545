---------------------------- MODULE HTTPService ----------------------------
(***************************************************************************)
(* resource/service/http: Execute with its idempotency ids, the circuit    *)
(* breaker and the slots, by concurrent callers.  The mutex is given up    *)
(* between the table of ids, the look at the circuit, the wait for a slot  *)
(* and the record of the outcome.  Health and Snapshot change nothing.     *)
(***************************************************************************)
EXTENDS Integers, FiniteSets

CONSTANTS
    Callers, Ids,
    NoID,               \* a request without an id
    MaxConcurrent, CircuitThreshold, CircuitOpenFor,
    Durations,          \* what OpenCircuit is asked for, 0 for the default
    MaxSeen,            \* the ids the table holds (4096)
    MaxCalls,           \* bound on the calls of Execute
    MaxOpenings         \* bound on the openings by OpenCircuit

VARIABLES
    seenIDs, failures,
    left,               \* time until the circuit closes, 0 if it is closed
    call,               \* caller -> its Execute
    calls,
    openings,           \* history: how often the circuit was opened
    sent                \* history: id -> the requests sent with it

vars == <<seenIDs, failures, left, call, calls, openings, sent>>

Idle == [pc |-> "idle"]
InFlight == {c \in Callers : call[c].pc = "sent"}

Init ==
    /\ seenIDs = {} /\ failures = 0 /\ left = 0
    /\ call = [c \in Callers |-> Idle] /\ calls = 0
    /\ openings = 0 /\ sent = [i \in Ids |-> 0]

At(c, pc) == call' = [call EXCEPT ![c].pc = pc]
Return(c) == call' = [call EXCEPT ![c] = Idle]

Begin(c, i) ==
    /\ call[c] = Idle /\ calls < MaxCalls /\ calls' = calls + 1
    /\ call' = [call EXCEPT ![c] = [pc |-> "id", id |-> i, opened |-> 0]]
    /\ UNCHANGED <<seenIDs, failures, left, openings, sent>>

\* Faulty: the id is looked up and not entered.
CheckIDOnly(c) ==
    /\ call[c].pc = "id" /\ At(c, "circuit")
    /\ UNCHANGED <<seenIDs, failures, left, calls, openings, sent>>

\* A table that is full is emptied.
CheckID(c) ==
    /\ call[c].pc = "id"
    /\ IF call[c].id \in seenIDs
       THEN Return(c) /\ UNCHANGED seenIDs
       ELSE /\ At(c, "circuit")
            /\ seenIDs' = IF call[c].id = NoID THEN seenIDs
                          ELSE {call[c].id} \cup (IF Cardinality(seenIDs) >= MaxSeen THEN {} ELSE seenIDs)
    /\ UNCHANGED <<failures, left, calls, openings, sent>>

\* Faulty: the circuit is not looked at.
CheckCircuitNot(c) ==
    /\ call[c].pc = "circuit"
    /\ call' = [call EXCEPT ![c].pc = "slot", ![c].opened = openings]
    /\ UNCHANGED <<seenIDs, failures, left, calls, openings, sent>>

CheckCircuit(c) ==
    /\ call[c].pc = "circuit"
    /\ IF left > 0 THEN Return(c)
       ELSE call' = [call EXCEPT ![c].pc = "slot", ![c].opened = openings]
    /\ UNCHANGED <<seenIDs, failures, left, calls, openings, sent>>

\* Faulty: there is a slot too many.
HasSlotLate == Cardinality(InFlight) <= MaxConcurrent

HasSlot == Cardinality(InFlight) < MaxConcurrent

\* The slot is taken and the request sent.
Send(c) ==
    /\ call[c].pc = "slot" /\ HasSlot /\ At(c, "sent")
    /\ sent' = [i \in Ids |-> IF i = call[c].id THEN sent[i] + 1 ELSE sent[i]]
    /\ UNCHANGED <<seenIDs, failures, left, calls, openings>>

\* The context ends before there is a slot, or no request can be made of the
\* arguments and the slot is given back at once.
Canceled(c) ==
    /\ call[c].pc = "slot" /\ Return(c)
    /\ UNCHANGED <<seenIDs, failures, left, calls, openings, sent>>

recordSuccess == failures' = 0 /\ UNCHANGED <<left, openings>>

recordFailure ==
    IF failures + 1 >= CircuitThreshold
    THEN failures' = 0 /\ left' = CircuitOpenFor /\ openings' = openings + 1
    ELSE failures' = failures + 1 /\ UNCHANGED <<left, openings>>

\* An answer, an error of the server or none at all: the outcome is recorded and the
\* slot given back, which only enables others.
Answered(c, ok) ==
    /\ call[c].pc = "sent" /\ Return(c)
    /\ IF ok THEN recordSuccess ELSE recordFailure
    /\ UNCHANGED <<seenIDs, calls, sent>>

OpenCircuit(d) ==
    /\ openings < MaxOpenings /\ openings' = openings + 1
    /\ left' = IF d <= 0 THEN CircuitOpenFor ELSE d
    /\ UNCHANGED <<seenIDs, failures, call, calls, sent>>

Tick ==
    /\ left > 0 /\ left' = left - 1
    /\ UNCHANGED <<seenIDs, failures, call, calls, openings, sent>>

Execute(c) == CheckID(c) \/ CheckCircuit(c) \/ Send(c) \/ \E ok \in BOOLEAN : Answered(c, ok)

Next ==
    \/ Tick \/ \E d \in Durations : OpenCircuit(d)
    \/ \E c \in Callers : Execute(c) \/ Canceled(c) \/ \E i \in Ids \cup {NoID} : Begin(c, i)

\* Goroutines run on, and the client answers or times out; no context need end.
Spec == Init /\ [][Next]_vars

-----------------------------------------------------------------------------

\* While the circuit is open only requests are sent that found it closed before it
\* was last opened (Execute looks once, and then waits for its slot).
SentWhileOpenIsOld ==
    \A c \in Callers : call[c].pc = "slot" /\ call'[c].pc = "sent" /\ left > 0
        => call[c].opened < openings

\* No more requests are under way than there are slots (sem).
SlotsBounded == Cardinality(InFlight) <= MaxConcurrent

\* No idempotency id is sent twice, however its retries interleave (seenIDs).
SentOnce == \A i \in Ids : sent[i] <= 1

-----------------------------------------------------------------------------
(* What the liveness properties of the runs speak of.                       *)

Busy(c) == call[c] # Idle
=============================================================================
