---------------------------- MODULE ObjectStore ----------------------------
(***************************************************************************)
(* resource/storage/object: the Client that bounds concurrent operations,  *)
(* over the memory store.  Callers count up an object by Get and a Put     *)
(* that is conditional on what they read, and may send a Put again when    *)
(* its answer is lost; others delete objects.  A body is a number and its  *)
(* own checksum; sizes, types and listings are left out.                   *)
(***************************************************************************)
EXTENDS Integers, FiniteSets

CONSTANTS
    Callers, Keys,
    MaxParallel, MaxObjects,
    MaxPuts         \* bound on the Puts, and on the idempotency keys

VARIABLES
    sem,            \* the callers that hold a slot of the Client
    objects,        \* key -> [body, gen]; Absent if there is none
    idempotent,     \* the idempotency keys of the Puts that were made
    closed,
    call, puts,
    count, times    \* history: Puts of a key since it was created, and of each call

vars == <<sem, objects, idempotent, closed, call, puts, count, times>>

Absent == [body |-> 0, gen |-> 0]
Idle == [pc |-> "idle"]

Init ==
    /\ sem = {} /\ objects = [k \in Keys |-> Absent] /\ idempotent = {} /\ closed = FALSE
    /\ call = [c \in Callers |-> Idle] /\ puts = 0 /\ count = [k \in Keys |-> 0]
    /\ times = [i \in 1..MaxPuts |-> 0]

Stored == {k \in Keys : objects[k] # Absent}

\* Faulty: the slots are one too many.
HasSlotLate == Cardinality(sem) <= MaxParallel

HasSlot == Cardinality(sem) < MaxParallel

\* Client.acquire for what the caller is at; release comes with the answer.
acquire(c) ==
    /\ call[c].pc \in {"get", "put"} /\ c \notin sem /\ HasSlot
    /\ sem' = sem \cup {c}
    /\ UNCHANGED <<objects, idempotent, closed, call, puts, count, times>>

\* The context is done before there is a slot.
Canceled(c) ==
    /\ call[c].pc \in {"get", "put"} /\ c \notin sem
    /\ call' = [call EXCEPT ![c] = Idle]
    /\ UNCHANGED <<sem, objects, idempotent, closed, puts, count, times>>

Begin(c, k) ==
    /\ call[c] = Idle /\ puts < MaxPuts
    /\ call' = [call EXCEPT ![c] = [pc |-> "get", key |-> k, idem |-> puts + 1]]
    /\ puts' = puts + 1
    /\ UNCHANGED <<sem, objects, idempotent, closed, count, times>>

\* Store.Get; the caller goes on with a Put of the next number.
Get(c) ==
    /\ call[c].pc = "get" /\ c \in sem
    /\ sem' = sem \ {c}
    /\ call' = [call EXCEPT ![c] =
                  IF closed THEN Idle
                  ELSE [pc |-> "put", key |-> @.key, idem |-> @.idem,
                        base |-> objects[@.key].body]]
    /\ UNCHANGED <<objects, idempotent, closed, puts, count, times>>

\* Faulty: the condition on the checksum is not looked at.
ConditionIgnored(k, base) == base = 0 => objects[k] = Absent

\* A caller that read nothing says IfNotExists, and any other IfChecksum.
Condition(k, base) ==
    IF base = 0 THEN objects[k] = Absent ELSE objects[k] # Absent /\ objects[k].body = base

Fits(k) == objects[k] # Absent \/ Cardinality(Stored) < MaxObjects

\* Faulty: a Put that was made is not remembered.
AppliedAgain(k, base, idem) ==
    IF closed \/ ~Condition(k, base) \/ ~Fits(k)
    THEN UNCHANGED <<objects, idempotent, count, times>>
    ELSE /\ objects' = [objects EXCEPT ![k] = [body |-> base + 1, gen |-> @.gen + 1]]
         /\ count' = [count EXCEPT ![k] = @ + 1] /\ times' = [times EXCEPT ![idem] = @ + 1]
         /\ UNCHANGED idempotent

\* Store.Put.
Applied(k, base, idem) ==
    IF closed \/ idem \in idempotent \/ ~Condition(k, base) \/ ~Fits(k)
    THEN UNCHANGED <<objects, idempotent, count, times>>
    ELSE /\ objects' = [objects EXCEPT ![k] = [body |-> base + 1, gen |-> @.gen + 1]]
         /\ idempotent' = idempotent \cup {idem}
         /\ count' = [count EXCEPT ![k] = @ + 1] /\ times' = [times EXCEPT ![idem] = @ + 1]

\* The answer arrives, or is lost and the same Put is sent again.
Put(c) ==
    /\ call[c].pc = "put" /\ c \in sem
    /\ Applied(call[c].key, call[c].base, call[c].idem)
    /\ sem' = sem \ {c}
    /\ \/ call' = [call EXCEPT ![c] = Idle]
       \/ UNCHANGED call
    /\ UNCHANGED <<closed, puts>>

\* Store.Delete, straight at the store as Resource.Store allows: it waits for no slot.
Delete(k) ==
    /\ ~closed /\ objects[k] # Absent
    /\ objects' = [objects EXCEPT ![k] = Absent]
    /\ count' = [count EXCEPT ![k] = 0]
    /\ UNCHANGED <<sem, idempotent, closed, call, puts, times>>

Close ==
    /\ ~closed /\ closed' = TRUE
    /\ UNCHANGED <<sem, objects, idempotent, call, puts, count, times>>

Next ==
    \/ Close
    \/ \E k \in Keys : Delete(k) \/ \E c \in Callers : Begin(c, k)
    \/ \E c \in Callers : acquire(c) \/ Canceled(c) \/ Get(c) \/ Put(c)

Spec == Init /\ [][Next]_vars

-----------------------------------------------------------------------------

\* No update is lost: an object that was counted up by conditional Puts holds as many
\* as were applied since it was created, and its generation says so.
CountExact ==
    \A k \in Keys : objects[k].body = count[k] /\ objects[k].gen = count[k]

\* A Put that is sent again is made once, also when its object was deleted meanwhile.
PutOnce == \A i \in DOMAIN times : times[i] <= 1

\* Neither the operations at the store nor its objects pass their bound.
StoreBounded == Cardinality(sem) <= MaxParallel /\ Cardinality(Stored) <= MaxObjects

\* The memory the store keeps is bounded, that of the idempotency keys with it.
\* The code does not keep this (README, Disagreements).
MemoryBounded == Cardinality(idempotent) <= MaxObjects
=============================================================================
