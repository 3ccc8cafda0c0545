----------------------------- MODULE ObjectSync -----------------------------
(***************************************************************************)
(* sync/sync.go: passes of one Engine from a source to a target, two       *)
(* MemoryStores.  A pass reads the cursor under the mutex, and then pulls, *)
(* looks up and writes without it; it is given up at the first error.  A   *)
(* key of the source keeps its place in the order, so the cursor is the    *)
(* number of keys behind it.  Records carry their UpdatedAt.               *)
(***************************************************************************)
EXTENDS Integers, Sequences, FiniteSets, SequencesExt

CONSTANTS
    Callers, Keys,
    Recs,           \* records [val, ver, at]
    Policies,       \* the conflict policies an Engine may be created with
    MaxManual,
    MaxTarget,      \* the target's bound on its keys
    Limit           \* the records of one pass

None == [val |-> 0, ver |-> 0, at |-> -1]
Idle == [pc |-> "idle"]

VARIABLES
    order, source,  \* the source's keys as they came, and its records
    target,
    policy, cursor, manual,     \* of the Engine
    call,
    passed          \* history: the conflicts a pass under Manual went past

vars == <<order, source, target, policy, cursor, manual, call, passed>>

Stored(store) == {k \in Keys : store[k] # None}

Init ==
    /\ order = <<>> /\ source = [k \in Keys |-> None]
    /\ target \in [Keys -> {None} \cup Recs] /\ Cardinality(Stored(target)) <= MaxTarget
    /\ policy \in Policies /\ cursor = 0 /\ manual = <<>> /\ call = [c \in Callers |-> Idle] /\ passed = {}

\* MemoryStore.Put at the source, by whoever owns it.
SourcePut(k, rec) ==
    /\ source[k] # rec
    /\ source' = [source EXCEPT ![k] = rec]
    /\ order' = IF source[k] = None THEN Append(order, k) ELSE order
    /\ UNCHANGED <<target, cursor, manual, call, passed, policy>>

same(a, b) == a.val = b.val /\ a.ver = b.ver

\* Faulty: of two records of one time the source's is taken.
UseSourceOnTie(rec, existing) == rec.at >= existing.at

UseSource(rec, existing) ==
    rec.at > existing.at \/ (rec.at = existing.at /\ rec.ver > existing.ver)

Begin(c) ==
    /\ call[c] = Idle
    /\ call' = [call EXCEPT ![c] = [pc |-> "pull", cur |-> cursor]]
    /\ UNCHANGED <<order, source, target, cursor, manual, passed, policy>>

\* MemoryStore.Next.
Pull(c) ==
    /\ call[c].pc = "pull"
    /\ LET from == call[c].cur
           to == IF from + Limit < Len(order) THEN from + Limit ELSE Len(order)
           recs == [i \in 1..(to - from) |-> [key |-> order[from + i], rec |-> source[order[from + i]]]]
       IN  call' = [call EXCEPT ![c] = [pc |-> "get", recs |-> recs, next |-> to]]
    /\ UNCHANGED <<order, source, target, cursor, manual, passed, policy>>

\* Faulty: a full queue takes no key, and says nothing.
QueueSilently(k) ==
    IF Contains(manual, k) \/ Len(manual) >= MaxManual THEN [ok |-> TRUE, keys |-> manual]
    ELSE [ok |-> TRUE, keys |-> Append(manual, k)]

queueManual(k) ==
    IF Contains(manual, k) THEN [ok |-> TRUE, keys |-> manual]
    ELSE IF Len(manual) >= MaxManual THEN [ok |-> FALSE, keys |-> manual]
    ELSE [ok |-> TRUE, keys |-> Append(manual, k)]

Goto(c, p) == call' = [call EXCEPT ![c].pc = p]
Skip(c) == call' = [call EXCEPT ![c].recs = Tail(@)]
GiveUp(c) == call' = [call EXCEPT ![c] = Idle]

\* The record that is next is looked up in the target and dealt with by the policy.
Get(c) ==
    /\ call[c].pc = "get" /\ call[c].recs # <<>>
    /\ LET k == Head(call[c].recs).key
           rec == Head(call[c].recs).rec
           existing == target[k]
       IN  IF existing = None THEN Goto(c, "put") /\ UNCHANGED <<manual, passed>>
           ELSE IF same(existing, rec) THEN Skip(c) /\ UNCHANGED <<manual, passed>>
           ELSE CASE policy = "prefer-source" -> Goto(c, "put") /\ UNCHANGED <<manual, passed>>
                  [] policy = "prefer-target" -> Skip(c) /\ UNCHANGED <<manual, passed>>
                  [] policy = "prefer-latest" ->
                        (IF UseSource(rec, existing) THEN Goto(c, "put") ELSE Skip(c))
                        /\ UNCHANGED <<manual, passed>>
                  [] policy = "reject" -> GiveUp(c) /\ UNCHANGED <<manual, passed>>
                  [] policy = "manual" ->
                        LET q == queueManual(k)
                        IN  /\ manual' = q.keys
                            /\ IF q.ok THEN Skip(c) ELSE GiveUp(c)
                            /\ passed' = IF q.ok THEN passed \cup {k} ELSE passed
    /\ UNCHANGED <<order, source, target, cursor, policy>>

\* Faulty: a record the target refuses is skipped.
PutSkips(c) ==
    /\ call[c].pc = "put"
    /\ LET r == Head(call[c].recs) IN
       /\ target' = IF r.key \notin Stored(target) /\ Cardinality(Stored(target)) >= MaxTarget
                    THEN target ELSE [target EXCEPT ![r.key] = r.rec]
       /\ call' = [call EXCEPT ![c].recs = Tail(@), ![c].pc = "get"]
    /\ UNCHANGED <<order, source, cursor, manual, passed, policy>>

\* MemoryStore.Put at the target, which is bounded.
Put(c) ==
    /\ call[c].pc = "put"
    /\ LET r == Head(call[c].recs) IN
       IF r.key \notin Stored(target) /\ Cardinality(Stored(target)) >= MaxTarget
       THEN GiveUp(c) /\ UNCHANGED target
       ELSE /\ target' = [target EXCEPT ![r.key] = r.rec]
            /\ call' = [call EXCEPT ![c].recs = Tail(@), ![c].pc = "get"]
    /\ UNCHANGED <<order, source, cursor, manual, passed, policy>>

\* The context is done between two records.
Canceled(c) ==
    /\ call[c].pc = "get" /\ call[c].recs # <<>>
    /\ GiveUp(c)
    /\ UNCHANGED <<order, source, target, cursor, manual, passed, policy>>

Finish(c) ==
    /\ call[c].pc = "get" /\ call[c].recs = <<>>
    /\ cursor' = call[c].next
    /\ GiveUp(c)
    /\ UNCHANGED <<order, source, target, manual, passed, policy>>

Sync(c) == Begin(c) \/ Pull(c) \/ Get(c) \/ Put(c) \/ Canceled(c) \/ Finish(c)

Next ==
    \/ \E k \in Keys, rec \in Recs : SourcePut(k, rec)
    \/ \E c \in Callers : Sync(c)

Spec == Init /\ [][Next]_vars

-----------------------------------------------------------------------------

\* Every key behind the cursor is in the target, whichever passes ran at once and
\* wherever one of them was given up.
CursorCovered == \A i \in 1..cursor : target[order[i]] # None

\* The keys that wait for the operator are each queued once, and no more than the
\* bound.
ManualBounded == Len(manual) <= MaxManual /\ IsInjective(manual)

\* A pass goes past a conflict only when the key waits for the operator.
ConflictsQueued == \A k \in passed : Contains(manual, k)

\* A single pass at a time never puts an older record over a newer one.
NeverOlder ==
    \A k \in Keys : target[k] # None /\ target'[k] # target[k] =>
       \/ target[k].at < target'[k].at
       \/ target[k].at = target'[k].at /\ target[k].ver < target'[k].ver
=============================================================================
