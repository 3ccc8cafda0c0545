--------------------------- MODULE CommandControl ---------------------------
(***************************************************************************)
(* Commands: the registry with its idempotency table and rate limit, and   *)
(* the Runtime that authorises and audits them, counts the denials, enters *)
(* lockdown on a flood and quarantine when the audit fails.                *)
(***************************************************************************)
EXTENDS Integers, Sequences, FiniteSets

CONSTANTS
    Callers, Keys,                          \* idempotency keys
    RateLimitPerMin, idemMax,
    AuditFailClosed, QuarantineOnTamper,
    CommandFloodThreshold,
    Window,                                 \* the rate's minute and the flood's window
    AuditCanFail,                           \* whether writing the audit file may fail
    StackLimit,                             \* how deep calls may nest
    MaxTime, MaxCalls

VARIABLES
    idem, hits,                             \* Registry: the keys with a result, times of the calls
    quarantined, lock, lastAuto, floodHits, \* Runtime and its lockdown
    ops,                                    \* Store.ops: operation ids the audit has seen
    now, calls, call,                       \* caller -> the steps it has to do
    ran, ended, recorded, denials, broken, admitted     \* history

vars == <<idem, hits, quarantined, lock, lastAuto, floodHits, ops, now, calls, call,
          ran, ended, recorded, denials, broken, admitted>>

Idle == [todo |-> <<>>]
control == <<quarantined, lock, lastAuto, floodHits>>
history == <<ran, ended, recorded, denials, broken, admitted>>

Init ==
    /\ idem = {} /\ hits = <<>> /\ quarantined = FALSE /\ lock = FALSE /\ lastAuto = FALSE
    /\ floodHits = <<>> /\ ops = {} /\ now = 0 /\ calls = 0 /\ call = [c \in Callers |-> Idle]
    /\ ran = [k \in Keys |-> 0] /\ ended = 0 /\ recorded = 0 /\ denials = <<>>
    /\ broken = FALSE /\ admitted = <<>>

Fresh(times) == SelectSeq(times, LAMBDA t : t > now - Window)

\* Call c goes on with the steps todo; the last one ends it.
GoOn(c, todo) ==
    call' = [call EXCEPT ![c] = IF todo = <<>> THEN Idle ELSE [@ EXCEPT !.todo = todo]]

At(c, step) == call[c].todo # <<>> /\ Head(call[c].todo) = step

Denied(k, out) == [todo |-> <<"audit">>, key |-> k, out |-> out, depth |-> 0]

-----------------------------------------------------------------------------

\* Faulty: the call is not counted.
InvokeUncounted(c, k, large) ==
    /\ call[c] = Idle /\ calls < MaxCalls /\ calls' = calls + 1
    /\ IF k \in idem THEN UNCHANGED <<hits, call, admitted>>
       ELSE IF large THEN call' = [call EXCEPT ![c] = Denied(k, "too_large")] /\ UNCHANGED <<hits, admitted>>
       ELSE /\ hits' = Fresh(hits)
            /\ admitted' = Append(admitted, now)
            /\ call' = [call EXCEPT ![c] = [Denied(k, "none") EXCEPT !.todo = <<"auth">>]]
    /\ UNCHANGED <<idem, control, ops, now, ran, ended, recorded, denials, broken>>

\* Invoke under the registry's lock: a stored result, a body too large, the
\* rate limit, or on to the authorisation.
Invoke(c, k, large) ==
    /\ call[c] = Idle /\ calls < MaxCalls /\ calls' = calls + 1
    /\ IF k \in idem THEN UNCHANGED <<hits, call, admitted>>
       ELSE IF large THEN call' = [call EXCEPT ![c] = Denied(k, "too_large")] /\ UNCHANGED <<hits, admitted>>
       ELSE IF Len(Fresh(hits)) >= RateLimitPerMin
       THEN /\ hits' = Fresh(hits)
            /\ call' = [call EXCEPT ![c] = Denied(k, "rate_limited")] /\ UNCHANGED admitted
       ELSE /\ hits' = Append(Fresh(hits), now)
            /\ admitted' = Append(admitted, now)
            /\ call' = [call EXCEPT ![c] = [Denied(k, "none") EXCEPT !.todo = <<"auth">>]]
    /\ UNCHANGED <<idem, control, ops, now, ran, ended, recorded, denials, broken>>

\* Faulty: the flood is one denial late.
FloodedLate(n) == n > CommandFloodThreshold

Flooded(n) == n >= CommandFloodThreshold

\* auditAction: on an error, fail-closed settings quarantine the runtime before
\* the call goes on with rest.
Audited(error, rest) ==
    IF error /\ AuditFailClosed /\ QuarantineOnTamper THEN <<"quarantine">> \o rest ELSE rest

Failures == IF AuditCanFail THEN BOOLEAN ELSE {FALSE}

\* noteUnauthorized, the automatic lockdown, which passes once in the time
\* modelled, and its audit record; call c goes on with rest.
noteUnauthorized(c, rest) ==
    LET seen == Append(Fresh(floodHits), now)
        flooded == Flooded(Len(seen))
        enter == flooded /\ ~lock /\ ~lastAuto IN
    /\ floodHits' = seen
    /\ lock' = (lock \/ enter) /\ lastAuto' = (lastAuto \/ enter)
    /\ \E fails \in IF flooded THEN Failures ELSE {FALSE} :
          GoOn(c, Audited(fails, rest)) /\ broken' = (broken \/ fails)

\* AuthorizeCommand: the gate and the guard.
Authorize(c, ok) ==
    /\ At(c, "auth")
    /\ IF ok /\ ~quarantined /\ ~lock
       THEN GoOn(c, <<"run">>) /\ UNCHANGED <<lock, lastAuto, floodHits, denials, broken>>
       ELSE denials' = Append(denials, now) /\ noteUnauthorized(c, <<"denied">>)
    /\ UNCHANGED <<idem, hits, quarantined, ops, now, calls, ran, ended, recorded, admitted>>

\* The handler returns or panics; a denied call has no handler.
Handle(c, out) ==
    /\ IF out = "unauthorized" THEN At(c, "denied") ELSE At(c, "run")
    /\ call' = [call EXCEPT ![c].todo = <<"audit">>, ![c].out = out]
    /\ ran' = IF out = "ok" THEN [ran EXCEPT ![call[c].key] = @ + 1] ELSE ran
    /\ UNCHANGED <<idem, hits, control, ops, now, calls, ended, recorded, denials, broken, admitted>>

\* What a call does behind its audit.
Behind(c) ==
    CASE call[c].out = "ok" -> <<"store">>
      [] call[c].out = "unauthorized" -> <<"note">>
      [] OTHER -> <<>>

\* AuditCommand hands the outcome to the store as the operation id, which is
\* refused the second time; a failing file is an error too, with the record
\* kept in memory.
Audit(c) ==
    /\ At(c, "audit")
    /\ LET duplicate == call[c].out \in ops IN
       \E fails \in IF duplicate THEN {FALSE} ELSE Failures :
          /\ ops' = ops \cup {call[c].out}
          /\ recorded' = IF duplicate THEN recorded ELSE recorded + 1
          /\ broken' = (broken \/ fails)
          /\ GoOn(c, Audited(duplicate \/ fails, Behind(c)))
    /\ ended' = ended + 1
    /\ UNCHANGED <<idem, hits, control, now, calls, ran, denials, admitted>>

\* AuditCommand counts the denial once more.
Note(c) ==
    /\ At(c, "note")
    /\ noteUnauthorized(c, <<>>)
    /\ UNCHANGED <<idem, hits, quarantined, ops, now, calls, ran, ended, recorded, denials, admitted>>

\* EnterQuarantine audits itself, and an error of that audit enters it again.
EnterQuarantine(c) ==
    /\ At(c, "quarantine") /\ call[c].depth < StackLimit
    /\ quarantined' = TRUE
    /\ \E fails \in Failures :
          /\ broken' = (broken \/ fails)
          /\ IF fails THEN call' = [call EXCEPT ![c].depth = @ + 1]
             ELSE LET rest == Tail(call[c].todo) IN
                  call' = [call EXCEPT ![c] = IF rest = <<>> THEN Idle ELSE [@ EXCEPT !.todo = rest, !.depth = 0]]
    /\ UNCHANGED <<idem, hits, lock, lastAuto, floodHits, ops, now, calls, ran, ended, recorded, denials, admitted>>

\* Faulty: a full table takes one more.
StoreUnbounded(c) ==
    /\ At(c, "store")
    /\ idem' = idem \cup {call[c].key}
    /\ GoOn(c, <<>>)
    /\ UNCHANGED <<hits, control, ops, now, calls, history>>

\* A good result is stored; a full table first loses half of its results.
Store(c) ==
    /\ At(c, "store")
    /\ \E kept \in SUBSET idem :
          /\ IF Cardinality(idem) >= idemMax
             THEN Cardinality(idem \ kept) = IF idemMax \div 2 = 0 THEN 1 ELSE idemMax \div 2
             ELSE kept = idem
          /\ idem' = kept \cup {call[c].key}
    /\ GoOn(c, <<>>)
    /\ UNCHANGED <<hits, control, ops, now, calls, history>>

Tick ==
    /\ now < MaxTime
    /\ now' = now + 1
    /\ UNCHANGED <<idem, hits, control, ops, calls, call, history>>

\* An operator lifts the lockdown.
Unlock ==
    /\ lock
    /\ lock' = FALSE
    /\ UNCHANGED <<idem, hits, quarantined, lastAuto, floodHits, ops, now, calls, call, history>>

Next ==
    \/ Tick \/ Unlock
    \/ \E c \in Callers :
          \/ \E k \in Keys, large \in BOOLEAN : Invoke(c, k, large)
          \/ \E ok \in BOOLEAN : Authorize(c, ok)
          \/ \E out \in {"ok", "error", "panic", "unauthorized"} : Handle(c, out)
          \/ Audit(c) \/ Note(c) \/ EnterQuarantine(c) \/ Store(c)

Spec == Init /\ [][Next]_vars

-----------------------------------------------------------------------------

\* No more calls than the rate allows are let through to the authorisation in
\* one window.
RateHolds == Len(Fresh(admitted)) <= RateLimitPerMin

\* The table is bounded and holds only keys whose handler has succeeded.
TableSound == Cardinality(idem) <= idemMax /\ \A k \in idem : ran[k] > 0

\* A window with the threshold's number of denied commands has entered
\* lockdown.
FloodLocksDown == Len(Fresh(denials)) >= CommandFloodThreshold => lastAuto

\* A key's handler succeeds once.
\* The code does not keep this (README, Disagreements).
IdempotentOnce == \A k \in Keys : ran[k] <= 1

\* Every command that ended has its audit record.
\* The code does not keep this (README, Disagreements).
CommandsRecorded == recorded = ended

\* The runtime is quarantined only once writing the audit has failed.
\* The code does not keep this (README, Disagreements).
QuarantineHasCause == quarantined => broken

\* Lockdown is entered automatically only behind a threshold of denied commands.
\* The code does not keep this (README, Disagreements).
FloodCountsDenials == lastAuto => Len(denials) >= CommandFloodThreshold

\* EnterQuarantine returns: it does not nest to the end of the stack.
\* The code does not keep this (README, Disagreements).
QuarantineReturns == \A c \in Callers : At(c, "quarantine") => call[c].depth < StackLimit
=============================================================================
