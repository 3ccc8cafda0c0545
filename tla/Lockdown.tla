------------------------------ MODULE Lockdown ------------------------------
(***************************************************************************)
(* control/lockdown: entering and leaving lockdown with a state file and   *)
(* an evidence file, automatic triggers, operators who unlock what they    *)
(* saw, failing writes and restarts.                                       *)
(***************************************************************************)
EXTENDS Integers

CONSTANTS
    Operators, Triggers,
    MaxID,          \* bound on the lockdowns
    MaxTime, AutoEvery,
    CanTear,        \* whether a failing write may cut the state file or lose evidence
    MaxRestarts

VARIABLES
    state,          \* Manager.state: id 0 when not active
    file,           \* the state file: an id, or Torn
    evidence, evFile,   \* the entries in memory and in the evidence file
    lastAuto, now,
    expected,       \* operator -> the id it saw
    auto,           \* trigger -> whether it is between TryAutoEnter's check and Enter
    ids, restarts,
    acked           \* history: the lockdown whose Enter returned, until an Unlock did

vars == <<state, file, evidence, evFile, lastAuto, now, expected, auto, ids, restarts, acked>>

Torn == -1
Never == 0 - AutoEvery

Init ==
    /\ state = 0 /\ file = 0 /\ evidence = {} /\ evFile = {}
    /\ lastAuto = Never /\ now = 0
    /\ expected = [o \in Operators |-> 0] /\ auto = [t \in Triggers |-> FALSE]
    /\ ids = 0 /\ restarts = 0 /\ acked = 0

-----------------------------------------------------------------------------

\* persistLocked writes the state over the file: what it leaves, and whether it
\* reports an error.
Persisted(s) ==
    {[file |-> s, ok |-> TRUE], [file |-> file, ok |-> FALSE]}
        \cup IF CanTear THEN {[file |-> Torn, ok |-> FALSE]} ELSE {}

\* Evidence goes to memory and, if that succeeds, to its file.
appendEvidenceLocked(e) ==
    /\ evidence' = evidence \cup {e}
    /\ evFile' \in {evFile \cup {e}} \cup IF CanTear THEN {evFile} ELSE {}

\* Faulty: the entry is written once the state is persisted.
ActivateThenRecord ==
    /\ state = 0 /\ ids < MaxID
    /\ ids' = ids + 1 /\ state' = ids'
    /\ \E p \in Persisted(ids') :
          /\ file' = p.file /\ acked' = IF p.ok THEN ids' ELSE acked
          /\ IF p.ok THEN appendEvidenceLocked(<<"enter", ids'>>) ELSE UNCHANGED <<evidence, evFile>>

\* Enter, whose lockdown stays active in memory when it cannot be persisted.
Activate ==
    /\ state = 0 /\ ids < MaxID
    /\ ids' = ids + 1 /\ state' = ids'
    /\ appendEvidenceLocked(<<"enter", ids'>>)
    /\ \E p \in Persisted(ids') : file' = p.file /\ acked' = IF p.ok THEN ids' ELSE acked

Enter ==
    /\ Activate
    /\ UNCHANGED <<lastAuto, now, expected, auto, restarts>>

\* Faulty: the time of the trigger is not noted.
TryAutoUnlimited(t) ==
    /\ ~auto[t] /\ state = 0 /\ now - lastAuto >= AutoEvery
    /\ auto' = [auto EXCEPT ![t] = TRUE]
    /\ UNCHANGED <<state, file, evidence, evFile, lastAuto, now, expected, ids, restarts, acked>>

\* TryAutoEnter up to its unlock ...
TryAutoEnter(t) ==
    /\ ~auto[t] /\ state = 0 /\ now - lastAuto >= AutoEvery
    /\ lastAuto' = now /\ auto' = [auto EXCEPT ![t] = TRUE]
    /\ UNCHANGED <<state, file, evidence, evFile, now, expected, ids, restarts, acked>>

\* ... and its Enter, which somebody else's may have overtaken.
AutoEnter(t) ==
    /\ auto[t]
    /\ auto' = [auto EXCEPT ![t] = FALSE]
    /\ IF state # 0 THEN UNCHANGED <<state, file, evidence, evFile, ids, acked>> ELSE Activate
    /\ UNCHANGED <<lastAuto, now, expected, restarts>>

Look(o) ==
    /\ expected[o] # state
    /\ expected' = [expected EXCEPT ![o] = state]
    /\ UNCHANGED <<state, file, evidence, evFile, lastAuto, now, auto, ids, restarts, acked>>

\* Faulty: the lockdown is over although that could not be persisted.
UnlockNoRollback(o) ==
    /\ state # 0 /\ expected[o] = state
    /\ appendEvidenceLocked(<<"unlock", state>>)
    /\ \E p \in Persisted(0) :
          /\ file' = p.file /\ state' = 0
          /\ acked' = IF p.ok THEN 0 ELSE acked
    /\ UNCHANGED <<lastAuto, now, expected, auto, ids, restarts>>

\* Faulty: the expected id is not compared.
UnlockAny(o) ==
    /\ state # 0 /\ expected[o] # 0
    /\ appendEvidenceLocked(<<"unlock", state>>)
    /\ \E p \in Persisted(0) :
          /\ file' = p.file /\ state' = IF p.ok THEN 0 ELSE state
          /\ acked' = IF p.ok THEN 0 ELSE acked
    /\ UNCHANGED <<lastAuto, now, expected, auto, ids, restarts>>

\* Unlock with the confirmation, the strong authorisation and the id seen; any
\* other request changes nothing.
Unlock(o) ==
    /\ state # 0 /\ expected[o] = state
    /\ appendEvidenceLocked(<<"unlock", state>>)
    /\ \E p \in Persisted(0) :
          /\ file' = p.file /\ state' = IF p.ok THEN 0 ELSE state
          /\ acked' = IF p.ok THEN 0 ELSE acked
    /\ UNCHANGED <<lastAuto, now, expected, auto, ids, restarts>>

\* A new process loads the files; a file it cannot read counts for nothing.
Restart ==
    /\ restarts < MaxRestarts
    /\ restarts' = restarts + 1
    /\ state' = IF file = Torn THEN 0 ELSE file
    /\ evidence' = evFile /\ lastAuto' = Never
    /\ expected' = [o \in Operators |-> 0] /\ auto' = [t \in Triggers |-> FALSE]
    /\ UNCHANGED <<file, evFile, now, ids, acked>>

Tick ==
    /\ now < MaxTime
    /\ now' = now + 1
    /\ UNCHANGED <<state, file, evidence, evFile, lastAuto, expected, auto, ids, restarts, acked>>

Next ==
    \/ Enter \/ Restart \/ Tick
    \/ \E t \in Triggers : TryAutoEnter(t) \/ AutoEnter(t)
    \/ \E o \in Operators : Look(o) \/ Unlock(o)

Spec == Init /\ [][Next]_vars

-----------------------------------------------------------------------------

\* A lockdown whose Enter has returned holds until an Unlock has returned,
\* through failing writes, other triggers and restarts.
AcknowledgedHolds == acked # 0 => state = acked

\* An operator ends the lockdown they looked at, never one entered since.
UnlockOpensSeen ==
    state # 0 /\ state' = 0 /\ restarts' = restarts => \E o \in Operators : expected[o] = state

\* Within AutoEvery of each other at most one trigger passes the rate limit.
OneTriggerAtATime ==
    MaxTime < AutoEvery => \A t, u \in Triggers : auto[t] /\ auto[u] => t = u

\* Every lockdown in force has its entry in the evidence, also when it could
\* not be persisted and behind a restart.
EveryLockdownRecorded == state # 0 => <<"enter", state>> \in evidence
=============================================================================
