----------------------------- MODULE Maintenance -----------------------------
(***************************************************************************)
(* control/maintenance: a window with a duration, kept in a file across    *)
(* restarts.  A window is [id, until]; id 0 is none.                       *)
(***************************************************************************)
EXTENDS Integers

CONSTANTS
    Durations, MaxDuration,
    MaxTime, MaxID, MaxRestarts

VARIABLES
    state, file,
    up,                 \* whether New has succeeded
    now, ids, restarts,
    acked, limit        \* history: the window whose Enter returned, and its longest end

vars == <<state, file, up, now, ids, restarts, acked, limit>>

None == [id |-> 0, until |-> 0]
Torn == [id |-> -1, until |-> 0]

Init ==
    /\ state = None /\ file = None /\ up = TRUE /\ now = 0 /\ ids = 0 /\ restarts = 0
    /\ acked = 0 /\ limit = 0

\* persistLocked over a file f: a write that fails may have done nothing or
\* have cut the file.
Persisted(f, s) ==
    {[file |-> s, ok |-> TRUE], [file |-> f, ok |-> FALSE], [file |-> Torn, ok |-> FALSE]}

\* Whether window s is over.
Over(s) == s.id > 0 /\ now > s.until

\* expireLocked, which every operation begins with, for window s and file f:
\* what it may leave.  The error of its write is ignored.
expireLocked(s, f) ==
    IF Over(s) THEN {[state |-> None, file |-> p.file] : p \in Persisted(f, None)}
    ELSE {[state |-> s, file |-> f]}

AtMost(d, bound) == IF d > bound THEN bound ELSE d

-----------------------------------------------------------------------------

\* The default of an hour is one tick.
Length(d) == AtMost(IF d <= 0 THEN 1 ELSE d, MaxDuration)

\* Active, State, and an Enter or Exit that is refused.
Observe ==
    /\ up /\ Over(state)
    /\ \E e \in expireLocked(state, file) : state' = e.state /\ file' = e.file
    /\ acked' = 0
    /\ UNCHANGED <<up, now, ids, restarts, limit>>

Enter(d) ==
    /\ up /\ ids < MaxID
    /\ ids' = ids + 1
    /\ \E e \in expireLocked(state, file) :
          LET w == [id |-> ids', until |-> now + Length(d)] IN
          /\ e.state = None
          /\ \E p \in Persisted(e.file, w) :
                /\ file' = p.file
                /\ state' = IF p.ok THEN w ELSE None
                /\ acked' = IF p.ok THEN ids' ELSE 0
    /\ limit' = now + MaxDuration
    /\ UNCHANGED <<up, now, restarts>>

\* Faulty: the window is over in memory only.
ExitMemoryOnly ==
    /\ up /\ state.id > 0 /\ ~Over(state)
    /\ state' = None /\ acked' = 0
    /\ UNCHANGED <<file, up, now, ids, restarts, limit>>

\* Exit of a window in force, which stays in force if that cannot be written.
Exit ==
    /\ up /\ state.id > 0 /\ ~Over(state)
    /\ \E p \in Persisted(file, None) :
          /\ file' = p.file
          /\ state' = IF p.ok THEN None ELSE state
          /\ acked' = IF p.ok THEN 0 ELSE acked
    /\ UNCHANGED <<up, now, ids, restarts, limit>>

\* A new process loads the file, and does not start if it cannot read it.
Restart ==
    /\ restarts < MaxRestarts
    /\ restarts' = restarts + 1
    /\ up' = (file # Torn)
    /\ IF file = Torn THEN state' = None /\ UNCHANGED <<file, acked>>
       ELSE /\ \E e \in expireLocked(file, file) : state' = e.state /\ file' = e.file
            /\ acked' = IF Over(file) THEN 0 ELSE acked
    /\ UNCHANGED <<now, ids, limit>>

Tick ==
    /\ now < MaxTime
    /\ now' = now + 1
    /\ UNCHANGED <<state, file, up, ids, restarts, acked, limit>>

Next == Observe \/ Exit \/ Restart \/ Tick \/ \E d \in Durations : Enter(d)

Spec == Init /\ [][Next]_vars

-----------------------------------------------------------------------------

\* Active, as it reports: a window that is over does not count.
Active == state.id > 0 /\ ~Over(state)

\* The window in force is the one whose Enter returned and whose Exit did not,
\* through failing writes, expiry and restarts.
ActiveIsAcknowledged == up /\ Active => state.id = acked

\* No window outlasts the longest duration, restarts included.
Bounded == Active => now <= limit
=============================================================================
