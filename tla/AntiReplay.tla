----------------------------- MODULE AntiReplay -----------------------------
(***************************************************************************)
(* security/antireplay: a bounded cache of request ids with an expiry and  *)
(* a security epoch.  A caller reads the clock before it has the lock.     *)
(***************************************************************************)
EXTENDS Integers, FiniteSets

CONSTANTS
    Callers, IDs,
    TTL, max,
    MaxTime, MaxEpoch

VARIABLES
    entries,        \* id -> [expires, epoch] for the ids stored
    epoch, now,
    call,           \* caller -> the id it checks and the time it read
    accepted        \* history: [id, epoch, read, at] of what was accepted

vars == <<entries, epoch, now, call, accepted>>

Idle == [id |-> "none"]

Init ==
    /\ entries = [i \in {} |-> [expires |-> 0, epoch |-> 0]] /\ epoch = 0 /\ now = 0
    /\ call = [c \in Callers |-> Idle] /\ accepted = {}

\* The entries left behind a purge at time t.
purgeLocked(t) ==
    [i \in {j \in DOMAIN entries : t <= entries[j].expires /\ entries[j].epoch = epoch} |-> entries[i]]

-----------------------------------------------------------------------------

\* CheckAndStore reads the clock ...
Check(c, i) ==
    /\ call[c] = Idle
    /\ call' = [call EXCEPT ![c] = [id |-> i, read |-> now]]
    /\ UNCHANGED <<entries, epoch, now, accepted>>

\* Faulty: a full cache drops an entry.
StoreEvicting(c) ==
    /\ call[c] # Idle
    /\ call' = [call EXCEPT ![c] = Idle]
    /\ LET live == purgeLocked(call[c].read) i == call[c].id IN
       IF i \in DOMAIN live THEN entries' = live /\ UNCHANGED accepted
       ELSE \E gone \in IF Cardinality(DOMAIN live) >= max THEN {{j} : j \in DOMAIN live} ELSE {{}} :
            /\ entries' = [j \in (DOMAIN live \ gone) \cup {i} |->
                              IF j = i THEN [expires |-> call[c].read + TTL, epoch |-> epoch] ELSE live[j]]
            /\ accepted' = accepted \cup {[id |-> i, epoch |-> epoch, read |-> call[c].read, at |-> now]}
    /\ UNCHANGED <<epoch, now>>

\* Whether n entries are all the cache takes.
Full(n) == n >= max

\* ... and with the lock purges, refuses an id it has and a full cache, or
\* stores the id.
Store(c) ==
    /\ call[c] # Idle
    /\ call' = [call EXCEPT ![c] = Idle]
    /\ LET live == purgeLocked(call[c].read) i == call[c].id IN
       IF i \in DOMAIN live \/ Full(Cardinality(DOMAIN live)) THEN entries' = live /\ UNCHANGED accepted
       ELSE /\ entries' = [j \in DOMAIN live \cup {i} |->
                              IF j = i THEN [expires |-> call[c].read + TTL, epoch |-> epoch] ELSE live[j]]
            /\ accepted' = accepted \cup {[id |-> i, epoch |-> epoch, read |-> call[c].read, at |-> now]}
    /\ UNCHANGED <<epoch, now>>

\* Seen and Len purge at the time they read with the lock.
Look ==
    /\ purgeLocked(now) # entries
    /\ entries' = purgeLocked(now)
    /\ UNCHANGED <<epoch, now, call, accepted>>

\* AdvanceEpoch, and SetEpoch, which refuses an older epoch.
SetEpoch(e) ==
    /\ e > epoch
    /\ epoch' = e
    /\ entries' = [i \in {} |-> [expires |-> 0, epoch |-> 0]]
    /\ UNCHANGED <<now, call, accepted>>

Tick ==
    /\ now < MaxTime
    /\ now' = now + 1
    /\ UNCHANGED <<entries, epoch, call, accepted>>

Next ==
    \/ \E c \in Callers : Store(c) \/ \E i \in IDs : Check(c, i)
    \/ \E e \in 0..MaxEpoch : SetEpoch(e)
    \/ Look \/ Tick

Spec == Init /\ [][Next]_vars

-----------------------------------------------------------------------------

\* An id accepted once is accepted again in its epoch only once the time its
\* caller read has run out, however late the other caller comes to the lock
\* with the time it read.
NoReplay ==
    \A a, b \in accepted :
        a # b /\ a.id = b.id /\ a.epoch = b.epoch => a.at > b.read + TTL \/ b.at > a.read + TTL

\* The cache stays within its bound.
Bounded == Cardinality(DOMAIN entries) <= max
=============================================================================
