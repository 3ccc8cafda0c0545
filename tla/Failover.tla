------------------------------ MODULE Failover ------------------------------
(***************************************************************************)
(* failover.Manager: one group, concurrent calls of ExecuteFailover and    *)
(* ExecuteFailback.  The active resource is switched first; the epoch of   *)
(* the resource is advanced in the registry without the manager's lock,    *)
(* and the switch is taken back if that fails.                             *)
(***************************************************************************)
EXTENDS Integers, Sequences, FiniteSets

CONSTANTS
    Callers,
    Primary,
    Standbys,       \* Group.Standbys, a sequence
    Policy,         \* "manual" or "health-based"
    MaxEpoch,       \* bound on the epochs
    MaxHistory      \* Manager.maxHistory

VARIABLES
    active, groupEpoch,     \* Group.Active, Group.Epoch
    log,                    \* Manager.log
    call,                   \* caller -> its failover or failback
    epoch,                  \* the registry: resource -> epoch
    lockdown,               \* the registry refuses to advance
    healthy                 \* the resources that are healthy or degraded

vars == <<active, groupEpoch, log, call, epoch, lockdown, healthy>>

StandbySet == {Standbys[i] : i \in DOMAIN Standbys}
Resources == {Primary} \cup StandbySet
Idle == [pc |-> "idle"]

TypeOK ==
    /\ active \in Resources /\ groupEpoch \in 0..MaxEpoch
    /\ epoch \in [Resources -> 0..MaxEpoch] /\ healthy \subseteq Resources
    /\ Len(log) <= MaxHistory
    /\ \A c \in Callers : call[c].pc \in {"idle", "advised", "advance", "commit", "rollback"}

Init ==
    /\ active = Primary /\ groupEpoch = 0 /\ log = <<>>
    /\ call = [c \in Callers |-> Idle] /\ epoch = [r \in Resources |-> 0]
    /\ lockdown = FALSE /\ healthy = Resources

-----------------------------------------------------------------------------

Usable == {i \in DOMAIN Standbys : Standbys[i] \in healthy}

\* The first healthy standby, or the first one at all.
pickStandby ==
    Standbys[IF Usable = {} THEN 1 ELSE CHOOSE i \in Usable : \A j \in Usable : i <= j]

\* The active resource is switched, then the epoch is to be advanced.
Switch(c, to) ==
    /\ active' = to
    /\ call' = [call EXCEPT ![c] = [pc |-> "advance", from |-> active, to |-> to]]
    /\ UNCHANGED <<groupEpoch, log, epoch, lockdown, healthy>>

\* With a target of the operator's choice, or picked by health.
ExecuteFailover(c) ==
    /\ call[c].pc = "idle"
    /\ \E to \in StandbySet :
          /\ Policy = "manual" \/ to = pickStandby
          /\ Switch(c, to)

\* EvaluateHealth recommends a standby while the active one is unhealthy; the
\* caller may then fail over to it.
EvaluateHealth(c) ==
    /\ call[c].pc = "idle" /\ Policy = "health-based"
    /\ active \notin healthy /\ Usable # {}
    /\ call' = [call EXCEPT ![c] = [pc |-> "advised", to |-> pickStandby]]
    /\ UNCHANGED <<active, groupEpoch, log, epoch, lockdown, healthy>>

FollowAdvice(c) == call[c].pc = "advised" /\ Switch(c, call[c].to)

ExecuteFailback(c) == call[c].pc = "idle" /\ active # Primary /\ Switch(c, Primary)

\* Faulty: the epoch stays as it is.
AdvanceNothing(c) ==
    /\ call[c].pc = "advance"
    /\ call' = [call EXCEPT ![c] = [pc |-> "commit", to |-> call[c].to, epoch |-> epoch[call[c].to]]]
    /\ UNCHANGED <<active, groupEpoch, log, epoch, lockdown, healthy>>

\* Registry.Advance.
Advance(c) ==
    /\ call[c].pc = "advance" /\ epoch[call[c].to] < MaxEpoch
    /\ LET to == call[c].to IN
       IF lockdown
       THEN call' = [call EXCEPT ![c].pc = "rollback"] /\ UNCHANGED epoch
       ELSE /\ epoch' = [epoch EXCEPT ![to] = @ + 1]
            /\ call' = [call EXCEPT ![c] = [pc |-> "commit", to |-> to, epoch |-> epoch'[to]]]
    /\ UNCHANGED <<active, groupEpoch, log, lockdown, healthy>>

\* Faulty: the active resource is left as it was switched.
RollbackNothing(c) ==
    /\ call[c].pc = "rollback"
    /\ call' = [call EXCEPT ![c] = Idle]
    /\ UNCHANGED <<active, groupEpoch, log, epoch, lockdown, healthy>>

Rollback(c) ==
    /\ call[c].pc = "rollback"
    /\ active' = call[c].from
    /\ call' = [call EXCEPT ![c] = Idle]
    /\ UNCHANGED <<groupEpoch, log, epoch, lockdown, healthy>>

appendLog(l, d) ==
    LET all == Append(l, d) IN
    IF Len(all) > MaxHistory THEN SubSeq(all, Len(all) - MaxHistory + 1, Len(all)) ELSE all

Commit(c) ==
    /\ call[c].pc = "commit"
    /\ groupEpoch' = call[c].epoch
    /\ log' = appendLog(log, [to |-> call[c].to, epoch |-> call[c].epoch])
    /\ call' = [call EXCEPT ![c] = Idle]
    /\ UNCHANGED <<active, epoch, lockdown, healthy>>

SetLockdown == lockdown' = ~lockdown /\ UNCHANGED <<active, groupEpoch, log, call, epoch, healthy>>

\* Health is looked at under the health-based policy only.
SetHealth(r) ==
    /\ Policy = "health-based"
    /\ healthy' = IF r \in healthy THEN healthy \ {r} ELSE healthy \cup {r}
    /\ UNCHANGED <<active, groupEpoch, log, call, epoch, lockdown>>

Next ==
    \/ \E c \in Callers :
          \/ ExecuteFailover(c) \/ EvaluateHealth(c) \/ FollowAdvice(c) \/ ExecuteFailback(c)
          \/ Advance(c) \/ Rollback(c) \/ Commit(c)
    \/ SetLockdown
    \/ \E r \in Resources : SetHealth(r)

Spec == Init /\ [][Next]_vars

-----------------------------------------------------------------------------

Quiet == \A c \in Callers : call[c].pc \in {"idle", "advised"}

\* No two decisions ever put the same resource to work under the same
\* epoch: callers of an earlier one can be told apart.
DecisionsFenced ==
    \A i, j \in DOMAIN log : i # j => log[i] # log[j]

\* While no call is under way, the active resource is the one of the last
\* decision, and the group's epoch is the one it was given.
DecisionHolds ==
    Quiet => IF log = <<>> THEN active = Primary
             ELSE [to |-> active, epoch |-> groupEpoch] = log[Len(log)]

\* A decision that was returned is in force until another one is made or
\* begun, whatever becomes of the calls beside it.
\* The code does not keep this (README, Disagreements).
PromotionSurvives == Quiet /\ log # <<>> => \E i \in DOMAIN log : log[i].to = active
=============================================================================
