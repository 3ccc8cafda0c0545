--------------------------- MODULE ResourceLeases ---------------------------
(***************************************************************************)
(* resource.LeaseManager: callers lease several resources at once, in the  *)
(* order of their identifiers and one critical section at a time, and give *)
(* back what they got when one is refused.  Leases may run out.            *)
(***************************************************************************)
EXTENDS Integers, Sequences, SequencesExt

CONSTANTS
    Callers,
    Owner,          \* caller -> LeaseRequest.Owner
    Resources,      \* numbers in the order of their identifiers
    Fenced,         \* the resources that support fencing
    Modes,          \* the modes asked for
    Fences,         \* the fencing tokens presented
    MaxGrants       \* bound on the leases granted

VARIABLES
    held,       \* LeaseManager.held: resource -> leases
    fence,      \* LeaseManager.fence
    call,       \* caller -> its AcquireAll, its handle or its release
    lockdown,
    lapsed,     \* the leases that have run out
    grants,     \* number of leases granted
    top         \* history: highest token of a lease granted on a resource

vars == <<held, fence, call, lockdown, lapsed, grants, top>>

Idle == [pc |-> "idle"]
Exclusive(mode) == mode \notin {"shared", "read-only"}
modesCompatible(a, b) == ~Exclusive(a) /\ ~Exclusive(b)
Ids(list) == {list[i].id : i \in DOMAIN list}

TypeOK ==
    /\ \A r \in Resources : \A i \in DOMAIN held[r] : held[r][i].id \in 1..grants
    /\ fence \in [Resources -> Fences \cup {0}]
    /\ \A r \in Resources \ Fenced : fence[r] = 0
    /\ \A c \in Callers : call[c].pc \in {"idle", "lease", "holding", "release"}

Init ==
    /\ held = [r \in Resources |-> <<>>] /\ fence = [r \in Resources |-> 0]
    /\ call = [c \in Callers |-> Idle] /\ lockdown = FALSE
    /\ lapsed = {} /\ grants = 0 /\ top = [r \in Resources |-> 0]

-----------------------------------------------------------------------------

\* A call of AcquireAll; Lease is one for a single resource.
AcquireAll(c) ==
    /\ call[c].pc = "idle"
    /\ \E rs \in SUBSET Resources, mode \in Modes, f \in Fences :
          /\ rs # {}
          /\ call' = [call EXCEPT ![c] =
                [pc |-> "lease", mode |-> mode, fence |-> f, got |-> <<>>,
                 todo |-> SetToSortSeq(rs, <)]]
    /\ UNCHANGED <<held, fence, lockdown, lapsed, grants, top>>

NeedsFence(r, mode) == r \in Fenced /\ Exclusive(mode)

expireLocked(list) == SelectSeq(list, LAMBDA l : l.id \notin lapsed)

\* Faulty: a shared lease is granted beside an exclusive one.
compatibleAll(list, mode) == \A i \in DOMAIN list : Exclusive(list[i].mode) => ~Exclusive(mode)

compatibleLocked(list, mode) == \A i \in DOMAIN list : modesCompatible(list[i].mode, mode)

\* Faulty: a shared lease does not move the token.
FenceExclusiveOnly(r, req) ==
    IF NeedsFence(r, req.mode) /\ req.fence > fence[r] THEN req.fence ELSE fence[r]

FenceAfter(r, req) ==
    IF r \in Fenced /\ req.fence > fence[r] THEN req.fence ELSE fence[r]

Grantable(r, req, list) ==
    /\ ~lockdown /\ compatibleLocked(list, req.mode)
    /\ NeedsFence(r, req.mode) => req.fence # 0 /\ req.fence >= fence[r]

Released(req) == IF req.got = <<>> THEN Idle ELSE [req EXCEPT !.pc = "release"]

\* The next resource is leased, or the call fails there.
Lease(c) ==
    /\ call[c].pc = "lease" /\ grants < MaxGrants
    /\ LET req == call[c]
           r == Head(req.todo)
           list == IF lockdown THEN held[r] ELSE expireLocked(held[r])
           new == [id |-> grants + 1, res |-> r, owner |-> Owner[c], mode |-> req.mode]
           got == Append(req.got, new)
           rest == Tail(req.todo)
       IN  IF Grantable(r, req, list)
           THEN /\ held' = [held EXCEPT ![r] = Append(list, new)]
                /\ fence' = [fence EXCEPT ![r] = FenceAfter(r, req)]
                /\ top' = [top EXCEPT ![r] = IF r \in Fenced /\ req.fence > @ THEN req.fence ELSE @]
                /\ call' = [call EXCEPT ![c] = [req EXCEPT
                      !.got = got, !.todo = rest, !.pc = IF rest = <<>> THEN "holding" ELSE "lease"]]
                /\ grants' = grants + 1
           ELSE /\ held' = [held EXCEPT ![r] = list]
                /\ call' = [call EXCEPT ![c] = Released(req)]
                /\ UNCHANGED <<fence, top, grants>>
    /\ UNCHANGED <<lockdown, lapsed>>

\* The context ends between two resources.
ContextDone(c) ==
    /\ call[c].pc = "lease"
    /\ call' = [call EXCEPT ![c] = Released(call[c])]
    /\ UNCHANGED <<held, fence, lockdown, lapsed, grants, top>>

ReleaseHandle(c) ==
    /\ call[c].pc = "holding"
    /\ call' = [call EXCEPT ![c].pc = "release"]
    /\ UNCHANGED <<held, fence, lockdown, lapsed, grants, top>>

\* Faulty: the owner is not looked at.
DroppedAny(list, l) ==
    LET same == {i \in DOMAIN list : list[i].mode = l.mode} IN
    IF same = {} THEN list ELSE RemoveAt(list, Min(same))

\* Release drops the first lease with this owner and mode.
Dropped(list, l) ==
    LET same == {i \in DOMAIN list : list[i].owner = l.owner /\ list[i].mode = l.mode} IN
    IF same = {} THEN list ELSE RemoveAt(list, Min(same))

\* Faulty: the first of the leases is not given back.
ReleaseLeavesFirst(c) ==
    /\ call[c].pc = "release"
    /\ LET got == call[c].got
           l == Last(got)
       IN  /\ held' = IF Len(got) = 1 THEN held ELSE [held EXCEPT ![l.res] = Dropped(@, l)]
           /\ call' = [call EXCEPT ![c] = Released([call[c] EXCEPT !.got = Front(got)])]
    /\ UNCHANGED <<fence, lockdown, lapsed, grants, top>>

\* releaseLeases gives them back one by one, the last one first.
Release(c) ==
    /\ call[c].pc = "release"
    /\ LET l == Last(call[c].got) IN
       /\ held' = [held EXCEPT ![l.res] = Dropped(@, l)]
       /\ call' = [call EXCEPT ![c] = Released([call[c] EXCEPT !.got = Front(@)])]
    /\ UNCHANGED <<fence, lockdown, lapsed, grants, top>>

\* A lease with a TTL runs out; it is swept when its resource is next asked for.
Lapse(id) ==
    /\ id \notin lapsed
    /\ lapsed' = lapsed \cup {id}
    /\ UNCHANGED <<held, fence, call, lockdown, grants, top>>

SetLockdown ==
    /\ lockdown' = ~lockdown
    /\ UNCHANGED <<held, fence, call, lapsed, grants, top>>

Next ==
    \/ \E c \in Callers :
          AcquireAll(c) \/ Lease(c) \/ ContextDone(c) \/ ReleaseHandle(c) \/ Release(c)
    \/ \E id \in 1..grants : Lapse(id)
    \/ SetLockdown

Spec == Init /\ [][Next]_vars

-----------------------------------------------------------------------------

Live(list) == SelectSeq(list, LAMBDA l : l.id \notin lapsed)

\* Leases of one resource that have not run out are compatible: an
\* exclusive, maintenance, migration or administrative one is alone.
LeasesCompatible ==
    \A r \in Resources : LET list == Live(held[r]) IN
        \A i, j \in DOMAIN list : i # j => modesCompatible(list[i].mode, list[j].mode)

\* An exclusive lease of a fenced resource is never granted for a token
\* older than one an earlier lease of any mode came with.
StaleFenceRefused ==
    \A c \in Callers : grants' # grants /\ call'[c] # call[c] =>
       LET r == Head(call[c].todo) IN
       NeedsFence(r, call[c].mode) => call[c].fence >= top[r]

\* A caller whose call failed or whose handle was released has left no
\* lease behind.
NothingLeftBehind ==
    \A c \in Callers : call[c].pc = "idle" =>
        \A r \in Resources : \A i \in DOMAIN held[r] : held[r][i].owner # Owner[c]

\* A lease that has not run out is held until its holder releases it.
HolderKeepsLease ==
    \A c \in Callers : call[c].pc = "holding" =>
        \A i \in DOMAIN call[c].got :
            LET l == call[c].got[i] IN l.id \in lapsed \cup Ids(held[l.res])
=============================================================================
