---------------------------- MODULE MCOperations ----------------------------
(***************************************************************************)
(* The protocol model with replayed calls, the resources and their         *)
(* fencing, the workflows and their stores, the moves of data, and the     *)
(* control plane, each checked by itself for safety.                       *)
(*                                                                         *)
(* They share no state that these modules model, so every behaviour is one *)
(* of one component: part says of which, for ever.  Its variables are v1,  *)
(* v2, ..., in the order of its module.                                    *)
(***************************************************************************)
EXTENDS Integers, Sequences, FiniteSets

VARIABLES
    part,       \* the component that runs
    v1, v2, v3, v4, v5, v6, v7, v8, v9, v10, v11, v12, v13, v14, v15, v16      \* its variables, in the order of its module

all == <<part, v1, v2, v3, v4, v5, v6, v7, v8, v9, v10, v11, v12, v13, v14, v15, v16>>

\* The variables that a component with fewer of them leaves unused.
Blank16 == v16 = {}
Blank15 == v15 = {} /\ Blank16
Blank14 == v14 = {} /\ Blank15
Blank13 == v13 = {} /\ Blank14
Blank12 == v12 = {} /\ Blank13
Blank11 == v11 = {} /\ Blank12
Blank10 == v10 = {} /\ Blank11
Blank9 == v9 = {} /\ Blank10
Blank8 == v8 = {} /\ Blank9
Blank7 == v7 = {} /\ Blank8
Blank6 == v6 = {} /\ Blank7
Blank5 == v5 = {} /\ Blank6
Blank4 == v4 = {} /\ Blank5
Blank3 == v3 = {} /\ Blank4
Blank2 == v2 = {} /\ Blank3
Blank1 == v1 = {} /\ Blank2

BundleModes == {"all-required", "minimum-required", "optional-dependencies",
                "primary-with-fallbacks", "ordered"}

ChainModes == <<"Idempotent", "RequiresOperationID", "NotRetryable", "RequiresReconciliation">>

Record(val, ver, at) == [val |-> val, ver |-> ver, at |-> at]
TwoRecords == {Record(1, 1, 0), Record(2, 2, 0)}
TiedRecords == {Record(1, 1, 1), Record(2, 2, 1), Record(3, 1, 2)}

-----------------------------------------------------------------------------

\* The protocol model, with an operation id that is used again.
Pw == INSTANCE ProtocolWorld WITH
    Gens <- {"a", "b"}, NoGen <- "", OpIds <- {"o1"}, NoOp <- "none",
    Replayed <- {"o1"}, LeaseTTL <- 1, TransferTO <- 2, Deltas <- {1, 2},
    MaxToken <- 2,
    owner <- v1, token <- v2, phase <- v3, pending <- v4, left <- v5, deadline <- v6,
    begun <- v7, timed <- v8, epoch <- v9, up <- v10, paused <- v11, results <- v12

\* Four resources, of which three may be registered.
Rr == INSTANCE ResourceRegistry WITH
    Resources <- 1..4, MaxResources <- 3, MaxEpoch <- 1,
    epoch <- v1, edges <- v2, closed <- v3, lockdown <- v4, highest <- v5

\* Two callers that lease two resources, one of them fenced.
Rl == INSTANCE ResourceLeases WITH
    Callers <- {"c1", "c2"}, Owner <- [c \in {"c1", "c2"} |-> c], Resources <- {1, 2},
    Fenced <- {1}, Modes <- {"shared", "exclusive"}, Fences <- {0, 1, 2},
    MaxGrants <- 3,
    held <- v1, fence <- v2, call <- v3, lockdown <- v4, lapsed <- v5, grants <- v6,
    top <- v7

\* A bundle of three resources whose health changes while it is evaluated.
Br == INSTANCE BundleReadiness WITH
    IDs <- <<"a", "b", "c">>, Modes <- BundleModes,
    Statuses <- {"degraded", "blocked"}, MinRequired <- 2,
    registered <- v1, mode <- v2, report <- v3, was <- v4

\* Three Puts of two keys into a store with room for one object.
Os == INSTANCE ObjectStore WITH
    Callers <- {"c1", "c2", "c3"}, Keys <- {"k1", "k2"}, MaxParallel <- 2,
    MaxObjects <- 1, MaxPuts <- 3,
    sem <- v1, objects <- v2, idempotent <- v3, closed <- v4, call <- v5, puts <- v6,
    count <- v7, times <- v8

\* A workflow of four steps, one after the other, that is run three times.
Wf == INSTANCE WorkflowEngine WITH
    Order <- <<1, 2, 3, 4>>, DependsOn <- <<{}, {1}, {2}, {3}>>,
    Group <- <<0, 0, 0, 0>>, Idempotency <- ChainModes, Compensable <- {1, 2, 4},
    Mutates <- {1, 3}, Fenced <- {1}, MaxParallel <- 1, OpIds <- {"op", "none"},
    NoOp <- "none", DryRuns <- BOOLEAN, SaveResults <- {TRUE}, MaxRuns <- 3,
    MaxEpoch <- 1,
    store <- v1, inst <- v2, pc <- v3, op <- v4, calls <- v5, seen <- v6, k <- v7,
    runs <- v8, closed <- v9, lockdown <- v10, epoch <- v11, ran <- v12,
    inPlace <- v13, late <- v14

\* The checkpoints of two instances in files ...
Sf == INSTANCE WorkflowStores WITH
    Ids <- {"i1", "i2"}, Checkpoints <- {"c1", "c2"}, NoCheckpoint <- "none",
    MaxInstances <- 1, Journal <- FALSE, Torn <- {"none", "part"}, MaxLines <- 4,
    file <- v1, tmp <- v2, lines <- v3, open <- v4, data <- v5, call <- v6,
    acked <- v7

\* ... and in a journal, whose lines a crash does not cut.
Sj == INSTANCE WorkflowStores WITH
    Ids <- {"i1", "i2"}, Checkpoints <- {"c1", "c2"}, NoCheckpoint <- "none",
    MaxInstances <- 2, Journal <- TRUE, Torn <- {"none"}, MaxLines <- 4,
    file <- v1, tmp <- v2, lines <- v3, open <- v4, data <- v5, call <- v6,
    acked <- v7

\* Definitions of up to three steps with any dependencies.
Wd == INSTANCE WorkflowDefinition WITH
    Names <- 1..3, Options <- {"compensate"}, MaxDepends <- 2,
    steps <- v1, err <- v2, built <- v3

\* A failover group with two standbys, promoted by health ...
Fo == INSTANCE Failover WITH
    Callers <- {"c1"}, Primary <- "p", Standbys <- <<"s1", "s2">>,
    Policy <- "health-based", MaxEpoch <- 2, MaxHistory <- 3,
    active <- v1, groupEpoch <- v2, log <- v3, call <- v4, epoch <- v5,
    lockdown <- v6, healthy <- v7

\* ... and by two operators at once.
Fm == INSTANCE Failover WITH
    Callers <- {"c1", "c2"}, Primary <- "p", Standbys <- <<"s1", "s2">>,
    Policy <- "manual", MaxEpoch <- 2, MaxHistory <- 2,
    active <- v1, groupEpoch <- v2, log <- v3, call <- v4, epoch <- v5,
    lockdown <- v6, healthy <- v7

\* Three dual writes of one key, with a secondary whose errors count ...
Dc == INSTANCE DualWrite WITH
    Writers <- {"w1", "w2", "w3"}, HasSecondary <- TRUE, FailOpenSecondary <- FALSE,
    mode <- v1, closed <- v2, secondaryErrors <- v3, store <- v4, applied <- v5,
    w <- v6

\* ... and one whose errors are passed over.
Do == INSTANCE DualWrite WITH
    Writers <- {"w1", "w2", "w3"}, HasSecondary <- TRUE, FailOpenSecondary <- TRUE,
    mode <- v1, closed <- v2, secondaryErrors <- v3, store <- v4, applied <- v5,
    w <- v6

\* Two passes at once between two stores,
Oy == INSTANCE ObjectSync WITH
    Callers <- {"c1", "c2"}, Keys <- {"k1", "k2"}, Recs <- TwoRecords,
    Policies <- {"prefer-source", "prefer-target", "reject"}, MaxManual <- 1,
    MaxTarget <- 1, Limit <- 2,
    order <- v1, source <- v2, target <- v3, policy <- v4, cursor <- v5, manual <- v6,
    call <- v7, passed <- v8

\* two that leave conflicts to an operator,
Om == INSTANCE ObjectSync WITH
    Callers <- {"c1", "c2"}, Keys <- {"k1", "k2"}, Recs <- TwoRecords,
    Policies <- {"manual"}, MaxManual <- 1, MaxTarget <- 2, Limit <- 2,
    order <- v1, source <- v2, target <- v3, policy <- v4, cursor <- v5, manual <- v6,
    call <- v7, passed <- v8

\* and one pass at a time that prefers the latest record.
Ol == INSTANCE ObjectSync WITH
    Callers <- {"c1"}, Keys <- {"k1", "k2"}, Recs <- TiedRecords,
    Policies <- {"prefer-latest"}, MaxManual <- 1, MaxTarget <- 2, Limit <- 2,
    order <- v1, source <- v2, target <- v3, policy <- v4, cursor <- v5, manual <- v6,
    call <- v7, passed <- v8

\* Two operators and two triggers of lockdowns; a failing write leaves the file alone.
Ld == INSTANCE Lockdown WITH
    Operators <- {"o1", "o2"}, Triggers <- {"t1", "t2"}, MaxID <- 3, MaxTime <- 1,
    AutoEvery <- 2, CanTear <- FALSE, MaxRestarts <- 1,
    state <- v1, file <- v2, evidence <- v3, evFile <- v4, lastAuto <- v5, now <- v6,
    expected <- v7, auto <- v8, ids <- v9, restarts <- v10, acked <- v11

\* Three calls of the runtime beside quarantine, lockdown and Close.
Rg == INSTANCE RuntimeGates WITH
    Callers <- {"c1", "c2"}, Names <- {"e1"},
    Modes <- {"observe-only", "isolate-claims"}, MaxCalls <- 3,
    closed <- v1, quarantined <- v2, elections <- v3, running <- v4, barriers <- v5,
    lock <- v6, call <- v7, calls <- v8, closing <- v9, passed <- v10

\* Three commands of two callers, with an audit file that may fail.
Cc == INSTANCE CommandControl WITH
    Callers <- {"c1", "c2"}, Keys <- {"k1", "k2"}, RateLimitPerMin <- 2, idemMax <- 1,
    AuditFailClosed <- TRUE, QuarantineOnTamper <- TRUE, CommandFloodThreshold <- 2,
    Window <- 1, AuditCanFail <- TRUE, StackLimit <- 3, MaxTime <- 1, MaxCalls <- 3,
    idem <- v1, hits <- v2, quarantined <- v3, lock <- v4, lastAuto <- v5,
    floodHits <- v6, ops <- v7, now <- v8, calls <- v9, call <- v10, ran <- v11,
    ended <- v12, recorded <- v13, denials <- v14, broken <- v15, admitted <- v16

\* Maintenance windows, two restarts.
Ma == INSTANCE Maintenance WITH
    Durations <- {0, 2, 5}, MaxDuration <- 3, MaxTime <- 6, MaxID <- 3,
    MaxRestarts <- 2,
    state <- v1, file <- v2, up <- v3, now <- v4, ids <- v5, restarts <- v6,
    acked <- v7, limit <- v8

\* Two revisions of the configuration and two keys.
Cf == INSTANCE ConfigLock WITH
    Keys <- {"k1", "k2"}, NeedSignature <- TRUE, MaxRevision <- 2,
    bundles <- v1, nextRev <- v2, active <- v3, trusted <- v4, was <- v5

\* Two writers of an audit log whose file can be written.
Al == INSTANCE AuditLog WITH
    Writers <- {"w1", "w2"}, Ops <- {"o1", "o2"}, MirrorFails <- FALSE,
    MaxRecords <- 3, MaxRestarts <- 1,
    records <- v1, ops <- v2, file <- v3, call <- v4, restarts <- v5

\* A token and one delegated from it.
Cp == INSTANCE Capability WITH
    Holders <- {"h1"}, TTLs <- {1, 2}, Uses <- {0, 1}, MaxTokens <- 2, MaxTime <- 1,
    MaxEpoch <- 1, MaxVerified <- 2,
    epoch <- v1, now <- v2, issued <- v3, revoked <- v4, spent <- v5, held <- v6,
    call <- v7, used <- v8, verified <- v9

\* Two requests that two callers check.
Ar == INSTANCE AntiReplay WITH
    Callers <- {"c1", "c2"}, IDs <- {"i1", "i2"}, TTL <- 1, max <- 1, MaxTime <- 2,
    MaxEpoch <- 1,
    entries <- v1, epoch <- v2, now <- v3, call <- v4, accepted <- v5

ASSUME RrRegistryAssumption == Rr!RegistryAssumption
ASSUME WfWorkflowAssumption == Wf!WorkflowAssumption
ASSUME SfStoresAssumption == Sf!StoresAssumption
ASSUME SjStoresAssumption == Sj!StoresAssumption
ASSUME WdNamesAssumption == Wd!NamesAssumption

-----------------------------------------------------------------------------

AllInit ==
    \/ part = "replay" /\ Pw!Init /\ Blank13
    \/ part = "registry" /\ Rr!Init /\ Blank6
    \/ part = "leases" /\ Rl!Init /\ Blank8
    \/ part = "bundles" /\ Br!Init /\ Blank5
    \/ part = "objects" /\ Os!Init /\ Blank9
    \/ part = "chain" /\ Wf!Init /\ Blank15
    \/ part = "files" /\ Sf!Init /\ Blank8
    \/ part = "journal" /\ Sj!Init /\ Blank8
    \/ part = "definition" /\ Wd!Init /\ Blank4
    \/ part = "failover" /\ Fo!Init /\ Blank8
    \/ part = "promotions" /\ Fm!Init /\ Blank8
    \/ part = "dual" /\ Dc!Init /\ Blank7
    \/ part = "open" /\ Do!Init /\ Blank7
    \/ part = "sync" /\ Oy!Init /\ Blank9
    \/ part = "manual" /\ Om!Init /\ Blank9
    \/ part = "latest" /\ Ol!Init /\ Blank9
    \/ part = "lockdown" /\ Ld!Init /\ Blank12
    \/ part = "gates" /\ Rg!Init /\ Blank11
    \/ part = "commands" /\ Cc!Init
    \/ part = "maintenance" /\ Ma!Init /\ Blank9
    \/ part = "config" /\ Cf!Init /\ Blank6
    \/ part = "audit" /\ Al!Init /\ Blank6
    \/ part = "capability" /\ Cp!Init /\ Blank10
    \/ part = "requests" /\ Ar!Init /\ Blank6

AllNext ==
    /\ UNCHANGED part
    /\ \/ part = "replay" /\ Pw!Next /\ UNCHANGED <<v13, v14, v15, v16>>
       \/ part = "registry" /\ Rr!Next /\ UNCHANGED <<v6, v7, v8, v9, v10, v11, v12, v13, v14, v15, v16>>
       \/ part = "leases" /\ Rl!Next /\ UNCHANGED <<v8, v9, v10, v11, v12, v13, v14, v15, v16>>
       \/ part = "bundles" /\ Br!Next /\ UNCHANGED <<v5, v6, v7, v8, v9, v10, v11, v12, v13, v14, v15, v16>>
       \/ part = "objects" /\ Os!Next /\ UNCHANGED <<v9, v10, v11, v12, v13, v14, v15, v16>>
       \/ part = "chain" /\ Wf!Next /\ UNCHANGED <<v15, v16>>
       \/ part = "files" /\ Sf!Next /\ UNCHANGED <<v8, v9, v10, v11, v12, v13, v14, v15, v16>>
       \/ part = "journal" /\ Sj!Next /\ UNCHANGED <<v8, v9, v10, v11, v12, v13, v14, v15, v16>>
       \/ part = "definition" /\ Wd!Next /\ UNCHANGED <<v4, v5, v6, v7, v8, v9, v10, v11, v12, v13, v14, v15, v16>>
       \/ part = "failover" /\ Fo!Next /\ UNCHANGED <<v8, v9, v10, v11, v12, v13, v14, v15, v16>>
       \/ part = "promotions" /\ Fm!Next /\ UNCHANGED <<v8, v9, v10, v11, v12, v13, v14, v15, v16>>
       \/ part = "dual" /\ Dc!Next /\ UNCHANGED <<v7, v8, v9, v10, v11, v12, v13, v14, v15, v16>>
       \/ part = "open" /\ Do!Next /\ UNCHANGED <<v7, v8, v9, v10, v11, v12, v13, v14, v15, v16>>
       \/ part = "sync" /\ Oy!Next /\ UNCHANGED <<v9, v10, v11, v12, v13, v14, v15, v16>>
       \/ part = "manual" /\ Om!Next /\ UNCHANGED <<v9, v10, v11, v12, v13, v14, v15, v16>>
       \/ part = "latest" /\ Ol!Next /\ UNCHANGED <<v9, v10, v11, v12, v13, v14, v15, v16>>
       \/ part = "lockdown" /\ Ld!Next /\ UNCHANGED <<v12, v13, v14, v15, v16>>
       \/ part = "gates" /\ Rg!Next /\ UNCHANGED <<v11, v12, v13, v14, v15, v16>>
       \/ part = "commands" /\ Cc!Next
       \/ part = "maintenance" /\ Ma!Next /\ UNCHANGED <<v9, v10, v11, v12, v13, v14, v15, v16>>
       \/ part = "config" /\ Cf!Next /\ UNCHANGED <<v6, v7, v8, v9, v10, v11, v12, v13, v14, v15, v16>>
       \/ part = "audit" /\ Al!Next /\ UNCHANGED <<v6, v7, v8, v9, v10, v11, v12, v13, v14, v15, v16>>
       \/ part = "capability" /\ Cp!Next /\ UNCHANGED <<v10, v11, v12, v13, v14, v15, v16>>
       \/ part = "requests" /\ Ar!Next /\ UNCHANGED <<v6, v7, v8, v9, v10, v11, v12, v13, v14, v15, v16>>
       \* These components may come to their end.
       \/ part # "replay" /\ UNCHANGED <<v1, v2, v3, v4, v5, v6, v7, v8, v9, v10, v11, v12, v13, v14, v15, v16>>

AllSpec == AllInit /\ [][AllNext]_all

-----------------------------------------------------------------------------

\* The variables keep to their types, and in the protocol model a claim is held exactly
\* if it has an owner, also when an operation id comes again after the claim has gone on
\* (model/transition.go, expireIfNeeded and the replayed actions).
WellFormed ==
    /\ part = "replay" => Pw!TypeOK /\ Pw!HeldHasOwner
    /\ part = "registry" => Rr!TypeOK
    /\ part = "leases" => Rl!TypeOK
    /\ part = "chain" => Wf!TypeOK
    /\ part = "files" => Sf!TypeOK
    /\ part = "journal" => Sj!TypeOK
    /\ part = "failover" => Fo!TypeOK
    /\ part = "promotions" => Fm!TypeOK

\* What fences never goes back: a resource's epoch grows as long as it is registered
\* (Registry); and an exclusive lease of a fenced resource is never granted for a token
\* older than one an earlier lease came with (LeaseManager.Acquire).
FencesAdvance ==
    [][/\ part = "registry" => Rr!EpochGrows
       /\ part = "leases" => Rl!StaleFenceRefused]_all

\* Who has been superseded is stopped.  No two decisions of a failover group put one
\* resource to work under one epoch, and between calls the active resource is the one last
\* decided for; an advance of the epoch ends every capability of the epochs before, the
\* children whose delegation it overtook included (Authority.Delegate).
SupersededAreStopped ==
    /\ part = "promotions" => Fm!DecisionsFenced
    /\ part = "failover" => Fo!DecisionHolds
    /\ part = "capability" => Cp!EpochEndsTokens

\* What a call has acknowledged survives failing writes, other calls and restarts: a saved
\* checkpoint (FileStore, JournalStore); a lockdown, with its entry in the evidence, until
\* an Unlock returned; a maintenance window until its Exit returned, and never beyond the
\* maximum; a write of a dual mode, which is in both stores or was counted as an error of
\* the secondary, and does not reach the primary when a leading secondary refused it; every
\* key behind a synchronisation's cursor, and every conflict it left to the operator.
AcknowledgedSurvives ==
    /\ part = "files" => Sf!AcknowledgedIsKept
    /\ part = "journal" => Sj!AcknowledgedIsKept
    /\ part = "lockdown" => Ld!AcknowledgedHolds /\ Ld!EveryLockdownRecorded
    /\ part = "maintenance" => Ma!ActiveIsAcknowledged /\ Ma!Bounded
    /\ part = "dual" => Dc!AcknowledgedInBoth /\ Dc!SecondaryLeads
    /\ part = "open" => Do!AcknowledgedInBoth
    /\ part = "sync" => Oy!CursorCovered
    /\ part = "manual" => Om!ManualBounded /\ Om!ConflictsQueued

\* What may happen once does not happen again when a call is repeated, raced or resumed: a
\* step that must not be retried (engine.go, prepareStepResume); a Put that is sent again,
\* and every conditional Put counts (ObjectStore); a request id before the first use of it
\* has run out (antireplay.Cache); a capability beyond its number of uses; an automatic
\* lockdown within the span of its rate limit; commands beyond the rate of a window, whose
\* table of answers holds only keys that succeeded; a second active configuration.
OnlyOnce ==
    /\ part = "chain" => Wf!NotRetryableOnce
    /\ part = "objects" => Os!PutOnce /\ Os!CountExact /\ Os!StoreBounded
    /\ part = "requests" => Ar!NoReplay
    /\ part = "capability" => Cp!UsesBounded
    /\ part = "lockdown" => Ld!OneTriggerAtATime
    /\ part = "commands" => Cc!RateHolds /\ Cc!TableSound
    /\ part = "config" => Cf!OneActive

\* Resources are given out soundly.  Leases of one resource that have not run out are
\* compatible, are held until their holder releases them, and none is left behind by a call
\* that failed (LeaseManager); a bundle reported ready has had every member usable that its
\* mode asks for since the evaluation began, and a fallback is chosen only when every member
\* before it was seen unusable; whatever was declared and removed, the registered resources
\* can be started, each behind its dependencies, in one order (StartupOrder); the order
\* Build returns is the first topological one whatever order Go's maps are walked in, and
\* Build reports a cycle only when there is no such order (topoSteps).
ResourcesSound ==
    /\ part = "leases" => Rl!LeasesCompatible /\ Rl!NothingLeftBehind /\ Rl!HolderKeepsLease
    /\ part = "bundles" => Br!ReadyWasUsable /\ Br!FallbackOnlyIfNeeded /\ Br!OrderedPrefix
    /\ part = "registry" => Rr!AlwaysStartable
    /\ part = "definition" => Wd!OrderIsLeast /\ Wd!CycleIsReal

\* Nothing passes the runtime's gate that began behind the quarantine or Close, or under a
\* lockdown that blocks, although the gate reads the three one after the other; a window
\* with the threshold's number of denied commands has entered lockdown; and the audit chain
\* verifies in every order of appends and checkpoints, but not with a record changed, its
\* own hash made to fit, or left out, unless it is the last.
GatesHold ==
    /\ part = "gates" => Rg!GateHolds
    /\ part = "commands" => Cc!FloodLocksDown
    /\ part = "audit" => Al!ChainVerifies /\ Al!ChangeIsFound

\* Changes come one at a time and in order: a workflow step is undone only after those that
\* build on it; every step of a workflow store changes one instance on disk, and a new one
\* only where there is room; a single synchronisation pass never puts an older record over
\* a newer one; an operator ends the lockdown they looked at; a configuration becomes active
\* only through every state before, with the drafted content, signed by keys trusted then.
StepsInOrder ==
    [][/\ part = "chain" => Wf!UndoesInReverse
       /\ part = "files" => Sf!OneInstanceAtATime
       /\ part = "journal" => Sj!OneInstanceAtATime
       /\ part = "latest" => Ol!NeverOlder
       /\ part = "lockdown" => Ld!UnlockOpensSeen
       /\ part = "config" => Cf!ActivatedIsGood]_all
=============================================================================
