----------------------------- MODULE MCLibrary ------------------------------
(***************************************************************************)
(* The parts of the library that live in one process, each checked by      *)
(* itself: the drain group, the coordinator, the readiness gates, an       *)
(* election, a barrier and the supervisor of tasks; and the first          *)
(* acquisition from PostgreSQL.                                            *)
(*                                                                         *)
(* They share no state that these modules model, so every behaviour is one *)
(* of one component: part says of which, for ever, and v1, v2, ... are its *)
(* variables.                                                              *)
(***************************************************************************)
EXTENDS Integers

VARIABLES
    part,       \* the component that runs
    v1, v2, v3, v4, v5, v6, v7, v8, v9, v10, v11, v12, v13, v14      \* its variables, in the order of its module

all == <<part, v1, v2, v3, v4, v5, v6, v7, v8, v9, v10, v11, v12, v13, v14>>

\* The variables that a component with fewer of them leaves unused.
Blank14 == v14 = {}
Blank13 == v13 = {} /\ Blank14
Blank12 == v12 = {} /\ Blank13
Blank11 == v11 = {} /\ Blank12
Blank10 == v10 = {} /\ Blank11
Blank9 == v9 = {} /\ Blank10
Blank8 == v8 = {} /\ Blank9
Blank7 == v7 = {} /\ Blank8
Blank6 == v6 = {} /\ Blank7

Gate(required, need, retries) == [required |-> required, need |-> need, retries |-> retries]
ThreeGates == <<Gate(TRUE, 2, 2), Gate(FALSE, 1, 1), Gate(TRUE, 1, 0)>>

Tasks ==
    [sched |-> [mode |-> "scheduled", failure |-> "restart", zone |-> "z"],
     iso   |-> [mode |-> "singleton", failure |-> "isolate-zone", zone |-> "z"],
     stop  |-> [mode |-> "per-instance", failure |-> "stop", zone |-> ""]]

-----------------------------------------------------------------------------

\* Three operations under two names of which one each may run, and two waiters.
Dg == INSTANCE DrainGroup WITH
    Ops <- {"o1", "o2", "o3"}, Names <- {"n1", "n2"}, NoName <- "none",
    Waiters <- {"w1", "w2"}, maxNamed <- 1,
    active <- v1, named <- v2, draining <- v3, done <- v4, closed <- v5, op <- v6,
    wait <- v7

\* A coordinator with two callers that ask for two claims of which one may be had,
Cl == INSTANCE Coordinator WITH
    Callers <- {"c1", "c2"}, Names <- {"n1", "n2"}, MaxConcurrentClaims <- 1,
    EventBuffer <- 2, MaxEvents <- 2,
    closed <- v1, claims <- v2, genState <- v3, handlesClosed <- v4, supClosed <- v5,
    loops <- v6, buffer <- v7, dropped <- v8, dispatched <- v9, stored <- v10,
    call <- v11, closing <- v12, emitted <- v13, ahead <- v14

\* and one with a caller that also changes the state of the generation.
Co == INSTANCE Coordinator WITH
    Callers <- {"c1"}, Names <- {"n1", "n2"}, MaxConcurrentClaims <- 1,
    EventBuffer <- 2, MaxEvents <- 3,
    closed <- v1, claims <- v2, genState <- v3, handlesClosed <- v4, supClosed <- v5,
    loops <- v6, buffer <- v7, dropped <- v8, dispatched <- v9, stored <- v10,
    call <- v11, closing <- v12, emitted <- v13, ahead <- v14

\* Three gates, one after the other ...
Go == INSTANCE Readiness WITH
    Gates <- ThreeGates, Parallel <- FALSE,
    pc <- v1, stable <- v2, retries <- v3, attempts <- v4, passed <- v5,
    ctxDone <- v6, firstErr <- v7, run <- v8, outcomes <- v9

\* ... and all at once.
Ga == INSTANCE Readiness WITH
    Gates <- ThreeGates, Parallel <- TRUE,
    pc <- v1, stable <- v2, retries <- v3, attempts <- v4, passed <- v5,
    ctxDone <- v6, firstErr <- v7, run <- v8, outcomes <- v9

\* Two participants of one election.
El == INSTANCE Election WITH
    Participants <- {"p1", "p2"}, Nobody <- "nobody", MaxToken <- 2,
    lock <- v1, leader <- v2, token <- v3, loop <- v4, resign <- v5, closing <- v6

\* Four participants, of which three may take part, and three waiters.
Ba == INSTANCE Barrier WITH
    Participants <- {"p1", "p2", "p3", "p4"}, Waiters <- {"w1", "w2", "w3"},
    MaxParticipants <- 3, MinimumCount <- 2, MaxListed <- 4,
    policy <- v1, arrived <- v2, released <- v3, closed <- v4, listed <- v5,
    wait <- v6, waits <- v7

\* Three tasks, two of them in one zone, that one caller starts,
Su == INSTANCE Supervise WITH
    Tasks <- DOMAIN Tasks, TaskSpec <- Tasks, Callers <- {"c1"}, MaxRestarts <- 1,
    MaxLoops <- 2, MaxSwitches <- 1,
    registered <- v1, isolated <- v2, closed <- v3, current <- v4, call <- v5,
    loops <- v6, closer <- v7, gate <- v8, switches <- v9

\* and two tasks that two callers start.
St == INSTANCE Supervise WITH
    Tasks <- {"iso", "stop"}, TaskSpec <- Tasks, Callers <- {"c1", "c2"},
    MaxRestarts <- 1, MaxLoops <- 2, MaxSwitches <- 1,
    registered <- v1, isolated <- v2, closed <- v3, current <- v4, call <- v5,
    loops <- v6, closer <- v7, gate <- v8, switches <- v9

\* Two clients that are the first to acquire a claim of the PostgreSQL backend, on
\* connections that do not fail.
Pg == INSTANCE PostgresBackend WITH
    Asked <- [kind : {"acquire"}, gen : {"g1", "g2"}, ttl : {1}, op : {"none"}],
    Gens <- {"g1", "g2"}, NoGen <- "", NoOp <- "none", TTLs <- {1},
    MaxSafeFencingToken <- 1, Callers <- {"c1", "c2"},
    Skew <- [c \in {"c1", "c2"} |-> 0], MaxSkew <- 0, ReasonDefault <- "text",
    Tokens <- {}, OpIds <- {},
    row <- v1, ops <- v2, tx <- v3, granted <- v4, won <- v5

ASSUME DgNoNameAssumption == Dg!NoNameAssumption
ASSUME DgmaxNamedAssumption == Dg!maxNamedAssumption
ASSUME GoGatesAssumption == Go!GatesAssumption
ASSUME BaBarrierAssumption == Ba!BarrierAssumption
ASSUME PgAskedAssumption == Pg!AskedAssumption
ASSUME PgSkewAssumption == Pg!SkewAssumption
ASSUME PgReasonAssumption == Pg!ReasonAssumption

-----------------------------------------------------------------------------

AllInit ==
    \/ part = "drain" /\ Dg!Init /\ Blank8
    \/ part = "claims" /\ Cl!Init
    \/ part = "coordinator" /\ Co!Init
    \/ part = "ordered" /\ Go!Init /\ Blank10
    \/ part = "parallel" /\ Ga!Init /\ Blank10
    \/ part = "election" /\ El!Init /\ Blank7
    \/ part = "barrier" /\ Ba!Init /\ Blank8
    \/ part = "supervise" /\ Su!Init /\ Blank10
    \/ part = "starts" /\ St!Init /\ Blank10
    \/ part = "first" /\ Pg!Init /\ Blank6

AllNext ==
    /\ UNCHANGED part
    /\ \/ part = "drain" /\ Dg!Next /\ UNCHANGED <<v8, v9, v10, v11, v12, v13, v14>>
       \/ part = "claims" /\ Cl!Next
       \/ part = "coordinator" /\ Co!Next
       \/ part = "ordered" /\ Go!Next /\ UNCHANGED <<v10, v11, v12, v13, v14>>
       \/ part = "parallel" /\ Ga!Next /\ UNCHANGED <<v10, v11, v12, v13, v14>>
       \/ part = "election" /\ El!Next /\ UNCHANGED <<v7, v8, v9, v10, v11, v12, v13, v14>>
       \/ part = "barrier" /\ Ba!Next /\ UNCHANGED <<v8, v9, v10, v11, v12, v13, v14>>
       \/ part = "supervise" /\ Su!Next /\ UNCHANGED <<v10, v11, v12, v13, v14>>
       \/ part = "starts" /\ St!Next /\ UNCHANGED <<v10, v11, v12, v13, v14>>
       \/ part = "first" /\ Pg!Undisturbed /\ UNCHANGED <<v6, v7, v8, v9, v10, v11, v12, v13, v14>>
       \* These components may come to their end.
       \/ UNCHANGED <<v1, v2, v3, v4, v5, v6, v7, v8, v9, v10, v11, v12, v13, v14>>

Dgvars == Dg!vars
Clvars == Cl!vars
Covars == Co!vars
Govars == Go!vars
Gavars == Ga!vars
Elvars == El!vars
Bavars == Ba!vars
Suvars == Su!vars
Stvars == St!vars
Pgvars == Pg!vars

\* Goroutines that can run do run and tickers fire.  Nothing obliges an application
\* to acquire, resign, stop or close.

\* Operations in flight end, Close runs on, and a waiter whose channel is closed
\* is woken.
DrainFairness ==
    /\ \A o \in {"o1", "o2", "o3"} : WF_Dgvars(part = "drain" /\ Dg!Release(o))
    /\ \A w \in {"w1", "w2"} : WF_Dgvars(part = "drain" /\ Dg!WaitDone(w))
    /\ WF_Dgvars(part = "drain" /\ Dg!CloseDrains)

\* The coordinator's goroutines go on, and Close with them: nothing in them waits
\* for a caller.
CoordinatorFairness ==
    /\ WF_Covars(part = "coordinator" /\ Co!dispatch)
    /\ WF_Covars(part = "coordinator" /\ Co!EventsEnd)
    /\ WF_Covars(part = "coordinator" /\ Co!CloseStep)
    /\ WF_Clvars(part = "claims" /\ Cl!dispatch)
    /\ WF_Clvars(part = "claims" /\ Cl!EventsEnd)
    /\ WF_Clvars(part = "claims" /\ Cl!CloseStep)
    /\ \A n \in {"n1", "n2"} : /\ WF_Covars(part = "coordinator" /\ Co!RenewalEnds(n))
                               /\ WF_Clvars(part = "claims" /\ Cl!RenewalEnds(n))

\* Checks of a gate answer or time out.
ReadinessFairness ==
    /\ WF_Govars(part = "ordered" /\ Go!Return)
    /\ WF_Gavars(part = "parallel" /\ Ga!Return)
    /\ \A i \in DOMAIN ThreeGates :
          /\ WF_Govars(part = "ordered" /\ Go!GateStep(i))
          /\ WF_Gavars(part = "parallel" /\ Ga!GateStep(i))

\* The ticker of an election's loop keeps firing.
ElectionFairness ==
    \A p \in {"p1", "p2"} :
       /\ WF_Elvars(part = "election" /\ El!LoopStep(p))
       /\ WF_Elvars(part = "election" /\ El!CallStep(p))

\* Every participant of a barrier arrives sooner or later.
BarrierFairness ==
    \A p \in {"p1", "p2", "p3", "p4"} : WF_Bavars(part = "barrier" /\ Ba!Arrive(p))

\* A task whose context is cancelled returns.
SuperviseFairness ==
    /\ WF_Suvars(part = "supervise" /\ Su!CloseReturns)
    /\ WF_Suvars(part = "supervise" /\ Su!AllowTask("c1"))
    /\ WF_Suvars(part = "supervise" /\ Su!spawn("c1"))
    /\ WF_Suvars(part = "supervise" /\ Su!Launch("c1"))
    /\ WF_Stvars(part = "starts" /\ St!CloseReturns)
    /\ \A c \in {"c1", "c2"} : /\ WF_Stvars(part = "starts" /\ St!AllowTask(c))
                               /\ WF_Stvars(part = "starts" /\ St!spawn(c))
                               /\ WF_Stvars(part = "starts" /\ St!Launch(c))
    /\ \A l \in 1..2 : /\ WF_Suvars(part = "supervise" /\ Su!MustEnd(l) /\ Su!LoopStep(l))
                       /\ WF_Stvars(part = "starts" /\ St!MustEnd(l) /\ St!LoopStep(l))

\* Clients of the database ask again and again, and locks are granted in the order
\* of the requests.
DatabaseFairness ==
    \A c \in {"c1", "c2"} :
       /\ WF_Pgvars(part = "first" /\ \E q \in Pg!AcquireRequests : Pg!Begin(c, q))
       /\ WF_Pgvars(part = "first" /\ Pg!SelectForUpdate(c))
       /\ WF_Pgvars(part = "first" /\ Pg!SelectNoRow(c))
       /\ WF_Pgvars(part = "first" /\ Pg!InsertClaim(c))
       /\ WF_Pgvars(part = "first" /\ Pg!InsertDuplicate(c))
       /\ WF_Pgvars(part = "first" /\ Pg!Commit(c))

AllSpec ==
    /\ AllInit /\ [][AllNext]_all
    /\ DrainFairness /\ CoordinatorFairness /\ ReadinessFairness
    /\ ElectionFairness /\ BarrierFairness /\ SuperviseFairness /\ DatabaseFairness

-----------------------------------------------------------------------------

\* The variables keep to their types (the record fields, maps and counters of the Go
\* structs).
WellFormed ==
    /\ part = "drain" => Dg!TypeOK
    /\ part = "election" => El!TypeOK
    /\ part = "barrier" => Ba!TypeOK
    /\ part = "supervise" => Su!TypeOK
    /\ part = "starts" => St!TypeOK

\* No limit is passed, whoever comes at once: at most maxNamed operations of a drain group
\* run under one name, and the count kept for the name neither leaks nor blocks for ever;
\* the coordinator has no more claims than the policy allows; and a gate's checks are
\* bounded by its retries, however failures fall.
LimitsHold ==
    /\ part = "drain" => Dg!NamedLimit
    /\ part = "coordinator" => Co!ClaimsBounded
    /\ part = "claims" => Cl!ClaimsBounded
    /\ part = "ordered" => Go!AttemptsBounded
    /\ part = "parallel" => Ga!AttemptsBounded

\* What was stopped stays stopped.  A Wait of a drain group that returned nil saw the last
\* operation end, and none begins after it; once the coordinator's Close has returned none
\* of its goroutines runs, and what was emitted before was delivered or counted as dropped;
\* a supervised loop nobody cancelled is the one its task's cancel function cancels, and
\* no loop starts in an isolated zone, even if Start had passed the gate before.
StoppedMeansStopped ==
    /\ [](/\ part = "drain" => Dg!WaitedMeansIdle
          /\ part = "coordinator" => Co!NothingRuns /\ Co!EventsAccounted
          /\ part = "claims" => Cl!NothingRuns /\ Cl!EventsAccounted
          /\ part = "supervise" => Su!StopReachesEveryLoop
          /\ part = "starts" => St!StopReachesEveryLoop)
    /\ [][/\ part = "supervise" => Su!IsolatedStartsNothing
          /\ part = "starts" => St!IsolatedStartsNothing]_all

\* A decision has its reason.  A readiness gate counts as passed exactly when the last
\* checks it made, as many as it needs, succeeded, and Run says ready only when every
\* required gate has passed, not ready only because one has not or, in order, because the
\* time was up; no two participants of an election lead under one token; and a quorum
\* barrier still open releases waiters only behind a majority, so that two groups of
\* participants never both pass.
DecisionsEarned ==
    /\ part = "ordered" => Go!PassedIsEarned /\ Go!ReadyIsDecided
    /\ part = "parallel" => Ga!PassedIsEarned /\ Ga!ReadyIsDecided
    /\ part = "election" => El!OneLeaderPerToken
    /\ part = "barrier" => Ba!QuorumIsMajority

\* The i-th of the things in a component that must come to an end: a drain that was
\* started, also by Close, and not seen to finish; a Close of the coordinator under
\* way; a Run of the readiness gates that has not returned; a participant of an
\* election that believes in a claim it has lost; a waiter at a barrier; a supervised
\* loop that was cancelled; the time before the first owner of a claim.
Pending(i) ==
    \/ part = "drain" /\ i = 1 /\ Dg!DrainBegun /\ ~Dg!DrainSeen
    \/ part = "coordinator" /\ i = 1 /\ Co!CloseBegun /\ ~Co!CloseDone
    \/ part = "claims" /\ i = 1 /\ Cl!CloseBegun /\ ~Cl!CloseDone
    \/ part = "ordered" /\ i = 1 /\ ~Go!RunDone
    \/ part = "parallel" /\ i = 1 /\ ~Ga!RunDone
    \/ part = "election" /\ i <= 2 /\ LET p == <<"p1", "p2">>[i] IN El!StaleBelief(p) /\ ~El!BeliefSettled(p)
    \/ part = "barrier" /\ Ba!Blocked(<<"w1", "w2", "w3">>[i])
    \/ part = "supervise" /\ i <= 2 /\ Su!MustEnd(i) /\ ~Su!HasEnded(i)
    \/ part = "starts" /\ i <= 2 /\ St!MustEnd(i) /\ ~St!HasEnded(i)
    \/ part = "first" /\ i = 1 /\ ~Pg!EverOwned

\* Drains, Close, the gates' Run, the waiters of a barrier and cancelled loops end,
\* and beliefs catch up: no wake-up is lost, whatever the goroutines do by turns; a claim of
\* the PostgreSQL backend nobody ever had gets an owner although the clients race to insert
\* its row, as long as no connection fails; and as long as some participant of an election
\* stays, somebody leads again and again.
NothingHangs ==
    /\ \A i \in 1..3 : Pending(i) ~> ~Pending(i)
    /\ \A p \in {"p1", "p2"} :
          [](part = "election" => El!TakesPart(p)) => []<>(part = "election" => El!Led)
=============================================================================
