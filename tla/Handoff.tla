------------------------------ MODULE Handoff ------------------------------
(***************************************************************************)
(* A graceful handoff (handoff.go) of the claims 1..N that coordinator     *)
(* Self holds to the generation Successor: Drain, Transfer, Commit, Abort, *)
(* and the timeout watcher that aborts a transfer left pending.            *)
(*                                                                         *)
(* The methods run on the application's goroutine (thread "user") and on   *)
(* the watcher's (thread "timer"); both drop the handoff's mutex around    *)
(* every backend call.  A step is one critical section or one backend call *)
(* with the handling of its answer.  Every claim also has its renewal      *)
(* goroutine, its drain group (drain.go) and the work in flight under it.  *)
(***************************************************************************)
EXTENDS ClaimRecord

CONSTANTS
    N,          \* number of claims of the coordinator
    Self,       \* the generation that hands off
    Successor,  \* the generation it hands off to
    TTL,        \* LeaseTTL, and the reservation TTL
    MaxWork,    \* bound: operations in flight under one claim
    MaxFaults   \* bound: backend calls that fail or lose their answer

ASSUME NAssumption == N \in Nat \ {0}
ASSUME PartiesAssumption == Self \in Gens /\ Successor \in Gens \ {Self}
ASSUME BoundsAssumption == MaxWork \in Nat /\ MaxFaults \in Nat
ASSUME HandoffTTLAssumption == TTL \in TTLs

Claims == 1..N
Threads == {"user", "timer"}

VARIABLES
    claim,      \* backend records
    record,     \* Claim.record of each claim
    lease,      \* token of each claim's valid lease, 0 if none
    renewal,    \* a renewal goroutine of the claim is alive
    work,       \* DrainGroup.active
    draining,   \* DrainGroup.draining
    genState,   \* state of generation Self
    status,     \* Handoff.status, "none" before PrepareHandoff
    drainDone,
    transferDone,
    tokens,     \* Handoff.tokens, 0 for a claim that is not a key
    watcher,    \* the timeout watcher: "none", "armed" or "fired"
    thread,     \* what each thread is executing
    faults      \* faults that happened so far

handle == <<record, lease, renewal>>
drain == <<work, draining>>
handoff == <<status, drainDone, transferDone, tokens, watcher>>
vars == <<claim, handle, drain, genState, handoff, thread, faults>>

View(r) == [owner |-> r.owner, token |-> r.token, phase |-> r.phase]
Views == [owner : Owners, token : Nat, phase : Phases]
Controls(v, g) == v.owner = g /\ v.token # 0 /\ v.phase \in HeldPhases

TokenMaps == [Claims -> Nat]
NoTokens == [c \in Claims |-> 0]

\* A thread's position: the method's stage, the index of the loop over the
\* claims, and the copy of the tokens it works from.
At(pc, i, toks) == [pc |-> pc, i |-> i, tokens |-> toks]
Idle == At("idle", 1, NoTokens)

Stages == {"idle", "drain", "drainTransfer", "reserve", "recordToken",
           "commit", "undo", "expired", "abort"}

ThreadStates == [pc : Stages, i : 1..(N + 1), tokens : TokenMaps]

GenStates == {"joining", "standby", "preparing", "active", "draining",
              "transferring", "retired", "failed"}

Statuses == {"none", "pending", "draining", "transferring", "committed",
             "aborted", "failed"}

TypeOK ==
    /\ claim \in [Claims -> Records]
    /\ record \in [Claims -> Views]
    /\ lease \in TokenMaps
    /\ renewal \in [Claims -> BOOLEAN]
    /\ work \in [Claims -> 0..MaxWork]
    /\ draining \in [Claims -> BOOLEAN]
    /\ genState \in GenStates
    /\ status \in Statuses
    /\ drainDone \in BOOLEAN
    /\ transferDone \in BOOLEAN
    /\ tokens \in TokenMaps
    /\ watcher \in {"none", "armed", "fired"}
    /\ thread \in [Threads -> ThreadStates]
    /\ faults \in 0..MaxFaults

\* Self acquired every claim (token 1) and is active.
Owned1 == AcquireClaim(AbsentRecord, Self, TTL).claim

Init ==
    /\ claim = [c \in Claims |-> Owned1]
    /\ record = [c \in Claims |-> View(Owned1)]
    /\ lease = [c \in Claims |-> Owned1.token]
    /\ renewal = [c \in Claims |-> TRUE]
    /\ work = [c \in Claims |-> 0]
    /\ draining = [c \in Claims |-> FALSE]
    /\ genState = "active"
    /\ status = "none"
    /\ drainDone = FALSE
    /\ transferDone = FALSE
    /\ tokens = NoTokens
    /\ watcher = "none"
    /\ thread = [t \in Threads |-> Idle]
    /\ faults = 0

-----------------------------------------------------------------------------
(* Generation states: internal/stategraph and Coordinator.setState         *)

allowed ==
    [joining      |-> {"standby", "preparing", "failed", "retired"},
     standby      |-> {"preparing", "active", "failed", "retired"},
     preparing    |-> {"standby", "active", "failed", "retired"},
     active       |-> {"draining", "transferring", "retired", "failed"},
     draining     |-> {"transferring", "active", "retired", "failed"},
     transferring |-> {"retired", "active", "failed", "standby"},
     retired      |-> {},
     failed       |-> {}]

\* A refused transition leaves the state alone.
setState(to) ==
    genState' = IF to \in allowed[genState] THEN to ELSE genState

-----------------------------------------------------------------------------
(* Backend calls with the faults of FaultyBackend, and the claim's handle  *)

\* The call on claim c ends with answer a.
Answered(c, outcome, a) ==
    /\ a \in Answers(claim[c], outcome)
    /\ claim' = [claim EXCEPT ![c] = a.claim]
    /\ faults' = IF a = outcome THEN faults ELSE faults + 1
    /\ faults' <= MaxFaults

currentLeaseToken(c) ==
    IF lease[c] # 0 THEN lease[c]
    ELSE IF Controls(record[c], Self) THEN record[c].token ELSE 0

applyRecord(c, r) ==
    /\ record' = [record EXCEPT ![c] = View(r)]
    /\ lease' = [lease EXCEPT
          ![c] = IF @ = 0 \/ ~Controls(View(r), Self) THEN 0 ELSE r.token]
    /\ renewal' = renewal

\* The record is Self's again: re-arm the lease and its renewal.
restoreLease(c, r) ==
    /\ record' = [record EXCEPT ![c] = View(r)]
    /\ IF Controls(View(r), Self)
       THEN /\ lease' = [lease EXCEPT ![c] = r.token]
            /\ renewal' = [renewal EXCEPT ![c] = TRUE]
       ELSE UNCHANGED <<lease, renewal>>

\* Faulty: a renewal that fails leaves the lease and the loop as they are.
RenewIgnoresErrors(c) ==
    LET tok == currentLeaseToken(c) IN
    /\ renewal[c]
    /\ tok # 0
    /\ \E a \in Answers(claim[c], RenewClaim(claim[c], Self, tok, TTL)) :
          /\ Answered(c, RenewClaim(claim[c], Self, tok, TTL), a)
          /\ IF a.err = "ok" THEN applyRecord(c, a.claim) ELSE UNCHANGED handle
    /\ UNCHANGED <<drain, genState, handoff, thread>>

\* One tick of the renewal goroutine, its backend call included.
Renew(c) ==
    LET tok == currentLeaseToken(c) IN
    /\ renewal[c]
    /\ IF tok = 0
       THEN /\ renewal' = [renewal EXCEPT ![c] = FALSE]
            /\ UNCHANGED <<claim, record, lease, faults>>
       ELSE \E a \in Answers(claim[c], RenewClaim(claim[c], Self, tok, TTL)) :
               /\ Answered(c, RenewClaim(claim[c], Self, tok, TTL), a)
               /\ IF a.err = "ok"
                  THEN applyRecord(c, a.claim)
                  ELSE /\ lease' = [lease EXCEPT ![c] = 0]
                       /\ renewal' = [renewal EXCEPT ![c] = FALSE]
                       /\ record' = record
    /\ UNCHANGED <<drain, genState, handoff, thread>>

\* Claim.Release: on success the lease is revoked, the record is not updated.
Release(c) ==
    /\ lease[c] # 0
    /\ \E a \in Answers(claim[c], ReleaseClaim(claim[c], Self, lease[c])) :
          /\ Answered(c, ReleaseClaim(claim[c], Self, lease[c]), a)
          /\ lease' = [lease EXCEPT ![c] = IF a.err = "ok" THEN 0 ELSE @]
    /\ UNCHANGED <<record, renewal, drain, genState, handoff, thread>>

-----------------------------------------------------------------------------
(* Work under a claim: DrainGroup *)

BeginNamed(c) ==
    /\ ~draining[c]
    /\ work[c] < MaxWork
    /\ work' = [work EXCEPT ![c] = @ + 1]
    /\ UNCHANGED <<claim, handle, draining, genState, handoff, thread, faults>>

\* Faulty: a release function called again counts again.
EndWorkAgain(c) ==
    /\ work' = [work EXCEPT ![c] = @ - 1]
    /\ UNCHANGED <<claim, handle, draining, genState, handoff, thread, faults>>

EndWork(c) ==
    /\ work[c] > 0
    /\ work' = [work EXCEPT ![c] = @ - 1]
    /\ UNCHANGED <<claim, handle, draining, genState, handoff, thread, faults>>

-----------------------------------------------------------------------------
(* The handoff's methods *)

Goto(t, s) == thread' = [thread EXCEPT ![t] = s]
Index(t) == thread[t].i
Advance(t) == Goto(t, [thread[t] EXCEPT !.i = @ + 1])

startTimeoutWatcher == watcher' = IF watcher = "none" THEN "armed" ELSE watcher

PrepareHandoff ==
    /\ status = "none"
    /\ "draining" \in allowed[genState]
    /\ setState("draining")
    /\ status' = "pending"
    /\ UNCHANGED <<claim, handle, drain, drainDone, transferDone, tokens,
                   watcher, thread, faults>>

Drain ==
    /\ thread["user"] = Idle
    /\ status \in {"pending", "draining"}
    /\ status' = "draining"
    /\ setState("draining")
    /\ Goto("user", At("drain", 1, NoTokens))
    /\ UNCHANGED <<claim, handle, drain, drainDone, transferDone, tokens,
                   watcher, faults>>

InDrain == thread["user"].pc \in {"drain", "drainTransfer"}

StartDrain ==
    /\ InDrain
    /\ Index("user") \in Claims
    /\ ~draining[Index("user")]
    /\ draining' = [draining EXCEPT ![Index("user")] = TRUE]
    /\ UNCHANGED <<claim, handle, work, genState, handoff, thread, faults>>

\* Faulty: the drain refuses new work but does not wait for the old.
DrainNotWaited ==
    /\ InDrain
    /\ Index("user") \in Claims
    /\ draining[Index("user")]
    /\ Advance("user")
    /\ UNCHANGED <<claim, handle, drain, genState, handoff, faults>>

\* DrainGroup.Wait returns: no operation is in flight.
DrainWaited ==
    /\ InDrain
    /\ Index("user") \in Claims
    /\ draining[Index("user")]
    /\ work[Index("user")] = 0
    /\ Advance("user")
    /\ UNCHANGED <<claim, handle, drain, genState, handoff, faults>>

\* Faulty: the drain has no deadline.
DrainNoTimeout == thread["user"].pc = "timeout" /\ UNCHANGED vars

DrainTimeout ==
    /\ InDrain
    /\ Index("user") \in Claims
    /\ draining[Index("user")]
    /\ status' = "failed"
    /\ Goto("user", Idle)
    /\ UNCHANGED <<claim, handle, drain, genState, drainDone, transferDone,
                   tokens, watcher, faults>>

\* Transfer after the drain: the status is set without looking at it again.
BeginReserve ==
    /\ status' = "transferring"
    /\ tokens' = NoTokens
    /\ setState("transferring")
    /\ Goto("user", At("reserve", 1, NoTokens))

DrainComplete ==
    /\ InDrain
    /\ Index("user") = N + 1
    /\ drainDone' = TRUE
    /\ IF thread["user"].pc = "drainTransfer"
       THEN BeginReserve
       ELSE Goto("user", Idle) /\ UNCHANGED <<status, tokens, genState>>
    /\ UNCHANGED <<claim, handle, drain, transferDone, watcher, faults>>

\* Transfer drains first if that was not done.
Transfer ==
    /\ thread["user"] = Idle
    /\ status \notin {"none", "committed", "aborted"}
    /\ IF drainDone
       THEN BeginReserve
       ELSE /\ status \in {"pending", "draining"}
            /\ status' = "draining"
            /\ setState("draining")
            /\ Goto("user", At("drainTransfer", 1, NoTokens))
            /\ tokens' = tokens
    /\ UNCHANGED <<claim, handle, drain, drainDone, transferDone, watcher, faults>>

\* A loop over the claims passes one that has no token.
SkipClaim(t) ==
    LET i == Index(t) IN
    /\ i \in Claims
    /\ \/ thread[t].pc \in {"commit", "undo", "abort"} /\ thread[t].tokens[i] = 0
       \/ thread[t].pc = "reserve" /\ currentLeaseToken(i) = 0
    /\ Advance(t)
    /\ UNCHANGED <<claim, handle, drain, genState, handoff, faults>>

\* Prepare or commit failed: mark the handoff failed, arm the watcher and go
\* on to abort what h.tokens still lists.
FailAndUndo ==
    /\ status' = "failed"
    /\ startTimeoutWatcher
    /\ Goto("user", At("undo", 1, tokens))
    /\ UNCHANGED <<handle, drainDone, transferDone, tokens>>

ReserveClaim ==
    LET i == Index("user")
        o == PrepareTransfer(claim[i], Self, Successor, currentLeaseToken(i), TTL)
    IN
    /\ thread["user"].pc = "reserve"
    /\ i \in Claims
    /\ currentLeaseToken(i) # 0
    /\ \E a \in Answers(claim[i], o) :
          /\ Answered(i, o, a)
          /\ IF a.err = "ok"
             THEN /\ applyRecord(i, a.claim)
                  /\ Goto("user", At("recordToken", i,
                                     [NoTokens EXCEPT ![i] = a.claim.token]))
                  /\ UNCHANGED handoff
             ELSE FailAndUndo
    /\ UNCHANGED <<drain, genState>>

RecordToken ==
    LET i == Index("user") IN
    /\ thread["user"].pc = "recordToken"
    /\ tokens' = [tokens EXCEPT ![i] = thread["user"].tokens[i]]
    /\ Goto("user", At("reserve", i + 1, NoTokens))
    /\ UNCHANGED <<claim, handle, drain, genState, status, drainDone,
                   transferDone, watcher, faults>>

TransferComplete ==
    /\ thread["user"].pc = "reserve"
    /\ Index("user") = N + 1
    /\ transferDone' = TRUE
    /\ startTimeoutWatcher
    /\ Goto("user", Idle)
    /\ UNCHANGED <<claim, handle, drain, genState, status, drainDone, tokens, faults>>

Commit ==
    /\ thread["user"] = Idle
    /\ transferDone
    /\ status \notin {"committed", "aborted"}
    /\ Goto("user", At("commit", 1, tokens))
    /\ UNCHANGED <<claim, handle, drain, genState, handoff, faults>>

CommitClaim ==
    LET i == Index("user")
        o == CommitTransfer(claim[i], Self, Successor, thread["user"].tokens[i], TTL)
    IN
    /\ thread["user"].pc = "commit"
    /\ i \in Claims
    /\ thread["user"].tokens[i] # 0
    /\ \E a \in Answers(claim[i], o) :
          /\ Answered(i, o, a)
          /\ IF a.err = "ok"
             THEN /\ record' = [record EXCEPT ![i] = View(a.claim)]
                  /\ lease' = [lease EXCEPT ![i] = 0]
                  /\ tokens' = [tokens EXCEPT ![i] = 0]
                  /\ Advance("user")
                  /\ UNCHANGED <<renewal, status, drainDone, transferDone, watcher>>
             ELSE FailAndUndo
    /\ UNCHANGED <<drain, genState>>

CommitComplete ==
    /\ thread["user"].pc = "commit"
    /\ Index("user") = N + 1
    /\ status' = "committed"
    /\ setState("retired")
    /\ Goto("user", Idle)
    /\ UNCHANGED <<claim, handle, drain, drainDone, transferDone, tokens,
                   watcher, faults>>

\* abortTokens: best effort, failures are skipped.
UndoClaim ==
    LET i == Index("user")
        o == AbortTransfer(claim[i], Self, thread["user"].tokens[i])
    IN
    /\ thread["user"].pc = "undo"
    /\ i \in Claims
    /\ thread["user"].tokens[i] # 0
    /\ \E a \in Answers(claim[i], o) :
          /\ Answered(i, o, a)
          /\ IF a.err = "ok"
             THEN /\ restoreLease(i, a.claim)
                  /\ tokens' = [tokens EXCEPT ![i] = 0]
             ELSE UNCHANGED <<handle, tokens>>
    /\ Advance("user")
    /\ UNCHANGED <<drain, genState, status, drainDone, transferDone, watcher>>

UndoComplete ==
    /\ thread["user"].pc = "undo"
    /\ Index("user") = N + 1
    /\ Goto("user", Idle)
    /\ UNCHANGED <<claim, handle, drain, genState, handoff, faults>>

BeginAbort(t) ==
    /\ status' = "aborted"
    /\ Goto(t, At("abort", 1, tokens))

Abort ==
    /\ thread["user"] = Idle
    /\ status \notin {"none", "committed"}
    /\ BeginAbort("user")
    /\ UNCHANGED <<claim, handle, drain, genState, drainDone, transferDone,
                   tokens, watcher, faults>>

\* The watcher fires once.  It looks at the status, drops the mutex and only
\* then calls Abort, which looks again.
TimeoutFires ==
    /\ watcher = "armed"
    /\ watcher' = "fired"
    /\ IF \/ status = "transferring"
          \/ status = "failed" /\ tokens # NoTokens
       THEN Goto("timer", At("expired", 1, NoTokens))
       ELSE UNCHANGED thread
    /\ UNCHANGED <<claim, handle, drain, genState, status, drainDone,
                   transferDone, tokens, faults>>

\* Faulty: Abort does not look at the status the watcher looked at before.
TimeoutAbortUnchecked ==
    /\ thread["timer"].pc = "expired"
    /\ BeginAbort("timer")
    /\ UNCHANGED <<claim, handle, drain, genState, drainDone, transferDone,
                   tokens, watcher, faults>>

TimeoutAbort ==
    /\ thread["timer"].pc = "expired"
    /\ IF status = "committed"
       THEN Goto("timer", Idle) /\ UNCHANGED status
       ELSE BeginAbort("timer")
    /\ UNCHANGED <<claim, handle, drain, genState, drainDone, transferDone,
                   tokens, watcher, faults>>

\* The first failure ends the method, and claims after it are not aborted.
AbortClaim(t) ==
    LET i == Index(t)
        o == AbortTransfer(claim[i], Self, thread[t].tokens[i])
    IN
    /\ thread[t].pc = "abort"
    /\ i \in Claims
    /\ thread[t].tokens[i] # 0
    /\ \E a \in Answers(claim[i], o) :
          /\ Answered(i, o, a)
          /\ IF a.err = "ok"
             THEN restoreLease(i, a.claim) /\ Advance(t)
             ELSE Goto(t, Idle) /\ UNCHANGED handle
    /\ UNCHANGED <<drain, genState, handoff>>

AbortComplete(t) ==
    /\ thread[t].pc = "abort"
    /\ Index(t) = N + 1
    /\ setState("active")
    /\ Goto(t, Idle)
    /\ UNCHANGED <<claim, handle, drain, handoff, faults>>

-----------------------------------------------------------------------------
(* The successor's own calls, and time *)

SuccessorAcquire(c) ==
    /\ claim' = [claim EXCEPT ![c] = AcquireClaim(@, Successor, TTL).claim]
    /\ UNCHANGED <<handle, drain, genState, handoff, thread, faults>>

Tick ==
    /\ claim' = [c \in Claims |-> Age(claim[c])]
    /\ UNCHANGED <<handle, drain, genState, handoff, thread, faults>>

\* The steps of a method that was called.
Progress(t) ==
    \/ SkipClaim(t)
    \/ AbortClaim(t)
    \/ AbortComplete(t)

UserProgress ==
    \/ StartDrain
    \/ DrainWaited
    \/ DrainTimeout
    \/ DrainComplete
    \/ ReserveClaim
    \/ RecordToken
    \/ TransferComplete
    \/ CommitClaim
    \/ CommitComplete
    \/ UndoClaim
    \/ UndoComplete

Next ==
    \/ PrepareHandoff
    \/ Drain
    \/ Transfer
    \/ Commit
    \/ Abort
    \/ UserProgress
    \/ TimeoutFires
    \/ TimeoutAbort
    \/ \E t \in Threads : Progress(t)
    \/ \E c \in Claims : \/ Renew(c)
                         \/ Release(c)
                         \/ BeginNamed(c)
                         \/ EndWork(c)
                         \/ SuccessorAcquire(c)
    \/ Tick

Spec == Init /\ [][Next]_vars

\* A called method runs on, the watcher's timer and the renewal tickers fire,
\* and time passes.  Calling a method, releasing a claim, starting work and
\* ending it are up to the application.
Fairness ==
    /\ WF_vars(UserProgress)
    /\ \A t \in Threads : WF_vars(Progress(t))
    /\ WF_vars(TimeoutFires) /\ WF_vars(TimeoutAbort)
    /\ \A c \in Claims : WF_vars(Renew(c))
    /\ WF_vars(Tick)

FairSpec == Spec /\ Fairness

-----------------------------------------------------------------------------

\* No operation is in flight under a claim that is reserved for the successor
\* (drain.go, BeginNamed and Wait; handoff.go, Transfer).
ReservedClaimIsIdle ==
    \A c \in Claims : claim[c].phase = "reserved" => work[c] = 0

\* The epoch of a lease that Self still shows, and of a token the handoff still
\* lists, was never given to the successor (docs/architecture.md, invariant 1).
EpochIsOwn ==
    \A c \in Claims :
        claim[c].owner = Successor => claim[c].token \notin {lease[c], tokens[c]}

\* A handoff that was committed stays committed, whatever the watcher does
\* (docs/handoff-protocol.md, "Abort after commit").
CommitIsFinal ==
    [][status = "committed" => status' = "committed" /\ genState' = "retired"]_vars

\* A lease whose epoch is over ends (docs/handoff-protocol.md, step 7).
StaleLeaseEnds ==
    \A c \in Claims :
        (lease[c] # 0 /\ claim[c].token > lease[c]) ~> lease[c] = 0

\* Every call returns, also when work in flight never ends (handoff.go, Drain).
CallsReturn ==
    \A t \in Threads : (thread[t] # Idle) ~> (thread[t] = Idle)

\* Violated.  docs/architecture.md:23: "A failed/expired transfer cannot remain
\* pending forever (timeout -> abort)".
PendingTransferEnds ==
    \A c \in Claims :
        (claim[c].phase = "reserved") ~> (claim[c].phase # "reserved")

\* Violated.  handoff.go:162: "Commit advances fencing tokens and assigns
\* ownership to the successor."
CommittedMeansHandedOver ==
    [][status # "committed" /\ status' = "committed"
       => \A c \in Claims : claim'[c].owner # Self]_vars

\* Violated.  docs/failure-model.md:23: "Reservation remains; commit is not
\* partially visible."
FailedCommitNotVisible ==
    [][thread["user"].pc = "commit" /\ thread'["user"].pc = "undo"
       => \A c \in Claims : claim'[c].owner # Successor]_vars

-----------------------------------------------------------------------------
(* The proofs, for any number of claims, operations, faults and tokens.    *)

\* Every token Self works with is of an epoch of its own.  The copies of the
\* threads are part of this: an abort restores a lease from one long after
\* the handoff forgot it.
EpochsOwn ==
    \A c \in Claims :
        /\ EpochOf(claim[c], Self, lease[c])
        /\ EpochOf(claim[c], Self, tokens[c])
        /\ \A t \in Threads : EpochOf(claim[c], Self, thread[t].tokens[c])
        /\ Controls(record[c], Self) => EpochOf(claim[c], Self, record[c].token)

Drained(c) == draining[c] /\ work[c] = 0

\* Draining is over, for the claims before the loop's index, for all of them
\* once drainDone is set, and for good: a reserved claim stays drained.
DrainedFirst ==
    /\ drainDone => \A c \in Claims : Drained(c)
    /\ InDrain => \A c \in Claims : c < Index("user") => Drained(c)
    /\ thread["user"].pc \in {"reserve", "recordToken"} => drainDone
    /\ thread["user"].pc = "recordToken" => Index("user") \in Claims
    /\ \A c \in Claims : claim[c].phase = "reserved" => Drained(c)

\* Committing retires the generation, and no method runs after that; the
\* watcher may still be aborting.
CommittedRetires ==
    /\ genState \in {"active", "draining", "transferring", "retired"}
    /\ status = "committed" => genState = "retired" /\ thread["user"].pc = "idle"

IInv ==
    /\ TypeOK
    /\ \A c \in Claims : Consistent(claim[c])
    /\ EpochsOwn
    /\ DrainedFirst
    /\ CommittedRetires

\* A thread that starts a loop over the claims is well formed, and so is an idle one.
LEMMA ThreadTyped ==
  /\ NoTokens \in TokenMaps /\ Idle \in ThreadStates
  /\ \A pc \in Stages, i \in 1..(N + 1), toks \in TokenMaps :
        At(pc, i, toks) \in ThreadStates
<1>1. NoTokens \in TokenMaps
  BY DEF NoTokens, TokenMaps
<1>2. 1 \in 1..(N + 1) /\ "idle" \in Stages
  BY NAssumption DEF Stages
<1>3. \A pc \in Stages, i \in 1..(N + 1), toks \in TokenMaps :
        At(pc, i, toks) \in ThreadStates
  BY DEF At, ThreadStates
<1> QED  BY <1>1, <1>2, <1>3 DEF Idle

\* The next claim of a loop.
LEMMA Advanced ==
  ASSUME NEW s \in ThreadStates, s.i \in Claims
  PROVE  LET n == [s EXCEPT !.i = @ + 1]
         IN  /\ n \in ThreadStates /\ n.i = s.i + 1 /\ n.pc = s.pc
             /\ n.tokens = s.tokens
  BY NAssumption DEF ThreadStates, Claims

\* setState on the states a handoff goes through.
LEMMA SetState ==
  ASSUME CommittedRetires, NEW to \in {"active", "draining", "transferring", "retired"},
         setState(to)
  PROVE  /\ genState' \in {"active", "draining", "transferring", "retired"}
         /\ genState = "retired" \/ to = "retired" => genState' = "retired"
  BY DEF CommittedRetires, setState, allowed

\* Records that make good steps keep Self's epochs.
LEMMA RecordsStep ==
  ASSUME IInv, claim' \in [Claims -> Records],
         \A c \in Claims : Good(claim[c], claim'[c])
  PROVE  /\ \A c \in Claims : Consistent(claim'[c])
         /\ \A c \in Claims, t \in Nat :
               EpochOf(claim[c], Self, t) => EpochOf(claim'[c], Self, t)
<1>1. \A c \in Claims : claim[c] \in Records
  BY DEF IInv, TypeOK
<1>2. ASSUME NEW c \in Claims, NEW t \in Nat, EpochOf(claim[c], Self, t)
      PROVE  EpochOf(claim'[c], Self, t)
  BY <1>1, <1>2, EpochKept
<1> QED  BY <1>2 DEF Good

\* A backend call on claim c, whatever becomes of its answer.
LEMMA CallStep ==
  ASSUME IInv, NEW c \in Claims, NEW o, Good(claim[c], o.claim), NEW a,
         Answered(c, o, a)
  PROVE  /\ claim' \in [Claims -> Records]
         /\ \A d \in Claims : Good(claim[d], claim'[d])
         /\ claim'[c] = a.claim
         /\ \A d \in Claims \ {c} : claim'[d] = claim[d]
         /\ faults' \in 0..MaxFaults
         /\ a.err = "ok" => a = o
         /\ o.claim.phase # "reserved" /\ claim[c].phase # "reserved"
               => a.claim.phase # "reserved"
<1>1. claim \in [Claims -> Records] /\ Consistent(claim[c]) /\ faults \in 0..MaxFaults
  BY DEF IInv, TypeOK
<1>2. a \in Answers(claim[c], o) /\ claim' = [claim EXCEPT ![c] = a.claim]
  BY DEF Answered
<1>3. Good(claim[c], a.claim) /\ (a.err = "ok" => a = o)
  BY <1>1, <1>2, AnswersGood
<1>4. a.claim \in Records
  BY <1>3 DEF Good
<1>5. \A d \in Claims : Good(claim[d], claim[d])
  BY DEF Good, FencedStep, IInv, TypeOK
<1>6. faults' \in 0..MaxFaults
  BY <1>1, BoundsAssumption DEF Answered
<1>7. a.claim \in {o.claim, claim[c]}
  BY <1>2 DEF Answers, before, afterApply
<1> QED  BY <1>1, <1>2, <1>3, <1>4, <1>5, <1>6, <1>7

\* Self holds every claim at first, under token 1.
LEMMA InitInv == Init => IInv
<1> SUFFICES ASSUME Init PROVE IInv
  OBVIOUS
<1>1. Owned1 \in Records /\ Consistent(Owned1)
  BY AbsentRecordGood, AcquireGood, PartiesAssumption, HandoffTTLAssumption, TTLAssumption
     DEF Owned1, Good
<1>2. Owned1 = [owner |-> Self, token |-> 1, phase |-> "owned", pending |-> NoGen,
                transfer |-> "none", left |-> TTL]
  BY MaxTokenAssumption DEF Owned1, AcquireClaim, AbsentRecord, expireLocked, Lapsed,
        HeldPhases, Done
<1>3. View(Owned1) \in Views /\ Owned1.token \in Nat /\ EpochOf(Owned1, Self, Owned1.token)
  BY <1>1, <1>2, PartiesAssumption DEF View, Views, Owners, Phases, HeldPhases, EpochOf
<1>4. EpochOf(Owned1, Self, 0)
  BY <1>1, ZeroEpoch
<1> HIDE DEF Owned1
<1>5. TypeOK
  <2>1. /\ claim \in [Claims -> Records] /\ record \in [Claims -> Views]
        /\ lease \in TokenMaps /\ tokens \in TokenMaps
        /\ thread \in [Threads -> ThreadStates]
    BY <1>1, <1>3, ThreadTyped DEF Init, TokenMaps
  <2>2. /\ work \in [Claims -> 0..MaxWork] /\ faults \in 0..MaxFaults
        /\ genState \in GenStates /\ status \in Statuses
        /\ watcher \in {"none", "armed", "fired"}
    BY BoundsAssumption DEF Init, GenStates, Statuses
  <2>3. /\ renewal \in [Claims -> BOOLEAN] /\ draining \in [Claims -> BOOLEAN]
        /\ drainDone \in BOOLEAN /\ transferDone \in BOOLEAN
    BY Zenon DEF Init
  <2> QED  BY <2>1, <2>2, <2>3 DEF TypeOK
<1>6. EpochsOwn
  BY <1>3, <1>4 DEF Init, EpochsOwn, NoTokens, Idle, At, View
<1>7. DrainedFirst /\ CommittedRetires
  BY <1>2 DEF Init, DrainedFirst, CommittedRetires, InDrain, Idle, At, Threads
<1> QED  BY <1>1, <1>5, <1>6, <1>7 DEF IInv, Init

\* Thread t goes to s and the other stays where it is.
LEMMA GotoStep ==
  ASSUME TypeOK, NEW t \in Threads, NEW s \in ThreadStates, Goto(t, s)
  PROVE  /\ thread' \in [Threads -> ThreadStates]
         /\ thread'[t] = s
         /\ \A u \in Threads \ {t} : thread'[u] = thread[u]
  BY DEF TypeOK, Goto

\* A token that Self worked with before a step, or that of a record it owns after it.
Kept(d, v) ==
    \/ v \in {0, lease[d], tokens[d]}
    \/ \E t \in Threads : v = thread[t].tokens[d]
    \/ v = claim'[d].token /\ claim'[d].owner = Self

\* Tokens that are kept stay of Self's own epochs.
LEMMA KeptOwn ==
  ASSUME IInv, TypeOK', \A d \in Claims : Good(claim[d], claim'[d]),
         \A d \in Claims : Kept(d, lease'[d]) /\ Kept(d, tokens'[d]),
         \A d \in Claims, t \in Threads : Kept(d, thread'[t].tokens[d]),
         \A d \in Claims : record'[d] \in {record[d], View(claim'[d])}
  PROVE  EpochsOwn'
<1>1. claim' \in [Claims -> Records] /\ \A d \in Claims : claim'[d].token \in Nat
  BY DEF TypeOK, Records
<1>2. \A d \in Claims, t \in Nat :
         EpochOf(claim[d], Self, t) => EpochOf(claim'[d], Self, t)
  BY <1>1, RecordsStep
<1>3. \A d \in Claims : claim[d] \in Records /\ Consistent(claim[d])
  BY DEF IInv, TypeOK
<1>4. ASSUME NEW d \in Claims
      PROVE  /\ \A v \in {0, lease[d], tokens[d]} : v \in Nat /\ EpochOf(claim[d], Self, v)
             /\ \A t \in Threads : /\ thread[t].tokens[d] \in Nat
                                   /\ EpochOf(claim[d], Self, thread[t].tokens[d])
  BY <1>3, ZeroEpoch DEF IInv, TypeOK, TokenMaps, ThreadStates, EpochsOwn
<1>5. ASSUME NEW d \in Claims, claim'[d].owner = Self
      PROVE  EpochOf(claim'[d], Self, claim'[d].token)
  BY <1>1, <1>5 DEF EpochOf
<1>6. ASSUME NEW d \in Claims, Controls(record'[d], Self)
      PROVE  EpochOf(claim'[d], Self, record'[d].token)
  <2>1. CASE record'[d] = record[d]
    BY <1>2, <1>6, <2>1 DEF IInv, TypeOK, Views, EpochsOwn
  <2>2. CASE record'[d] = View(claim'[d])
    BY <1>5, <1>6, <2>2 DEF Controls, View
  <2> QED  BY <2>1, <2>2
<1>7. ASSUME NEW d \in Claims, NEW v, Kept(d, v)
      PROVE  EpochOf(claim'[d], Self, v)
  BY <1>2, <1>4, <1>5, <1>7 DEF Kept
<1> QED  BY <1>6, <1>7 DEF EpochsOwn

\* A step that touches neither records nor tokens.
LEMMA EpochsKept ==
  ASSUME IInv, UNCHANGED <<claim, record, lease, tokens, thread>>
  PROVE  EpochsOwn' /\ \A c \in Claims : Consistent(claim'[c])
  BY DEF IInv, EpochsOwn

\* What a step of a method of thread t has to see to that goes to s and touches neither
\* the claims nor the work under them.
LEMMA MethodStep ==
  ASSUME IInv, UNCHANGED <<claim, handle, drain, faults>>,
         NEW t \in Threads, NEW s \in ThreadStates, Goto(t, s),
         \* the handoff's fields
         /\ status' \in Statuses /\ watcher' \in {"none", "armed", "fired"}
         /\ drainDone' \in BOOLEAN /\ transferDone' \in BOOLEAN /\ tokens' \in TokenMaps,
         \* tokens are only copied
         \A c \in Claims : \A v \in {tokens'[c], s.tokens[c]} :
            v \in {0, tokens[c], thread[t].tokens[c]},
         \* what is said to be drained is
         /\ drainDone => drainDone'
         /\ drainDone' => \A c \in Claims : Drained(c)
         /\ t = "user" =>
               /\ s.pc \in {"drain", "drainTransfer"} =>
                     \A c \in Claims : c < s.i => Drained(c)
               /\ s.pc \in {"reserve", "recordToken"} => drainDone'
               /\ s.pc = "recordToken" => s.i \in Claims,
         \* the states of handoff and generation
         /\ genState' \in {"active", "draining", "transferring", "retired"}
         /\ status' = "committed" =>
               genState' = "retired" /\ (t = "user" => s.pc = "idle")
         /\ status' = "committed" /\ t # "user" => thread["user"].pc = "idle"
  PROVE  IInv'
<1>0. "user" \in Threads
  BY DEF Threads
<1>1. /\ thread' \in [Threads -> ThreadStates] /\ thread'[t] = s
      /\ \A u \in Threads \ {t} : thread'[u] = thread[u]
  BY GotoStep DEF IInv
<1>2. TypeOK'
  BY <1>1 DEF IInv, TypeOK, handle, drain, GenStates
<1>3. EpochsOwn'
  <2>1. \A d \in Claims : /\ Kept(d, lease'[d]) /\ Kept(d, tokens'[d])
                         /\ \A u \in Threads : Kept(d, thread'[u].tokens[d])
    BY <1>1 DEF Kept, handle
  <2>2. \A d \in Claims : Good(claim[d], claim'[d]) /\ record'[d] = record[d]
    BY DEF IInv, TypeOK, Good, FencedStep, handle
  <2> QED  BY <1>2, <2>1, <2>2, KeptOwn
<1>4. CASE t = "user"
  <2>1. DrainedFirst'
    BY <1>1, <1>4 DEF IInv, DrainedFirst, Drained, InDrain, Index, drain
  <2>2. CommittedRetires'
    BY <1>1, <1>4 DEF CommittedRetires
  <2> QED  BY <1>2, <1>3, <2>1, <2>2 DEF IInv
<1>5. CASE t # "user"
  <2>0. thread'["user"] = thread["user"]
    BY <1>0, <1>1, <1>5
  <2>1. DrainedFirst'
    BY <2>0 DEF IInv, DrainedFirst, Drained, InDrain, Index, drain
  <2>2. CommittedRetires'
    BY <2>0, <1>5 DEF CommittedRetires
  <2> QED  BY <1>2, <1>3, <2>1, <2>2 DEF IInv
<1> QED  BY <1>4, <1>5

\* A step that starts or ends a loop over the claims: what it changes of the handoff.
LEMMA LoopStep ==
  ASSUME IInv, UNCHANGED <<claim, handle, drain, faults>>,
         NEW t \in Threads, NEW pc \in Stages \ {"recordToken"},
         NEW toks \in {NoTokens, tokens}, Goto(t, At(pc, 1, toks)),
         /\ tokens' \in {NoTokens, tokens} /\ watcher' \in {watcher, "armed", "fired"}
         /\ transferDone' \in {transferDone, TRUE}
         /\ \/ drainDone' = drainDone
            \/ drainDone' = TRUE /\ \A c \in Claims : Drained(c)
         /\ t = "user" /\ pc = "reserve" => drainDone',
         \/ genState' = genState
         \/ \E to \in {"active", "draining", "transferring", "retired"} : setState(to),
         \/ status' \in Statuses \ {"committed"}
         \/ status' = "committed" /\ setState("retired") /\ t = "user" /\ pc = "idle"
         \/ status' = status /\ (status = "committed" => t # "user" \/ pc = "idle")
  PROVE  IInv'
<1> DEFINE s == At(pc, 1, toks)
<1>1. /\ status \in Statuses /\ watcher \in {"none", "armed", "fired"}
      /\ tokens \in TokenMaps /\ CommittedRetires
      /\ drainDone => \A c \in Claims : Drained(c)
  BY DEF IInv, TypeOK, DrainedFirst
<1>2. /\ s \in ThreadStates /\ s.pc = pc /\ s.i = 1 /\ s.tokens = toks
      /\ NoTokens \in TokenMaps /\ (\A c \in Claims : NoTokens[c] = 0) /\ Goto(t, s)
  BY <1>1, ThreadTyped, NAssumption DEF At, NoTokens
<1>3. /\ genState' \in {"active", "draining", "transferring", "retired"}
      /\ genState = "retired" \/ setState("retired") => genState' = "retired"
  BY <1>1, SetState DEF CommittedRetires
<1>4. drainDone' \in BOOLEAN /\ transferDone' \in BOOLEAN
  BY Zenon DEF IInv, TypeOK
<1>5. /\ drainDone => drainDone'
      /\ drainDone' => \A c \in Claims : Drained(c)
      /\ \A c \in Claims : ~(c < 1)
  BY <1>1 DEF Claims
<1>6. status' = "committed" => /\ genState' = "retired" /\ (t = "user" => pc = "idle")
                               /\ t # "user" => thread["user"].pc = "idle"
  BY <1>1, <1>3 DEF CommittedRetires
<1> HIDE DEF s
<1>7. /\ \A c \in Claims : \A v \in {tokens'[c], s.tokens[c]} : v \in {0, tokens[c]}
      /\ tokens' \in TokenMaps /\ status' \in Statuses
      /\ watcher' \in {"none", "armed", "fired"}
  BY <1>1, <1>2 DEF Statuses
<1> QED  BY <1>2, <1>3, <1>4, <1>5, <1>6, <1>7, MethodStep

\* A step that takes a loop to its next claim.
LEMMA NextClaim ==
  ASSUME IInv, UNCHANGED <<claim, handle, drain, genState, handoff, faults>>,
         NEW t \in Threads, Index(t) \in Claims, Advance(t), thread[t].pc # "recordToken",
         t = "user" /\ InDrain => Drained(Index(t))
  PROVE  IInv'
<1> DEFINE s == [thread[t] EXCEPT !.i = @ + 1]
<1>1. /\ s \in ThreadStates /\ s.i = Index(t) + 1 /\ s.pc = thread[t].pc
      /\ s.tokens = thread[t].tokens /\ Goto(t, s) /\ "user" \in Threads
  BY Advanced DEF Index, Advance, IInv, TypeOK, Threads
<1> HIDE DEF s
<1>2. /\ status' \in Statuses /\ watcher' \in {"none", "armed", "fired"}
      /\ drainDone' \in BOOLEAN /\ transferDone' \in BOOLEAN /\ tokens' \in TokenMaps
      /\ genState' \in {"active", "draining", "transferring", "retired"}
      /\ status' = "committed" => /\ genState' = "retired" /\ (t = "user" => s.pc = "idle")
                                  /\ thread["user"].pc = "idle"
      /\ tokens' = tokens /\ drainDone' = drainDone
  BY <1>1 DEF IInv, TypeOK, CommittedRetires, handoff
<1>3. /\ drainDone => \A c \in Claims : Drained(c)
      /\ t = "user" /\ s.pc \in {"reserve", "recordToken"} => drainDone
      /\ t = "user" /\ s.pc \in {"drain", "drainTransfer"} =>
            \A c \in Claims : c < s.i => Drained(c)
  BY <1>1 DEF IInv, DrainedFirst, InDrain, Claims
<1> QED  BY <1>1, <1>2, <1>3, MethodStep

\* PrepareHandoff and Drain.
LEMMA DrainInv ==
  ASSUME IInv,
         PrepareHandoff \/ Drain \/ StartDrain \/ DrainWaited \/ DrainTimeout \/ DrainComplete
  PROVE  IInv'
<1>1. CASE PrepareHandoff
  <2>1. /\ genState' \in {"active", "draining", "transferring", "retired"}
        /\ status' = "pending"
        /\ UNCHANGED <<claim, handle, drain, drainDone, transferDone, tokens,
                       watcher, thread, faults>>
    BY <1>1, SetState DEF PrepareHandoff, IInv
  <2>2. TypeOK'
    BY <2>1 DEF IInv, TypeOK, handle, drain, GenStates, Statuses
  <2>3. DrainedFirst' /\ CommittedRetires'
    BY <2>1 DEF IInv, DrainedFirst, Drained, InDrain, Index, CommittedRetires, drain
  <2> QED  BY <2>1, <2>2, <2>3, EpochsKept DEF IInv, handle
<1>2. CASE Drain
  BY <1>2, LoopStep DEF Drain, Threads, Stages, Statuses
<1>3. CASE StartDrain
  <2>1. TypeOK'
    BY <1>3, Zenon DEF StartDrain, IInv, TypeOK, handle, handoff
  <2>2. DrainedFirst' /\ CommittedRetires'
    BY <1>3 DEF StartDrain, IInv, TypeOK, DrainedFirst, Drained, InDrain, Index,
                CommittedRetires, handoff
  <2> QED  BY <1>3, <2>1, <2>2, EpochsKept DEF StartDrain, IInv, handle, handoff
<1>4. CASE DrainWaited
  BY <1>4, NextClaim DEF DrainWaited, Drained, InDrain, Threads
<1>5. CASE DrainTimeout
  BY <1>5, LoopStep DEF DrainTimeout, Idle, Threads, Stages, Statuses
<1>6. CASE DrainComplete
  <2>1. \A c \in Claims : Drained(c)
    BY <1>6, NAssumption DEF DrainComplete, IInv, DrainedFirst, Claims
  <2>2. /\ drainDone' = TRUE /\ UNCHANGED <<claim, handle, drain, transferDone, watcher, faults>>
        /\ \/ BeginReserve
           \/ Goto("user", At("idle", 1, NoTokens)) /\ UNCHANGED <<status, tokens, genState>>
    BY <1>6 DEF DrainComplete, Idle
  <2> QED  BY <2>1, <2>2, LoopStep, Zenon DEF BeginReserve, Threads, Stages, Statuses
<1> QED  BY <1>1, <1>2, <1>3, <1>4, <1>5, <1>6

\* The token of a reservation is noted.
LEMMA RecordTokenInv ==
  ASSUME IInv, RecordToken
  PROVE  IInv'
<1> DEFINE i == Index("user")
           s == At("reserve", i + 1, NoTokens)
<1>1. /\ i \in Claims /\ i + 1 \in 1..(N + 1) /\ drainDone /\ "user" \in Threads
      /\ thread["user"].pc = "recordToken" /\ thread["user"].tokens \in TokenMaps
      /\ tokens \in TokenMaps /\ NoTokens \in TokenMaps /\ "reserve" \in Stages
  BY NAssumption, ThreadTyped
     DEF RecordToken, IInv, TypeOK, DrainedFirst, Claims, ThreadStates, Threads, Stages
<1>2. s \in ThreadStates /\ s.pc = "reserve" /\ \A c \in Claims : s.tokens[c] = 0
  BY <1>1, ThreadTyped DEF At, NoTokens
<1>3. /\ tokens' = [tokens EXCEPT ![i] = thread["user"].tokens[i]]
      /\ Goto("user", s) /\ UNCHANGED <<claim, handle, drain, faults>>
      /\ UNCHANGED <<genState, status, drainDone, transferDone, watcher>>
  BY DEF RecordToken
<1> HIDE DEF s, i
<1>4. /\ tokens' \in TokenMaps
      /\ \A c \in Claims : \A v \in {tokens'[c], s.tokens[c]} :
           v \in {0, tokens[c], thread["user"].tokens[c]}
  BY <1>1, <1>2, <1>3 DEF TokenMaps
<1>5. /\ status' # "committed" /\ status' \in Statuses
      /\ genState' \in {"active", "draining", "transferring", "retired"}
      /\ watcher' \in {"none", "armed", "fired"}
      /\ drainDone' \in BOOLEAN /\ transferDone' \in BOOLEAN
      /\ drainDone' /\ \A c \in Claims : Drained(c)
  BY <1>1, <1>3 DEF IInv, TypeOK, CommittedRetires, DrainedFirst
<1>6. Goto("user", s) /\ UNCHANGED <<claim, handle, drain, faults>> /\ "user" \in Threads
  BY <1>1, <1>3
<1> QED  BY <1>2, <1>4, <1>5, <1>6, MethodStep

\* Transfer, Commit and Abort, apart from their backend calls, and the watcher.
LEMMA MethodsInv ==
  ASSUME IInv,
         \/ Transfer \/ RecordToken \/ TransferComplete \/ Commit \/ CommitComplete
         \/ UndoComplete \/ Abort \/ TimeoutFires \/ TimeoutAbort
         \/ \E t \in Threads : SkipClaim(t) \/ AbortComplete(t)
  PROVE  IInv'
<1>1. CASE Transfer /\ drainDone
  BY <1>1, LoopStep DEF Transfer, BeginReserve, Threads, Stages, Statuses
<1>2. CASE Transfer /\ ~drainDone
  BY <1>2, LoopStep DEF Transfer, Threads, Stages, Statuses
<1>3. CASE RecordToken
  BY <1>3, RecordTokenInv
<1>4. CASE TransferComplete
  BY <1>4, LoopStep DEF TransferComplete, startTimeoutWatcher, Idle, Threads, Stages
<1>5. CASE Commit
  BY <1>5, LoopStep DEF Commit, handoff, Threads, Stages
<1>6. CASE CommitComplete
  BY <1>6, LoopStep DEF CommitComplete, Idle, Threads, Stages
<1>7. CASE UndoComplete
  BY <1>7, LoopStep DEF UndoComplete, handoff, Idle, Threads, Stages
<1>8. CASE Abort
  BY <1>8, LoopStep DEF Abort, BeginAbort, Threads, Stages, Statuses
<1>9. CASE TimeoutFires /\ UNCHANGED thread
  <2>1. TypeOK'
    BY <1>9 DEF TimeoutFires, IInv, TypeOK, handle, drain
  <2>2. DrainedFirst' /\ CommittedRetires'
    BY <1>9 DEF TimeoutFires, IInv, DrainedFirst, Drained, InDrain, Index,
                CommittedRetires, drain
  <2> QED  BY <1>9, <2>1, <2>2, EpochsKept DEF TimeoutFires, IInv, handle
<1>10. CASE TimeoutFires /\ Goto("timer", At("expired", 1, NoTokens))
  BY <1>10, LoopStep DEF TimeoutFires, Threads, Stages
<1>11. CASE TimeoutAbort /\ status = "committed"
  BY <1>11, LoopStep DEF TimeoutAbort, Idle, Threads, Stages
<1>12. CASE TimeoutAbort /\ status # "committed"
  BY <1>12, LoopStep DEF TimeoutAbort, BeginAbort, Threads, Stages, Statuses
<1>13. ASSUME NEW t \in Threads, SkipClaim(t) PROVE IInv'
  BY <1>13, NextClaim DEF SkipClaim, InDrain
<1>14. ASSUME NEW t \in Threads, AbortComplete(t) PROVE IInv'
  BY <1>14, LoopStep DEF AbortComplete, handoff, Idle, Stages
<1>15. TimeoutFires => UNCHANGED thread \/ Goto("timer", At("expired", 1, NoTokens))
  BY DEF TimeoutFires
<1> QED
  BY <1>1, <1>2, <1>3, <1>4, <1>5, <1>6, <1>7, <1>8, <1>9, <1>10, <1>11, <1>12, <1>13,
     <1>14, <1>15

\* Work under a claim.
LEMMA WorkInv ==
  ASSUME IInv, NEW c \in Claims, BeginNamed(c) \/ EndWork(c)
  PROVE  IInv'
<1>1. UNCHANGED <<claim, handle, draining, genState, handoff, thread, faults>>
  BY DEF BeginNamed, EndWork
<1>2. /\ work' \in [Claims -> 0..MaxWork]
      /\ \A d \in Claims : Drained(d) => Drained(d)'
  BY <1>1, BoundsAssumption DEF BeginNamed, EndWork, Drained, IInv, TypeOK
<1>3. TypeOK'
  BY <1>1, <1>2 DEF IInv, TypeOK, handle, handoff
<1>4. DrainedFirst' /\ CommittedRetires'
  BY <1>1, <1>2 DEF IInv, DrainedFirst, InDrain, Index, CommittedRetires, handoff
<1> QED  BY <1>1, <1>3, <1>4, EpochsKept DEF IInv, handle, handoff

\* The renewal goroutines, Release, the successor and time.
LEMMA HandleInv ==
  ASSUME IInv,
         Tick \/ \E c \in Claims : Renew(c) \/ Release(c) \/ SuccessorAcquire(c)
  PROVE  IInv'
<1>0. /\ \A c \in Claims : claim[c] \in Records /\ Consistent(claim[c])
      /\ TTL \in Int /\ Self \in Gens /\ Successor \in Gens
  BY HandoffTTLAssumption, TTLAssumption, PartiesAssumption DEF IInv, TypeOK
<1>t. /\ claim \in [Claims -> Records] /\ record \in [Claims -> Views]
      /\ lease \in TokenMaps /\ renewal \in [Claims -> BOOLEAN] /\ faults \in 0..MaxFaults
      /\ \A c \in Claims : Good(claim[c], claim[c])
  BY DEF IInv, TypeOK, Good, FencedStep
<1>1. UNCHANGED <<drain, genState, handoff, thread>>
  BY DEF Tick, Renew, Release, SuccessorAcquire
\* It is enough to look at the claims and the handles.
<1>2. ASSUME claim' \in [Claims -> Records],
             \A d \in Claims : Good(claim[d], claim'[d]),
             \A d \in Claims : claim[d].phase # "reserved" => claim'[d].phase # "reserved",
             record' \in [Claims -> Views], lease' \in TokenMaps,
             renewal' \in [Claims -> BOOLEAN], faults' \in 0..MaxFaults,
             \A d \in Claims :
                /\ record'[d] \in {record[d], View(claim'[d])}
                /\ \/ lease'[d] \in {0, lease[d]}
                   \/ lease'[d] = claim'[d].token /\ claim'[d].owner = Self
      PROVE  IInv'
  <2>1. TypeOK'
    BY <1>1, <1>2 DEF IInv, TypeOK, drain, handoff
  <2>2. \A d \in Claims : /\ Kept(d, lease'[d]) /\ Kept(d, tokens'[d])
                         /\ \A u \in Threads : Kept(d, thread'[u].tokens[d])
    BY <1>1, <1>2 DEF Kept, handoff
  <2>5. EpochsOwn'
    BY <1>2, <2>1, <2>2, KeptOwn
  <2>3. DrainedFirst'
    BY <1>1, <1>2 DEF IInv, DrainedFirst, Drained, InDrain, Index, drain, handoff
  <2>4. CommittedRetires' /\ \A c \in Claims : Consistent(claim'[c])
    BY <1>1, <1>2 DEF IInv, CommittedRetires, handoff, Good
  <2> QED  BY <2>1, <2>3, <2>4, <2>5 DEF IInv
<1>3. CASE Tick
  <2>1. /\ claim' = [c \in Claims |-> Age(claim[c])]
        /\ UNCHANGED <<record, lease, renewal, faults>>
    BY <1>3 DEF Tick, handle
  <2>2. \A c \in Claims : /\ Good(claim[c], Age(claim[c]))
                          /\ claim[c].phase # "reserved" => Age(claim[c]).phase # "reserved"
    BY <1>0, AgeGood, NotReservedEither
  <2> QED  BY <1>t, <1>2, <2>1, <2>2 DEF Good
<1>4. ASSUME NEW c \in Claims, SuccessorAcquire(c) PROVE IInv'
  <2> DEFINE s == AcquireClaim(claim[c], Successor, TTL).claim
  <2>1. /\ claim' = [claim EXCEPT ![c] = s]
        /\ UNCHANGED <<record, lease, renewal, faults>>
    BY <1>4 DEF SuccessorAcquire, handle
  <2>2. Good(claim[c], s) /\ (claim[c].phase # "reserved" => s.phase # "reserved")
    BY <1>0, AcquireGood, NotReserved
  <2> HIDE DEF s
  <2> QED  BY <1>t, <1>2, <2>1, <2>2 DEF Good
<1>5. ASSUME NEW c \in Claims, Release(c) PROVE IInv'
  <2> DEFINE o == ReleaseClaim(claim[c], Self, lease[c])
  <2>1. PICK a \in Answers(claim[c], o) :
           /\ Answered(c, o, a)
           /\ lease' = [lease EXCEPT ![c] = IF a.err = "ok" THEN 0 ELSE @]
    BY <1>5, Zenon DEF Release
  <2>2. Good(claim[c], o.claim) /\ (claim[c].phase # "reserved" => o.claim.phase # "reserved")
    BY <1>0, ReleaseGood, NotReservedEither
  <2> HIDE DEF o
  <2>3. /\ claim' \in [Claims -> Records] /\ faults' \in 0..MaxFaults
        /\ \A d \in Claims : Good(claim[d], claim'[d])
        /\ \A d \in Claims : claim[d].phase # "reserved" => claim'[d].phase # "reserved"
    BY <2>1, <2>2, CallStep
  <2>4. UNCHANGED <<record, renewal>>
    BY <1>5 DEF Release
  <2>5. lease' \in TokenMaps /\ \A d \in Claims : lease'[d] \in {0, lease[d]}
    BY <1>t, <2>1 DEF TokenMaps
  <2> QED  BY <1>t, <1>2, <2>3, <2>4, <2>5
<1>6. ASSUME NEW c \in Claims, Renew(c) PROVE IInv'
  <2> DEFINE tok == currentLeaseToken(c)
             o == RenewClaim(claim[c], Self, tok, TTL)
  <2>1. CASE tok = 0
    <3>1. /\ renewal' = [renewal EXCEPT ![c] = FALSE]
          /\ UNCHANGED <<claim, record, lease, faults>>
      BY <1>6, <2>1 DEF Renew
    <3> QED  BY <1>t, <1>2, <3>1
  <2>2. CASE tok # 0
    <3>1. PICK a \in Answers(claim[c], o) :
             /\ Answered(c, o, a)
             /\ IF a.err = "ok"
                THEN applyRecord(c, a.claim)
                ELSE /\ lease' = [lease EXCEPT ![c] = 0]
                     /\ renewal' = [renewal EXCEPT ![c] = FALSE]
                     /\ record' = record
      BY <1>6, <2>2 DEF Renew
    <3>2. Good(claim[c], o.claim) /\ (claim[c].phase # "reserved" => o.claim.phase # "reserved")
      BY <1>0, RenewGood, NotReserved
    <3> HIDE DEF o, tok
    <3>3. /\ claim' \in [Claims -> Records] /\ faults' \in 0..MaxFaults
          /\ \A d \in Claims : Good(claim[d], claim'[d])
          /\ \A d \in Claims : claim[d].phase # "reserved" => claim'[d].phase # "reserved"
          /\ claim'[c] = a.claim
      BY <3>1, <3>2, CallStep
    <3>4. CASE a.err = "ok"
      <4>1. /\ record' = [record EXCEPT ![c] = View(claim'[c])] /\ renewal' = renewal
            /\ lease' = [lease EXCEPT
                  ![c] = IF @ = 0 \/ ~Controls(View(claim'[c]), Self) THEN 0
                                                                   ELSE claim'[c].token]
        BY <3>1, <3>3, <3>4 DEF applyRecord
      <4>2. View(claim'[c]) \in Views /\ claim'[c].token \in Nat
        BY <3>3 DEF View, Views, Records
      <4>3. Controls(View(claim'[c]), Self) => claim'[c].owner = Self
        BY DEF Controls, View
      <4>4. /\ lease' \in TokenMaps /\ record' \in [Claims -> Views]
            /\ renewal' \in [Claims -> BOOLEAN]
        BY <1>t, <4>1, <4>2 DEF TokenMaps
      <4>5. \A d \in Claims :
               /\ record'[d] \in {record[d], View(claim'[d])}
               /\ \/ lease'[d] \in {0, lease[d]}
                  \/ lease'[d] = claim'[d].token /\ claim'[d].owner = Self
        BY <1>t, <4>1, <4>3 DEF TokenMaps
      <4> QED  BY <1>2, <3>3, <4>4, <4>5
    <3>5. CASE a.err # "ok"
      <4>1. /\ lease' = [lease EXCEPT ![c] = 0] /\ record' = record
            /\ renewal' = [renewal EXCEPT ![c] = FALSE]
        BY <3>1, <3>5
      <4> QED  BY <1>t, <1>2, <3>3, <4>1 DEF TokenMaps
    <3> QED  BY <3>4, <3>5
  <2> QED  BY <2>1, <2>2
<1> QED  BY <1>3, <1>4, <1>5, <1>6
=============================================================================
