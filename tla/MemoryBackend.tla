--------------------------- MODULE MemoryBackend ---------------------------
(***************************************************************************)
(* backend/memory: the ownership store, for one claim.                     *)
(*                                                                         *)
(* A mutating call takes the mutex twice: beforeMutate decides whether the *)
(* call may proceed (closed, partitioned, injected failure) and releases   *)
(* it, and only then is the handler's body run under the mutex.  A call    *)
(* that passed beforeMutate is therefore in flight (variable call) for as  *)
(* long as it likes, while other calls are served, time passes and the     *)
(* store may even be closed.  A call refused by beforeMutate changes       *)
(* nothing and is a stuttering step.                                       *)
(***************************************************************************)
EXTENDS BackendRequests

CONSTANTS
    Asked,      \* the requests that are made
    Callers     \* goroutines that may have a call in flight

ASSUME AskedAssumption == Asked \subseteq Requests

VARIABLES
    claim,      \* the stored record
    ops,        \* operation id -> the recorded error, "none" if not recorded
    call,       \* caller -> its request in flight
    closed,     \* Close was called
    granted     \* history: every <<token, generation>> granted

vars == <<claim, ops, call, closed, granted>>

TypeOK ==
    /\ claim \in Records
    /\ ops \in [OpIds -> Errors \cup {"none"}]
    /\ call \in [Callers -> Requests \cup {NoCall}]
    /\ closed \in BOOLEAN
    /\ granted \subseteq Nat \X Gens

Init ==
    /\ claim = AbsentRecord
    /\ ops = [o \in OpIds |-> "none"]
    /\ call = [c \in Callers |-> NoCall]
    /\ closed = FALSE
    /\ granted = {}

-----------------------------------------------------------------------------
(* The idempotency table.                                                  *)

\* Faulty: recorded failures are not recalled.
RecallSuccessOnly(op) == op # NoOp /\ ops[op] = "ok"

recallOp(op) == op # NoOp /\ ops[op] # "none"

\* Successes are recorded; of the failures only a held claim and a token
\* overflow are.
storeOp(op, err) ==
    IF op # NoOp /\ err \in {"ok", "ErrClaimHeld", "ErrTokenOverflow"}
    THEN [ops EXCEPT ![op] = err]
    ELSE ops

-----------------------------------------------------------------------------

beforeMutate(c, req) ==
    /\ call[c] = NoCall
    /\ ~closed
    /\ call' = [call EXCEPT ![c] = req]
    /\ UNCHANGED <<claim, ops, closed, granted>>

\* The second critical section of a handler: answer a repeated operation id
\* from the table, otherwise leave the outcome in the store and record it.
Serve(c, outcome) ==
    /\ call' = [call EXCEPT ![c] = NoCall]
    /\ closed' = closed
    /\ IF recallOp(call[c].op)
       THEN UNCHANGED <<claim, ops, granted>>
       ELSE /\ claim' = outcome.claim
            /\ ops' = storeOp(call[c].op, outcome.err)
            /\ granted' = granted \cup
                  {p \in {<<outcome.claim.token, outcome.claim.owner>>} :
                      p[2] # NoGen}

ServeAcquire(c) ==
    /\ call[c].kind = "acquire"
    /\ Serve(c, AcquireClaim(claim, call[c].gen, call[c].ttl))

ServeRenew(c) ==
    /\ call[c].kind = "renew"
    /\ Serve(c, RenewClaim(claim, call[c].gen, call[c].token, call[c].ttl))

ServePrepare(c) ==
    /\ call[c].kind = "prepare"
    /\ Serve(c, PrepareTransfer(claim, call[c].gen, call[c].to,
                                call[c].token, call[c].ttl))

ServeCommit(c) ==
    /\ call[c].kind = "commit"
    /\ Serve(c, CommitTransfer(claim, call[c].gen, call[c].to,
                               call[c].token, call[c].ttl))

ServeAbort(c) ==
    /\ call[c].kind = "abort"
    /\ Serve(c, AbortTransfer(claim, call[c].gen, call[c].token))

ServeRelease(c) ==
    /\ call[c].kind = "release"
    /\ Serve(c, ReleaseClaim(claim, call[c].gen, call[c].token))

\* The call fails after beforeMutate and before it touches the record: its
\* context ends during the delay, or a prepare or commit failure is injected.
FailCall(c) ==
    /\ call[c] # NoCall
    /\ call' = [call EXCEPT ![c] = NoCall]
    /\ UNCHANGED <<claim, ops, closed, granted>>

\* Reading a claim applies its expiry.
GetClaim ==
    /\ claim' = expireLocked(claim)
    /\ UNCHANGED <<ops, call, closed, granted>>

ForceExpire ==
    /\ claim' = expireLocked([claim EXCEPT !.left = -1])
    /\ UNCHANGED <<ops, call, closed, granted>>

Close ==
    /\ closed' = TRUE
    /\ UNCHANGED <<claim, ops, call, granted>>

\* The clock advances by one unit.
Tick ==
    /\ claim' = Age(claim)
    /\ UNCHANGED <<ops, call, closed, granted>>

Next ==
    \/ \E c \in Callers :
          \/ \E req \in Asked : beforeMutate(c, req)
          \/ ServeAcquire(c)
          \/ ServeRenew(c)
          \/ ServePrepare(c)
          \/ ServeCommit(c)
          \/ ServeAbort(c)
          \/ ServeRelease(c)
          \/ FailCall(c)
    \/ GetClaim
    \/ ForceExpire
    \/ Close
    \/ Tick

Spec == Init /\ [][Next]_vars

-----------------------------------------------------------------------------
(* What the store promises.                                                *)

F == INSTANCE FencedClaim WITH owner <- claim.owner, token <- claim.token

\* Every run of the store, seen through owner, token and the history of
\* grants, is a run of the abstract fenced claim.
ImplementsFencedClaim == F!FSpec

\* No token was ever granted to two generations, whatever calls were delayed,
\* repeated or lost (docs/architecture.md, invariant 1).
EpochHasOneOwner == F!OneOwnerPerEpoch

\* The stored record's fields agree with each other, and its token has not
\* run past MaxSafeFencingToken.
RecordConsistent == Consistent(claim)

\* The call c is served in this step.
Served(c) == call[c] # NoCall /\ call'[c] = NoCall

\* A generation keeps a claim until its lease expires, unless it gives the
\* claim up itself by a release or commit that names the current token: a
\* delayed call of an earlier epoch takes nothing away, not even when the
\* same generation issued it (docs/architecture.md, invariant 3).
OwnerKeepsLiveClaim ==
    [][claim.owner # NoGen /\ claim.left >= 0
          /\ <<claim.owner, claim.token>> # <<claim'.owner, claim'.token>>
       => \/ ForceExpire
          \/ \E c \in Callers : /\ Served(c)
                                /\ call[c].kind \in {"release", "commit"}
                                /\ call[c].gen = claim.owner
                                /\ call[c].token = claim.token]_vars

\* A lease that ran out is not revived under its old token by a renewal,
\* prepare or acquire that comes too late (docs/failure-model.md).
LapsedLeaseNotRevived ==
    [][Lapsed(claim) /\ claim'.owner = claim.owner
       => claim'.token > claim.token \/ claim'.left < 0]_vars

\* A repeated operation id that was already recorded changes neither the
\* record nor the table (docs/architecture.md, invariant 8).
ReplayIsInert ==
    [][\A c \in Callers :
          Served(c) /\ call[c].op # NoOp /\ ops[call[c].op] # "none"
          => UNCHANGED <<claim, ops>>]_vars
=============================================================================
