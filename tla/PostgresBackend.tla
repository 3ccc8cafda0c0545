-------------------------- MODULE PostgresBackend --------------------------
(***************************************************************************)
(* backend/postgres: one claim row and the table of operation ids.         *)
(*                                                                         *)
(* Every call is a READ COMMITTED transaction.  It looks its operation id  *)
(* up, reads the row with SELECT ... FOR UPDATE, which waits for the row's *)
(* lock, applies the expiry, decides, writes and commits.  Only successes, *)
(* ErrClaimHeld and ErrTokenOverflow are committed; every other answer     *)
(* rolls back.  Time is the client's: Skew[c] is how far caller c's clock  *)
(* is ahead, and left is the distance to expires_at on a true clock.       *)
(*                                                                         *)
(* The transitions are those of ClaimRecord, on the row as the caller's    *)
(* clock shows it: here a lease ends when now = ExpiresAt.                 *)
(***************************************************************************)
EXTENDS BackendRequests

CONSTANTS
    Asked,          \* the requests that are made
    Callers,        \* clients with a transaction of their own
    Skew,           \* caller -> lead of its clock
    MaxSkew,        \* bound on every lead, either way
    ReasonDefault   \* default of the column reason: "null" (Migrate) or "text"

AskedAssumption == Asked \subseteq Requests
SkewAssumption ==
    MaxSkew \in Nat /\ Skew \in [Callers -> -MaxSkew..MaxSkew]
ReasonAssumption == ReasonDefault \in {"null", "text"}

VARIABLES
    row,        \* the committed row; phase "absent" when there is none
    ops,        \* committed operation id -> recorded error, or "none"
    tx,         \* caller -> its transaction
    granted,    \* history: every <<token, generation>> granted
    won         \* history: operation id -> tokens its calls were granted

vars == <<row, ops, tx, granted, won>>

Idle == [pc |-> "idle", req |-> NoCall, out |-> Done(AbsentRecord)]

Recorded == {"ok", "ErrClaimHeld", "ErrTokenOverflow"}

TypeOK ==
    /\ row \in Records
    /\ ops \in [OpIds -> Recorded \cup {"none"}]
    /\ \A c \in Callers :
          /\ tx[c].pc \in {"idle", "recalled", "inserting", "executed"}
          /\ tx[c].req \in Requests \cup {NoCall}
          /\ tx[c].out \in [claim : Records, err : Errors]
    /\ granted \subseteq Nat \X Gens
    /\ won \in [OpIds -> SUBSET Nat]

Init ==
    /\ row = AbsentRecord
    /\ ops = [o \in OpIds |-> "none"]
    /\ tx = [c \in Callers |-> Idle]
    /\ granted = {}
    /\ won = [o \in OpIds |-> {}]

-----------------------------------------------------------------------------
(* The row as caller c's clock shows it, and back.                         *)

ClientView(c, r) == [r EXCEPT !.left = @ - Skew[c] - 1]

Stored(c, o) == [o EXCEPT !.claim.left = @ + Skew[c] + 1]

\* The row the INSERT of a new claim leaves.
InsertedRow == [AbsentRecord EXCEPT !.phase = "unowned"]

AcquireTx(c, q, r) == Stored(c, AcquireClaim(ClientView(c, r), q.gen, q.ttl - 1))

RenewTx(c, q, r) ==
    Stored(c, RenewClaim(ClientView(c, r), q.gen, q.token, q.ttl - 1))

PrepareTx(c, q, r) ==
    Stored(c, PrepareTransfer(ClientView(c, r), q.gen, q.to, q.token, q.ttl - 1))

\* Faulty: a second commit needs no reservation.
CommitTxUnreserved(c, q, r) ==
    IF r.token # q.token THEN Fail(r, "ErrStaleToken")
    ELSE Stored(c, Done([ClientView(c, r) EXCEPT
            !.owner = q.to, !.token = @ + 1, !.phase = "owned",
            !.pending = NoGen, !.left = q.ttl - 1]))

CommitTx(c, q, r) ==
    Stored(c, CommitTransfer(ClientView(c, r), q.gen, q.to, q.token, q.ttl - 1))

AbortTx(c, q, r) == Stored(c, AbortTransfer(ClientView(c, r), q.gen, q.token))

ReleaseTx(c, q, r) == Stored(c, ReleaseClaim(ClientView(c, r), q.gen, q.token))

Handler(c, q, r) ==
    CASE q.kind = "acquire" -> AcquireTx(c, q, r)
      [] q.kind = "renew"   -> RenewTx(c, q, r)
      [] q.kind = "prepare" -> PrepareTx(c, q, r)
      [] q.kind = "commit"  -> CommitTx(c, q, r)
      [] q.kind = "abort"   -> AbortTx(c, q, r)
      [] q.kind = "release" -> ReleaseTx(c, q, r)

-----------------------------------------------------------------------------

recallOp(op) == op # NoOp /\ ops[op] # "none"

\* ON CONFLICT DO NOTHING: the first committed result stays.
storeOp(op, err) ==
    IF op # NoOp /\ ops[op] = "none" THEN [ops EXCEPT ![op] = err] ELSE ops

\* A call starts: an operation id that is already committed is answered from
\* the table, which changes nothing; otherwise the transaction goes on.
Begin(c, q) ==
    /\ tx[c] = Idle
    /\ ~recallOp(q.op)
    /\ tx' = [tx EXCEPT ![c].pc = "recalled", ![c].req = q]
    /\ UNCHANGED <<row, ops, granted, won>>

\* The other transaction that has written the row, or inserted it, and not
\* committed yet.
Writing(c) == \E d \in Callers \ {c} : tx[d].pc = "executed"

\* The handler ran on row r: its writes wait for the commit, or it returned
\* an error and was rolled back.
Execute(c, r) ==
    LET o == Handler(c, tx[c].req, r) IN
    /\ tx' = [tx EXCEPT ![c] = IF o.err \in Recorded
                               THEN [@ EXCEPT !.pc = "executed", !.out = o]
                               ELSE Idle]
    /\ UNCHANGED <<row, ops, granted, won>>

\* Faulty: a plain SELECT, which does not wait for the row's lock.
SelectWithoutLock(c) ==
    /\ tx[c].pc = "recalled"
    /\ row.phase # "absent"
    /\ Execute(c, row)

\* SELECT ... FOR UPDATE finds the row, once no other transaction holds it.
SelectForUpdate(c) ==
    /\ tx[c].pc = "recalled"
    /\ row.phase # "absent"
    /\ ~Writing(c)
    /\ Execute(c, row)

\* The row is not visible.  AcquireClaim inserts it; a concurrent insertion
\* makes it wait.  Every other call reports ErrClaimNotFound.
SelectNoRow(c) ==
    /\ tx[c].pc = "recalled"
    /\ row.phase = "absent"
    /\ tx' = [tx EXCEPT ![c] = IF @.req.kind = "acquire"
                               THEN [@ EXCEPT !.pc = "inserting"]
                               ELSE Idle]
    /\ UNCHANGED <<row, ops, granted, won>>

\* scanClaim reads the inserted row into Go strings and fails on a NULL.
InsertClaim(c) ==
    /\ tx[c].pc = "inserting"
    /\ row.phase = "absent"
    /\ ~Writing(c)
    /\ IF ReasonDefault = "null"
       THEN /\ tx' = [tx EXCEPT ![c] = Idle]
            /\ UNCHANGED <<row, ops, granted, won>>
       ELSE Execute(c, InsertedRow)

\* The INSERT waited for another one that was committed: duplicate key.
InsertDuplicate(c) ==
    /\ tx[c].pc = "inserting"
    /\ row.phase # "absent"
    /\ tx' = [tx EXCEPT ![c] = Idle]
    /\ UNCHANGED <<row, ops, granted, won>>

\* Commit, whether or not the client gets to know of it.
Commit(c) ==
    LET new == tx[c].out.claim
        op  == tx[c].req.op IN
    /\ tx[c].pc = "executed"
    /\ row' = new
    /\ ops' = storeOp(op, tx[c].out.err)
    /\ granted' = granted \cup {p \in {<<new.token, new.owner>>} : p[2] # NoGen}
    /\ won' = IF op # NoOp /\ tx[c].out.err = "ok"
              THEN [won EXCEPT ![op] = @ \cup {new.token}] ELSE won
    /\ tx' = [tx EXCEPT ![c] = Idle]

\* A lost connection, a canceled context, a failed commit or the client's
\* death ends the transaction without a trace.
Rollback(c) ==
    /\ tx[c] # Idle
    /\ tx' = [tx EXCEPT ![c] = Idle]
    /\ UNCHANGED <<row, ops, granted, won>>

\* GetClaim commits the expiry it sees.
GetClaim(c) ==
    /\ row.phase # "absent"
    /\ ~\E d \in Callers : tx[d].pc = "executed"
    /\ row' = Stored(c, Done(expireLocked(ClientView(c, row)))).claim
    /\ UNCHANGED <<ops, tx, granted, won>>

TickLeft(left) == IF left <= -MaxSkew THEN left ELSE left - 1

\* Time passes.  At -MaxSkew the lease is over on every clock.
Tick ==
    /\ row' = [row EXCEPT !.left = TickLeft(@)]
    /\ tx' = [c \in Callers |->
                 IF tx[c].pc = "executed"
                 THEN [tx[c] EXCEPT !.out.claim.left = TickLeft(@)]
                 ELSE tx[c]]
    /\ UNCHANGED <<ops, granted, won>>

\* A client makes its next statement, which goes through.
Statement(c) ==
    \/ \E q \in Asked : Begin(c, q)
    \/ SelectForUpdate(c)
    \/ SelectNoRow(c)
    \/ InsertClaim(c)
    \/ InsertDuplicate(c)
    \/ Commit(c)
    \/ GetClaim(c)

\* What happens while no connection fails.
Undisturbed == Tick \/ \E c \in Callers : Statement(c)

Next == Undisturbed \/ \E c \in Callers : Rollback(c)

Spec == Init /\ [][Next]_vars

-----------------------------------------------------------------------------
(* What the store promises.                                                *)

F == INSTANCE FencedClaim WITH owner <- row.owner, token <- row.token

\* Whatever the clients' clocks show and wherever a transaction is cut off,
\* the row is a fenced claim: one owner at a time and a new, larger token for
\* each ownership (docs/architecture.md, invariants 1 and 2).
ImplementsFencedClaim == F!FSpec

\* The call of caller c is committed in this step.
Committed(c) == tx[c].pc = "executed" /\ tx'[c] = Idle /\ row' = tx[c].out.claim

\* The owner gives the claim up itself, under the current token.
GivenUp(c) ==
    /\ tx[c].req.kind \in {"release", "commit"}
    /\ tx[c].req.gen = row.owner
    /\ tx[c].req.token = row.token

\* A generation loses a claim only by its own release or commit, or to a
\* client on whose clock the lease has run out: no delayed transaction of an
\* earlier epoch takes it away (FOR UPDATE in getClaimForUpdate).
OwnerLosesOnlyLapsed ==
    row.owner # NoGen /\ <<row.owner, row.token>> # <<row'.owner, row'.token>>
    => \E c \in Callers :
          \/ Committed(c) /\ GivenUp(c)
          \/ ClientView(c, row).left < 0

\* The lease ends by the timestamps of the database, not of whoever asks
\* (docs/clock-safety.md: "Lease expiry is determined by backend timestamps").
\* The code does not keep this (README, Disagreements).
LeaseEndsOnBackendClock ==
    row.owner # NoGen /\ row.left > 0
       /\ <<row.owner, row.token>> # <<row'.owner, row'.token>>
    => \E c \in Callers : Committed(c) /\ GivenUp(c)

\* Calls with one operation id are granted one token (capabilities.go).
\* The code does not keep this (README, Disagreements).
OperationGrantsOnce == \A o \in OpIds : \A t, u \in won[o] : t = u

-----------------------------------------------------------------------------
(* What the liveness properties of the runs speak of.                       *)

\* Somebody has been granted the claim.
EverOwned == granted # {}

-----------------------------------------------------------------------------
(* Proofs.                                                                  *)

\* A transaction of client c that has executed: committed on the row as it is, its writes
\* are a good step, and they take the claim from its owner only if the owner asked for it
\* or the lease has run out on the client's clock.
Ready(c, t) ==
    /\ t.out.err \in Recorded
    /\ Good(row, t.out.claim) /\ t.out.claim.phase # "absent"
    /\ \/ SameEpoch(row, t.out.claim) \/ row.owner = NoGen
       \/ GivesUp(t.req, row) \/ row.left - Skew[c] - 1 < 0

Transactions ==
    [pc : {"idle", "recalled", "inserting", "executed"},
     req : Requests \cup {NoCall}, out : [claim : Records, err : Errors]]

\* The inductive invariant: at most one transaction has executed, since SELECT ... FOR
\* UPDATE and INSERT wait for it, and nothing but time changes the row until it ends.
RowInv ==
    /\ row \in Records /\ Consistent(row) /\ Covered(row, granted)
    /\ row.phase = "absent" => row.token = 0
    /\ ops \in [OpIds -> Recorded \cup {"none"}] /\ won \in [OpIds -> SUBSET Nat]
    /\ tx \in [Callers -> Transactions]
    /\ \A c \in Callers :
          /\ tx[c].pc # "idle" => tx[c].req \in Requests
          /\ tx[c].pc = "executed" => Ready(c, tx[c])
          /\ \A d \in Callers : tx[c].pc = "executed" /\ tx[d].pc = "executed" => c = d

\* A request that a transaction serves.
LEMMA RequestTyped ==
  ASSUME NEW q \in Requests
  PROVE  Request(q, q.ttl - 1) /\ q.op \in OpIds \cup {NoOp}
<1>1. /\ q.kind \in {"acquire", "renew", "prepare", "commit", "abort", "release"}
      /\ q.gen \in Gens /\ q.op \in OpIds \cup {NoOp}
      /\ q.kind \in {"prepare", "commit"} => q.to \in Gens
      /\ q.kind \notin {"abort", "release"} => q.ttl \in TTLs
  BY DEF Requests, AcquireRequests, RenewRequests, TransferRequests,
         CommitRequests, AbortRequests, ReleaseRequests
<1>2. \A t \in TTLs : t - 1 \in Int
  BY TTLAssumption
<1> QED
  BY <1>1, <1>2, Zenon DEF Request

\* What the handler of a request makes of a row.
LEMMA HandlerGood ==
  ASSUME SkewAssumption, NEW c \in Callers, NEW q \in Requests, NEW r \in Records, Consistent(r),
         r.phase # "absent"
  PROVE  LET o == Handler(c, q, r)
         IN  /\ o \in [claim : Records, err : Errors]
             /\ Good(r, o.claim) /\ o.claim.phase # "absent"
             /\ \/ SameEpoch(r, o.claim) \/ r.owner = NoGen
                \/ GivesUp(q, r) \/ r.left - Skew[c] - 1 < 0
<1> DEFINE w == ClientView(c, r)
           h == Handled(w, q, q.ttl - 1)
           o == Handler(c, q, r)
<1>1. Skew[c] \in Int /\ r.left \in Int
  BY DEF SkewAssumption, Records
<1>2. w = [r EXCEPT !.left = r.left - Skew[c] - 1] /\ r.left - Skew[c] - 1 \in Int
  BY <1>1 DEF ClientView, Records
<1>3. /\ Alike(r, w) /\ w.left = r.left - Skew[c] - 1
      /\ w \in Records /\ Consistent(w)
  BY <1>2, AlikeLeft, AlikeConsistent
<1>4. Request(q, q.ttl - 1)
  BY RequestTyped
<1>5. /\ h = [claim |-> h.claim, err |-> h.err] /\ h.err \in Errors
      /\ Good(w, h.claim) /\ h.claim.phase # "absent"
  BY <1>3, <1>4, HandledRecord, HandledGood, HandledPresent DEF Alike
<1>6. SameEpoch(w, h.claim) \/ w.owner = NoGen \/ GivesUp(q, w) \/ w.left < 0
  BY <1>1, <1>3, <1>4, HandledKeeps
<1>7. o = Stored(c, h)
  BY <1>4 DEF Handler, AcquireTx, RenewTx, PrepareTx, CommitTx, AbortTx,
         ReleaseTx, Handled, Request
<1> HIDE DEF w, h, o
<1>8. h.claim \in Records /\ h.claim.left + Skew[c] + 1 \in Int
  BY <1>1, <1>5 DEF Good, Records
<1>9. o = [claim |-> [h.claim EXCEPT !.left = h.claim.left + Skew[c] + 1], err |-> h.err]
  BY <1>5, <1>7, <1>8 DEF Stored, Records
<1>10. Alike(h.claim, o.claim) /\ o.err = h.err
  BY <1>8, <1>9, AlikeLeft
<1>11. Good(r, o.claim)
  BY <1>3, <1>5, <1>10, AlikeGood
  DEF Alike, SameEpoch
<1>12. o \in [claim : Records, err : Errors] /\ o.claim.phase # "absent"
  BY <1>5, <1>9, <1>10 DEF Alike
<1> QED
  BY <1>3, <1>6, <1>10, <1>11, <1>12 DEF Alike, SameEpoch, GivesUp, o

\* What every step has to do: keep the invariant, be a step of the fenced claim, and take
\* the claim from nobody whose lease is live on the clock of whoever takes it.
Sound == RowInv' /\ FencedStore(row, row', granted, granted') /\ OwnerLosesOnlyLapsed

\* A transaction goes on, or ends, without having executed.
LEMMA MoveSound ==
  ASSUME RowInv, NEW c \in Callers, NEW t \in Transactions, t.pc # "executed",
         t.pc # "idle" => t.req \in Requests, tx' = [tx EXCEPT ![c] = t],
         UNCHANGED <<row, ops, granted, won>>
  PROVE  Sound
<1>1. tx \in [Callers -> Transactions]
  BY DEF RowInv
<1>2. tx' \in [Callers -> Transactions] /\ tx'[c] = t /\ \A d \in Callers \ {c} : tx'[d] = tx[d]
  BY <1>1
<1>3. RowInv'
  BY <1>2 DEF RowInv, Ready
<1> QED
  BY <1>3 DEF Sound, FencedStore, OwnerLosesOnlyLapsed

\* What a transaction is while it is idle.
LEMMA IdleTyped == Idle \in Transactions /\ Idle.pc = "idle"
<1>1. AbsentRecord \in Records
  BY AbsentRecordGood
<1> QED
  BY <1>1 DEF Idle, Transactions, Done, Errors

\* A transaction executes on row r, the committed one or the one it has inserted, while no
\* other holds the row.
LEMMA ExecuteSound ==
  ASSUME SkewAssumption, RowInv, NEW c \in Callers, NEW r \in Records, Consistent(r),
         r.phase # "absent", SameEpoch(r, row), r = row \/ row.owner = NoGen,
         tx[c].pc # "idle", ~Writing(c), Execute(c, r)
  PROVE  Sound
<1> DEFINE o == Handler(c, tx[c].req, r)
           t == [tx[c] EXCEPT !.pc = "executed", !.out = o]
<1>1. tx \in [Callers -> Transactions] /\ tx[c].req \in Requests
  BY DEF RowInv
<1>2. /\ o \in [claim : Records, err : Errors]
      /\ Good(r, o.claim) /\ o.claim.phase # "absent"
      /\ \/ SameEpoch(r, o.claim) \/ r.owner = NoGen
         \/ GivesUp(tx[c].req, r) \/ r.left - Skew[c] - 1 < 0
  BY <1>1, HandlerGood
<1>3. /\ tx' = [tx EXCEPT ![c] = IF o.err \in Recorded THEN t ELSE Idle]
      /\ UNCHANGED <<row, ops, granted, won>>
  BY DEF Execute
<1> HIDE DEF o
<1>4. CASE o.err \notin Recorded
  <2>1. tx' = [tx EXCEPT ![c] = Idle]
    BY <1>3, <1>4
  <2> QED
    BY <1>3, <2>1, MoveSound, IdleTyped, Zenon
<1>5. CASE o.err \in Recorded
  <2>1. tx' = [tx EXCEPT ![c] = t]
    BY <1>3, <1>5
  <2>2. t \in Transactions /\ t.pc = "executed" /\ t.req = tx[c].req /\ t.out = o
    BY <1>1, <1>2, Zenon DEF Transactions
  <2>3. Good(row, o.claim)
    BY <1>2 DEF Good, FencedStep, SameEpoch
  <2>4. Ready(c, t)
    BY <1>2, <1>5, <2>2, <2>3 DEF Ready, SameEpoch
  <2> HIDE DEF t
  <2>5. tx' \in [Callers -> Transactions] /\ tx'[c] = t /\ \A d \in Callers \ {c} : tx'[d] = tx[d]
    BY <1>1, <2>1, <2>2
  <2>6. RowInv'
    BY <1>1, <1>3, <2>2, <2>4, <2>5 DEF RowInv, Ready, Writing
  <2> QED
    BY <1>3, <2>6 DEF Sound, FencedStore, OwnerLosesOnlyLapsed
<1> QED
  BY <1>4, <1>5

\* The transaction that has executed commits.
LEMMA CommitSound ==
  ASSUME SkewAssumption, RowInv, NEW c \in Callers, Commit(c)
  PROVE  Sound
<1> DEFINE new == tx[c].out.claim
           op == tx[c].req.op
<1>1. /\ tx \in [Callers -> Transactions] /\ tx[c].req \in Requests /\ Ready(c, tx[c])
      /\ row \in Records /\ Covered(row, granted)
  BY DEF RowInv, Commit
<1>2. /\ new \in Records /\ Consistent(new) /\ FencedStep(row, new)
      /\ new.phase # "absent" /\ tx[c].out.err \in Recorded
  BY <1>1 DEF Ready, Good
<1>3. op \in OpIds \cup {NoOp}
  BY <1>1, RequestTyped
<1>4. row' = new /\ granted' = granted \cup GrantOf(new) /\ tx' = [tx EXCEPT ![c] = Idle]
  BY DEF Commit, GrantOf
<1>5. Covered(row', granted') /\ FencedStore(row, row', granted, granted')
  BY <1>1, <1>2, <1>4, StoreGranted
<1>6. ops' \in [OpIds -> Recorded \cup {"none"}] /\ won' \in [OpIds -> SUBSET Nat]
  <2>1. /\ ops' = ops \/ (op \in OpIds /\ ops' = [ops EXCEPT ![op] = tx[c].out.err])
        /\ won' = won \/ (op \in OpIds /\ won' = [won EXCEPT ![op] = @ \cup {new.token}])
    BY <1>3 DEF Commit, storeOp
  <2>2. new.token \in Nat /\ ops \in [OpIds -> Recorded \cup {"none"}]
        /\ won \in [OpIds -> SUBSET Nat]
    BY <1>2 DEF Records, RowInv
  <2> HIDE DEF op, new
  <2> QED
    BY <1>2, <2>1, <2>2
<1>7. /\ tx' \in [Callers -> Transactions] /\ tx'[c] = Idle
      /\ \A d \in Callers \ {c} : tx'[d] = tx[d] /\ tx[d].pc # "executed"
  BY <1>1, <1>4, IdleTyped DEF RowInv, Commit
<1>8. RowInv'
  BY <1>2, <1>4, <1>5, <1>6, <1>7, IdleTyped DEF RowInv
<1>9. OwnerLosesOnlyLapsed
  <2>1. row.left \in Int /\ Skew[c] \in Int
    BY <1>1 DEF SkewAssumption, Records
  <2>2. ClientView(c, row).left = row.left - Skew[c] - 1
    BY <1>1, <2>1 DEF ClientView, Records
  <2>3. Committed(c)
    BY <1>4, <1>7 DEF Committed, Commit
  <2> QED
    BY <1>1, <1>4, <2>2, <2>3
    DEF Ready, OwnerLosesOnlyLapsed, GivenUp, GivesUp, SameEpoch
<1> QED
  BY <1>5, <1>8, <1>9 DEF Sound

\* GetClaim writes the expiry that it sees, while no transaction has executed.
LEMMA GetClaimSound ==
  ASSUME SkewAssumption, RowInv, NEW c \in Callers, GetClaim(c)
  PROVE  Sound
<1> DEFINE w == ClientView(c, row)
           e == expireLocked(w)
<1>1. /\ row \in Records /\ Consistent(row) /\ Covered(row, granted)
      /\ row.left \in Int /\ Skew[c] \in Int
  BY DEF SkewAssumption, Records, RowInv
<1>2. w = [row EXCEPT !.left = row.left - Skew[c] - 1] /\ row.left - Skew[c] - 1 \in Int
  BY <1>1 DEF ClientView, Records
<1>3. /\ Alike(row, w) /\ w \in Records /\ Consistent(w)
      /\ w.left = row.left - Skew[c] - 1
  BY <1>1, <1>2, AlikeLeft, AlikeConsistent
<1> HIDE DEF w
<1>4. /\ e \in Records /\ Consistent(e) /\ e.token = row.token
      /\ e.owner = row.owner \/ (e.owner = NoGen /\ w.left < 0)
  <2>1. /\ e \in Records /\ Consistent(e) /\ e.token = w.token
        /\ e.owner \in {w.owner, NoGen}
    BY <1>3, ExpireGood
  <2>2. e.owner = w.owner \/ w.left < 0
    BY DEF expireLocked, Lapsed
  <2> QED
    BY <1>3, <2>1, <2>2 DEF Alike, SameEpoch
<1>5. /\ row' = Stored(c, Done(e)).claim /\ row.phase # "absent"
      /\ UNCHANGED <<ops, tx, granted, won>> /\ \A d \in Callers : tx[d].pc # "executed"
  BY DEF GetClaim, w
<1>6. e.phase # "absent"
  BY <1>3, <1>5 DEF expireLocked, Vacate, Alike, Records
<1> HIDE DEF e
<1>7. row' = [e EXCEPT !.left = e.left + Skew[c] + 1] /\ e.left + Skew[c] + 1 \in Int
  BY <1>1, <1>4, <1>5 DEF Stored, Done, Records
<1>8. Alike(e, row')
  BY <1>4, <1>7, AlikeLeft
<1>9. /\ row' \in Records /\ Consistent(row') /\ row'.phase # "absent"
      /\ row'.token = row.token /\ row'.owner = e.owner /\ FencedStep(row, row')
  BY <1>4, <1>6, <1>8 DEF Alike, SameEpoch, Consistent, FencedStep
<1>10. Covered(row', granted') /\ FencedStore(row, row', granted, granted')
  BY <1>1, <1>5, <1>9, StoreGranted
<1>11. RowInv'
  BY <1>5, <1>9, <1>10 DEF RowInv
<1>12. OwnerLosesOnlyLapsed
  BY <1>4, <1>9 DEF OwnerLosesOnlyLapsed, w
<1> QED
  BY <1>10, <1>11, <1>12 DEF Sound

\* Time passes for the row and for what waits to be committed.
LEMMA TickSound ==
  ASSUME SkewAssumption, RowInv, Tick
  PROVE  Sound
<1>1. /\ row \in Records /\ Consistent(row) /\ Covered(row, granted)
      /\ row.left \in Int /\ MaxSkew \in Nat /\ tx \in [Callers -> Transactions]
  BY DEF SkewAssumption, Records, RowInv
<1>2. \A n \in Int : TickLeft(n) \in Int /\ TickLeft(n) <= n
  BY <1>1 DEF TickLeft
<1>3. row' = [row EXCEPT !.left = TickLeft(row.left)] /\ UNCHANGED <<ops, granted, won>>
  BY <1>1 DEF Tick, Records
<1>4. Alike(row, row') /\ row'.left <= row.left
  BY <1>1, <1>2, <1>3, AlikeLeft
<1>5. Covered(row', granted') /\ FencedStore(row, row', granted, granted')
  BY <1>1, <1>3, <1>4 DEF Covered, FencedStore, Alike, SameEpoch
<1>6. ASSUME NEW c \in Callers
      PROVE  /\ tx'[c] \in Transactions /\ tx'[c].pc = tx[c].pc /\ tx'[c].req = tx[c].req
             /\ tx'[c].out.err = tx[c].out.err
             /\ tx[c].pc = "executed" => Alike(tx[c].out.claim, tx'[c].out.claim)
  <2>1. CASE tx[c].pc # "executed"
    BY <1>1, <2>1 DEF Tick
  <2>2. CASE tx[c].pc = "executed"
    <3> DEFINE t == tx[c]
               s == t.out.claim
    <3>1. t \in Transactions /\ s \in Records /\ s.left \in Int
      BY <1>1 DEF Transactions, Records
    <3>2. tx'[c] = [t EXCEPT !.out.claim.left = TickLeft(@)]
      BY <2>2 DEF Tick
    <3> HIDE DEF t
    <3>3. tx'[c] = [pc |-> t.pc, req |-> t.req,
                    out |-> [claim |-> [s EXCEPT !.left = TickLeft(s.left)],
                             err |-> t.out.err]]
      BY <3>1, <3>2 DEF Transactions, Records
    <3>4. Alike(s, [s EXCEPT !.left = TickLeft(s.left)])
      BY <1>2, <3>1, AlikeLeft
    <3>5. tx'[c].out.claim = [s EXCEPT !.left = TickLeft(s.left)]
      BY <3>3
    <3> HIDE DEF s
    <3>6. tx'[c] \in Transactions /\ tx'[c].out.err = t.out.err
      BY <3>1, <3>3, <3>4 DEF Transactions, Alike
    <3> QED
      BY <3>3, <3>4, <3>5, <3>6 DEF t, s
  <2> QED
    BY <2>1, <2>2
<1>7. ASSUME NEW c \in Callers, tx[c].pc = "executed"
      PROVE  Ready(c, tx[c])'
  <2>1. Ready(c, tx[c]) /\ Skew[c] \in Int /\ row'.left \in Int
    BY <1>3, <1>4, <1>7 DEF RowInv, SkewAssumption, Alike, Records
  <2>2. /\ Good(row', tx'[c].out.claim)
        /\ SameEpoch(row, row') /\ SameEpoch(tx[c].out.claim, tx'[c].out.claim)
        /\ tx'[c].out.claim.phase # "absent"
    BY <1>4, <1>6, <1>7, <2>1, AlikeGood
    DEF Ready, Alike
  <2>3. row.left - Skew[c] - 1 < 0 => row'.left - Skew[c] - 1 < 0
    BY <1>1, <1>4, <2>1
  <2> QED
    BY <1>6, <2>1, <2>2, <2>3 DEF Ready, SameEpoch, GivesUp
<1>8. tx' \in [Callers -> Transactions]
  BY <1>6, Zenon DEF Tick
<1>9. RowInv'
  BY <1>1, <1>3, <1>4, <1>5, <1>6, <1>7, <1>8
  DEF RowInv, Alike, SameEpoch, Consistent
<1>10. OwnerLosesOnlyLapsed
  BY <1>4 DEF OwnerLosesOnlyLapsed, Alike, SameEpoch
<1> QED
  BY <1>5, <1>9, <1>10 DEF Sound

\* Every step is sound.
LEMMA StepSound ==
  ASSUME AskedAssumption, SkewAssumption, RowInv, [Next]_vars
  PROVE  Sound
<1>0. /\ row \in Records /\ tx \in [Callers -> Transactions] /\ Consistent(row)
      /\ \A c \in Callers : tx[c].pc # "idle" => tx[c].req \in Requests
      /\ row.phase = "absent" => row.token = 0
  BY DEF RowInv
<1>1. ASSUME NEW c \in Callers, NEW q \in Asked, Begin(c, q) PROVE Sound
  <2> DEFINE t == [tx[c] EXCEPT !.pc = "recalled", !.req = q]
  <2>1. q \in Requests /\ tx' = [tx EXCEPT ![c] = t] /\ UNCHANGED <<row, ops, granted, won>>
    BY <1>0, <1>1, Zenon DEF AskedAssumption, Begin
  <2>2. t \in Transactions /\ t.pc = "recalled" /\ t.req = q
    BY <1>0, <2>1, Zenon DEF Transactions
  <2> HIDE DEF t
  <2> QED
    BY <2>1, <2>2, MoveSound, Zenon
<1>2. ASSUME NEW c \in Callers, SelectForUpdate(c) PROVE Sound
  BY <1>0, <1>2, ExecuteSound DEF SelectForUpdate, SameEpoch
<1>3. ASSUME NEW c \in Callers,
             SelectNoRow(c) \/ InsertDuplicate(c) \/ Rollback(c)
      PROVE  Sound
  <2> DEFINE t == [tx[c] EXCEPT !.pc = "inserting"]
  <2>1. /\ tx' = [tx EXCEPT ![c] = Idle] \/ (tx[c].pc = "recalled" /\ tx' = [tx EXCEPT ![c] = t])
        /\ UNCHANGED <<row, ops, granted, won>>
    BY <1>0, <1>3 DEF SelectNoRow, InsertDuplicate, Rollback
  <2>2. tx[c].pc = "recalled" => t \in Transactions /\ t.pc = "inserting" /\ t.req \in Requests
    BY <1>0 DEF Transactions
  <2> HIDE DEF t
  <2> QED
    BY <2>1, <2>2, MoveSound, IdleTyped
<1>4. ASSUME NEW c \in Callers, InsertClaim(c) PROVE Sound
  <2>1. CASE ReasonDefault = "null"
    BY <1>4, <2>1, MoveSound, IdleTyped DEF InsertClaim
  <2>2. CASE ReasonDefault # "null"
    <3>1. /\ InsertedRow \in Records /\ Consistent(InsertedRow)
          /\ InsertedRow.phase = "unowned" /\ InsertedRow.owner = NoGen
          /\ InsertedRow.token = 0
      BY AbsentRecordGood DEF InsertedRow, AbsentRecord, Records, Consistent, HeldPhases, Phases
    <3>2. /\ row.phase = "absent" /\ tx[c].pc = "inserting" /\ ~Writing(c)
          /\ Execute(c, InsertedRow)
      BY <1>4, <2>2 DEF InsertClaim
    <3>3. row.owner = NoGen /\ row.token = 0
      BY <1>0, <3>2 DEF Consistent, HeldPhases
    <3> QED
      BY <3>1, <3>2, <3>3, ExecuteSound DEF SameEpoch
  <2> QED
    BY <2>1, <2>2
<1>5. CASE UNCHANGED vars
  BY <1>5 DEF vars, RowInv, Ready, Sound, FencedStore, OwnerLosesOnlyLapsed
<1> QED
  BY <1>1, <1>2, <1>3, <1>4, <1>5, CommitSound, GetClaimSound, TickSound
  DEF Next, Undisturbed, Statement

\* At first there is no row and no transaction.
LEMMA InitSound == Init => RowInv /\ F!FInit
<1> SUFFICES ASSUME Init PROVE RowInv /\ F!FInit
  OBVIOUS
<1>1. /\ row \in Records /\ Consistent(row) /\ Covered(row, granted) /\ row.token = 0
      /\ row.owner = NoGen
  BY AbsentRecordGood, NothingGranted DEF Init, AbsentRecord
<1>2. tx \in [Callers -> Transactions] /\ \A c \in Callers : tx[c].pc = "idle"
  BY IdleTyped DEF Init
<1>3. ops \in [OpIds -> Recorded \cup {"none"}] /\ won \in [OpIds -> SUBSET Nat]
  BY DEF Init
<1> QED
  BY <1>1, <1>2, <1>3 DEF RowInv, F!FInit, Init

\* A sound step is one of the fenced claim.
LEMMA SoundFenced == Sound => [F!FNext]_(F!fvars) /\ OwnerLosesOnlyLapsed
  BY DEF Sound, FencedStore, F!FNext, F!Grant, F!Lose, F!fvars

\* So the invariant holds at first, every step keeps it and is one of a fenced claim that
\* nobody loses before the lease has lapsed, and it includes the types.
LEMMA RowKept ==
  ASSUME AskedAssumption, SkewAssumption
  PROVE  /\ Init => RowInv /\ F!FInit
         /\ RowInv /\ [Next]_vars => RowInv' /\ [F!FNext]_(F!fvars) /\ OwnerLosesOnlyLapsed
         /\ RowInv => TypeOK
<1>1. RowInv => TypeOK
  BY DEF RowInv, TypeOK, Transactions, Covered
<1> QED
  BY <1>1, InitSound, StepSound, SoundFenced DEF Sound

\* For any clients, clocks, requests and order of statements, lost connections included,
\* the row, the tables and the transactions keep to their types (backend/postgres).
THEOREM TypeCorrect == ASSUME AskedAssumption, SkewAssumption PROVE Spec => []TypeOK
<1>1. RowInv /\ [Next]_vars => RowInv'
  BY StepSound DEF Sound
<1>2. RowInv => TypeOK
  BY DEF RowInv, TypeOK, Transactions, Covered
<1> QED
  BY <1>1, <1>2, InitSound, PTL DEF Spec

\* And the row is a fenced claim: one owner at a time, and a new, larger token for each
\* ownership (getClaimForUpdate holds the row while a handler decides).
THEOREM Refinement == ASSUME AskedAssumption, SkewAssumption PROVE Spec => ImplementsFencedClaim
<1>1. RowInv /\ [Next]_vars => RowInv' /\ [F!FNext]_(F!fvars)
  BY StepSound, SoundFenced DEF Sound
<1> QED
  BY <1>1, InitSound, PTL DEF Spec, ImplementsFencedClaim, F!FSpec

\* A generation loses a claim only by its own release or commit, or to a client on whose
\* clock the lease has run out (requests that were delayed included).
THEOREM LosesOnlyLapsed ==
  ASSUME AskedAssumption, SkewAssumption PROVE Spec => [][OwnerLosesOnlyLapsed]_vars
<1>1. RowInv /\ [Next]_vars => RowInv' /\ [OwnerLosesOnlyLapsed]_vars
  BY StepSound DEF Sound
<1> QED
  BY <1>1, InitSound, PTL DEF Spec
=============================================================================
