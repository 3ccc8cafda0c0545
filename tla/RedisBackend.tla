---------------------------- MODULE RedisBackend ----------------------------
(***************************************************************************)
(* backend/redis: calls to one claim on a Redis server.                    *)
(*                                                                         *)
(* A call reads its operation id with GET, runs its script with EVAL and   *)
(* writes the outcome under its operation id with SET: three round trips,  *)
(* each of which may fail, with other calls and expiry in between.  A      *)
(* failed GET counts as "not recorded" and a failed SET is ignored.        *)
(***************************************************************************)
EXTENDS BackendRequests, TLAPS

CONSTANTS
    Asked,          \* the requests that are made
    Callers,
    LuaMaxExact,    \* the largest token a double counts to (2^53)
    TokenBound      \* acquires and commits stop at this token

AskedAssumption == Asked \subseteq Requests
\* The tokens stay where a double counts them.
ExactAssumption == TokenBound \in Nat /\ TokenBound < LuaMaxExact /\ LuaMaxExact \in Nat

-----------------------------------------------------------------------------
(* The Lua scripts, as operators from a stored record to an outcome.  Lua   *)
(* numbers are doubles: above LuaMaxExact, adding one changes nothing.      *)

\* Faulty: the token is handed on.
LuaSame(t) == IF t = 0 THEN 1 ELSE t

LuaIncrement(t) == IF t >= LuaMaxExact THEN t ELSE t + 1

\* An expired claim keeps its transfer_status.
Expired(r) ==
    [r EXCEPT !.owner = NoGen, !.pending = NoGen, !.phase = "unowned"]

\* The scripts do not compare the token with MaxSafeFencingToken.
acquireScript(s, q) ==
    LET r == IF Lapsed(s) THEN Expired(s) ELSE s IN
    IF r.phase \in HeldPhases
    THEN IF r.owner = q.gen THEN Done([r EXCEPT !.left = q.ttl])
                            ELSE Fail(s, "ErrClaimHeld")
    ELSE Done([owner |-> q.gen, token |-> LuaIncrement(r.token),
               phase |-> "owned", pending |-> NoGen, transfer |-> "none",
               left |-> q.ttl])

\* Faulty: the token is not compared.
releaseUnfenced(s, q) ==
    IF s.phase = "absent" THEN Fail(s, "ErrClaimNotFound")
    ELSE IF s.owner # q.gen THEN Fail(s, "ErrNotOwner")
    ELSE Done(Vacate(s))

\* Releasing looks neither at the expiry nor at a claim already released.
releaseScript(s, q) ==
    IF s.phase = "absent" THEN Fail(s, "ErrClaimNotFound")
    ELSE IF s.token # q.token THEN Fail(s, "ErrStaleToken")
    ELSE IF s.owner # q.gen THEN Fail(s, "ErrNotOwner")
    ELSE Done(Vacate(s))

\* Preparing again for the same successor extends the reservation.
prepareScript(s, q) ==
    IF s.phase = "absent" THEN Fail(s, "ErrClaimNotFound")
    ELSE IF Lapsed(s) THEN Fail(Expired(s), "ErrNotOwner")
    ELSE IF s.owner # q.gen THEN Fail(s, "ErrNotOwner")
    ELSE IF s.token # q.token THEN Fail(s, "ErrStaleToken")
    ELSE IF s.phase = "reserved" /\ s.pending \notin {NoGen, q.to}
         THEN Fail(s, "ErrConcurrentTransfer")
    ELSE Done([s EXCEPT !.phase = "reserved", !.pending = q.to,
                        !.transfer = "prepared", !.left = q.ttl])

commitScript(s, q) ==
    IF s.phase = "absent" THEN Fail(s, "ErrClaimNotFound")
    ELSE IF Lapsed(s) THEN Fail(Expired(s), "ErrNoTransfer")
    ELSE IF s.phase # "reserved" THEN Fail(s, "ErrNoTransfer")
    ELSE IF s.owner # q.gen \/ s.pending # q.to
         THEN Fail(s, "ErrConcurrentTransfer")
    ELSE IF s.token # q.token THEN Fail(s, "ErrStaleToken")
    ELSE Done([owner |-> q.to, token |-> LuaIncrement(s.token),
               phase |-> "owned", pending |-> NoGen, transfer |-> "committed",
               left |-> q.ttl])

abortScript(s, q) ==
    IF s.phase = "absent" THEN Fail(s, "ErrClaimNotFound")
    ELSE IF s.phase = "owned" /\ s.owner = q.gen THEN Done(s)
    ELSE IF s.phase # "reserved" THEN Fail(s, "ErrNoTransfer")
    ELSE IF s.token # q.token THEN Fail(s, "ErrStaleToken")
    ELSE IF s.owner # q.gen THEN Fail(s, "ErrNotOwner")
    ELSE Done([s EXCEPT !.pending = NoGen, !.phase = "owned",
                        !.transfer = "aborted"])

\* Here expiry leaves the pending successor and does not look at the phase.
renewScript(s, q) ==
    IF s.phase = "absent" THEN Fail(s, "ErrClaimNotFound")
    ELSE IF s.left < 0
         THEN Fail([s EXCEPT !.owner = NoGen, !.phase = "unowned"], "ErrNotOwner")
    ELSE IF s.owner # q.gen THEN Fail(s, "ErrNotOwner")
    ELSE IF s.token # q.token THEN Fail(s, "ErrStaleToken")
    ELSE Done([s EXCEPT !.left = q.ttl])

Script(s, q) ==
    CASE q.kind = "acquire" -> acquireScript(s, q)
      [] q.kind = "renew"   -> renewScript(s, q)
      [] q.kind = "prepare" -> prepareScript(s, q)
      [] q.kind = "commit"  -> commitScript(s, q)
      [] q.kind = "abort"   -> abortScript(s, q)
      [] q.kind = "release" -> releaseScript(s, q)

-----------------------------------------------------------------------------
(* Local: the transitions of ClaimRecord, except that expiry, release and  *)
(* acquire leave TransferStatus, and that a lease ends at now = ExpiresAt. *)

LocalView(s) == [s EXCEPT !.left = @ - 1]

LocalOutcome(s, o) ==
    [o EXCEPT !.claim.left = @ + 1,
              !.claim.transfer = IF @ = "none" THEN s.transfer ELSE @]

LocalAcquire(s, q) ==
    LocalOutcome(s, AcquireClaim(LocalView(s), q.gen, q.ttl - 1))

LocalRenew(s, q) ==
    LocalOutcome(s, RenewClaim(LocalView(s), q.gen, q.token, q.ttl - 1))

LocalPrepare(s, q) ==
    LocalOutcome(s, PrepareTransfer(LocalView(s), q.gen, q.to, q.token, q.ttl - 1))

\* Faulty: the successor gets the token of its predecessor.
LocalCommitSameToken(s, q) ==
    LocalOutcome(s, CommitSameToken(LocalView(s), q.gen, q.to, q.token, q.ttl - 1))

LocalCommit(s, q) ==
    LocalOutcome(s, CommitTransfer(LocalView(s), q.gen, q.to, q.token, q.ttl - 1))

LocalAbort(s, q) == LocalOutcome(s, AbortTransfer(LocalView(s), q.gen, q.token))

LocalRelease(s, q) ==
    LocalOutcome(s, ReleaseClaim(LocalView(s), q.gen, q.token))

Local(s, q) ==
    CASE q.kind = "acquire" -> LocalAcquire(s, q)
      [] q.kind = "renew"   -> LocalRenew(s, q)
      [] q.kind = "prepare" -> LocalPrepare(s, q)
      [] q.kind = "commit"  -> LocalCommit(s, q)
      [] q.kind = "abort"   -> LocalAbort(s, q)
      [] q.kind = "release" -> LocalRelease(s, q)

-----------------------------------------------------------------------------

VARIABLES
    claim,      \* the record on the server
    ops,        \* operation id -> recorded error, or "none"
    call,       \* caller -> its call
    granted,    \* history: every <<token, generation>> granted
    handed,     \* history: every <<token, generation>> a commit handed over
    won         \* history: operation id -> tokens its calls were granted

vars == <<claim, ops, call, granted, handed, won>>

Idle == [pc |-> "idle", req |-> NoCall, err |-> "ok"]

TypeOK ==
    /\ claim \in Records
    /\ ops \in [OpIds -> Errors \cup {"none"}]
    /\ call \in [Callers -> [pc  : {"idle", "recalled", "checked", "evaluated"},
                             req : Requests \cup {NoCall},
                             err : Errors]]
    /\ granted \subseteq Nat \X Gens
    /\ handed \subseteq granted
    /\ won \in [OpIds -> SUBSET Nat]

Init ==
    /\ claim = AbsentRecord
    /\ ops = [o \in OpIds |-> "none"]
    /\ call = [c \in Callers |-> Idle]
    /\ granted = {}
    /\ handed = {}
    /\ won = [o \in OpIds |-> {}]

\* The id is not recorded, or reading it failed.  (An id that is read is
\* answered from the table, which changes nothing.)  Only CommitTransfer
\* looks at the claim before its script.
recallOp(c, q) ==
    /\ call[c] = Idle
    /\ call' = [call EXCEPT ![c].pc = IF q.kind = "commit" THEN "recalled"
                                                           ELSE "checked",
                            ![c].req = q]
    /\ UNCHANGED <<claim, ops, granted, handed, won>>

\* Faulty: a commit is taken for done when the successor owns the claim.
AcknowledgedByOwner(q, r) == r.phase = "owned" /\ r.owner = q.to

Acknowledged(q, r) ==
    /\ r.phase = "owned" /\ r.owner = q.to
    /\ r.token = q.token + 1 /\ r.transfer = "committed"

\* CommitTransfer reads the claim: if it shows this very transfer committed,
\* the call succeeds without a script.
GetBeforeCommit(c) ==
    /\ call[c].pc = "recalled"
    /\ call' = [call EXCEPT ![c].pc = IF Acknowledged(call[c].req, claim)
                                      THEN "evaluated" ELSE "checked"]
    /\ UNCHANGED <<claim, ops, granted, handed, won>>

\* EVAL of the script of call c with outcome o.  A call whose outcome is not
\* recorded has ended; so has one whose answer was lost.
Eval(c, kind, o, recorded, answered) ==
    LET q == call[c].req
        new == <<o.claim.token, o.claim.owner>>
        grant == o.claim.owner # NoGen /\ o.err = "ok" IN
    /\ call[c].pc = "checked" /\ q.kind = kind
    /\ kind \in {"acquire", "commit"} => claim.token < TokenBound
    /\ claim' = o.claim
    /\ granted' = IF grant THEN granted \cup {new} ELSE granted
    /\ handed' = IF grant /\ kind = "commit" THEN handed \cup {new} ELSE handed
    /\ won' = IF grant /\ q.op # NoOp
              THEN [won EXCEPT ![q.op] = @ \cup {o.claim.token}] ELSE won
    /\ call' = [call EXCEPT ![c] =
                   IF answered /\ (recorded \/ o.err = "ok")
                   THEN [@ EXCEPT !.pc = "evaluated", !.err = o.err] ELSE Idle]
    /\ UNCHANGED ops

\* Acquire, commit and release record their errors too, so that a retry is
\* answered with them; the others record successes only.
EvalAcquire(c, answered) ==
    Eval(c, "acquire", acquireScript(claim, call[c].req), TRUE, answered)

EvalRenew(c, answered) ==
    Eval(c, "renew", renewScript(claim, call[c].req), FALSE, answered)

EvalPrepare(c, answered) ==
    Eval(c, "prepare", prepareScript(claim, call[c].req), FALSE, answered)

EvalCommit(c, answered) ==
    Eval(c, "commit", commitScript(claim, call[c].req), TRUE, answered)

EvalAbort(c, answered) ==
    Eval(c, "abort", abortScript(claim, call[c].req), FALSE, answered)

EvalRelease(c, answered) ==
    Eval(c, "release", releaseScript(claim, call[c].req), TRUE, answered)

\* SET of the outcome.
storeOp(c) ==
    /\ call[c].pc = "evaluated"
    /\ ops' = IF call[c].req.op = NoOp THEN ops
              ELSE [ops EXCEPT ![call[c].req.op] = call[c].err]
    /\ call' = [call EXCEPT ![c] = Idle]
    /\ UNCHANGED <<claim, granted, handed, won>>

\* A round trip fails before it reaches the server, or the client dies.
FailCall(c) ==
    /\ call[c] # Idle
    /\ call' = [call EXCEPT ![c] = Idle]
    /\ UNCHANGED <<claim, ops, granted, handed, won>>

Tick ==
    /\ claim' = Age(claim)
    /\ UNCHANGED <<ops, call, granted, handed, won>>

Next ==
    \/ \E c \in Callers :
          \/ \E q \in Asked : recallOp(c, q)
          \/ GetBeforeCommit(c)
          \/ \E answered \in BOOLEAN :
                \/ EvalAcquire(c, answered)
                \/ EvalRenew(c, answered)
                \/ EvalPrepare(c, answered)
                \/ EvalCommit(c, answered)
                \/ EvalAbort(c, answered)
                \/ EvalRelease(c, answered)
          \/ storeOp(c)
          \/ FailCall(c)
    \/ Tick

Spec == Init /\ [][Next]_vars

-----------------------------------------------------------------------------

F == INSTANCE FencedClaim WITH owner <- claim.owner, token <- claim.token

\* The record on the server is a fenced claim, whatever round trips fail and
\* however calls interleave between them (docs/architecture.md, invariants 1
\* and 2).
ImplementsFencedClaim == F!FSpec

\* No token is granted to two generations (docs/architecture.md, invariant 1).
\* The code keeps this below LuaMaxExact only (README, Disagreements).
EpochHasOneOwner == F!OneOwnerPerEpoch

\* A generation loses a live claim only by its own release or commit under
\* the current token: scripts of an earlier epoch arrive too late.
OwnerKeepsLiveClaim ==
    claim.owner # NoGen /\ claim.left >= 0
       /\ <<claim.owner, claim.token>> # <<claim'.owner, claim'.token>>
    => \E c \in Callers : /\ call[c].pc = "checked"
                          /\ call[c].req.kind \in {"release", "commit"}
                          /\ call[c].req.gen = claim.owner
                          /\ call[c].req.token = claim.token

\* A commit that is acknowledged or recorded as done did hand the claim to
\* the successor under the next token, although the check before the script
\* and the script are two round trips (CommitTransfer).
AcknowledgedCommitHappened ==
    \A c \in Callers :
       call[c].pc = "evaluated" /\ call[c].req.kind = "commit" /\ call[c].err = "ok"
       => <<call[c].req.token + 1, call[c].req.to>> \in handed

\* Local, on which a deployment without a server is tested, answers as the
\* scripts do wherever both accept: on every record the server reaches they
\* leave the same owner, token and phase (local.go, "mirroring Lua script
\* behavior").  At the very instant a lease ends they differ: Local takes it
\* for over, the scripts do not.
LocalAgreesOnGrants ==
    claim.left # 0 =>
       \A q \in Asked :
          LET l == Local(claim, q)
              s == Script(claim, q) IN
          l.err = "ok" /\ s.err = "ok" =>
             /\ l.claim.owner = s.claim.owner
             /\ l.claim.token = s.claim.token
             /\ l.claim.phase = s.claim.phase

\* Calls with one operation id are granted one token (capabilities.go).
\* The code does not keep this (README, Disagreements).
OperationGrantsOnce == \A o \in OpIds : \A t, u \in won[o] : t = u
-----------------------------------------------------------------------------
(* Proofs, as long as a double counts the tokens.                          *)

\* A claim has an owner exactly in the held phases.  (A successor may stay behind: the
\* renewal script leaves it when it finds the lease over.)
Tidy(r) == r.owner # NoGen <=> r.phase \in HeldPhases

\* What every script has to do with record s on request q: take a fenced step, and only a
\* successful acquire or commit grants; take a live claim from nobody who does not give it
\* up; and leave a record that shows a commit only after one.
ScriptStep(s, q, o) ==
    /\ o.claim \in Records /\ o.err \in Errors /\ Tidy(o.claim)
    /\ \/ o.claim.owner \in {s.owner, NoGen} /\ o.claim.token = s.token
       \/ /\ o.claim.owner \in Gens /\ o.claim.token = s.token + 1
          /\ o.err = "ok" /\ q.kind \in {"acquire", "commit"}
    /\ s.owner # NoGen /\ s.left >= 0 => SameEpoch(s, o.claim) \/ GivesUp(q, s)
    /\ o.claim.owner # NoGen /\ o.claim.transfer = "committed"
       => \/ SameEpoch(s, o.claim) /\ s.transfer = "committed"
          \/ q.kind = "commit" /\ o.err = "ok"
    /\ q.kind = "commit" /\ o.err = "ok"
       => o.claim.owner = q.to /\ o.claim.token = q.token + 1

\* What the fields of a request are.
LEMMA RequestFields ==
  ASSUME NEW q \in Requests
  PROVE  /\ q.kind \in {"acquire", "renew", "prepare", "commit", "abort", "release"}
         /\ q.gen \in Gens /\ q.gen # NoGen /\ q.op \in OpIds \cup {NoOp}
         /\ q.kind \in {"prepare", "commit"} => q.to \in Gens /\ q.to # NoGen
         /\ q.kind \notin {"abort", "release"} => q.ttl \in Int
         /\ q.kind # "acquire" => q.token \in Nat
<1>1. /\ q.kind \in {"acquire", "renew", "prepare", "commit", "abort", "release"}
      /\ q.gen \in Gens /\ q.op \in OpIds \cup {NoOp}
      /\ q.kind \in {"prepare", "commit"} => q.to \in Gens
      /\ q.kind \notin {"abort", "release"} => q.ttl \in TTLs
      /\ q.kind # "acquire" => q.token \in Tokens
  BY DEF Requests, AcquireRequests, RenewRequests, TransferRequests,
         CommitRequests, AbortRequests, ReleaseRequests
<1>2. \A t \in TTLs : t \in Int
  BY TTLAssumption
<1>3. \A t \in Tokens : t \in Nat
  BY TokensAssumption
<1> QED
  BY <1>1, <1>2, <1>3, NoGenAssumption, Zenon

\* Expiry in the scripts takes the owner and keeps the token.
LEMMA ExpiredTidy ==
  ASSUME NEW s \in Records
  PROVE  /\ Expired(s) \in Records /\ Expired(s).owner = NoGen
         /\ Expired(s).token = s.token /\ Expired(s).phase = "unowned"
  BY Zenon DEF Expired, Records, Owners, Phases

\* The fields of a record.
LEMMA RecordFields ==
  ASSUME NEW s \in Records
  PROVE  /\ s.owner \in Gens \cup {NoGen} /\ s.token \in Nat /\ s.left \in Int
         /\ s.phase \in {"owned", "reserved", "draining", "absent", "unowned"}
         /\ s.pending \in Gens \cup {NoGen}
         /\ s.transfer \in {"none", "prepared", "committed", "aborted"}
  BY DEF Records, Owners, Phases, HeldPhases

\* A record that stays, or changes in its lease and phase only.
LEMMA KeptStep ==
  ASSUME NEW s \in Records, Tidy(s), NEW q, NEW o, o.claim \in Records, Tidy(o.claim),
         o.err \in Errors, q.kind = "commit" => o.err # "ok",
         \/ SameEpoch(s, o.claim) /\ o.claim.transfer \in {s.transfer, "prepared", "aborted"}
         \/ /\ o.claim.owner = NoGen /\ o.claim.token = s.token
            /\ s.owner = NoGen \/ s.left < 0 \/ GivesUp(q, s)
  PROVE  ScriptStep(s, q, o)
<1>1. s.left \in Int
  BY RecordFields
<1> QED
  BY <1>1 DEF ScriptStep, SameEpoch

LEMMA AcquireStep ==
  ASSUME ExactAssumption, NEW s \in Records, Tidy(s), NEW q \in Requests, q.kind = "acquire",
         s.token < TokenBound
  PROVE  ScriptStep(s, q, acquireScript(s, q))
<1> DEFINE r == IF Lapsed(s) THEN Expired(s) ELSE s
           o == acquireScript(s, q)
           n == [owner |-> q.gen, token |-> s.token + 1, phase |-> "owned", pending |-> NoGen,
                 transfer |-> "none", left |-> q.ttl]
<1>1. q.gen \in Gens /\ q.gen # NoGen /\ q.ttl \in Int /\ s.token \in Nat
  BY RequestFields, RecordFields
<1>2. /\ r \in Records /\ r.token = s.token /\ Tidy(r)
      /\ r = s \/ (r.owner = NoGen /\ r.phase = "unowned" /\ Lapsed(s))
  BY ExpiredTidy DEF Tidy, HeldPhases
<1>3. LuaIncrement(r.token) = s.token + 1
  BY <1>1, <1>2 DEF LuaIncrement, ExactAssumption
<1>4. \/ r.phase \in HeldPhases /\ r.owner = q.gen /\ o = Done([r EXCEPT !.left = q.ttl])
      \/ r.phase \in HeldPhases /\ o = Fail(s, "ErrClaimHeld")
      \/ r.phase \notin HeldPhases /\ o = Done(n)
  BY <1>3 DEF acquireScript
<1> HIDE DEF o, r
<1>5. CASE r.phase \in HeldPhases /\ r.owner = q.gen /\ o = Done([r EXCEPT !.left = q.ttl])
  <2>1. r = s
    BY <1>2, <1>5 DEF HeldPhases
  <2>2. o.claim = [s EXCEPT !.left = q.ttl] /\ o.err = "ok"
    BY <1>5, <2>1 DEF Done
  <2>3. o.claim \in Records /\ SameEpoch(s, o.claim) /\ o.claim.phase = s.phase
        /\ o.claim.transfer = s.transfer
    BY <1>1, <2>2 DEF Records, SameEpoch
  <2>4. Tidy(o.claim) /\ o.err \in Errors
    BY <2>2, <2>3 DEF SameEpoch, Tidy, Errors
  <2> QED
    BY <2>3, <2>4, KeptStep DEF o
<1>6. CASE r.phase \in HeldPhases /\ o = Fail(s, "ErrClaimHeld")
  <2>1. o.claim = s /\ o.err \in Errors
    BY <1>6 DEF Fail, Errors
  <2> QED
    BY <2>1, KeptStep DEF SameEpoch, o
<1>7. CASE r.phase \notin HeldPhases /\ o = Done(n)
  <2>1. s.owner = NoGen \/ s.left < 0
    BY <1>2, <1>7 DEF Tidy, Lapsed
  <2>2. n \in Records /\ n.phase \in HeldPhases
    BY <1>1 DEF Records, Owners, Phases, HeldPhases
  <2>3. o.claim = n /\ o.err = "ok"
    BY <1>7 DEF Done
  <2>4. s.left \in Int
    BY RecordFields
  <2>5. /\ o.claim.owner \in Gens /\ o.claim.owner # NoGen /\ o.claim.token = s.token + 1
        /\ o.claim.transfer = "none" /\ o.err = "ok" /\ "ok" \in Errors
    BY <1>1, <2>3 DEF Errors
  <2> QED
    BY <2>1, <2>2, <2>3, <2>4, <2>5 DEF ScriptStep, Tidy, o
<1> QED
  BY <1>4, <1>5, <1>6, <1>7 DEF o

LEMMA RenewStep ==
  ASSUME NEW s \in Records, Tidy(s), NEW q \in Requests, q.kind = "renew"
  PROVE  ScriptStep(s, q, renewScript(s, q))
<1> DEFINE o == renewScript(s, q)
           e == [s EXCEPT !.owner = NoGen, !.phase = "unowned"]
           n == [s EXCEPT !.left = q.ttl]
<1>1. q.ttl \in Int
  BY RequestFields
<1>2. \/ o = Fail(s, "ErrClaimNotFound") \/ o = Fail(s, "ErrNotOwner") \/ o = Fail(s, "ErrStaleToken")
      \/ s.left < 0 /\ o = Fail(e, "ErrNotOwner")
      \/ o = Done(n)
  BY DEF renewScript
<1>3. /\ e \in Records /\ e.owner = NoGen /\ e.token = s.token /\ e.phase = "unowned"
      /\ n \in Records /\ SameEpoch(s, n) /\ n.phase = s.phase /\ n.transfer = s.transfer
  BY <1>1, Zenon DEF Records, SameEpoch, Owners, Phases
<1> HIDE DEF o, e, n
<1>4. /\ o.claim \in {s, n} \/ (o.claim = e /\ s.left < 0)
      /\ o.err \in {"ok", "ErrClaimNotFound", "ErrNotOwner", "ErrStaleToken"}
  BY <1>2 DEF Fail, Done
<1> QED
  BY <1>3, <1>4, KeptStep DEF Tidy, SameEpoch, HeldPhases, Errors, o

LEMMA PrepareStep ==
  ASSUME NEW s \in Records, Tidy(s), NEW q \in Requests, q.kind = "prepare"
  PROVE  ScriptStep(s, q, prepareScript(s, q))
<1> DEFINE o == prepareScript(s, q)
           e == Expired(s)
           n == [s EXCEPT !.phase = "reserved", !.pending = q.to, !.transfer = "prepared",
                          !.left = q.ttl]
<1>1. q.ttl \in Int /\ q.to \in Gens /\ q.gen # NoGen
  BY RequestFields
<1>2. \/ \E f \in Errors : f # "ok" /\ o = Fail(s, f)
      \/ Lapsed(s) /\ o = Fail(e, "ErrNotOwner")
      \/ s.owner = q.gen /\ o = Done(n)
  BY DEF prepareScript, Errors
<1>3. /\ e \in Records /\ e.owner = NoGen /\ e.token = s.token /\ e.phase = "unowned"
      /\ n \in Records /\ SameEpoch(s, n) /\ n.phase = "reserved" /\ n.transfer = "prepared"
  BY <1>1, ExpiredTidy, Zenon DEF Records, SameEpoch, Owners, Phases, HeldPhases
<1> HIDE DEF o, e, n
<1>4. /\ \/ o.claim = s \/ (o.claim = e /\ s.left < 0)
         \/ o.claim = n /\ s.owner = q.gen
      /\ o.err \in Errors
  BY <1>2 DEF Fail, Done, Errors, Lapsed
<1>5. o.claim \in Records /\ Tidy(o.claim)
  BY <1>1, <1>3, <1>4 DEF Tidy, SameEpoch, HeldPhases
<1> QED
  BY <1>3, <1>4, <1>5, KeptStep DEF SameEpoch, o

LEMMA CommitStep ==
  ASSUME ExactAssumption, NEW s \in Records, Tidy(s), NEW q \in Requests, q.kind = "commit",
         s.token < TokenBound
  PROVE  ScriptStep(s, q, commitScript(s, q))
<1> DEFINE o == commitScript(s, q)
           e == Expired(s)
           n == [owner |-> q.to, token |-> s.token + 1, phase |-> "owned", pending |-> NoGen,
                 transfer |-> "committed", left |-> q.ttl]
<1>1. q.ttl \in Int /\ q.to \in Gens /\ q.to # NoGen /\ s.token \in Nat /\ q.token \in Nat
  BY RequestFields, RecordFields
<1>2. LuaIncrement(s.token) = s.token + 1
  BY <1>1 DEF LuaIncrement, ExactAssumption
<1>3. \/ \E f \in Errors : f # "ok" /\ o = Fail(s, f)
      \/ Lapsed(s) /\ o = Fail(e, "ErrNoTransfer")
      \/ s.owner = q.gen /\ s.token = q.token /\ o = Done(n)
  BY <1>2 DEF commitScript, Errors
<1>4. /\ e \in Records /\ e.owner = NoGen /\ e.token = s.token /\ e.phase = "unowned"
      /\ n \in Records /\ n.phase = "owned" /\ n.owner = q.to /\ n.token = s.token + 1
  BY <1>1, ExpiredTidy DEF Records, Owners, Phases, HeldPhases
<1> HIDE DEF o, e, n
<1>5. CASE (\E f \in Errors : f # "ok" /\ o = Fail(s, f)) \/ (Lapsed(s) /\ o = Fail(e, "ErrNoTransfer"))
  <2>1. /\ o.claim = s \/ (o.claim = e /\ s.left < 0)
        /\ o.err \in Errors /\ o.err # "ok"
    BY <1>5 DEF Fail, Errors, Lapsed
  <2>2. o.claim \in Records /\ Tidy(o.claim)
    BY <1>4, <2>1 DEF Tidy, HeldPhases
  <2> QED
    BY <1>4, <2>1, <2>2, KeptStep DEF SameEpoch, o
<1>6. CASE s.owner = q.gen /\ s.token = q.token /\ o = Done(n)
  <2>1. o.claim = n /\ o.err = "ok" /\ "ok" \in Errors /\ Tidy(n) /\ GivesUp(q, s)
    BY <1>1, <1>4, <1>6 DEF Done, Errors, Tidy, HeldPhases, GivesUp
  <2> QED
    BY <1>1, <1>4, <1>6, <2>1 DEF ScriptStep, o
<1> QED
  BY <1>3, <1>5, <1>6

LEMMA AbortStep ==
  ASSUME NEW s \in Records, Tidy(s), NEW q \in Requests, q.kind = "abort"
  PROVE  ScriptStep(s, q, abortScript(s, q))
<1> DEFINE o == abortScript(s, q)
           n == [s EXCEPT !.pending = NoGen, !.phase = "owned", !.transfer = "aborted"]
<1>1. q.gen # NoGen
  BY RequestFields
<1>2. \/ \E f \in Errors : o = Fail(s, f)
      \/ o = Done(s)
      \/ s.owner = q.gen /\ o = Done(n)
  BY DEF abortScript, Errors
<1>3. n \in Records /\ SameEpoch(s, n) /\ n.phase = "owned" /\ n.transfer = "aborted"
  BY Zenon DEF Records, SameEpoch, Owners, Phases, HeldPhases
<1> HIDE DEF o, n
<1>4. /\ o.claim = s \/ (o.claim = n /\ s.owner = q.gen)
      /\ o.err \in Errors
  BY <1>2 DEF Fail, Done, Errors
<1>5. o.claim \in Records /\ Tidy(o.claim)
  BY <1>1, <1>3, <1>4 DEF Tidy, SameEpoch, HeldPhases
<1> QED
  BY <1>3, <1>4, <1>5, KeptStep DEF SameEpoch, o

LEMMA ReleaseStep ==
  ASSUME NEW s \in Records, Tidy(s), NEW q \in Requests, q.kind = "release"
  PROVE  ScriptStep(s, q, releaseScript(s, q))
<1> DEFINE o == releaseScript(s, q)
           n == Vacate(s)
<1>1. \/ \E f \in Errors : o = Fail(s, f)
      \/ s.owner = q.gen /\ s.token = q.token /\ o = Done(n)
  BY DEF releaseScript, Errors
<1>2. n \in Records /\ n.owner = NoGen /\ n.token = s.token /\ n.phase = "unowned"
  BY Zenon DEF Vacate, Records, Owners, Phases, HeldPhases
<1> HIDE DEF o, n
<1>3. /\ o.claim = s \/ (o.claim = n /\ GivesUp(q, s))
      /\ o.err \in Errors
  BY <1>1 DEF Fail, Done, Errors, GivesUp
<1>4. o.claim \in Records /\ Tidy(o.claim)
  BY <1>2, <1>3 DEF Tidy, HeldPhases
<1> QED
  BY <1>2, <1>3, <1>4, KeptStep DEF SameEpoch, o

-----------------------------------------------------------------------------

\* The inductive invariant.  A record that shows a commit is one that a commit handed over:
\* it is what GetBeforeCommit relies on.
ScriptInv ==
    /\ TypeOK /\ Tidy(claim) /\ Covered(claim, granted) /\ claim.token <= TokenBound
    /\ claim.owner # NoGen /\ claim.transfer = "committed"
       => <<claim.token, claim.owner>> \in handed
    /\ \A c \in Callers : call[c].pc # "idle" => call[c].req \in Requests
    /\ AcknowledgedCommitHappened

\* What every step has to do.
ScriptSound ==
    ScriptInv' /\ FencedStore(claim, claim', granted, granted') /\ OwnerKeepsLiveClaim

CallStates == [pc : {"idle", "recalled", "checked", "evaluated"},
               req : Requests \cup {NoCall}, err : Errors]

\* A call t that is fit to be under way while handed is h.
FitCall(t, h) ==
    /\ t \in CallStates /\ (t.pc # "idle" => t.req \in Requests)
    /\ t.pc = "evaluated" /\ t.req.kind = "commit" /\ t.err = "ok"
       => <<t.req.token + 1, t.req.to>> \in h

LEMMA IdleFits == \A h : FitCall(Idle, h)
  BY DEF Idle, FitCall, CallStates, Errors

\* The calls of the invariant.
LEMMA CallsFit ==
  ASSUME ScriptInv
  PROVE  call \in [Callers -> CallStates] /\ \A c \in Callers : FitCall(call[c], handed)
<1>1. call \in [Callers -> CallStates]
  BY DEF ScriptInv, TypeOK, CallStates
<1> QED
  BY <1>1 DEF ScriptInv, FitCall, AcknowledgedCommitHappened

\* One call moves on to t and the record is left alone.
LEMMA MoveSound ==
  ASSUME ScriptInv, NEW c \in Callers, NEW t, FitCall(t, handed),
         call' = [call EXCEPT ![c] = t], ops' \in [OpIds -> Errors \cup {"none"}],
         UNCHANGED <<claim, granted, handed, won>>
  PROVE  ScriptSound
<1>1. call' \in [Callers -> CallStates] /\ \A d \in Callers : FitCall(call'[d], handed)
  BY CallsFit DEF FitCall
<1>2. ScriptInv'
  BY <1>1 DEF ScriptInv, TypeOK, Tidy, Covered, FitCall, AcknowledgedCommitHappened, CallStates
<1> QED
  BY <1>2 DEF ScriptSound, FencedStore, OwnerKeepsLiveClaim

\* A script that takes its step.
LEMMA EvalSound ==
  ASSUME ScriptInv, ExactAssumption, NEW c \in Callers, NEW kind, NEW o,
         NEW recorded \in BOOLEAN, NEW answered \in BOOLEAN,
         Eval(c, kind, o, recorded, answered), ScriptStep(claim, call[c].req, o)
  PROVE  ScriptSound
<1> DEFINE q == call[c].req
           new == <<o.claim.token, o.claim.owner>>
           t == [call[c] EXCEPT !.pc = "evaluated", !.err = o.err]
<1>0. /\ claim \in Records /\ Covered(claim, granted) /\ claim.token \in Nat
      /\ claim.token <= TokenBound /\ TokenBound \in Nat
      /\ granted \subseteq Nat \X Gens /\ handed \subseteq granted
      /\ claim.owner # NoGen /\ claim.transfer = "committed"
         => <<claim.token, claim.owner>> \in handed
      /\ ops \in [OpIds -> Errors \cup {"none"}] /\ won \in [OpIds -> SUBSET Nat]
  BY RecordFields DEF ScriptInv, TypeOK, ExactAssumption
<1>1. /\ call[c].pc = "checked" /\ q.kind = kind /\ q \in Requests
      /\ call[c] \in CallStates /\ q.op \in OpIds \cup {NoOp}
  BY CallsFit, RequestFields, Zenon DEF Eval, FitCall
<1>2. /\ o.claim \in Records /\ o.err \in Errors /\ Tidy(o.claim)
      /\ o.claim.token \in Nat /\ o.claim.owner \in Gens \cup {NoGen}
  BY RecordFields DEF ScriptStep
<1>3. /\ claim' = o.claim /\ ops' = ops
      /\ kind \in {"acquire", "commit"} => claim.token < TokenBound
      /\ granted' = IF o.claim.owner # NoGen /\ o.err = "ok" THEN granted \cup {new} ELSE granted
      /\ handed' = IF (o.claim.owner # NoGen /\ o.err = "ok") /\ kind = "commit"
                   THEN handed \cup {new} ELSE handed
      /\ won' = IF (o.claim.owner # NoGen /\ o.err = "ok") /\ q.op # NoOp
                THEN [won EXCEPT ![q.op] = @ \cup {o.claim.token}] ELSE won
      /\ call' = [call EXCEPT ![c] = t] \/ call' = [call EXCEPT ![c] = Idle]
  BY Zenon DEF Eval
<1>4. FencedStep(claim, o.claim)
  BY DEF ScriptStep, FencedStep
<1>5. \/ granted' = granted \cup GrantOf(o.claim)
      \/ granted' = granted /\ o.claim.token = claim.token
  <2>1. CASE o.claim.owner # NoGen /\ o.err = "ok"
    BY <1>3, <2>1 DEF GrantOf
  <2>2. CASE o.claim.owner = NoGen
    BY <1>3, <2>2 DEF GrantOf
  <2>3. CASE o.err # "ok"
    BY <1>3, <2>3 DEF ScriptStep
  <2> QED
    BY <2>1, <2>2, <2>3
<1>6. Covered(claim', granted') /\ FencedStore(claim, claim', granted, granted')
  <2>1. Covered(o.claim, granted') /\ FencedStore(claim, o.claim, granted, granted')
    BY <1>0, <1>2, <1>4, <1>5, StoreGranted
  <2> QED
    BY <1>3, <2>1
<1>7. claim'.token <= TokenBound
  <2>1. o.claim.token = claim.token \/ (o.claim.token = claim.token + 1 /\ claim.token < TokenBound)
    BY <1>1, <1>3 DEF ScriptStep
  <2> QED
    BY <1>0, <1>3, <2>1
<1>8. handed' \subseteq granted' /\ handed \subseteq handed'
  BY <1>0, <1>3
<1>9. claim'.owner # NoGen /\ claim'.transfer = "committed"
      => <<claim'.token, claim'.owner>> \in handed'
  <2> SUFFICES ASSUME o.claim.owner # NoGen, o.claim.transfer = "committed"
               PROVE  new \in handed'
    BY <1>3
  <2>1. CASE SameEpoch(claim, o.claim) /\ claim.transfer = "committed"
    BY <1>0, <1>8, <2>1 DEF SameEpoch
  <2>2. CASE q.kind = "commit" /\ o.err = "ok"
    BY <1>1, <1>3, <2>2
  <2> QED
    BY <2>1, <2>2 DEF ScriptStep
<1>10. FitCall(t, handed')
  <2>1. t \in CallStates /\ t.pc = "evaluated" /\ t.req = q /\ t.err = o.err
    BY <1>1, <1>2, Zenon DEF CallStates
  <2> HIDE DEF t
  <2>2. ASSUME q.kind = "commit", o.err = "ok" PROVE <<q.token + 1, q.to>> \in handed'
    <3>1. o.claim.owner = q.to /\ o.claim.token = q.token + 1 /\ q.to # NoGen
      BY <1>1, <2>2, RequestFields DEF ScriptStep
    <3> QED
      BY <1>1, <1>3, <2>2, <3>1
  <2> QED
    BY <1>1, <2>1, <2>2 DEF FitCall
<1>11. call' \in [Callers -> CallStates] /\ \A d \in Callers : FitCall(call'[d], handed')
  <2>1. \A d \in Callers : FitCall(call[d], handed')
    BY <1>8, CallsFit DEF FitCall
  <2> HIDE DEF t
  <2> QED
    BY <1>3, <1>10, <2>1, CallsFit, IdleFits DEF FitCall
<1>12. won' \in [OpIds -> SUBSET Nat]
  BY <1>0, <1>1, <1>2, <1>3
<1>13. ScriptInv'
  <2>1. TypeOK'
    BY <1>0, <1>2, <1>3, <1>6, <1>8, <1>11, <1>12 DEF TypeOK, CallStates, Covered
  <2>2. Tidy(claim)' /\ Covered(claim, granted)'
    BY <1>2, <1>3, <1>6 DEF Tidy, Covered
  <2> QED
    BY <1>7, <1>9, <1>11, <2>1, <2>2, Zenon DEF ScriptInv, FitCall, AcknowledgedCommitHappened
<1>14. OwnerKeepsLiveClaim
  BY <1>1, <1>3 DEF OwnerKeepsLiveClaim, ScriptStep, SameEpoch, GivesUp
<1> QED
  BY <1>6, <1>13, <1>14 DEF ScriptSound

\* Time passes for the record on the server.
LEMMA TickSound ==
  ASSUME ScriptInv, Tick
  PROVE  ScriptSound
<1>1. claim \in Records /\ Tidy(claim) /\ Covered(claim, granted) /\ claim.left \in Int
  BY RecordFields DEF ScriptInv, TypeOK
<1>2. /\ claim' \in Records /\ SameEpoch(claim, claim') /\ claim'.phase = claim.phase
      /\ claim'.transfer = claim.transfer /\ UNCHANGED <<ops, call, granted, handed, won>>
  BY <1>1 DEF Tick, Age, Records, SameEpoch
<1>3. ScriptInv'
  BY <1>1, <1>2 DEF ScriptInv, TypeOK, Tidy, Covered, SameEpoch, AcknowledgedCommitHappened
<1> QED
  BY <1>2, <1>3 DEF ScriptSound, FencedStore, OwnerKeepsLiveClaim, SameEpoch

\* Every step is sound.
LEMMA StepSound ==
  ASSUME AskedAssumption, ExactAssumption, ScriptInv, [Next]_vars
  PROVE  ScriptSound
<1>0. /\ claim \in Records /\ Tidy(claim) /\ ops \in [OpIds -> Errors \cup {"none"}]
      /\ call \in [Callers -> CallStates] /\ \A c \in Callers : FitCall(call[c], handed)
  BY CallsFit DEF ScriptInv, TypeOK
<1>1. ASSUME NEW c \in Callers, NEW q \in Asked, recallOp(c, q) PROVE ScriptSound
  <2> DEFINE p == IF q.kind = "commit" THEN "recalled" ELSE "checked"
             t == [Idle EXCEPT !.pc = p, !.req = q]
  <2>1. q \in Requests /\ call' = [call EXCEPT ![c] = t] /\ UNCHANGED <<claim, ops, granted, handed, won>>
    BY <1>0, <1>1, Zenon DEF AskedAssumption, recallOp
  <2>2. FitCall(t, handed)
    BY <2>1, Zenon DEF FitCall, CallStates, Idle, Errors
  <2> HIDE DEF t
  <2> QED
    BY <1>0, <2>1, <2>2, MoveSound, Zenon
<1>2. ASSUME NEW c \in Callers, GetBeforeCommit(c) PROVE ScriptSound
  <2> DEFINE p == IF Acknowledged(call[c].req, claim) THEN "evaluated" ELSE "checked"
             t == [call[c] EXCEPT !.pc = p]
  <2>1. /\ call[c].pc = "recalled" /\ call' = [call EXCEPT ![c] = t]
        /\ UNCHANGED <<claim, ops, granted, handed, won>>
    BY <1>0, <1>2 DEF GetBeforeCommit
  <2>2. call[c].req \in Requests /\ call[c] \in CallStates
    BY <1>0, <2>1, Zenon DEF FitCall
  <2>3. t \in CallStates /\ t.pc = p /\ t.req = call[c].req
    BY <2>2 DEF CallStates
  <2> HIDE DEF t
  <2>4. ASSUME p = "evaluated", call[c].req.kind = "commit"
        PROVE  <<call[c].req.token + 1, call[c].req.to>> \in handed
    <3>1. call[c].req.to # NoGen /\ Acknowledged(call[c].req, claim)
      BY <2>2, <2>4, RequestFields
    <3> QED
      BY <3>1 DEF Acknowledged, ScriptInv
  <2>5. FitCall(t, handed)
    BY <2>2, <2>3, <2>4 DEF FitCall
  <2> QED
    BY <1>0, <2>1, <2>5, MoveSound, Zenon
<1>3. ASSUME NEW c \in Callers, storeOp(c) \/ FailCall(c) PROVE ScriptSound
  <2>1. /\ call' = [call EXCEPT ![c] = Idle] /\ UNCHANGED <<claim, granted, handed, won>>
        /\ \/ ops' = ops
           \/ /\ call[c].req.op # NoOp /\ call[c].pc = "evaluated"
              /\ ops' = [ops EXCEPT ![call[c].req.op] = call[c].err]
    BY <1>3 DEF storeOp, FailCall
  <2>2. ops' \in [OpIds -> Errors \cup {"none"}]
    BY <1>0, <2>1, RequestFields DEF FitCall, CallStates
  <2> QED
    BY <2>1, <2>2, IdleFits, MoveSound, Zenon
<1>4. ASSUME NEW c \in Callers, NEW answered \in BOOLEAN,
             \/ EvalAcquire(c, answered) \/ EvalRenew(c, answered) \/ EvalPrepare(c, answered)
             \/ EvalCommit(c, answered) \/ EvalAbort(c, answered) \/ EvalRelease(c, answered)
      PROVE  ScriptSound
  <2> DEFINE q == call[c].req
  <2>1. call[c].pc = "checked" => q \in Requests
    BY <1>0, Zenon DEF FitCall
  <2>2. CASE EvalAcquire(c, answered)
    <3>1. call[c].pc = "checked" /\ q.kind = "acquire" /\ claim.token < TokenBound
      BY <2>2 DEF EvalAcquire, Eval
    <3>2. ScriptStep(claim, q, acquireScript(claim, q))
      BY <1>0, <2>1, <3>1, AcquireStep
    <3> QED
      BY <2>2, <3>2, EvalSound, Zenon DEF EvalAcquire
  <2>3. CASE EvalRenew(c, answered)
    <3>1. call[c].pc = "checked" /\ q.kind = "renew"
      BY <2>3 DEF EvalRenew, Eval
    <3>2. ScriptStep(claim, q, renewScript(claim, q))
      BY <1>0, <2>1, <3>1, RenewStep
    <3> QED
      BY <2>3, <3>2, EvalSound, Zenon DEF EvalRenew
  <2>4. CASE EvalPrepare(c, answered)
    <3>1. call[c].pc = "checked" /\ q.kind = "prepare"
      BY <2>4 DEF EvalPrepare, Eval
    <3>2. ScriptStep(claim, q, prepareScript(claim, q))
      BY <1>0, <2>1, <3>1, PrepareStep
    <3> QED
      BY <2>4, <3>2, EvalSound, Zenon DEF EvalPrepare
  <2>5. CASE EvalCommit(c, answered)
    <3>1. call[c].pc = "checked" /\ q.kind = "commit" /\ claim.token < TokenBound
      BY <2>5 DEF EvalCommit, Eval
    <3>2. ScriptStep(claim, q, commitScript(claim, q))
      BY <1>0, <2>1, <3>1, CommitStep
    <3> QED
      BY <2>5, <3>2, EvalSound, Zenon DEF EvalCommit
  <2>6. CASE EvalAbort(c, answered)
    <3>1. call[c].pc = "checked" /\ q.kind = "abort"
      BY <2>6 DEF EvalAbort, Eval
    <3>2. ScriptStep(claim, q, abortScript(claim, q))
      BY <1>0, <2>1, <3>1, AbortStep
    <3> QED
      BY <2>6, <3>2, EvalSound, Zenon DEF EvalAbort
  <2>7. CASE EvalRelease(c, answered)
    <3>1. call[c].pc = "checked" /\ q.kind = "release"
      BY <2>7 DEF EvalRelease, Eval
    <3>2. ScriptStep(claim, q, releaseScript(claim, q))
      BY <1>0, <2>1, <3>1, ReleaseStep
    <3> QED
      BY <2>7, <3>2, EvalSound, Zenon DEF EvalRelease
  <2> QED
    BY <1>4, <2>2, <2>3, <2>4, <2>5, <2>6, <2>7
<1>5. CASE UNCHANGED vars
  BY <1>5
  DEF vars, ScriptInv, TypeOK, Tidy, Covered, AcknowledgedCommitHappened, ScriptSound,
      FencedStore, OwnerKeepsLiveClaim
<1> QED
  BY <1>1, <1>2, <1>3, <1>4, <1>5, TickSound DEF Next

\* At first there is no record and no call.
LEMMA InitSound == ASSUME ExactAssumption PROVE Init => ScriptInv /\ F!FInit
<1> SUFFICES ASSUME Init PROVE ScriptInv /\ F!FInit
  OBVIOUS
<1>1. /\ claim \in Records /\ Covered(claim, granted) /\ claim.token = 0
      /\ claim.owner = NoGen /\ claim.phase = "absent"
  BY AbsentRecordGood, NothingGranted DEF Init, AbsentRecord
<1>2. /\ call \in [Callers -> CallStates]
      /\ \A c \in Callers : call[c].pc = "idle"
  BY IdleFits DEF Init, FitCall, Idle
<1>3. TypeOK
  BY <1>1, <1>2 DEF Init, TypeOK, CallStates
<1>4. ScriptInv
  BY <1>1, <1>2, <1>3 DEF ScriptInv, Tidy, HeldPhases, AcknowledgedCommitHappened,
                          ExactAssumption
<1> QED
  BY <1>1, <1>4 DEF Init, F!FInit

\* A sound step is one of the fenced claim.
LEMMA SoundFenced == ScriptSound => [F!FNext]_(F!fvars) /\ OwnerKeepsLiveClaim
  BY DEF ScriptSound, FencedStore, F!FNext, F!Grant, F!Lose, F!fvars

-----------------------------------------------------------------------------

\* Where the lease does not end at this very instant, Local expires the records that are
\* over, and no others.
LEMMA LocalExpires ==
  ASSUME NEW s \in Records, s.left # 0, NEW r, r = expireLocked(LocalView(s))
  PROVE  /\ r \in Records /\ r.token = s.token
         /\ Lapsed(s) => r.owner = NoGen /\ r.phase = "unowned"
         /\ ~Lapsed(s) => r.owner = s.owner /\ r.phase = s.phase
<1> DEFINE v == LocalView(s)
<1>1. s.left \in Int
  BY RecordFields
<1>2. /\ v \in Records /\ v.owner = s.owner /\ v.token = s.token /\ v.phase = s.phase
      /\ v.left = s.left - 1
  BY <1>1 DEF LocalView, Records
<1>3. r = expireLocked(v)
  OBVIOUS
<1> HIDE DEF v
<1>4. Lapsed(v) <=> Lapsed(s)
  BY <1>1, <1>2 DEF Lapsed
<1>5. /\ Vacate(v) \in Records /\ Vacate(v).token = v.token
      /\ Vacate(v).owner = NoGen /\ Vacate(v).phase = "unowned"
  BY <1>2, Zenon DEF Vacate, Records, Phases, Owners
<1> QED
  BY <1>2, <1>3, <1>4, <1>5 DEF expireLocked

\* Local adds neither owner nor token nor phase to an outcome of ClaimRecord.
LEMMA LocalDone ==
  ASSUME NEW s, NEW x \in Records
  PROVE  /\ LocalOutcome(s, Done(x)).claim.owner = x.owner
         /\ LocalOutcome(s, Done(x)).claim.token = x.token
         /\ LocalOutcome(s, Done(x)).claim.phase = x.phase
  BY Zenon DEF LocalOutcome, Done, Fail, Records

\* The owner, token and phase that two outcomes leave are the same, if both succeed.
SameGrant(l, s) ==
    l.err = "ok" /\ s.err = "ok" =>
       /\ l.claim.owner = s.claim.owner
       /\ l.claim.token = s.claim.token
       /\ l.claim.phase = s.claim.phase

\* Where Local fails, or where both succeed with records alike, there is nothing to add.
LEMMA SameOutcome ==
  ASSUME NEW s \in Records, NEW l, NEW o,
         \/ \E x \in Records : \E f \in Errors \ {"ok"} : l = LocalOutcome(s, Fail(x, f))
         \/ o.err # "ok"
         \/ \E x \in Records :
               /\ l = LocalOutcome(s, Done(x))
               /\ x.owner = o.claim.owner /\ x.token = o.claim.token /\ x.phase = o.claim.phase
  PROVE  SameGrant(l, o)
<1>1. CASE \E x \in Records : \E f \in Errors \ {"ok"} : l = LocalOutcome(s, Fail(x, f))
  <2>1. PICK x \in Records : \E f \in Errors \ {"ok"} : l = LocalOutcome(s, Fail(x, f))
    BY <1>1
  <2>2. PICK f \in Errors \ {"ok"} : l = LocalOutcome(s, Fail(x, f))
    BY <2>1
  <2>3. LocalOutcome(s, Fail(x, f)).err = f
    BY Zenon DEF LocalOutcome, Fail
  <2> QED
    BY <2>2, <2>3 DEF SameGrant
<1>2. CASE \E x \in Records :
              /\ l = LocalOutcome(s, Done(x))
              /\ x.owner = o.claim.owner /\ x.token = o.claim.token /\ x.phase = o.claim.phase
  <2>1. PICK x \in Records :
              /\ l = LocalOutcome(s, Done(x))
              /\ x.owner = o.claim.owner /\ x.token = o.claim.token /\ x.phase = o.claim.phase
    BY <1>2
  <2> QED
    BY <2>1, LocalDone DEF SameGrant
<1> QED
  BY <1>1, <1>2 DEF SameGrant

LEMMA SameAcquire ==
  ASSUME ExactAssumption, NEW s \in Records, Tidy(s), s.left # 0, s.token <= TokenBound,
         NEW q \in Requests, q.kind = "acquire"
  PROVE  SameGrant(LocalAcquire(s, q), acquireScript(s, q))
<1> DEFINE ttl == q.ttl - 1
           r == expireLocked(LocalView(s))
           k == [r EXCEPT !.left = ttl]
           n == [owner |-> q.gen, token |-> s.token + 1, phase |-> "owned",
                 pending |-> NoGen, transfer |-> "none", left |-> ttl]
           l == LocalAcquire(s, q)
           o == acquireScript(s, q)
<1>1. /\ r \in Records /\ r.token = s.token
      /\ Lapsed(s) => r.owner = NoGen /\ r.phase = "unowned"
      /\ ~Lapsed(s) => r.owner = s.owner /\ r.phase = s.phase
  BY LocalExpires
<1>2. /\ q.gen \in Gens /\ s.token \in Nat /\ ttl \in Int
      /\ LuaIncrement(s.token) = s.token + 1
  BY RequestFields, RecordFields DEF LuaIncrement, ExactAssumption
<1>3. \/ r.phase \in HeldPhases /\ r.owner = q.gen /\ l = LocalOutcome(s, Done(k))
      \/ \E f \in Errors \ {"ok"} : l = LocalOutcome(s, Fail(r, f))
      \/ r.phase \notin HeldPhases /\ l = LocalOutcome(s, Done(n))
  BY <1>1 DEF LocalAcquire, AcquireClaim, Errors
<1> HIDE DEF r, l
<1>4. /\ n \in Records /\ n.owner = q.gen /\ n.token = s.token + 1 /\ n.phase = "owned"
      /\ k \in Records /\ k.owner = r.owner /\ k.token = r.token /\ k.phase = r.phase
  BY <1>1, <1>2 DEF Records, Owners, Phases, HeldPhases
<1>5. /\ Expired(s).phase = "unowned" /\ Expired(s).token = s.token
  BY ExpiredTidy
<1>6. CASE r.phase \in HeldPhases /\ r.owner = q.gen
  <2>1. ~Lapsed(s)
    BY <1>1, <1>6 DEF HeldPhases
  <2>2. o.claim = [s EXCEPT !.left = q.ttl]
    BY <1>1, <1>6, <2>1 DEF acquireScript, Done
  <2>3. /\ o.claim.owner = s.owner /\ o.claim.token = s.token /\ o.claim.phase = s.phase
    BY <2>2 DEF Records
  <2> HIDE DEF o, k, n
  <2> QED
    BY <1>1, <1>3, <1>4, <1>6, <2>1, <2>3, SameOutcome DEF o, l
<1>7. CASE r.phase \notin HeldPhases
  <2>1. o.claim.owner = q.gen /\ o.claim.token = s.token + 1 /\ o.claim.phase = "owned"
    BY <1>1, <1>2, <1>5, <1>7 DEF acquireScript, Done, Lapsed
  <2> HIDE DEF o, k, n
  <2> QED
    BY <1>1, <1>3, <1>4, <1>7, <2>1, SameOutcome DEF o, l
<1>8. CASE \E f \in Errors \ {"ok"} : l = LocalOutcome(s, Fail(r, f))
  BY <1>1, <1>8, SameOutcome DEF l
<1> QED
  BY <1>3, <1>6, <1>7, <1>8

\* Where no lease is over, Local and the scripts look at the same record.
LEMMA SameRenew ==
  ASSUME NEW s \in Records, Tidy(s), s.left # 0, NEW q \in Requests, q.kind = "renew"
  PROVE  SameGrant(LocalRenew(s, q), renewScript(s, q))
<1> DEFINE ttl == q.ttl - 1
           r == expireLocked(LocalView(s))
           k == [r EXCEPT !.left = ttl]
           l == LocalRenew(s, q)
           o == renewScript(s, q)
<1>1. /\ r \in Records /\ r.token = s.token
      /\ Lapsed(s) => r.owner = NoGen /\ r.phase = "unowned"
      /\ ~Lapsed(s) => r.owner = s.owner /\ r.phase = s.phase
  BY LocalExpires
<1>2. ttl \in Int
  BY RequestFields
<1>3. \/ l = LocalOutcome(s, Done(k))
      \/ \E f \in Errors \ {"ok"} : l = LocalOutcome(s, Fail(r, f))
  BY DEF LocalRenew, RenewClaim, Errors
<1>4. o.err # "ok" \/ (s.left >= 0 /\ o.claim = [s EXCEPT !.left = q.ttl])
  BY RecordFields DEF renewScript, Done, Fail
<1> HIDE DEF r, l, o
<1>5. k \in Records /\ k.owner = r.owner /\ k.token = r.token /\ k.phase = r.phase
  BY <1>1, <1>2 DEF Records
<1>6. s.left >= 0 => r.owner = s.owner /\ r.phase = s.phase
  BY <1>1, RecordFields DEF Lapsed
<1>7. \/ o.err # "ok"
      \/ o.claim.owner = r.owner /\ o.claim.token = r.token /\ o.claim.phase = r.phase
  BY <1>1, <1>4, <1>6 DEF Records
<1> HIDE DEF k
<1> QED
  BY <1>1, <1>3, <1>5, <1>7, SameOutcome DEF l, o

LEMMA SamePrepare ==
  ASSUME NEW s \in Records, Tidy(s), s.left # 0, NEW q \in Requests, q.kind = "prepare"
  PROVE  SameGrant(LocalPrepare(s, q), prepareScript(s, q))
<1> DEFINE ttl == q.ttl - 1
           r == expireLocked(LocalView(s))
           k == [r EXCEPT !.phase = "reserved", !.pending = q.to, !.transfer = "prepared",
                          !.left = ttl]
           l == LocalPrepare(s, q)
           o == prepareScript(s, q)
<1>1. /\ r \in Records /\ r.token = s.token
      /\ Lapsed(s) => r.owner = NoGen /\ r.phase = "unowned"
      /\ ~Lapsed(s) => r.owner = s.owner /\ r.phase = s.phase
  BY LocalExpires
<1>2. ttl \in Int /\ q.to \in Gens
  BY RequestFields
<1>3. \/ l = LocalOutcome(s, Done(k))
      \/ r.phase = "reserved" /\ l = LocalOutcome(s, Done(r))
      \/ \E f \in Errors \ {"ok"} : l = LocalOutcome(s, Fail(r, f))
  BY DEF LocalPrepare, PrepareTransfer, Errors
<1>4. \/ o.err # "ok"
      \/ ~Lapsed(s) /\ o.claim = [s EXCEPT !.phase = "reserved", !.pending = q.to,
                                           !.transfer = "prepared", !.left = q.ttl]
  BY DEF prepareScript, Done, Fail
<1> HIDE DEF r, l, o
<1>5. k \in Records /\ k.owner = r.owner /\ k.token = r.token /\ k.phase = "reserved"
  BY <1>1, <1>2, Zenon DEF Records, Phases, HeldPhases, Owners
<1>6. \/ o.err # "ok"
      \/ o.claim.owner = r.owner /\ o.claim.token = r.token /\ o.claim.phase = "reserved"
  BY <1>1, <1>4, Zenon DEF Records
<1> HIDE DEF k
<1> QED
  BY <1>1, <1>3, <1>5, <1>6, SameOutcome DEF l, o

LEMMA SameCommit ==
  ASSUME ExactAssumption, NEW s \in Records, Tidy(s), s.left # 0, s.token <= TokenBound,
         NEW q \in Requests, q.kind = "commit"
  PROVE  SameGrant(LocalCommit(s, q), commitScript(s, q))
<1> DEFINE ttl == q.ttl - 1
           r == expireLocked(LocalView(s))
           n == [owner |-> q.to, token |-> r.token + 1, phase |-> "owned",
                 pending |-> NoGen, transfer |-> "committed", left |-> ttl]
           l == LocalCommit(s, q)
           o == commitScript(s, q)
<1>1. /\ r \in Records /\ r.token = s.token
      /\ Lapsed(s) => r.owner = NoGen /\ r.phase = "unowned"
      /\ ~Lapsed(s) => r.owner = s.owner /\ r.phase = s.phase
  BY LocalExpires
<1>2. /\ ttl \in Int /\ q.to \in Gens /\ s.token \in Nat
      /\ LuaIncrement(s.token) = s.token + 1
  BY RequestFields, RecordFields DEF LuaIncrement, ExactAssumption
<1>3. \/ l = LocalOutcome(s, Done(n))
      \/ r.phase = "owned"
      \/ \E f \in Errors \ {"ok"} : l = LocalOutcome(s, Fail(r, f))
  BY DEF LocalCommit, CommitTransfer, Errors
<1>4. \/ o.err # "ok"
      \/ /\ ~Lapsed(s) /\ s.phase = "reserved"
         /\ o.claim.owner = q.to /\ o.claim.token = s.token + 1 /\ o.claim.phase = "owned"
  BY <1>2 DEF commitScript, Done, Fail
<1> HIDE DEF r, l, o
<1>5. n \in Records /\ n.owner = q.to /\ n.token = s.token + 1 /\ n.phase = "owned"
  BY <1>1, <1>2 DEF Records, Phases, HeldPhases, Owners
<1> HIDE DEF n
<1>6. \/ o.err # "ok" \/ l = LocalOutcome(s, Done(n))
      \/ \E f \in Errors \ {"ok"} : l = LocalOutcome(s, Fail(r, f))
  BY <1>1, <1>3, <1>4
<1> QED
  BY <1>1, <1>4, <1>5, <1>6, SameOutcome DEF l, o

LEMMA SameAbort ==
  ASSUME NEW s \in Records, Tidy(s), s.left # 0, NEW q \in Requests, q.kind = "abort"
  PROVE  SameGrant(LocalAbort(s, q), abortScript(s, q))
<1> DEFINE r == expireLocked(LocalView(s))
           k == [r EXCEPT !.pending = NoGen, !.phase = "owned", !.transfer = "aborted"]
           l == LocalAbort(s, q)
           o == abortScript(s, q)
<1>1. /\ r \in Records /\ r.token = s.token
      /\ Lapsed(s) => r.owner = NoGen /\ r.phase = "unowned"
      /\ ~Lapsed(s) => r.owner = s.owner /\ r.phase = s.phase
  BY LocalExpires
<1>2. \/ r.phase = "reserved" /\ l = LocalOutcome(s, Done(k))
      \/ r.phase = "owned" /\ l = LocalOutcome(s, Done(r))
      \/ \E f \in Errors \ {"ok"} : l = LocalOutcome(s, Fail(r, f))
  BY DEF LocalAbort, AbortTransfer, Errors
<1>3. \/ o.err # "ok" \/ (s.phase = "owned" /\ o.claim = s)
      \/ o.claim = [s EXCEPT !.pending = NoGen, !.phase = "owned", !.transfer = "aborted"]
  BY DEF abortScript, Done, Fail
<1> HIDE DEF r, l, o
<1>4. k \in Records /\ k.owner = r.owner /\ k.token = r.token /\ k.phase = "owned"
  BY <1>1, Zenon DEF Records, Phases, HeldPhases, Owners
<1> HIDE DEF k
<1>5. \/ o.err # "ok"
      \/ o.claim.owner = s.owner /\ o.claim.token = s.token /\ o.claim.phase = "owned"
  BY <1>3, Zenon DEF Records
<1>6. r.phase \in {"reserved", "owned"} => r.owner = s.owner
  BY <1>1
<1> QED
  BY <1>1, <1>2, <1>4, <1>5, <1>6, SameOutcome DEF l, o

LEMMA SameRelease ==
  ASSUME NEW s \in Records, Tidy(s), s.left # 0, NEW q \in Requests, q.kind = "release"
  PROVE  SameGrant(LocalRelease(s, q), releaseScript(s, q))
<1> DEFINE r == expireLocked(LocalView(s))
           k == Vacate(r)
           l == LocalRelease(s, q)
           o == releaseScript(s, q)
<1>1. /\ r \in Records /\ r.token = s.token
      /\ Lapsed(s) => r.owner = NoGen /\ r.phase = "unowned"
      /\ ~Lapsed(s) => r.owner = s.owner /\ r.phase = s.phase
  BY LocalExpires
<1>2. \/ l = LocalOutcome(s, Done(k))
      \/ r.phase = "unowned" /\ l = LocalOutcome(s, Done(r))
      \/ \E f \in Errors \ {"ok"} : l = LocalOutcome(s, Fail(r, f))
  BY DEF LocalRelease, ReleaseClaim, Errors
<1>3. o.err # "ok" \/ o.claim = Vacate(s)
  BY DEF releaseScript, Done, Fail
<1> HIDE DEF r, l, o
<1>4. k \in Records /\ k.owner = NoGen /\ k.token = r.token /\ k.phase = "unowned"
  BY <1>1, Zenon DEF Vacate, Records, Phases, HeldPhases, Owners
<1>5. /\ Vacate(s).owner = NoGen /\ Vacate(s).token = s.token /\ Vacate(s).phase = "unowned"
  BY DEF Vacate, Records
<1> HIDE DEF k
<1>6. r.phase = "unowned" => r.owner = NoGen
  BY <1>1 DEF Tidy, HeldPhases
<1> QED
  BY <1>1, <1>2, <1>3, <1>4, <1>5, <1>6, SameOutcome DEF l, o

\* The invariant is enough for Local to agree.
LEMMA InvAgrees ==
  ASSUME AskedAssumption, ExactAssumption, ScriptInv
  PROVE  LocalAgreesOnGrants
<1> SUFFICES ASSUME claim.left # 0, NEW q \in Asked
             PROVE  SameGrant(Local(claim, q), Script(claim, q))
  BY DEF LocalAgreesOnGrants, SameGrant
<1>1. claim \in Records /\ Tidy(claim) /\ claim.token <= TokenBound /\ q \in Requests
  BY DEF ScriptInv, TypeOK, AskedAssumption
<1>2. q.kind \in {"acquire", "renew", "prepare", "commit", "abort", "release"}
  BY <1>1, RequestFields
<1> QED
  BY <1>1, <1>2, SameAcquire, SameRenew, SamePrepare, SameCommit, SameAbort, SameRelease
  DEF Local, Script

-----------------------------------------------------------------------------

\* So the invariant holds at first, every step keeps it and is one of a fenced claim that
\* nobody loses while it is live, and it includes what is to be shown of every state.
LEMMA ScriptKept ==
  ASSUME AskedAssumption, ExactAssumption
  PROVE  /\ Init => ScriptInv /\ F!FInit
         /\ ScriptInv /\ [Next]_vars
               => ScriptInv' /\ [F!FNext]_(F!fvars) /\ OwnerKeepsLiveClaim
         /\ ScriptInv => TypeOK /\ AcknowledgedCommitHappened /\ LocalAgreesOnGrants
<1>1. ScriptInv => TypeOK /\ AcknowledgedCommitHappened
  BY DEF ScriptInv
<1> QED
  BY <1>1, InitSound, StepSound, SoundFenced, InvAgrees DEF ScriptSound


\* For any callers and requests, lost round trips included, the record, the table and the
\* calls keep to their types (backend/redis).
THEOREM TypeCorrect == ASSUME AskedAssumption, ExactAssumption PROVE Spec => []TypeOK
<1>1. ScriptInv /\ [Next]_vars => ScriptInv'
  BY StepSound DEF ScriptSound
<1>2. ScriptInv => TypeOK
  BY DEF ScriptInv
<1> QED
  BY <1>1, <1>2, InitSound, PTL DEF Spec

\* And the record on the server is a fenced claim: one owner at a time, and a new, larger
\* token for each ownership, as long as a double counts the tokens (the Lua scripts).
THEOREM Refinement == ASSUME AskedAssumption, ExactAssumption PROVE Spec => ImplementsFencedClaim
<1>1. ScriptInv /\ [Next]_vars => ScriptInv' /\ [F!FNext]_(F!fvars)
  BY StepSound, SoundFenced DEF ScriptSound
<1> QED
  BY <1>1, InitSound, PTL DEF Spec, ImplementsFencedClaim, F!FSpec

\* A generation loses a live claim only by its own release or commit under the current
\* token (the scripts compare owner and token).
THEOREM KeepsLiveClaim ==
  ASSUME AskedAssumption, ExactAssumption PROVE Spec => [][OwnerKeepsLiveClaim]_vars
<1>1. ScriptInv /\ [Next]_vars => ScriptInv' /\ [OwnerKeepsLiveClaim]_vars
  BY StepSound DEF ScriptSound
<1> QED
  BY <1>1, InitSound, PTL DEF Spec

\* A commit that is acknowledged did hand the claim over, although CommitTransfer checks
\* the claim in one round trip and evaluates its script in another.
THEOREM CommitHappened ==
  ASSUME AskedAssumption, ExactAssumption PROVE Spec => []AcknowledgedCommitHappened
<1>1. ScriptInv /\ [Next]_vars => ScriptInv'
  BY StepSound DEF ScriptSound
<1>2. ScriptInv => AcknowledgedCommitHappened
  BY DEF ScriptInv
<1> QED
  BY <1>1, <1>2, InitSound, PTL DEF Spec

\* On every record the server reaches, Local (local.go) grants, renews, hands over and
\* releases as the scripts do wherever both accept the request.
THEOREM LocalAgrees ==
  ASSUME AskedAssumption, ExactAssumption PROVE Spec => []LocalAgreesOnGrants
<1>1. ScriptInv /\ [Next]_vars => ScriptInv'
  BY StepSound DEF ScriptSound
<1>2. ScriptInv => LocalAgreesOnGrants
  BY InvAgrees
<1> QED
  BY <1>1, <1>2, InitSound, PTL DEF Spec
=============================================================================
