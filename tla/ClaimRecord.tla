---------------------------- MODULE ClaimRecord ----------------------------
(***************************************************************************)
(* The ownership record of one claim and the compare-and-set transitions a *)
(* backend applies to it under its lock (backend/memory/memory.go).        *)
(*                                                                         *)
(* Every transition is a pure operator from a stored record to an outcome  *)
(* [claim |-> the record left in the store, err |-> what the caller gets]. *)
(* ExpiresAt is kept as the time left until it: left < 0 exactly when      *)
(* now.After(ExpiresAt), so that the passage of time is Age and no clock   *)
(* value has to be bounded.  Fields no code reads to decide anything       *)
(* (timestamps, reasons, drain status, previous owner, version) are left   *)
(* out.                                                                    *)
(***************************************************************************)
EXTENDS Integers, TLAPS

CONSTANTS
    Gens,                 \* generation identifiers
    NoGen,                \* the empty identifier ""
    TTLs,                 \* lease durations requests may carry
    MaxSafeFencingToken   \* the largest token a backend hands out

ASSUME NoGenAssumption == NoGen \notin Gens
ASSUME TTLAssumption == TTLs \subseteq Nat
ASSUME MaxTokenAssumption == MaxSafeFencingToken \in Nat \ {0}

Owners == Gens \cup {NoGen}

\* Phases in which a generation holds the claim (state.go).
HeldPhases == {"owned", "reserved", "draining"}

Phases == HeldPhases \cup {"absent", "unowned"}

Records ==
    [owner    : Owners,
     token    : Nat,
     phase    : Phases,
     pending  : Owners,
     transfer : {"none", "prepared", "committed", "aborted"},
     left     : Int]

\* The store has no entry for the claim yet.
AbsentRecord ==
    [owner |-> NoGen, token |-> 0, phase |-> "absent", pending |-> NoGen,
     transfer |-> "none", left |-> -1]

\* A claim has an owner exactly in the held phases, a successor exactly while
\* it is reserved, and its owner's token is not zero (Controls relies on it).
Consistent(r) ==
    /\ r.owner # NoGen <=> r.phase \in HeldPhases
    /\ r.pending # NoGen <=> r.phase = "reserved"
    /\ r.owner # NoGen => r.token > 0
    /\ r.token <= MaxSafeFencingToken

Errors ==
    {"ok", "ErrClaimHeld", "ErrNotOwner", "ErrStaleToken", "ErrClaimNotFound",
     "ErrConcurrentTransfer", "ErrNoTransfer", "ErrTokenOverflow"}

Done(r) == [claim |-> r, err |-> "ok"]
Fail(r, e) == [claim |-> r, err |-> e]

\* One unit of time passes.  Below zero every value means "expired".
Age(r) == [r EXCEPT !.left = IF @ < 0 THEN -1 ELSE @ - 1]

Lapsed(r) == r.phase \in HeldPhases /\ r.left < 0

\* Faulty: an expired claim gets a phase of its own.
VacateExpired(r) ==
    [r EXCEPT !.owner = NoGen, !.pending = NoGen, !.phase = "expired",
              !.transfer = "none"]

Vacate(r) ==
    [r EXCEPT !.owner = NoGen, !.pending = NoGen, !.phase = "unowned",
              !.transfer = "none"]

\* Faulty: the token starts again from zero.
ExpireResetsToken(r) == IF Lapsed(r) THEN [Vacate(r) EXCEPT !.token = 0] ELSE r

\* Expiry clears the owner and keeps the token.
expireLocked(r) == IF Lapsed(r) THEN Vacate(r) ELSE r

\* Faulty: a free claim is taken under the token of its last owner.
AcquireSameToken(stored, g, ttl) ==
    LET r == expireLocked(stored) IN
    IF r.phase \in HeldPhases
    THEN IF r.owner = g THEN Done([r EXCEPT !.left = ttl])
                        ELSE Fail(r, "ErrClaimHeld")
    ELSE Done([owner |-> g, token |-> IF r.token = 0 THEN 1 ELSE r.token,
               phase |-> "owned", pending |-> NoGen, transfer |-> "none",
               left |-> ttl])

\* The claim's holder only extends its lease; a free claim gets the next token.
AcquireClaim(stored, g, ttl) ==
    LET r == expireLocked(stored) IN
    IF r.phase \in HeldPhases
    THEN IF r.owner = g THEN Done([r EXCEPT !.left = ttl])
                        ELSE Fail(r, "ErrClaimHeld")
    ELSE IF r.token >= MaxSafeFencingToken THEN Fail(r, "ErrTokenOverflow")
    ELSE Done([owner |-> g, token |-> r.token + 1, phase |-> "owned",
               pending |-> NoGen, transfer |-> "none", left |-> ttl])

\* Faulty: the expiry of the lease is not looked at.
RenewWithoutExpiry(stored, g, token, ttl) ==
    IF stored.phase = "absent" THEN Fail(stored, "ErrClaimNotFound")
    ELSE IF stored.owner # g THEN Fail(stored, "ErrNotOwner")
    ELSE IF stored.token # token THEN Fail(stored, "ErrStaleToken")
    ELSE IF stored.phase \notin HeldPhases THEN Fail(stored, "ErrNotOwner")
    ELSE Done([stored EXCEPT !.left = ttl])

RenewClaim(stored, g, token, ttl) ==
    LET r == expireLocked(stored) IN
    IF r.phase = "absent" THEN Fail(r, "ErrClaimNotFound")
    ELSE IF r.owner # g THEN Fail(r, "ErrNotOwner")
    ELSE IF r.token # token THEN Fail(r, "ErrStaleToken")
    ELSE IF r.phase \notin HeldPhases THEN Fail(r, "ErrNotOwner")
    ELSE Done([r EXCEPT !.left = ttl])

\* Preparing again for the same successor changes nothing.
PrepareTransfer(stored, from, to, token, ttl) ==
    LET r == expireLocked(stored) IN
    IF r.phase = "absent" THEN Fail(r, "ErrClaimNotFound")
    ELSE IF r.owner # from THEN Fail(r, "ErrNotOwner")
    ELSE IF r.token # token THEN Fail(r, "ErrStaleToken")
    ELSE IF r.phase = "reserved" /\ r.pending \notin {NoGen, to}
         THEN Fail(r, "ErrConcurrentTransfer")
    ELSE IF r.phase = "reserved" /\ r.pending = to THEN Done(r)
    ELSE Done([r EXCEPT !.phase = "reserved", !.pending = to,
                        !.transfer = "prepared", !.left = ttl])

\* Faulty: the successor gets the token of its predecessor.
CommitSameToken(stored, from, to, token, ttl) ==
    LET r == expireLocked(stored) IN
    IF r.phase # "reserved" THEN Fail(r, "ErrNoTransfer")
    ELSE IF r.owner # from \/ r.pending # to
         THEN Fail(r, "ErrConcurrentTransfer")
    ELSE IF r.token # token THEN Fail(r, "ErrStaleToken")
    ELSE Done([owner |-> to, token |-> r.token, phase |-> "owned",
               pending |-> NoGen, transfer |-> "committed", left |-> ttl])

\* A commit that already took effect is acknowledged again.
CommitTransfer(stored, from, to, token, ttl) ==
    LET r == expireLocked(stored) IN
    IF r.phase = "absent" THEN Fail(r, "ErrClaimNotFound")
    ELSE IF /\ r.phase = "owned" /\ r.owner = to
            /\ r.token = token + 1 /\ r.transfer = "committed"
         THEN Done(r)
    ELSE IF r.phase # "reserved" THEN Fail(r, "ErrNoTransfer")
    ELSE IF r.owner # from \/ r.pending # to
         THEN Fail(r, "ErrConcurrentTransfer")
    ELSE IF r.token # token THEN Fail(r, "ErrStaleToken")
    ELSE IF r.token >= MaxSafeFencingToken THEN Fail(r, "ErrTokenOverflow")
    ELSE Done([owner |-> to, token |-> r.token + 1, phase |-> "owned",
               pending |-> NoGen, transfer |-> "committed", left |-> ttl])

\* Faulty: the pending successor is not cleared.
AbortKeepsSuccessor(stored, from, token) ==
    LET r == expireLocked(stored) IN
    IF r.phase # "reserved" THEN Fail(r, "ErrNoTransfer")
    ELSE IF r.token # token THEN Fail(r, "ErrStaleToken")
    ELSE IF r.owner # from THEN Fail(r, "ErrNotOwner")
    ELSE Done([r EXCEPT !.phase = "owned", !.transfer = "aborted"])

\* The lease keeps the expiry of the reservation.
AbortTransfer(stored, from, token) ==
    LET r == expireLocked(stored) IN
    IF r.phase = "absent" THEN Fail(r, "ErrClaimNotFound")
    ELSE IF r.phase = "owned" /\ r.owner = from THEN Done(r)
    ELSE IF r.phase # "reserved" THEN Fail(r, "ErrNoTransfer")
    ELSE IF r.token # token THEN Fail(r, "ErrStaleToken")
    ELSE IF r.owner # from THEN Fail(r, "ErrNotOwner")
    ELSE Done([r EXCEPT !.pending = NoGen, !.phase = "owned",
                        !.transfer = "aborted"])

\* Faulty: the token is not compared.
ReleaseUnfenced(stored, g, token) ==
    LET r == expireLocked(stored) IN
    IF r.phase = "absent" THEN Fail(r, "ErrClaimNotFound")
    ELSE IF r.owner = g THEN Done(Vacate(r))
    ELSE IF r.phase = "unowned" THEN Done(r)
    ELSE Fail(r, "ErrNotOwner")

ReleaseClaim(stored, g, token) ==
    LET r == expireLocked(stored) IN
    IF r.phase = "absent" THEN Fail(r, "ErrClaimNotFound")
    ELSE IF r.token # token THEN Fail(r, "ErrStaleToken")
    ELSE IF r.owner = g THEN Done(Vacate(r))
    ELSE IF r.phase = "unowned" THEN Done(r)
    ELSE Fail(r, "ErrNotOwner")

-----------------------------------------------------------------------------
(* What a caller may see of one backend call (backend/faultinject): the    *)
(* call may fail before it is applied, or be applied and its answer lost.  *)

\* Failure before the record is touched: pool exhausted, unavailable, timeout,
\* serialization conflict, rolled-back transaction.
before(stored) == [claim |-> stored, err |-> "ErrBackend"]

\* Applied, but the client sees an error.
afterApply(outcome) == [claim |-> outcome.claim, err |-> "ErrAmbiguous"]

\* Every way a call with this outcome on this stored record can end.
Answers(stored, outcome) ==
    {outcome, before(stored)}
        \cup {a \in {afterApply(outcome)} : outcome.err = "ok"}

-----------------------------------------------------------------------------
(* What the transitions preserve, for every record, request and TTL.       *)

\* The transition from record r to record s is one a fenced claim may make:
\* the owner stays or goes at the same token, or a generation is granted the
\* next one.
FencedStep(r, s) ==
    \/ s.owner \in {r.owner, NoGen} /\ s.token = r.token
    \/ s.owner \in Gens /\ s.token = r.token + 1

\* What each transition has to do: keep the record well formed and take a
\* fenced step.
Good(r, s) == s \in Records /\ Consistent(s) /\ FencedStep(r, s)

\* The record the store starts from is well formed.
LEMMA AbsentRecordGood == AbsentRecord \in Records /\ Consistent(AbsentRecord)
  BY NoGenAssumption, MaxTokenAssumption
     DEF AbsentRecord, Records, Consistent, Phases, HeldPhases, Owners

\* expireLocked only ever vacates the claim; the token stays.
LEMMA ExpireGood ==
  ASSUME NEW r \in Records, Consistent(r)
  PROVE  /\ expireLocked(r) \in Records
         /\ Consistent(expireLocked(r))
         /\ expireLocked(r).token = r.token
         /\ expireLocked(r).owner \in {r.owner, NoGen}
  BY NoGenAssumption
     DEF expireLocked, Vacate, Lapsed, Records, Consistent, Phases,
         HeldPhases, Owners

\* Time changes neither owner nor token.
LEMMA AgeGood ==
  ASSUME NEW r \in Records, Consistent(r)
  PROVE  Good(r, Age(r))
  BY DEF Good, FencedStep, Age, Records, Consistent, Phases, HeldPhases, Owners

\* A step that keeps the expired record, or changes it without touching owner
\* and token, is good.
LEMMA KeepGood ==
  ASSUME NEW r \in Records, Consistent(r),
         NEW s \in Records, Consistent(s),
         s.token = expireLocked(r).token,
         s.owner \in {expireLocked(r).owner, NoGen}
  PROVE  Good(r, s)
  BY ExpireGood DEF Good, FencedStep

\* AcquireClaim (memory.go) grants at most the next token.
LEMMA AcquireGood ==
  ASSUME NEW r \in Records, Consistent(r), NEW g \in Gens, NEW ttl \in Int
  PROVE  Good(r, AcquireClaim(r, g, ttl).claim)
<1> DEFINE e == expireLocked(r)
           s == AcquireClaim(r, g, ttl).claim
<1>1. e \in Records /\ Consistent(e) /\ e.token = r.token
  BY ExpireGood
<1>2. CASE e.phase \in HeldPhases
  <2>1. s = e \/ s = [e EXCEPT !.left = ttl]
    BY <1>2 DEF AcquireClaim, Done, Fail
  <2>2. s \in Records /\ Consistent(s) /\ s.token = e.token /\ s.owner = e.owner
    <3> HIDE DEF e, s
    <3> QED  BY <1>1, <2>1 DEF Records, Consistent
  <2> QED  BY <2>2, KeepGood
<1>3. CASE e.phase \notin HeldPhases /\ e.token >= MaxSafeFencingToken
  <2>1. s = e
    BY <1>3 DEF AcquireClaim, Fail
  <2> QED  BY <1>1, <2>1, KeepGood
<1>4. CASE e.phase \notin HeldPhases /\ ~(e.token >= MaxSafeFencingToken)
  <2>1. s = [owner |-> g, token |-> e.token + 1, phase |-> "owned",
             pending |-> NoGen, transfer |-> "none", left |-> ttl]
    BY <1>4 DEF AcquireClaim, Done
  <2> HIDE DEF e, s
  <2>2. s \in Records
    BY <1>1, <2>1 DEF Records, Owners, Phases, HeldPhases
  <2>3. Consistent(s)
    BY <1>1, <1>4, <2>1, NoGenAssumption, MaxTokenAssumption
       DEF Consistent, HeldPhases, Records
  <2>4. s.owner = g /\ s.token = r.token + 1
    BY <1>1, <2>1
  <2>5. Good(r, s)
    BY <2>2, <2>3, <2>4 DEF Good, FencedStep
  <2> QED  BY <2>5 DEF s
<1> QED  BY <1>2, <1>3, <1>4

\* RenewClaim changes only the expiry of the record.
LEMMA RenewGood ==
  ASSUME NEW r \in Records, Consistent(r), NEW g \in Gens, NEW tok,
         NEW ttl \in Int
  PROVE  Good(r, RenewClaim(r, g, tok, ttl).claim)
<1> DEFINE e == expireLocked(r)
           s == RenewClaim(r, g, tok, ttl).claim
<1>1. e \in Records /\ Consistent(e)
  BY ExpireGood
<1>2. s = e \/ s = [e EXCEPT !.left = ttl]
  BY DEF RenewClaim, Done, Fail
<1>3. s \in Records /\ Consistent(s) /\ s.token = e.token /\ s.owner = e.owner
  <2> HIDE DEF e, s
  <2> QED  BY <1>1, <1>2 DEF Records, Consistent
<1> QED  BY <1>3, KeepGood

\* PrepareTransfer reserves the claim for a successor; owner and token stay.
LEMMA PrepareGood ==
  ASSUME NEW r \in Records, Consistent(r), NEW g \in Gens, NEW to \in Gens,
         NEW tok, NEW ttl \in Int
  PROVE  Good(r, PrepareTransfer(r, g, to, tok, ttl).claim)
<1> DEFINE e == expireLocked(r)
           s == PrepareTransfer(r, g, to, tok, ttl).claim
<1>1. e \in Records /\ Consistent(e)
  BY ExpireGood
<1>2. \/ s = e
      \/ e.owner = g /\ s = [e EXCEPT !.phase = "reserved", !.pending = to,
                                      !.transfer = "prepared", !.left = ttl]
  BY DEF PrepareTransfer, Done, Fail
<1>3. s \in Records /\ Consistent(s) /\ s.token = e.token /\ s.owner = e.owner
  <2> HIDE DEF e, s
  <2>1. CASE s = e
    BY <1>1, <2>1
  <2>2. CASE s # e
    <3>1. s = [e EXCEPT !.phase = "reserved", !.pending = to,
                        !.transfer = "prepared", !.left = ttl]
      BY <1>2, <2>2
    <3>2. to \in Owners /\ "reserved" \in Phases
      BY DEF Owners, Phases, HeldPhases
    <3>3. s \in Records
      BY <1>1, <3>1, <3>2 DEF Records
    <3>4. /\ s.token = e.token /\ s.owner = e.owner
          /\ s.phase = "reserved" /\ s.pending = to
      BY <1>1, <3>1 DEF Records
    <3> QED  BY <3>3, <1>1, <1>2, <2>2, <3>4, NoGenAssumption DEF Consistent, HeldPhases
  <2> QED  BY <2>1, <2>2
<1> QED  BY <1>3, KeepGood

\* CommitTransfer hands the claim to the successor under the next token.
LEMMA CommitGood ==
  ASSUME NEW r \in Records, Consistent(r), NEW g \in Gens, NEW to \in Gens,
         NEW tok, NEW ttl \in Int
  PROVE  Good(r, CommitTransfer(r, g, to, tok, ttl).claim)
<1> DEFINE e == expireLocked(r)
           s == CommitTransfer(r, g, to, tok, ttl).claim
<1>1. e \in Records /\ Consistent(e) /\ e.token = r.token
  BY ExpireGood
<1>2. \/ s = e
      \/ /\ ~(e.token >= MaxSafeFencingToken)
         /\ s = [owner |-> to, token |-> e.token + 1, phase |-> "owned",
                 pending |-> NoGen, transfer |-> "committed", left |-> ttl]
  BY DEF CommitTransfer, Done, Fail
<1>3. CASE s = e
  BY <1>1, <1>3, KeepGood
<1>4. CASE s # e
  <2> HIDE DEF e, s
  <2>1. s \in Records
    BY <1>1, <1>2, <1>4 DEF Records, Owners, Phases, HeldPhases
  <2>2. Consistent(s)
    BY <1>1, <1>2, <1>4, NoGenAssumption, MaxTokenAssumption
       DEF Consistent, HeldPhases, Records
  <2>3. s.owner = to /\ s.token = r.token + 1
    BY <1>1, <1>2, <1>4
  <2>4. Good(r, s)
    BY <2>1, <2>2, <2>3 DEF Good, FencedStep
  <2> QED  BY <2>4 DEF s
<1> QED  BY <1>3, <1>4

\* AbortTransfer restores the owner's phase; owner and token stay.
LEMMA AbortGood ==
  ASSUME NEW r \in Records, Consistent(r), NEW g \in Gens, NEW tok
  PROVE  Good(r, AbortTransfer(r, g, tok).claim)
<1> DEFINE e == expireLocked(r)
           s == AbortTransfer(r, g, tok).claim
<1>1. e \in Records /\ Consistent(e)
  BY ExpireGood
<1>2. \/ s = e
      \/ e.owner = g /\ s = [e EXCEPT !.pending = NoGen, !.phase = "owned",
                                      !.transfer = "aborted"]
  BY DEF AbortTransfer, Done, Fail
<1>3. s \in Records /\ Consistent(s) /\ s.token = e.token /\ s.owner = e.owner
  <2> HIDE DEF e, s
  <2> QED  BY <1>1, <1>2, NoGenAssumption
              DEF Records, Consistent, Owners, Phases, HeldPhases
<1> QED  BY <1>3, KeepGood

\* ReleaseClaim vacates the claim and keeps the token.
LEMMA ReleaseGood ==
  ASSUME NEW r \in Records, Consistent(r), NEW g \in Gens, NEW tok
  PROVE  Good(r, ReleaseClaim(r, g, tok).claim)
<1> DEFINE e == expireLocked(r)
           s == ReleaseClaim(r, g, tok).claim
<1>1. e \in Records /\ Consistent(e)
  BY ExpireGood
<1>2. s = e \/ s = Vacate(e)
  BY DEF ReleaseClaim, Done, Fail
<1>3. /\ s \in Records /\ Consistent(s)
      /\ s.token = e.token /\ s.owner \in {e.owner, NoGen}
  <2> HIDE DEF e, s
  <2> QED  BY <1>1, <1>2, NoGenAssumption
              DEF Vacate, Records, Consistent, Owners, Phases, HeldPhases
<1> QED  BY <1>3, KeepGood

\* Every handler answers with one of the known errors.
LEMMA ErrTyped ==
  ASSUME NEW r, NEW g, NEW to, NEW tok, NEW ttl
  PROVE  /\ AcquireClaim(r, g, ttl).err \in Errors
         /\ RenewClaim(r, g, tok, ttl).err \in Errors
         /\ PrepareTransfer(r, g, to, tok, ttl).err \in Errors
         /\ CommitTransfer(r, g, to, tok, ttl).err \in Errors
         /\ AbortTransfer(r, g, tok).err \in Errors
         /\ ReleaseClaim(r, g, tok).err \in Errors
<1>1. AcquireClaim(r, g, ttl).err \in Errors
  BY DEF AcquireClaim, Done, Fail, Errors
<1>2. RenewClaim(r, g, tok, ttl).err \in Errors
  BY DEF RenewClaim, Done, Fail, Errors
<1>3. PrepareTransfer(r, g, to, tok, ttl).err \in Errors
  BY DEF PrepareTransfer, Done, Fail, Errors
<1>4. CommitTransfer(r, g, to, tok, ttl).err \in Errors
  BY DEF CommitTransfer, Done, Fail, Errors
<1>5. AbortTransfer(r, g, tok).err \in Errors
  BY DEF AbortTransfer, Done, Fail, Errors
<1>6. ReleaseClaim(r, g, tok).err \in Errors
  BY DEF ReleaseClaim, Done, Fail, Errors
<1> QED  BY <1>1, <1>2, <1>3, <1>4, <1>5, <1>6

\* A successful acquire leaves the caller in control of the claim.
LEMMA AcquireOk ==
  ASSUME NEW r \in Records, Consistent(r), NEW g \in Gens, NEW ttl \in Int,
         AcquireClaim(r, g, ttl).err = "ok"
  PROVE  /\ AcquireClaim(r, g, ttl).claim.owner = g
         /\ AcquireClaim(r, g, ttl).claim.phase \in HeldPhases
<1> DEFINE e == expireLocked(r)
<1>1. e \in Records
  BY ExpireGood
<1>2. CASE e.phase \in HeldPhases
  <2>1. e.owner = g /\ AcquireClaim(r, g, ttl).claim = [e EXCEPT !.left = ttl]
    BY <1>2 DEF AcquireClaim, Done, Fail
  <2> HIDE DEF e
  <2> QED  BY <1>1, <1>2, <2>1 DEF Records
<1>3. CASE e.phase \notin HeldPhases
  BY <1>3 DEF AcquireClaim, Done, Fail, HeldPhases
<1> QED  BY <1>2, <1>3

\* A successful renewal was the owner's, under the token it named.
LEMMA RenewOk ==
  ASSUME NEW r \in Records, Consistent(r), NEW g \in Gens, NEW tok,
         NEW ttl \in Int, RenewClaim(r, g, tok, ttl).err = "ok"
  PROVE  /\ RenewClaim(r, g, tok, ttl).claim.owner = g
         /\ RenewClaim(r, g, tok, ttl).claim.token = tok
         /\ RenewClaim(r, g, tok, ttl).claim.phase \in HeldPhases
<1> DEFINE e == expireLocked(r)
<1>1. e \in Records
  BY ExpireGood
<1>2. /\ e.owner = g /\ e.token = tok /\ e.phase \in HeldPhases
      /\ RenewClaim(r, g, tok, ttl).claim = [e EXCEPT !.left = ttl]
  BY DEF RenewClaim, Done, Fail
<1> HIDE DEF e
<1> QED  BY <1>1, <1>2 DEF Records

\* t is a token of g's: the store has reached it, and as long as it is the
\* current one nobody but g owns the claim.
EpochOf(r, g, t) == t <= r.token /\ (t = r.token => r.owner \in {g, NoGen})

\* A token stays its generation's through every good step.
LEMMA EpochKept ==
  ASSUME NEW r \in Records, NEW s, Good(r, s), NEW g, NEW t \in Nat,
         EpochOf(r, g, t)
  PROVE  EpochOf(s, g, t)
  BY DEF Good, FencedStep, EpochOf, Records

\* Whatever becomes of a call's answer, the record made a good step or none,
\* and an answer without error is the outcome.
LEMMA AnswersGood ==
  ASSUME NEW r \in Records, Consistent(r), NEW o, Good(r, o.claim),
         NEW a \in Answers(r, o)
  PROVE  Good(r, a.claim) /\ (a.err = "ok" => a = o)
<1>1. Good(r, r)
  BY DEF Good, FencedStep
<1> QED  BY <1>1 DEF Answers, before, afterApply

\* A successful prepare was the owner's, under the token it named.
LEMMA PrepareOk ==
  ASSUME NEW r \in Records, Consistent(r), NEW g \in Gens, NEW to \in Gens,
         NEW tok, NEW ttl \in Int, PrepareTransfer(r, g, to, tok, ttl).err = "ok"
  PROVE  /\ PrepareTransfer(r, g, to, tok, ttl).claim.owner = g
         /\ PrepareTransfer(r, g, to, tok, ttl).claim.token = tok
<1> DEFINE e == expireLocked(r)
           s == PrepareTransfer(r, g, to, tok, ttl).claim
<1>1. e \in Records
  BY ExpireGood
<1>2. /\ e.owner = g /\ e.token = tok
      /\ \/ s = e
         \/ s = [e EXCEPT !.phase = "reserved", !.pending = to,
                          !.transfer = "prepared", !.left = ttl]
  BY DEF PrepareTransfer, Done, Fail
<1> HIDE DEF e
<1> QED  BY <1>1, <1>2 DEF Records

\* After a successful commit the successor is the owner.
LEMMA CommitOk ==
  ASSUME NEW r, NEW g, NEW to, NEW tok, NEW ttl,
         CommitTransfer(r, g, to, tok, ttl).err = "ok"
  PROVE  CommitTransfer(r, g, to, tok, ttl).claim.owner = to
  BY DEF CommitTransfer, Done, Fail

\* Expiry reserves no claim.
LEMMA ExpireNotReserved ==
  ASSUME NEW r \in Records, Consistent(r), r.phase # "reserved"
  PROVE  expireLocked(r) \in Records /\ expireLocked(r).phase # "reserved"
  BY ExpireGood DEF expireLocked, Vacate, Records

\* Only PrepareTransfer reserves a claim: not an acquire, a renewal or a commit ...
LEMMA NotReserved ==
  ASSUME NEW r \in Records, Consistent(r), NEW g \in Gens, NEW to \in Gens,
         NEW tok, NEW ttl \in Int, r.phase # "reserved"
  PROVE  /\ AcquireClaim(r, g, ttl).claim.phase # "reserved"
         /\ RenewClaim(r, g, tok, ttl).claim.phase # "reserved"
         /\ CommitTransfer(r, g, to, tok, ttl).claim.phase # "reserved"
<1> DEFINE e == expireLocked(r)
<1>1. e \in Records /\ e.phase # "reserved"
  BY ExpireNotReserved
<1>2. LET s == AcquireClaim(r, g, ttl).claim
      IN  s = e \/ s = [e EXCEPT !.left = ttl] \/ s.phase = "owned"
  BY DEF AcquireClaim, Done, Fail
<1>3. LET s == RenewClaim(r, g, tok, ttl).claim
      IN  s = e \/ s = [e EXCEPT !.left = ttl]
  BY DEF RenewClaim, Done, Fail
<1>4. LET s == CommitTransfer(r, g, to, tok, ttl).claim
      IN  s = e \/ s.phase = "owned"
  BY DEF CommitTransfer, Done, Fail
<1>5. [e EXCEPT !.left = ttl].phase # "reserved"
  BY <1>1 DEF Records
<1> HIDE DEF e
<1> QED  BY <1>1, <1>2, <1>3, <1>4, <1>5

\* ... an abort, a release or the passage of time.
LEMMA NotReservedEither ==
  ASSUME NEW r \in Records, Consistent(r), NEW g, NEW tok, r.phase # "reserved"
  PROVE  /\ AbortTransfer(r, g, tok).claim.phase # "reserved"
         /\ ReleaseClaim(r, g, tok).claim.phase # "reserved"
         /\ Age(r).phase # "reserved"
<1> DEFINE e == expireLocked(r)
<1>1. e \in Records /\ e.phase # "reserved"
  BY ExpireNotReserved
<1>2. LET s == AbortTransfer(r, g, tok).claim
      IN  s = e \/ s = [e EXCEPT !.pending = NoGen, !.phase = "owned",
                                 !.transfer = "aborted"]
  BY DEF AbortTransfer, Done, Fail
<1>3. LET s == ReleaseClaim(r, g, tok).claim
      IN  s = e \/ s = Vacate(e)
  BY DEF ReleaseClaim, Done, Fail
<1>4. [e EXCEPT !.pending = NoGen, !.phase = "owned",
                !.transfer = "aborted"].phase # "reserved"
  BY <1>1 DEF Records
<1>5. Vacate(e).phase # "reserved"
  BY <1>1 DEF Records, Vacate
<1>6. Age(r).phase # "reserved"
  BY DEF Age, Records
<1> HIDE DEF e
<1> QED  BY <1>1, <1>2, <1>3, <1>4, <1>5, <1>6

\* Zero is a token of everybody's past.
LEMMA ZeroEpoch ==
  ASSUME NEW r \in Records, Consistent(r), NEW g
  PROVE  EpochOf(r, g, 0)
  BY DEF EpochOf, Consistent, Records

-----------------------------------------------------------------------------
(* The history of grants.                                                  *)

\* The grants g of a claim whose record is r: each token went to one
\* generation, none is beyond the record's, and the owner has the last one.
Covered(r, g) ==
    /\ g \subseteq Nat \X Gens
    /\ \A p \in g : p[1] <= r.token
    /\ r.owner # NoGen => <<r.token, r.owner>> \in g
    /\ \A p, q \in g : p[1] = q[1] => p[2] = q[2]

\* What is granted when record s is stored.
GrantOf(s) == {p \in {<<s.token, s.owner>>} : p[2] # NoGen}

\* Storing record s in the place of r, with the grants g turned into h, is a
\* step of the fenced claim.
FencedStore(r, s, g, h) ==
    \/ s.owner = r.owner /\ s.token = r.token /\ h = g
    \/ r.owner # NoGen /\ s.owner = NoGen /\ s.token = r.token /\ h = g
    \/ s.owner \in Gens /\ s.token = r.token + 1 /\ h = g \cup {<<s.token, s.owner>>}

\* A fenced step that notes its grant is a step of the fenced claim, and the
\* history goes on covering the record: an owner that stays was granted its
\* token before, and a new token is beyond all that were granted.
LEMMA StoreGranted ==
  ASSUME NEW r \in Records, NEW s \in Records, FencedStep(r, s),
         NEW g, Covered(r, g), NEW h,
         h = g \cup GrantOf(s) \/ (h = g /\ s.token = r.token)
  PROVE  Covered(s, h) /\ FencedStore(r, s, g, h)
<1>0. /\ r.token \in Nat /\ s.token \in Nat /\ s.owner \in Gens \cup {NoGen}
      /\ r.owner \in Gens \cup {NoGen}
  BY DEF Records, Owners
<1>1. CASE s.owner = NoGen /\ s.token = r.token
  <2>1. h = g
    BY <1>1 DEF GrantOf
  <2> QED  BY <1>0, <1>1, <2>1 DEF Covered, FencedStore
<1>2. CASE s.owner = r.owner /\ s.owner # NoGen /\ s.token = r.token
  <2>1. h = g
    BY <1>2 DEF GrantOf, Covered
  <2> QED  BY <1>0, <1>2, <2>1 DEF Covered, FencedStore
<1>3. CASE s.owner \in Gens /\ s.token = r.token + 1
  <2>1. h = g \cup {<<s.token, s.owner>>}
    BY <1>0, <1>3, NoGenAssumption DEF GrantOf
  <2>2. \A p \in g : p \in Nat \X Gens /\ p[1] < s.token
    BY <1>0, <1>3 DEF Covered
  <2> QED  BY <1>0, <1>3, <2>1, <2>2 DEF Covered, FencedStore
<1> QED  BY <1>1, <1>2, <1>3 DEF FencedStep

\* Nothing was granted of the record the store starts from.
LEMMA NothingGranted == Covered(AbsentRecord, {})
  BY DEF Covered, AbsentRecord

-----------------------------------------------------------------------------
(* All the transitions at once.                                            *)

\* q is a request for a transition, with ttl the duration the backend makes of
\* the one it carries.
Request(q, ttl) ==
    /\ q.kind \in {"acquire", "renew", "prepare", "commit", "abort", "release"}
    /\ q.gen \in Gens
    /\ q.kind \in {"prepare", "commit"} => q.to \in Gens
    /\ q.kind \notin {"abort", "release"} => ttl \in Int

\* The outcome of request q on record r.
Handled(r, q, ttl) ==
    CASE q.kind = "acquire" -> AcquireClaim(r, q.gen, ttl)
      [] q.kind = "renew"   -> RenewClaim(r, q.gen, q.token, ttl)
      [] q.kind = "prepare" -> PrepareTransfer(r, q.gen, q.to, q.token, ttl)
      [] q.kind = "commit"  -> CommitTransfer(r, q.gen, q.to, q.token, ttl)
      [] q.kind = "abort"   -> AbortTransfer(r, q.gen, q.token)
      [] q.kind = "release" -> ReleaseClaim(r, q.gen, q.token)

\* What an outcome consists of.
LEMMA HandledRecord ==
  ASSUME NEW r, NEW q, NEW ttl, Request(q, ttl)
  PROVE  LET o == Handled(r, q, ttl)
         IN  o = [claim |-> o.claim, err |-> o.err] /\ o.err \in Errors
<1> DEFINE o == Handled(r, q, ttl)
<1>1. CASE q.kind = "acquire"
  BY <1>1 DEF Handled, AcquireClaim, Done, Fail, Errors
<1>2. CASE q.kind = "renew"
  BY <1>2 DEF Handled, RenewClaim, Done, Fail, Errors
<1>3. CASE q.kind = "prepare"
  BY <1>3 DEF Handled, PrepareTransfer, Done, Fail, Errors
<1>4. CASE q.kind = "commit"
  BY <1>4 DEF Handled, CommitTransfer, Done, Fail, Errors
<1>5. CASE q.kind = "abort"
  BY <1>5 DEF Handled, AbortTransfer, Done, Fail, Errors
<1>6. CASE q.kind = "release"
  BY <1>6 DEF Handled, ReleaseClaim, Done, Fail, Errors
<1> QED  BY <1>1, <1>2, <1>3, <1>4, <1>5, <1>6 DEF Request

\* Every request leaves a well-formed record and takes a fenced step.
LEMMA HandledGood ==
  ASSUME NEW r \in Records, Consistent(r), NEW q, NEW ttl, Request(q, ttl)
  PROVE  Good(r, Handled(r, q, ttl).claim)
<1>1. CASE q.kind = "acquire"
  BY <1>1, AcquireGood DEF Handled, Request
<1>2. CASE q.kind = "renew"
  BY <1>2, RenewGood DEF Handled, Request
<1>3. CASE q.kind = "prepare"
  BY <1>3, PrepareGood DEF Handled, Request
<1>4. CASE q.kind = "commit"
  BY <1>4, CommitGood DEF Handled, Request
<1>5. CASE q.kind = "abort"
  BY <1>5, AbortGood DEF Handled, Request
<1>6. CASE q.kind = "release"
  BY <1>6, ReleaseGood DEF Handled, Request
<1> QED  BY <1>1, <1>2, <1>3, <1>4, <1>5, <1>6 DEF Request

\* Owner and token stay as they are.
SameEpoch(r, s) == s.owner = r.owner /\ s.token = r.token

\* The owner of r gives it up by request q, under the current token.
GivesUp(q, r) ==
    q.kind \in {"release", "commit"} /\ q.gen = r.owner /\ q.token = r.token

\* A live claim keeps its owner and token unless the owner gives it up.
LEMMA HandledKeeps ==
  ASSUME NEW r \in Records, Consistent(r), NEW q, NEW ttl, Request(q, ttl),
         r.owner # NoGen, r.left >= 0
  PROVE  SameEpoch(r, Handled(r, q, ttl).claim) \/ GivesUp(q, r)
<1> DEFINE s == Handled(r, q, ttl).claim
<1>1. expireLocked(r) = r /\ r.phase \in HeldPhases /\ r.phase \notin {"absent", "unowned"}
  BY DEF expireLocked, Lapsed, Consistent, Records, HeldPhases
<1>2. CASE q.kind = "acquire" \/ q.kind = "renew"
  <2>1. s = r \/ s = [r EXCEPT !.left = ttl]
    BY <1>1, <1>2 DEF Handled, AcquireClaim, RenewClaim, Done, Fail
  <2> QED  BY <2>1 DEF SameEpoch, Records
<1>3. CASE q.kind = "prepare"
  <2>1. s = r \/ s = [r EXCEPT !.phase = "reserved", !.pending = q.to,
                               !.transfer = "prepared", !.left = ttl]
    BY <1>1, <1>3 DEF Handled, PrepareTransfer, Done, Fail
  <2> QED  BY <2>1 DEF SameEpoch, Records
<1>4. CASE q.kind = "commit"
  <2>1. s = r \/ GivesUp(q, r)
    BY <1>1, <1>4 DEF Handled, CommitTransfer, Done, Fail, GivesUp
  <2> QED  BY <2>1 DEF SameEpoch
<1>5. CASE q.kind = "abort"
  <2>1. s = r \/ s = [r EXCEPT !.pending = NoGen, !.phase = "owned",
                               !.transfer = "aborted"]
    BY <1>1, <1>5 DEF Handled, AbortTransfer, Done, Fail
  <2> QED  BY <2>1 DEF SameEpoch, Records
<1>6. CASE q.kind = "release"
  <2>1. s = r \/ GivesUp(q, r)
    BY <1>1, <1>6 DEF Handled, ReleaseClaim, Done, Fail, GivesUp
  <2> QED  BY <2>1 DEF SameEpoch
<1> QED  BY <1>2, <1>3, <1>4, <1>5, <1>6 DEF Request

\* A lease that has run out is not revived: its owner comes back under a new token only.
LEMMA HandledNotRevived ==
  ASSUME NEW r \in Records, Consistent(r), NEW q, NEW ttl, Request(q, ttl), Lapsed(r),
         Handled(r, q, ttl).claim.owner = r.owner
  PROVE  Handled(r, q, ttl).claim.token > r.token
<1> DEFINE e == expireLocked(r)
           s == Handled(r, q, ttl).claim
<1>1. /\ e = Vacate(r) /\ e.owner = NoGen /\ e.phase = "unowned" /\ e.token = r.token
      /\ r.owner # NoGen /\ r.token \in Nat
  BY DEF expireLocked, Lapsed, Vacate, Consistent, Records, HeldPhases
<1>2. s = e \/ s.token = e.token + 1 \/ s = Vacate(e)
  <2>1. CASE q.kind = "acquire"
    BY <1>1, <2>1 DEF Handled, AcquireClaim, Done, Fail, HeldPhases
  <2>2. CASE q.kind = "renew"
    BY <1>1, <2>2 DEF Handled, RenewClaim, Done, Fail, HeldPhases
  <2>3. CASE q.kind = "prepare"
    BY <1>1, <2>3, NoGenAssumption DEF Handled, PrepareTransfer, Done, Fail, Request
  <2>4. CASE q.kind = "commit"
    BY <1>1, <2>4 DEF Handled, CommitTransfer, Done, Fail
  <2>5. CASE q.kind = "abort"
    BY <1>1, <2>5 DEF Handled, AbortTransfer, Done, Fail
  <2>6. CASE q.kind = "release"
    BY <1>1, <2>6 DEF Handled, ReleaseClaim, Done, Fail
  <2> QED  BY <2>1, <2>2, <2>3, <2>4, <2>5, <2>6 DEF Request
<1>3. Vacate(e).owner = NoGen
  BY ExpireGood DEF Vacate, Records
<1> HIDE DEF e, s
<1>4. s.owner = r.owner
  BY DEF s
<1>5. s.token = r.token + 1
  BY <1>1, <1>2, <1>3, <1>4
<1> QED  BY <1>1, <1>5 DEF s

\* A claim that is in the store stays there.
LEMMA HandledPresent ==
  ASSUME NEW r \in Records, NEW q, NEW ttl, Request(q, ttl), r.phase # "absent"
  PROVE  Handled(r, q, ttl).claim.phase # "absent"
<1> DEFINE e == expireLocked(r)
           s == Handled(r, q, ttl).claim
<1>1. e \in Records /\ e.phase # "absent"
  BY DEF expireLocked, Vacate, Records, Owners, Phases
<1>2. \/ s = e \/ s = [e EXCEPT !.left = ttl] \/ s = Vacate(e) \/ s.phase = "owned"
      \/ s = [e EXCEPT !.phase = "reserved", !.pending = q.to, !.transfer = "prepared",
                       !.left = ttl]
      \/ s = [e EXCEPT !.pending = NoGen, !.phase = "owned", !.transfer = "aborted"]
  <2>1. CASE q.kind = "acquire"
    BY <2>1 DEF Handled, AcquireClaim, Done, Fail
  <2>2. CASE q.kind = "renew"
    BY <2>2 DEF Handled, RenewClaim, Done, Fail
  <2>3. CASE q.kind = "prepare"
    BY <2>3 DEF Handled, PrepareTransfer, Done, Fail
  <2>4. CASE q.kind = "commit"
    BY <2>4 DEF Handled, CommitTransfer, Done, Fail
  <2>5. CASE q.kind = "abort"
    BY <2>5 DEF Handled, AbortTransfer, Done, Fail
  <2>6. CASE q.kind = "release"
    BY <2>6 DEF Handled, ReleaseClaim, Done, Fail
  <2> QED  BY <2>1, <2>2, <2>3, <2>4, <2>5, <2>6 DEF Request
<1> HIDE DEF e, s
<1>3. s.phase # "absent"
  BY <1>1, <1>2 DEF Records, Vacate
<1> QED  BY <1>3 DEF s

\* s is r but for its expiry and transfer status.
Alike(r, s) ==
    /\ s \in Records
    /\ SameEpoch(r, s) /\ s.phase = r.phase /\ s.pending = r.pending

\* Another expiry makes no other difference.
LEMMA AlikeLeft ==
  ASSUME NEW r \in Records, NEW left \in Int
  PROVE  Alike(r, [r EXCEPT !.left = left]) /\ [r EXCEPT !.left = left].left = left
  BY DEF Alike, SameEpoch, Records

\* Whether a step is good does not depend on expiry and transfer status.
LEMMA AlikeGood ==
  ASSUME NEW r, NEW s, Good(r, s), NEW t, SameEpoch(r, t), NEW u, Alike(s, u)
  PROVE  Good(t, u)
  BY DEF Good, FencedStep, Alike, SameEpoch, Consistent

\* Nor does whether a record is consistent.
LEMMA AlikeConsistent ==
  ASSUME NEW r, Consistent(r), NEW s, Alike(r, s)
  PROVE  s \in Records /\ Consistent(s)
  BY DEF Alike, SameEpoch, Consistent
=============================================================================
