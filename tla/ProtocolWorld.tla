---------------------------- MODULE ProtocolWorld ----------------------------
(***************************************************************************)
(* model/: the repository's own reference model of the ownership protocol, *)
(* for one claim.  World.Apply is the next-state relation; the generations *)
(* are registered before anything else, as Generator.Sequence has it.      *)
(* ExpiresAt and TransferDeadline are kept as the time left until them; a  *)
(* TransferDeadline of zero, which the code takes for none, is untimed.    *)
(* The states, readiness and draining of generations are written and never *)
(* read, and are left out; the restart of the backend changes nothing.     *)
(***************************************************************************)
EXTENDS Integers

CONSTANTS
    Gens, NoGen,
    OpIds, NoOp,
    Replayed,           \* the operation ids that may be used again
    LeaseTTL, TransferTO,
    Deltas,             \* how far the time may be advanced at once
    MaxToken            \* the token that is not passed (2^64 - 2 in the code)

ASSUME GensAssumption == NoGen \notin Gens
ASSUME OpsAssumption == NoOp \notin OpIds /\ Replayed \subseteq OpIds
ASSUME TimesAssumption ==
    LeaseTTL \in Nat \ {0} /\ TransferTO \in Nat \ {0} /\ Deltas \subseteq Nat \ {0}
ASSUME TokenAssumption == MaxToken \in Nat

VARIABLES
    owner, token, phase, pending,
    left, deadline,     \* time left to the lease and to the transfer
    begun,              \* Now is no longer zero
    timed,              \* TransferDeadline is not zero
    epoch,              \* ProtectedEpoch: the token the resource accepted last
    up, paused,         \* the generations that are connected, and those paused
    results             \* OpResults: operation -> what it left behind

vars == <<owner, token, phase, pending, left, deadline, begun, timed,
          epoch, up, paused, results>>
claimVars == <<owner, token, phase, pending, left, deadline, begun, timed>>

None == [owner |-> NoGen, token |-> 0, phase |-> "none"]
Snaps == [owner : Gens \cup {NoGen}, token : Nat, phase : {"owned", "unowned", "none"}]

TypeOK ==
    /\ owner \in Gens \cup {NoGen} /\ pending \in Gens \cup {NoGen}
    /\ token \in Nat /\ epoch \in Nat
    /\ phase \in {"unowned", "owned", "reserved"}
    /\ left \in Int /\ deadline \in Int /\ begun \in BOOLEAN /\ timed \in BOOLEAN
    /\ up \subseteq Gens /\ paused \subseteq Gens
    /\ results \in [OpIds -> Snaps]

Init ==
    /\ owner = NoGen /\ token = 0 /\ phase = "unowned" /\ pending = NoGen
    /\ left = 0 /\ deadline = 0 /\ begun = FALSE /\ timed = FALSE
    /\ epoch = 0 /\ up = Gens /\ paused = {} /\ results = [o \in OpIds |-> None]

\* An id is that of a call before, may be, or is new; NoOp is the empty one.
Known(op) == op \in OpIds /\ results[op] # None
MayUse(op) == Known(op) => op \in Replayed

Store(op, snap) ==
    results' = IF op \in OpIds THEN [results EXCEPT ![op] = snap] ELSE results

-----------------------------------------------------------------------------

Expired == phase # "unowned" /\ left < 0

\* Faulty: an expired claim gets a phase of its own.
ExpiredPhase(l, d) ==
    IF phase # "unowned" /\ l < 0 THEN [owner |-> NoGen, phase |-> "expired", pending |-> NoGen]
    ELSE [owner |-> owner, phase |-> phase, pending |-> pending]

\* Faulty: an expired claim keeps its phase.
ExpiredOwner(l, d) ==
    IF phase # "unowned" /\ l < 0 THEN [owner |-> NoGen, phase |-> phase, pending |-> NoGen]
    ELSE [owner |-> owner, phase |-> phase, pending |-> pending]

\* expireIfNeeded: what is left of the claim with that much time on its clocks.
\* The token stays.
expireIfNeeded(l, d) ==
    IF phase # "unowned" /\ l < 0 THEN [owner |-> NoGen, phase |-> "unowned", pending |-> NoGen]
    ELSE IF phase = "reserved" /\ timed /\ d < 0
         THEN [owner |-> owner, phase |-> "owned", pending |-> NoGen]
    ELSE [owner |-> owner, phase |-> phase, pending |-> pending]

\* A call whose id is known puts back what the first left behind.
Replay(op) ==
    /\ owner' = results[op].owner /\ token' = results[op].token /\ phase' = results[op].phase
    /\ UNCHANGED <<pending, left, deadline, begun, timed, epoch, up, paused, results>>

\* Faulty: the last token is not looked for, and the count wraps.
GrantWraps(g, op) ==
    /\ owner' = g /\ token' = (token + 1) % (MaxToken + 1)
    /\ phase' = "owned" /\ pending' = NoGen
    /\ left' = LeaseTTL /\ epoch' = token'
    /\ Store(op, [owner |-> g, token |-> token', phase |-> "owned"])
    /\ UNCHANGED <<deadline, begun, timed, up, paused>>

\* Faulty: the protected resource is not told of the new token.
GrantUntold(g, op) ==
    /\ token < MaxToken
    /\ owner' = g /\ token' = token + 1 /\ phase' = "owned" /\ pending' = NoGen
    /\ left' = LeaseTTL
    /\ Store(op, [owner |-> g, token |-> token', phase |-> "owned"])
    /\ UNCHANGED <<deadline, begun, timed, up, paused, epoch>>

\* The claim goes to g, with the next token.
Grant(g, op) ==
    /\ token < MaxToken
    /\ owner' = g /\ token' = token + 1 /\ phase' = "owned" /\ pending' = NoGen
    /\ left' = LeaseTTL /\ epoch' = token'
    /\ Store(op, [owner |-> g, token |-> token', phase |-> "owned"])
    /\ UNCHANGED <<deadline, begun, timed, up, paused>>

requestClaim(g, op) ==
    \/ Known(op) /\ Replay(op)
    \/ /\ ~Known(op) /\ (phase = "unowned" \/ Expired)
       /\ Grant(g, op)
    \/ /\ ~Known(op) /\ phase # "unowned" /\ ~Expired /\ owner = g
       /\ left' = LeaseTTL
       /\ phase' = expireIfNeeded(left, deadline).phase
       /\ pending' = expireIfNeeded(left, deadline).pending
       /\ UNCHANGED <<owner, token, deadline, begun, timed, epoch, up, paused, results>>

renewClaim(g) ==
    /\ phase # "unowned" /\ owner = g /\ g \in up \ paused
    /\ left' = LeaseTTL
    /\ UNCHANGED <<owner, token, phase, pending, deadline, begun, timed, epoch, up, paused, results>>

releaseClaim(g, op) ==
    /\ ~Known(op) /\ owner = g /\ epoch <= token
    /\ owner' = NoGen /\ phase' = "unowned" /\ pending' = NoGen
    /\ Store(op, [owner |-> NoGen, token |-> token, phase |-> "unowned"])
    /\ UNCHANGED <<token, left, deadline, begun, timed, epoch, up, paused>>

Longer == IF TransferTO > LeaseTTL THEN TransferTO ELSE LeaseTTL

prepare(g, s) ==
    /\ phase # "unowned" /\ ~Expired /\ owner = g
    /\ phase' = "reserved" /\ pending' = s /\ left' = Longer /\ deadline' = TransferTO
    /\ timed' = TRUE
    /\ UNCHANGED <<owner, token, begun, epoch, up, paused, results>>

commit(g, s, op) ==
    \/ Known(op) /\ Replay(op)
    \/ ~Known(op) /\ phase = "reserved" /\ owner = g /\ pending = s /\ Grant(s, op)

\* Faulty: the transfer takes a token with it.
abortAdvancing(g) ==
    /\ phase = "reserved" /\ owner = g /\ token < MaxToken
    /\ pending' = NoGen /\ phase' = "owned" /\ token' = token + 1 /\ epoch' = token'
    /\ UNCHANGED <<owner, left, deadline, begun, timed, up, paused, results>>

abort(g) ==
    /\ phase = "reserved" /\ owner = g
    /\ pending' = NoGen /\ phase' = "owned"
    /\ UNCHANGED <<owner, token, left, deadline, begun, timed, epoch, up, paused, results>>

forceRevoke(g) ==
    /\ owner = g
    /\ owner' = NoGen /\ phase' = "unowned" /\ pending' = NoGen
    /\ UNCHANGED <<token, left, deadline, begun, timed, epoch, up, paused, results>>

\* ExpireLease, and all that a refused request or prepare does.
expire ==
    LET swept == expireIfNeeded(left, deadline)
    IN  /\ owner' = swept.owner /\ phase' = swept.phase /\ pending' = swept.pending
        /\ UNCHANGED <<token, left, deadline, begun, timed, epoch, up, paused, results>>

crashOwner ==
    /\ up' = up \ {owner}
    /\ UNCHANGED <<claimVars, epoch, paused, results>>

\* TransferDeadline becomes Now, which at the start is none.
crashCandidate ==
    /\ phase = "reserved" /\ deadline' = 0 /\ timed' = begun
    /\ UNCHANGED <<owner, token, phase, pending, left, begun, epoch, up, paused, results>>

\* Pause, Resume, Disconnect and Reconnect.
Toggle(g) ==
    /\ \/ up' \in {up \cup {g}, up \ {g}} /\ UNCHANGED paused
       \/ paused' \in {paused \cup {g}, paused \ {g}} /\ UNCHANGED up
    /\ UNCHANGED <<claimVars, epoch, results>>

\* Time passes, and what is over is swept at once.  A clock that is long out stays so.
AdvanceTime(d) ==
    LET later(t) == IF t + TransferTO < 0 THEN t ELSE t - d
        swept == expireIfNeeded(later(left), later(deadline))
    IN  /\ left' = later(left) /\ deadline' = later(deadline) /\ begun' = TRUE
        /\ owner' = swept.owner /\ phase' = swept.phase /\ pending' = swept.pending
        /\ UNCHANGED <<token, timed, epoch, up, paused, results>>

Next ==
    \/ expire \/ crashOwner \/ crashCandidate
    \/ \E d \in Deltas : AdvanceTime(d)
    \/ \E g \in Gens :
          \/ renewClaim(g) \/ abort(g) \/ forceRevoke(g) \/ Toggle(g)
          \/ \E s \in Gens : prepare(g, s)
          \/ \E op \in {o \in OpIds \cup {NoOp} : MayUse(o)} :
                \/ requestClaim(g, op) \/ releaseClaim(g, op)
                \/ \E s \in Gens : commit(g, s, op)

Spec == Init /\ [][Next]_vars

-----------------------------------------------------------------------------

\* A claim that is held, reserved or not, has an owner, also when calls are replayed.
HeldHasOwner == owner # NoGen <=> phase # "unowned"

\* CheckInvariants: a claim has an owner exactly while it is held and a successor
\* exactly while it is reserved, the owner's token is the one the protected resource
\* knows, and no claim stays reserved past a deadline that is set.
CheckInvariants ==
    /\ HeldHasOwner
    /\ pending # NoGen <=> phase = "reserved"
    /\ token = epoch
    /\ phase # "unowned" => left >= 0
    /\ phase = "reserved" /\ timed => deadline >= 0

\* CheckTokenMonotonic: no action takes the claim's token back.
TokenMonotonic == [][token' >= token]_vars

\* The token grows by one, and only when the claim changes hands by a grant: an abort,
\* an expiry, a release or a renewal keeps it.
AdvancesOnce ==
    [][token' # token => token' = token + 1 /\ phase' = "owned" /\ left' = LeaseTTL]_vars

\* A transfer whose candidate is gone stays pending no longer than the timeout past its
\* deadline, whenever the candidate crashed.
\* The code does not keep this (README, Disagreements).
TransferBounded == phase = "reserved" => deadline + TransferTO >= 0

\* A connection that is down invents no extension of its lease.
\* The code does not keep this (README, Disagreements).
NoExtensionWhileDown ==
    [][owner # NoGen /\ owner \notin up /\ owner' = owner => left' <= left]_vars

-----------------------------------------------------------------------------

\* What an operation left behind has an owner exactly if it is held.
ResultsHeld ==
    \A o \in OpIds : results[o] # None =>
        /\ results[o].phase \in {"owned", "unowned"}
        /\ results[o].owner # NoGen <=> results[o].phase # "unowned"

OwnerInv == TypeOK /\ HeldHasOwner /\ ResultsHeld

\* With ids used once no call is replayed, and more holds.
WorldInv == OwnerInv /\ CheckInvariants
=============================================================================
