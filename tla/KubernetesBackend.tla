------------------------- MODULE KubernetesBackend -------------------------
(***************************************************************************)
(* backend/kubernetes: one claim kept in a Lease object.                   *)
(*                                                                         *)
(* A call reads the lease (creating it when there is none), writes an      *)
(* expiry back if it finds one, decides on its copy and writes the new     *)
(* record with the resource version it read: the API server refuses the    *)
(* write when the lease was written in between.  A call is current exactly *)
(* when its version is still the lease's, so versions are not counted.     *)
(* Operation ids are kept in the memory of each process.                   *)
(***************************************************************************)
EXTENDS BackendRequests

CONSTANTS
    Asked,          \* the requests that are made
    Processes,      \* processes with a backend of their own
    Second,         \* time units per second: durations are whole seconds
    DefaultLease    \* 15 seconds, in time units

AskedAssumption == Asked \subseteq Requests
SecondAssumption == Second \in Nat \ {0} /\ DefaultLease \in Nat \ {0}

VARIABLES
    lease,      \* the stored lease as a claim record
    ops,        \* process -> operation id -> recorded error, or "none"
    call,       \* process -> its call in flight and the record it will write
    granted,    \* history: every <<token, generation>> granted
    asked,      \* history: the TTL the stored lease was asked for
    dropped     \* history: <<token, generation>> whose release was recorded
                \* as failed

vars == <<lease, ops, call, granted, asked, dropped>>

Idle == [pc |-> "idle", req |-> NoCall, new |-> AbsentRecord, current |-> TRUE]

TypeOK ==
    /\ lease \in Records
    /\ ops \in [Processes -> [OpIds -> Errors \cup {"none", "conflict"}]]
    /\ \A p \in Processes :
          /\ call[p].pc \in {"idle", "expiring", "writing"}
          /\ call[p].req \in Requests \cup {NoCall}
          /\ call[p].new \in Records
          /\ call[p].current \in BOOLEAN
    /\ granted \subseteq Nat \X Gens
    /\ dropped \subseteq Nat \X Gens

Init ==
    /\ lease = AbsentRecord
    /\ ops = [p \in Processes |-> [o \in OpIds |-> "none"]]
    /\ call = [p \in Processes |-> Idle]
    /\ granted = {}
    /\ asked = -1
    /\ dropped = {}

-----------------------------------------------------------------------------

recallOp(p, q) == q.op # NoOp /\ ops[p][q.op] # "none"

storeOp(p, q, err) ==
    IF q.op = NoOp THEN ops ELSE [ops EXCEPT ![p][q.op] = err]

\* Durations are cut to whole seconds; none at all becomes the default.
LeaseDuration(ttl) ==
    IF ttl \div Second = 0 THEN DefaultLease ELSE (ttl \div Second) * Second

\* The record a lease without an owner was created with.
CreatedLease == [AbsentRecord EXCEPT !.phase = "unowned"]

\* Faulty: an expired lease gets a phase of its own.
ExpiredPhase(r) == [r EXCEPT !.owner = NoGen, !.phase = "expired"]

\* An expired lease keeps its transfer status.
Expired(r) ==
    [r EXCEPT !.owner = NoGen, !.pending = NoGen, !.phase = "unowned",
              !.left = DefaultLease]

\* What the handlers make of a record that was not expired when it was read.
AcquireLease(r, q) == AcquireClaim(r, q.gen, LeaseDuration(q.ttl))

RenewLease(r, q) == RenewClaim(r, q.gen, q.token, LeaseDuration(q.ttl))

PrepareLease(r, q) ==
    PrepareTransfer(r, q.gen, q.to, q.token, LeaseDuration(q.ttl))

CommitLease(r, q) ==
    CommitTransfer(r, q.gen, q.to, q.token, LeaseDuration(q.ttl))

\* Aborting writes the lease anew, for 15 seconds.
AbortLease(r, q) ==
    LET o == AbortTransfer(r, q.gen, q.token) IN
    IF o.claim = r THEN o ELSE [o EXCEPT !.claim.left = DefaultLease]

ReleaseLease(r, q) ==
    LET o == ReleaseClaim(r, q.gen, q.token) IN
    IF o.claim = r THEN o ELSE [o EXCEPT !.claim.left = DefaultLease]

Handler(r, q) ==
    CASE q.kind = "acquire" -> AcquireLease(r, q)
      [] q.kind = "renew"   -> RenewLease(r, q)
      [] q.kind = "prepare" -> PrepareLease(r, q)
      [] q.kind = "commit"  -> CommitLease(r, q)
      [] q.kind = "abort"   -> AbortLease(r, q)
      [] q.kind = "release" -> ReleaseLease(r, q)

-----------------------------------------------------------------------------

\* Every other call is out of date after a write.
Outdate(calls) ==
    [p \in Processes |-> [calls[p] EXCEPT !.current = calls[p] = Idle]]

Writing(q, r, version) ==
    [pc |-> "writing", req |-> q, new |-> r, current |-> version]

\* The handler decides on the record r it read: it ends with an error or
\* because there is nothing to change, or it goes on to write.
Decide(p, q, r, calls) ==
    LET o == Handler(r, q) IN
    IF o.err = "ok" /\ (q.kind \in {"acquire", "renew"} \/ o.claim # r)
    THEN /\ call' = [calls EXCEPT ![p] = Writing(q, o.claim, TRUE)]
         /\ ops' = ops
    ELSE /\ call' = [calls EXCEPT ![p] = Idle]
         /\ ops' = IF o.err \in {"ok", "ErrClaimHeld", "ErrTokenOverflow"}
                   THEN storeOp(p, q, o.err) ELSE ops

\* getOrCreate, and the handler's decision.  Two creators race on the API
\* server and the loser reads again.
getOrCreate(p, q) ==
    LET found == IF lease.phase = "absent" THEN CreatedLease ELSE lease IN
    /\ call[p] = Idle
    /\ ~recallOp(p, q)
    /\ lease' = found
    /\ IF Lapsed(found)
       THEN /\ call' = [call EXCEPT ![p] = [Idle EXCEPT !.pc = "expiring",
                                            !.req = q, !.new = Expired(found)]]
            /\ ops' = ops
       ELSE Decide(p, q, found, call)
    /\ UNCHANGED <<granted, asked, dropped>>

\* The expiry is written back; the call ends if another write came first.
UpdateExpired(p) ==
    /\ call[p].pc = "expiring"
    /\ IF call[p].current
       THEN /\ lease' = call[p].new
            /\ Decide(p, call[p].req, call[p].new, Outdate(call))
       ELSE /\ call' = [call EXCEPT ![p] = Idle]
            /\ UNCHANGED <<lease, ops>>
    /\ UNCHANGED <<granted, asked, dropped>>

\* Faulty: the write does not carry the resource version.
UpdateBlindly(p, answered) ==
    /\ call[p].pc = "writing"
    /\ lease' = call[p].new
    /\ granted' = granted \cup
          {g \in {<<call[p].new.token, call[p].new.owner>>} : g[2] # NoGen}
    /\ call' = [Outdate(call) EXCEPT ![p] = Idle]
    /\ UNCHANGED <<ops, asked, dropped>>

\* The record is written.  When the answer is lost only ReleaseClaim records
\* something: the error.
Update(p, answered) ==
    LET q   == call[p].req
        new == call[p].new IN
    /\ call[p].pc = "writing" /\ call[p].current
    /\ lease' = new
    /\ granted' = granted \cup {g \in {<<new.token, new.owner>>} : g[2] # NoGen}
    /\ asked' = IF q.kind \in {"abort", "release"} THEN -1 ELSE q.ttl
    /\ ops' = IF answered THEN storeOp(p, q, "ok")
              ELSE IF q.kind = "release" THEN storeOp(p, q, "conflict") ELSE ops
    /\ call' = [Outdate(call) EXCEPT ![p] = Idle]
    /\ UNCHANGED dropped

\* The lease was written since it was read.  ReleaseClaim records the error
\* under its operation id; the others forget it.
UpdateConflict(p) ==
    LET q == call[p].req
        recorded == q.kind = "release" /\ q.op # NoOp IN
    /\ call[p].pc = "writing" /\ ~call[p].current
    /\ ops' = IF recorded THEN storeOp(p, q, "conflict") ELSE ops
    /\ dropped' = IF recorded THEN dropped \cup {<<q.token, q.gen>>} ELSE dropped
    /\ call' = [call EXCEPT ![p] = Idle]
    /\ UNCHANGED <<lease, granted, asked>>

\* GetClaim reads, creates and expires as every handler does.  A request to
\* the API server that fails ends the call.
FailCall(p) ==
    /\ call[p] # Idle
    /\ call' = [call EXCEPT ![p] = Idle]
    /\ UNCHANGED <<lease, ops, granted, asked, dropped>>

\* The process is restarted: its operation ids are gone.
Restart(p) ==
    /\ call' = [call EXCEPT ![p] = Idle]
    /\ ops' = [ops EXCEPT ![p] = [o \in OpIds |-> "none"]]
    /\ UNCHANGED <<lease, granted, asked, dropped>>

Tick ==
    /\ lease' = Age(lease)
    /\ asked' = IF asked < 0 THEN -1 ELSE asked - 1
    /\ UNCHANGED <<ops, call, granted, dropped>>

Next ==
    \/ \E p \in Processes :
          \/ \E q \in Asked : getOrCreate(p, q)
          \/ UpdateExpired(p)
          \/ \E answered \in BOOLEAN : Update(p, answered)
          \/ UpdateConflict(p)
          \/ FailCall(p)
          \/ Restart(p)
    \/ Tick

Spec == Init /\ [][Next]_vars

-----------------------------------------------------------------------------

F == INSTANCE FencedClaim WITH owner <- lease.owner, token <- lease.token

\* The lease is a fenced claim although every handler decides on a copy that
\* may be out of date: one owner at a time, a new token for each ownership
\* (docs/architecture.md, invariants 1 and 2).
ImplementsFencedClaim == F!FSpec

\* A generation loses a live lease only by its own release or commit under
\* the current token, whatever other processes read and wrote meanwhile.
OwnerKeepsLiveClaim ==
    lease.owner # NoGen /\ lease.left >= 0
       /\ <<lease.owner, lease.token>> # <<lease'.owner, lease'.token>>
    => \E p \in Processes : /\ call[p].req.kind \in {"release", "commit"}
                            /\ call[p].req.gen = lease.owner
                            /\ call[p].req.token = lease.token

\* A release that failed because of a concurrent write does not leave the
\* claim with its owner while every retry is answered with that failure
\* (capabilities.go: a retry returns "the prior successful result").
\* The code does not keep this (README, Disagreements).
ReleaseCanBeRetried == <<lease.token, lease.owner>> \notin dropped

\* The lease lasts as long as was asked for (docs/kubernetes.md:
\* "leaseDurationSeconds / renewTime = lease TTL + heartbeat").
\* The code does not keep this (README, Disagreements).
LeaseLastsTTL == lease.owner # NoGen /\ asked >= 0 => lease.left >= 0
-----------------------------------------------------------------------------
(* Proofs.                                                                  *)

Calls ==
    [pc : {"idle", "expiring", "writing"}, req : Requests \cup {NoCall}, new : Records,
     current : BOOLEAN]

\* A call t in flight while the lease is l.  If nothing was written since it read the
\* lease, what it is about to write is a good step from l that takes the claim from nobody
\* who does not ask for it, or the expiry of a lease that has run out.
Fit(l, t) ==
    /\ t \in Calls /\ (t.pc # "idle" => t.req \in Requests)
    /\ t.current /\ t.pc = "writing" =>
          /\ Good(l, t.new) /\ t.new.phase # "absent" /\ l.phase # "absent"
          /\ SameEpoch(l, t.new) \/ l.owner = NoGen \/ GivesUp(t.req, l)
    /\ t.current /\ t.pc = "expiring" => Lapsed(l) /\ t.new = Expired(l)

\* The inductive invariant.
LeaseInv ==
    /\ lease \in Records /\ Consistent(lease) /\ Covered(lease, granted)
    /\ lease.phase = "absent" => lease.token = 0
    /\ ops \in [Processes -> [OpIds -> Errors \cup {"none", "conflict"}]]
    /\ dropped \subseteq Nat \X Gens
    /\ call \in [Processes -> Calls] /\ \A p \in Processes : Fit(lease, call[p])

\* What every step has to do.
LeaseSound ==
    LeaseInv' /\ FencedStore(lease, lease', granted, granted') /\ OwnerKeepsLiveClaim

=============================================================================
