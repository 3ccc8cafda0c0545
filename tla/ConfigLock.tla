------------------------------ MODULE ConfigLock ------------------------------
(***************************************************************************)
(* configlock: configuration revisions from draft to active, signed with   *)
(* keys that may be revoked, by callers who hold copies that share the     *)
(* content with the manager's.                                             *)
(***************************************************************************)
EXTENDS Integers, FiniteSets

CONSTANTS
    Keys,
    NeedSignature,  \* RequireSignatures or Production
    MaxRevision

VARIABLES
    bundles,        \* revision -> [state, content, signatures]
    nextRev, active,
    trusted,        \* the key ring
    was             \* history: the states a revision has been in

vars == <<bundles, nextRev, active, trusted, was>>

Revisions == 1..MaxRevision
Absent == [state |-> "none", content |-> "drafted", signatures |-> {}]

Init ==
    /\ bundles = [r \in Revisions |-> Absent] /\ nextRev = 0 /\ active = 0
    /\ trusted = Keys /\ was = [r \in Revisions |-> {}]

Ended == {"rejected", "revoked"}

\* No operation moves a bundle to one of Ended.
allowed ==
    [draft |-> {"staged"} \cup Ended, staged |-> {"validated"} \cup Ended,
     validated |-> {"approved"} \cup Ended, approved |-> {"active"} \cup Ended,
     active |-> {"superseded", "revoked"}]

transition(from, to) == from \in DOMAIN allowed /\ to \in allowed[from]

Put(r, b) ==
    /\ bundles' = [bundles EXCEPT ![r] = b]
    /\ was' = [was EXCEPT ![r] = @ \cup {b.state}]

-----------------------------------------------------------------------------

Draft ==
    /\ nextRev < MaxRevision
    /\ nextRev' = nextRev + 1
    /\ Put(nextRev', [Absent EXCEPT !.state = "draft"])
    /\ UNCHANGED <<active, trusted>>

\* The content hash was made from the drafted content, and a signature covers
\* both.
Intact(b) == b.content = "drafted"

\* Stage and Approve.
move(r, to) ==
    /\ transition(bundles[r].state, to)
    /\ Put(r, [bundles[r] EXCEPT !.state = to])
    /\ UNCHANGED <<nextRev, active, trusted>>

Validate(r) ==
    /\ transition(bundles[r].state, "validated") /\ Intact(bundles[r])
    /\ Put(r, [bundles[r] EXCEPT !.state = "validated"])
    /\ UNCHANGED <<nextRev, active, trusted>>

SignRevision(r, k) ==
    /\ r <= nextRev
    /\ bundles' = [bundles EXCEPT ![r].signatures = @ \cup {[key |-> k, content |-> bundles[r].content]}]
    /\ UNCHANGED <<nextRev, active, trusted, was>>

\* Faulty: one trusted signature is enough.
VerifyOne(b) == \E s \in b.signatures : s.key \in trusted /\ s.content = b.content

\* VerifySignatures: there is one, and all of them are good.
VerifySignatures(b) ==
    /\ trusted # {} /\ b.signatures # {}
    /\ \A s \in b.signatures : s.key \in trusted /\ s.content = b.content

\* Faulty: the active revision stays active.
ActivatedBeside(bs, r) ==
    [bs EXCEPT ![r].state = "active"]

\* The revision before is superseded.
Activated(bs, r) ==
    [q \in Revisions |->
        IF q = r THEN [bs[q] EXCEPT !.state = "active"]
        ELSE IF q = active /\ bs[q].state = "active" THEN [bs[q] EXCEPT !.state = "superseded"]
        ELSE bs[q]]

\* Activate checks the transition, the hash and the signatures; its check of the
\* expiry refuses nothing, because no bundle of the manager has one.
Activate(r) ==
    /\ transition(bundles[r].state, "active") /\ Intact(bundles[r])
    /\ NeedSignature => VerifySignatures(bundles[r])
    /\ bundles' = Activated(bundles, r)
    /\ was' = [q \in Revisions |-> was[q] \cup {bundles'[q].state}]
    /\ active' = r
    /\ UNCHANGED <<nextRev, trusted>>

\* A caller writes to the content of a copy, which is the manager's content.
WriteCopy(r) ==
    /\ r <= nextRev /\ bundles[r].content = "drafted"
    /\ bundles' = [bundles EXCEPT ![r].content = "changed"]
    /\ UNCHANGED <<nextRev, active, trusted, was>>

\* The key ring retires or removes a key.
Revoke(k) ==
    /\ k \in trusted
    /\ trusted' = trusted \ {k}
    /\ UNCHANGED <<bundles, nextRev, active, was>>

Next ==
    \/ Draft
    \/ \E r \in Revisions :
          \/ move(r, "staged") \/ move(r, "approved") \/ Validate(r) \/ Activate(r)
          \/ WriteCopy(r) \/ \E k \in Keys : SignRevision(r, k)
    \/ \E k \in Keys : Revoke(k)

Spec == Init /\ [][Next]_vars

-----------------------------------------------------------------------------

\* One revision is active, the one the manager names.
OneActive == \A r \in Revisions : (bundles[r].state = "active") = (r = active)

\* What becomes active has gone through every state before, has the drafted
\* content, and is signed, by keys trusted at that moment alone.
ActivatedIsGood ==
    \A r \in Revisions : bundles[r].state # "active" /\ bundles'[r].state = "active" =>
       /\ {"draft", "staged", "validated", "approved"} \subseteq was[r]
       /\ bundles[r].content = "drafted"
       /\ NeedSignature => bundles[r].signatures # {} /\ \A s \in bundles[r].signatures : s.key \in trusted

\* The content of the active revision is the one that was drafted and signed.
\* The code does not keep this (README, Disagreements).
ActiveIsIntact == active # 0 => Intact(bundles[active])
=============================================================================
