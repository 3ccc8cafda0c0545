------------------------------ MODULE Election ------------------------------
(***************************************************************************)
(* election.Election: participants contend for one claim through the       *)
(* FencedClaims of their Runtime.                                          *)
(*                                                                         *)
(* The loop of a participant reads its belief, calls the lock and applies  *)
(* the answer in separate critical sections; Resign and Close run beside   *)
(* it.  The lock is the claim as FencedClaims shows it: acquiring a claim  *)
(* one already owns returns its token, releasing looks at the owner only.  *)
(***************************************************************************)
EXTENDS Integers

CONSTANTS
    Participants,
    Nobody,
    MaxToken        \* bound: past it the claim is neither lost nor resigned

VARIABLES
    lock,       \* the claim: holder and token
    leader,     \* participant -> Election.leader
    token,      \* participant -> Election.token
    loop,       \* participant -> position of its loop and the token it holds
    resign,     \* participant -> position of a call of Resign
    closing     \* participant -> position of Close, and what it read

vars == <<lock, leader, token, loop, resign, closing>>

LoopSteps == {"top", "acquire", "elected", "renew", "lost", "wait", "ended"}

TypeOK ==
    /\ lock.holder \in Participants \cup {Nobody} /\ lock.token \in Nat
    /\ leader \in [Participants -> BOOLEAN]
    /\ token \in [Participants -> Nat]
    /\ \A p \in Participants : loop[p].pc \in LoopSteps /\ loop[p].tok \in Nat
    /\ resign \in [Participants -> {"idle", "release", "clear"}]
    /\ closing \in [Participants -> {"open", "leading", "following", "closed"}]
    \* A participant that leads has a token, one that follows has none.
    /\ \A p \in Participants : leader[p] <=> token[p] # 0

Init ==
    /\ lock = [holder |-> Nobody, token |-> 0]
    /\ leader = [p \in Participants |-> FALSE]
    /\ token = [p \in Participants |-> 0]
    /\ loop = [p \in Participants |-> [pc |-> "top", tok |-> 0]]
    /\ resign = [p \in Participants |-> "idle"]
    /\ closing = [p \in Participants |-> "open"]

-----------------------------------------------------------------------------

\* Faulty: the token is granted again.
GrantedSame(p) == [holder |-> p, token |-> IF lock.token = 0 THEN 1 ELSE lock.token]

\* The claim after participant p was granted it.
Granted(p) ==
    IF lock.holder = p THEN lock ELSE [holder |-> p, token |-> lock.token + 1]

\* The loop reads leader and token under the mutex.
ReadBelief(p) ==
    /\ loop[p].pc = "top"
    /\ loop' = [loop EXCEPT ![p] =
          [pc |-> IF leader[p] THEN "renew" ELSE "acquire", tok |-> token[p]]]
    /\ UNCHANGED <<lock, leader, token, resign, closing>>

\* Lock.Acquire, which also fails when the claim cannot be reached.
Acquire(p) ==
    /\ loop[p].pc = "acquire"
    /\ \/ /\ lock.holder \in {Nobody, p}
          /\ lock' = Granted(p)
          /\ loop' = [loop EXCEPT ![p] = [pc |-> "elected", tok |-> lock'.token]]
       \/ /\ lock.holder \notin {Nobody, p}
          /\ loop' = [loop EXCEPT ![p].pc = "wait"]
          /\ UNCHANGED lock
    /\ UNCHANGED <<leader, token, resign, closing>>

\* Faulty: a failed acquire ends the loop.
AcquireOnce(p) ==
    /\ loop[p].pc = "acquire"
    /\ \/ /\ lock.holder \in {Nobody, p}
          /\ lock' = Granted(p)
          /\ loop' = [loop EXCEPT ![p] = [pc |-> "elected", tok |-> lock'.token]]
       \/ /\ lock.holder \notin {Nobody, p}
          /\ loop' = [loop EXCEPT ![p].pc = "ended"]
          /\ UNCHANGED lock
    /\ UNCHANGED <<leader, token, resign, closing>>

\* One round of the loop's call of the lock.
TryLead(p) == Acquire(p)

Elected(p) ==
    /\ loop[p].pc = "elected"
    /\ leader' = [leader EXCEPT ![p] = TRUE]
    /\ token' = [token EXCEPT ![p] = loop[p].tok]
    /\ loop' = [loop EXCEPT ![p].pc = "wait"]
    /\ UNCHANGED <<lock, resign, closing>>

\* Lock.Renew asks whether the claim is still held with this token.
Renew(p) ==
    /\ loop[p].pc = "renew"
    /\ loop' = [loop EXCEPT ![p].pc =
          IF lock = [holder |-> p, token |-> loop[p].tok] THEN "wait" ELSE "lost"]
    /\ UNCHANGED <<lock, leader, token, resign, closing>>

Follow(p) ==
    /\ leader' = [leader EXCEPT ![p] = FALSE]
    /\ token' = [token EXCEPT ![p] = 0]

Lost(p) ==
    /\ loop[p].pc = "lost"
    /\ Follow(p)
    /\ loop' = [loop EXCEPT ![p].pc = "wait"]
    /\ UNCHANGED <<lock, resign, closing>>

\* The ticker fires, or the context was canceled by Close.
Wait(p) ==
    /\ loop[p].pc = "wait"
    /\ loop' = [loop EXCEPT ![p].pc = IF closing[p] = "open" THEN "top" ELSE "ended"]
    /\ UNCHANGED <<lock, leader, token, resign, closing>>

-----------------------------------------------------------------------------

Free(p) == lock' = IF lock.holder = p THEN [lock EXCEPT !.holder = Nobody] ELSE lock

\* Resign finds the participant leading; Transfer is Resign with an event.
Resign(p) ==
    /\ resign[p] = "idle" /\ leader[p] /\ lock.token < MaxToken
    /\ resign' = [resign EXCEPT ![p] = "release"]
    /\ UNCHANGED <<lock, leader, token, loop, closing>>

\* Lock.Release succeeds or fails; a failure leaves the belief alone.
ResignRelease(p) ==
    /\ resign[p] = "release"
    /\ \/ lock.holder = p /\ Free(p) /\ resign' = [resign EXCEPT ![p] = "clear"]
       \/ lock.holder # p /\ resign' = [resign EXCEPT ![p] = "idle"] /\ UNCHANGED lock
    /\ UNCHANGED <<leader, token, loop, closing>>

ResignClear(p) ==
    /\ resign[p] = "clear"
    /\ Follow(p)
    /\ resign' = [resign EXCEPT ![p] = "idle"]
    /\ UNCHANGED <<lock, loop, closing>>

\* Close notes whether the participant leads, cancels the loop, ...
Close(p) ==
    /\ closing[p] = "open"
    /\ closing' = [closing EXCEPT ![p] = IF leader[p] THEN "leading" ELSE "following"]
    /\ UNCHANGED <<lock, leader, token, loop, resign>>

\* ... waits for it and releases the claim if it led when Close was called.
CloseLoopEnded(p) ==
    /\ closing[p] \in {"leading", "following"} /\ loop[p].pc = "ended"
    /\ IF closing[p] = "leading" THEN Free(p) ELSE UNCHANGED lock
    /\ closing' = [closing EXCEPT ![p] = "closed"]
    /\ UNCHANGED <<leader, token, loop, resign>>

\* The claim is lost: its lease ran out or another process took it over.
Lapse ==
    /\ lock.holder # Nobody /\ lock.token < MaxToken
    /\ lock' = [lock EXCEPT !.holder = Nobody]
    /\ UNCHANGED <<leader, token, loop, resign, closing>>

LoopStep(p) ==
    ReadBelief(p) \/ TryLead(p) \/ Elected(p) \/ Renew(p) \/ Lost(p) \/ Wait(p)

CallStep(p) == ResignRelease(p) \/ ResignClear(p) \/ CloseLoopEnded(p)

Next ==
    \/ Lapse
    \/ \E p \in Participants : LoopStep(p) \/ CallStep(p) \/ Resign(p) \/ Close(p)

Spec == Init /\ [][Next]_vars

-----------------------------------------------------------------------------

\* No two participants ever lead under the same fencing token.
OneLeaderPerToken ==
    \A p, q \in Participants : leader[p] /\ leader[q] /\ p # q => token[p] # token[q]

\* Nothing is sent on the events channel once Close has closed it.
\* The code does not keep this (README, Disagreements).
NoEventAfterClose ==
    \A p \in Participants :
       resign[p] = "clear" /\ resign'[p] = "idle" => closing[p] # "closed"

\* A participant that has closed its election no longer holds the claim.
\* The code does not keep this (README, Disagreements).
ClosedHoldsNothing == \A p \in Participants : closing[p] = "closed" => lock.holder # p

-----------------------------------------------------------------------------
(* What the liveness properties of the runs speak of.                       *)

\* A participant believes in a claim it does not have; it no longer does, or is
\* being closed.
StaleBelief(p) == leader[p] /\ lock # [holder |-> p, token |-> token[p]]
BeliefSettled(p) == ~StaleBelief(p) \/ closing[p] # "open"

\* A participant takes part; somebody leads.
TakesPart(p) == closing[p] = "open"
Led == lock.holder \in Participants
=============================================================================
