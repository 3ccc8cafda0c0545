------------------------------ MODULE Capability ------------------------------
(***************************************************************************)
(* capability.Authority: tokens with an expiry, a number of uses and the   *)
(* security epoch they were issued in, and their delegation, which         *)
(* verifies the parent, issues the child and finishes it in three steps.   *)
(***************************************************************************)
EXTENDS Integers, FiniteSets

CONSTANTS
    Holders,
    TTLs, Uses,         \* of a request; 0 uses is no limit
    MaxTokens, MaxTime, MaxEpoch, MaxVerified

VARIABLES
    epoch, now,
    issued,             \* id -> the token in the authority's map
    revoked, spent,
    held,               \* the tokens returned to somebody
    call,               \* holder -> where its Delegate is
    used, verified      \* history: id -> successful Verifies; those Verifies

vars == <<epoch, now, issued, revoked, spent, held, call, used, verified>>

IDs == 1..MaxTokens
Nothing == [id |-> 0]
Idle == [pc |-> "idle"]

Init ==
    /\ epoch = 0 /\ now = 0 /\ issued = [i \in IDs |-> Nothing] /\ revoked = {}
    /\ spent = [i \in IDs |-> 0] /\ held = {} /\ call = [h \in Holders |-> Idle]
    /\ used = [i \in IDs |-> 0] /\ verified = 0

Fresh == {i \in IDs : issued[i] = Nothing}
NextID == CHOOSE i \in Fresh : \A j \in Fresh : i <= j

-----------------------------------------------------------------------------

\* A token as Issue makes it at this moment.
Token(ttl, uses) ==
    [id |-> NextID, expires |-> now + ttl, uses |-> uses, epoch |-> epoch, parent |-> 0, origin |-> epoch]

Issue(ttl, uses) ==
    /\ Fresh # {}
    /\ issued' = [issued EXCEPT ![NextID] = Token(ttl, uses)]
    /\ held' = held \cup {Token(ttl, uses)}
    /\ UNCHANGED <<epoch, now, revoked, spent, call, used, verified>>

\* Faulty: the bound on the uses is one too large.
UsableOnceMore(tok) ==
    /\ tok.id \notin revoked /\ tok.epoch = epoch /\ now <= tok.expires
    /\ tok.uses > 0 => spent[tok.id] <= tok.uses

\* verifyLocked, the signature being good for every token held.
Usable(tok) ==
    /\ tok.id \notin revoked /\ tok.epoch = epoch /\ now <= tok.expires
    /\ tok.uses > 0 => spent[tok.id] < tok.uses

Verify(tok) ==
    /\ Usable(tok) /\ verified < MaxVerified
    /\ spent' = IF tok.uses > 0 THEN [spent EXCEPT ![tok.id] = @ + 1] ELSE spent
    /\ used' = [used EXCEPT ![tok.id] = @ + 1] /\ verified' = verified + 1
    /\ UNCHANGED <<epoch, now, issued, revoked, held, call>>

Revoke(i) ==
    /\ issued[i] # Nothing /\ i \notin revoked
    /\ revoked' = revoked \cup {i}
    /\ UNCHANGED <<epoch, now, issued, spent, held, call, used, verified>>

AdvanceEpoch ==
    /\ epoch < MaxEpoch
    /\ epoch' = epoch + 1
    /\ UNCHANGED <<now, issued, revoked, spent, held, call, used, verified>>

Tick ==
    /\ now < MaxTime
    /\ now' = now + 1
    /\ UNCHANGED <<epoch, issued, revoked, spent, held, call, used, verified>>

\* Delegate verifies the parent without using it up, ...
Delegate(h, tok) ==
    /\ call[h].pc = "idle" /\ Usable(tok)
    /\ call' = [call EXCEPT ![h] = [pc |-> "clamp", parent |-> tok]]
    /\ UNCHANGED <<epoch, now, issued, revoked, spent, held, used, verified>>

\* ... clamps the time to what the parent has left, ...
Clamp(h, ttl) ==
    /\ call[h].pc = "clamp"
    /\ LET left == call[h].parent.expires - now IN
       call' = [call EXCEPT ![h] =
                   IF ttl <= left THEN [pc |-> "issue", parent |-> @.parent, ttl |-> ttl]
                   ELSE IF left <= 0 THEN Idle
                   ELSE [pc |-> "issue", parent |-> @.parent, ttl |-> left]]
    /\ UNCHANGED <<epoch, now, issued, revoked, spent, held, used, verified>>

\* ... issues the child ...
IssueChild(h, uses) ==
    /\ call[h].pc = "issue" /\ Fresh # {}
    /\ LET child == [Token(call[h].ttl, uses) EXCEPT !.origin = call[h].parent.origin] IN
       /\ issued' = [issued EXCEPT ![NextID] = child]
       /\ call' = [call EXCEPT ![h] = [pc |-> "finish", parent |-> @.parent, child |-> child]]
    /\ UNCHANGED <<epoch, now, revoked, spent, held, used, verified>>

\* Faulty: the child keeps the epoch it was issued in.
FinishOwnEpoch(h) ==
    /\ call[h].pc = "finish"
    /\ LET child == [call[h].child EXCEPT !.parent = call[h].parent.id] IN
       issued' = [issued EXCEPT ![child.id] = child] /\ held' = held \cup {child}
    /\ call' = [call EXCEPT ![h] = Idle]
    /\ UNCHANGED <<epoch, now, revoked, spent, used, verified>>

\* ... and gives it its parent and the parent's epoch.
Finish(h) ==
    /\ call[h].pc = "finish"
    /\ LET child == [call[h].child EXCEPT !.parent = call[h].parent.id, !.epoch = call[h].parent.epoch] IN
       issued' = [issued EXCEPT ![child.id] = child] /\ held' = held \cup {child}
    /\ call' = [call EXCEPT ![h] = Idle]
    /\ UNCHANGED <<epoch, now, revoked, spent, used, verified>>

Next ==
    \/ \E ttl \in TTLs, uses \in Uses : Issue(ttl, uses)
    \/ \E tok \in held : Verify(tok) \/ \E h \in Holders : Delegate(h, tok)
    \/ \E i \in IDs : Revoke(i)
    \/ \E h \in Holders :
          \/ \E ttl \in TTLs : Clamp(h, ttl)
          \/ \E uses \in Uses : IssueChild(h, uses)
          \/ Finish(h)
    \/ AdvanceEpoch \/ Tick

Spec == Init /\ [][Next]_vars

-----------------------------------------------------------------------------

\* A token with a number of uses verifies that often at most.
UsesBounded == \A t \in held : t.uses > 0 => used[t.id] <= t.uses

\* An advance of the epoch ends every token of the epochs before, the children
\* whose delegation it overtook included: what can be used descends from a token
\* of this epoch.
EpochEndsTokens == \A t \in held : Usable(t) => t.origin = epoch

\* A child expires with its parent at the latest.
\* The code does not keep this (README, Disagreements).
ChildExpiresWithParent ==
    \A t \in held : t.parent # 0 => t.expires <= issued[t.parent].expires
=============================================================================
