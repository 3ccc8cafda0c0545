--------------------------- MODULE FencedWriters ---------------------------
(***************************************************************************)
(* The fenced resources of fencing/ beside the claim whose tokens they     *)
(* check.  A generation that was ever granted the claim may write under    *)
(* its token at any later time and any number of times: its calls may be   *)
(* delayed or repeated, and it need not know that the claim is lost.       *)
(* The Redis resource stores the token as Lua prints it, with 14 digits.   *)
(***************************************************************************)
EXTENDS FencedClaim

CONSTANTS
    MaxToken,           \* bound on the grants
    Rounds,             \* the resource is the one in Redis
    Exact, Base         \* tokens from Exact on are rounded to a multiple of Base
                        \* (10^14 and 10 in Lua)

RoundsAssumption == Rounds \in BOOLEAN /\ Exact \in Nat /\ Base \in Nat \ {0}
NoGenAssumption == NoGen \notin Gens

VARIABLES
    stored,             \* the token the resource keeps
    last, written       \* history: the last write and all of them, <<token, generation>>

wvars == <<owner, token, granted, stored, last, written>>
resource == <<stored, last, written>>

WInit == FInit /\ stored = 0 /\ last = <<0, NoGen>> /\ written = {}

\* Faulty: what is kept is the next token.
StoredNext(t) == t + 1

\* What is kept of the token.
Stored(t) ==
    IF Rounds /\ t >= Exact THEN ((t + (Base \div 2)) \div Base) * Base ELSE t

\* Faulty: a token is only looked at if it is zero.
AcceptsAny(t) == t # 0

Accepts(t) == t # 0 /\ stored <= t

\* A write that is not accepted changes nothing.
Write(p) ==
    /\ Accepts(p[1])
    /\ stored' = Stored(p[1]) /\ last' = p /\ written' = written \cup {p}
    /\ UNCHANGED fvars

\* The claim goes on as any backend lets it.
ClaimStep ==
    /\ Lose \/ (token < MaxToken /\ \E g \in Gens : Grant(g))
    /\ UNCHANGED resource

WNext == ClaimStep \/ \E p \in granted : Write(p)

WSpec == WInit /\ [][WNext]_wvars

-----------------------------------------------------------------------------

\* The last write the resource took is the newest: every other has a smaller token, so
\* that no generation writes over what a later owner of the claim has written
\* (fencing/memory, fencing/postgres and fencing/redis, Write).
LastIsNewest == \A p \in written : p[1] < last[1] \/ p = last

\* The owner of the claim is never refused as stale.
OwnerMayWrite == owner # NoGen => Accepts(token)

-----------------------------------------------------------------------------
(* The claim's inductive invariant: OneOwnerPerEpoch alone is not inductive, since *)
(* without GrantsCovered the next token could have been granted before.    *)
FInv == FTypeOK /\ GrantsCovered /\ OneOwnerPerEpoch

\* What was written was granted, and the resource keeps the token of the last write.
\* LastIsNewest is not inductive without them: two writes under one token are of one
\* generation only because both were granted.
ResourceInv ==
    /\ written \subseteq granted
    /\ stored \in Nat /\ stored = last[1]
    /\ stored # 0 => last \in written
    /\ stored <= token
    /\ stored = 0 => written = {}

WInv == FInv /\ ResourceInv /\ LastIsNewest /\ (owner # NoGen => token # 0)

=============================================================================
