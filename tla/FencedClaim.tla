---------------------------- MODULE FencedClaim ----------------------------
(***************************************************************************)
(* What every backend promises about one claim, whatever it stores: at any *)
(* time at most one generation owns it, and each time ownership is granted *)
(* -- to a newcomer or, in a handoff, to a successor -- the fencing token  *)
(* is a new, larger one.  Losing ownership keeps the token.                *)
(*                                                                         *)
(* granted is a history variable: the pairs <<token, generation>> ever     *)
(* granted.                                                                *)
(***************************************************************************)
EXTENDS Integers

CONSTANTS Gens, NoGen

VARIABLES owner, token, granted

fvars == <<owner, token, granted>>

FTypeOK ==
    /\ owner \in Gens \cup {NoGen}
    /\ token \in Nat
    /\ granted \subseteq Nat \X Gens

FInit ==
    /\ owner = NoGen
    /\ token = 0
    /\ granted = {}

\* Ownership goes to g under the next token.  g may be the owner of the last
\* epoch: it let its lease expire and came back, or handed off to itself.
Grant(g) ==
    /\ owner' = g
    /\ token' = token + 1
    /\ granted' = granted \cup {<<token', g>>}

\* The owner released the claim or let its lease expire.
Lose ==
    /\ owner # NoGen
    /\ owner' = NoGen
    /\ UNCHANGED <<token, granted>>

FNext == Lose \/ \E g \in Gens : Grant(g)

FSpec == FInit /\ [][FNext]_fvars

\* At most one generation owns a claim at a fencing-token epoch, for ever:
\* a token handed to one generation is never handed to another
\* (docs/architecture.md, invariant 1).
OneOwnerPerEpoch ==
    \A p, q \in granted : p[1] = q[1] => p[2] = q[2]

\* The token in force is at least every token ever granted, and the owner
\* was granted it.
GrantsCovered ==
    /\ \A p \in granted : p[1] <= token
    /\ owner # NoGen => <<token, owner>> \in granted

\* Fencing tokens never decrease (docs/architecture.md, invariant 2).
TokenNeverDecreases == [][token' >= token]_fvars
=============================================================================
