-------------------------- MODULE TokenValidator --------------------------
(***************************************************************************)
(* TokenValidator.Accept (fencing.go) called by any number of goroutines   *)
(* on one validator: an atomic load, then a compare-and-swap that is       *)
(* retried from the load.  Tokens are any set of positive numbers.         *)
(***************************************************************************)
EXTENDS Naturals

CONSTANTS
    Callers,    \* goroutines that call Accept
    Tokens      \* non-zero tokens they pass

TokensAssumption == Tokens \subseteq Nat \ {0}

VARIABLES
    current,    \* TokenValidator.current
    call,       \* what each caller is doing
    accepted    \* history: the newest token Accept returned true for

vars == <<current, call, accepted>>

\* floor is the newest token accepted when the call began, cur what it loaded.
Calls == [pc : {"load", "cas", "true", "false"}, token : Tokens \cup {0},
          cur : Nat, floor : Nat]

TypeOK ==
    /\ current \in Tokens \cup {0}
    /\ call \in [Callers -> Calls]
    /\ accepted \in Tokens \cup {0}

Returned(c) == call[c].pc \in {"true", "false"}

Init ==
    /\ current = 0
    /\ call = [c \in Callers |-> [pc |-> "false", token |-> 0, cur |-> 0, floor |-> 0]]
    /\ accepted = 0

Goto(c, pc) == call' = [call EXCEPT ![c].pc = pc]

ReturnTrue(c) ==
    /\ Goto(c, "true")
    /\ accepted' = IF call[c].token > accepted THEN call[c].token ELSE accepted

\* A call with token zero returns false at once.
Accept(c, token) ==
    /\ Returned(c)
    /\ call' = [call EXCEPT ![c] = [pc |-> IF token = 0 THEN "false" ELSE "load",
                                    token |-> token, cur |-> 0, floor |-> accepted]]
    /\ UNCHANGED <<current, accepted>>

\* Faulty: an older token is taken for the current one.
LoadAcceptsOlder(c) ==
    /\ call[c].pc = "load"
    /\ IF call[c].token <= current
       THEN ReturnTrue(c)
       ELSE /\ call' = [call EXCEPT ![c].pc = "cas", ![c].cur = current]
            /\ UNCHANGED accepted
    /\ UNCHANGED current

\* Faulty: a newer token is refused.
LoadRefusesNewer(c) ==
    /\ call[c].pc = "load"
    /\ IF current # 0 /\ call[c].token # current
       THEN Goto(c, "false") /\ UNCHANGED accepted
       ELSE IF call[c].token = current THEN ReturnTrue(c)
       ELSE /\ call' = [call EXCEPT ![c].pc = "cas", ![c].cur = current]
            /\ UNCHANGED accepted
    /\ UNCHANGED current

Load(c) ==
    /\ call[c].pc = "load"
    /\ IF call[c].token < current
       THEN Goto(c, "false") /\ UNCHANGED accepted
       ELSE IF call[c].token = current THEN ReturnTrue(c)
       ELSE /\ call' = [call EXCEPT ![c].pc = "cas", ![c].cur = current]
            /\ UNCHANGED accepted
    /\ UNCHANGED current

\* Faulty: retried without loading again.
RetryWithoutLoad(c) ==
    /\ call[c].pc = "cas"
    /\ IF current = call[c].cur
       THEN current' = call[c].token /\ ReturnTrue(c)
       ELSE Goto(c, "cas") /\ UNCHANGED <<current, accepted>>

CompareAndSwap(c) ==
    /\ call[c].pc = "cas"
    /\ IF current = call[c].cur
       THEN current' = call[c].token /\ ReturnTrue(c)
       ELSE Goto(c, "load") /\ UNCHANGED <<current, accepted>>

Step(c) == Load(c) \/ CompareAndSwap(c)

Next ==
    \E c \in Callers :
        \/ \E token \in Tokens \cup {0} : Accept(c, token)
        \/ Step(c)

Spec == Init /\ [][Next]_vars

-----------------------------------------------------------------------------

\* fencing.go:38: once Accept returned true for T, a later call with a token
\* below T returns false.
StaleIsRefused ==
    \A c \in Callers : call[c].pc = "true" => call[c].token >= call[c].floor

\* A refusal is justified: the token is zero, or a newer one was accepted.
RefusedIsStale ==
    \A c \in Callers : call[c].pc = "false" => call[c].token = 0 \/ call[c].token < accepted

\* fencing.go:39: the stored epoch never decreases.
NeverDecreases == current' >= current

-----------------------------------------------------------------------------
\* What a caller in the middle of Accept may rely on: nothing newer than the
\* stored epoch was accepted, the call's floor is not above it, and a caller
\* about to swap has a token newer than the one it loaded.
IInv ==
    /\ TypeOK
    /\ current = accepted
    /\ \A c \in Callers : call[c].floor <= accepted
    /\ \A c \in Callers : call[c].pc = "cas" => call[c].token > call[c].cur
    /\ \A c \in Callers : call[c].pc \in {"load", "cas"} => call[c].token # 0
    /\ StaleIsRefused
    /\ RefusedIsStale
=============================================================================
