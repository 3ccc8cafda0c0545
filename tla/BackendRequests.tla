-------------------------- MODULE BackendRequests --------------------------
(***************************************************************************)
(* The requests a backend serves (backend.go), for one claim.  gen is the  *)
(* generation the request is made for: GenerationID, or FromGeneration in  *)
(* a handoff; token is Token or ExpectedToken.                             *)
(***************************************************************************)
EXTENDS ClaimRecord

CONSTANTS
    Tokens,     \* fencing tokens requests may carry
    OpIds,      \* operation ids: records with fields kind and gen (newOpID)
    NoOp        \* the empty operation id

ASSUME TokensAssumption == Tokens \subseteq Nat
ASSUME NoOpAssumption == NoOp \notin OpIds

OpsOf(kind, g) == {NoOp} \cup {o \in OpIds : o.kind = kind /\ o.gen = g}

AcquireRequests ==
    {q \in [kind : {"acquire"}, gen : Gens, ttl : TTLs, op : OpIds \cup {NoOp}] :
        q.op \in OpsOf("acquire", q.gen)}

RenewRequests ==
    {q \in [kind : {"renew"}, gen : Gens, token : Tokens, ttl : TTLs,
            op : OpIds \cup {NoOp}] : q.op \in OpsOf("renew", q.gen)}

TransferRequests ==
    {q \in [kind : {"prepare"}, gen : Gens, to : Gens, token : Tokens,
            ttl : TTLs, op : OpIds \cup {NoOp}] : q.op \in OpsOf("prepare", q.gen)}

CommitRequests ==
    {q \in [kind : {"commit"}, gen : Gens, to : Gens, token : Tokens,
            ttl : TTLs, op : OpIds \cup {NoOp}] : q.op \in OpsOf("commit", q.gen)}

AbortRequests ==
    {q \in [kind : {"abort"}, gen : Gens, token : Tokens, op : OpIds \cup {NoOp}] :
        q.op \in OpsOf("abort", q.gen)}

ReleaseRequests ==
    {q \in [kind : {"release"}, gen : Gens, token : Tokens,
            op : OpIds \cup {NoOp}] : q.op \in OpsOf("release", q.gen)}

Requests ==
    AcquireRequests \cup RenewRequests \cup TransferRequests
        \cup CommitRequests \cup AbortRequests \cup ReleaseRequests

NoCall == [kind |-> "none"]
=============================================================================
