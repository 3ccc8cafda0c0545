--------------------------- MODULE Handoff_proofs ---------------------------
(***************************************************************************)
(* The theorems about Handoff.  Its own lemmas show that the methods keep  *)
(* the invariant apart from their backend calls, and so do work, renewals, *)
(* the successor and time; here are the calls, and what follows.           *)
(***************************************************************************)
EXTENDS Handoff

\* What a backend call of a method has to see to: thread t makes it on claim c, gets the
\* answer a and goes to s.
LEMMA MethodCall ==
  ASSUME IInv, NEW t \in Threads, NEW s \in ThreadStates, Goto(t, s),
         NEW c \in Claims, NEW o, NEW a, Answered(c, o, a), Good(claim[c], o.claim),
         UNCHANGED <<drain, genState, drainDone, transferDone>>,
         \* the types of what may change
         /\ record' \in [Claims -> Views] /\ lease' \in TokenMaps
         /\ renewal' \in [Claims -> BOOLEAN] /\ tokens' \in TokenMaps
         /\ status' \in Statuses /\ watcher' \in {"none", "armed", "fired"},
         \* records are answers, and tokens are copies or come from an answer
         \A d \in Claims : record'[d] \in {record[d], View(claim'[d])},
         \A d \in Claims : Kept(d, lease'[d]) /\ Kept(d, tokens'[d]) /\ Kept(d, s.tokens[d]),
         \* only a drained claim is reserved
         o.claim.phase = "reserved" => claim[c].phase = "reserved" \/ Drained(c),
         \* the method goes on, or ends
         t = "user" => /\ s.pc \notin {"drain", "drainTransfer"}
                       /\ s.pc \in {"reserve", "recordToken"} => drainDone
                       /\ s.pc = "recordToken" => s.i \in Claims,
         status' = "committed" => status = "committed" /\ t # "user"
  PROVE  IInv'
<1>0. "user" \in Threads
  BY DEF Threads
<1>1. /\ thread' \in [Threads -> ThreadStates] /\ thread'[t] = s
      /\ \A u \in Threads \ {t} : thread'[u] = thread[u]
  BY GotoStep DEF IInv
<1>2. /\ claim' \in [Claims -> Records] /\ faults' \in 0..MaxFaults
      /\ \A d \in Claims : Good(claim[d], claim'[d])
      /\ \A d \in Claims \ {c} : claim'[d] = claim[d]
      /\ claim'[c] = a.claim
  BY CallStep
<1>3. TypeOK'
  BY <1>1, <1>2 DEF IInv, TypeOK, drain
<1>4. EpochsOwn'
  <2>1. \A d \in Claims, u \in Threads : Kept(d, thread'[u].tokens[d])
    BY <1>1 DEF Kept
  <2> QED  BY <1>2, <1>3, <2>1, KeptOwn
<1>5. \A d \in Claims : claim'[d].phase = "reserved" => Drained(d)
  <2>1. a.claim \in {o.claim, claim[c]}
    BY DEF Answered, Answers, before, afterApply
  <2> QED  BY <1>2, <2>1 DEF IInv, DrainedFirst
<1>6. CASE t = "user"
  <2>1. DrainedFirst'
    BY <1>1, <1>5, <1>6 DEF IInv, DrainedFirst, Drained, InDrain, Index, drain
  <2>2. CommittedRetires'
    BY <1>1, <1>6 DEF IInv, CommittedRetires
  <2> QED  BY <1>2, <1>3, <1>4, <2>1, <2>2 DEF IInv, Good
<1>7. CASE t # "user"
  <2>0. thread'["user"] = thread["user"]
    BY <1>0, <1>1, <1>7
  <2>1. DrainedFirst'
    BY <2>0, <1>5 DEF IInv, DrainedFirst, Drained, InDrain, Index, drain
  <2>2. CommittedRetires'
    BY <2>0, <1>7 DEF IInv, CommittedRetires
  <2> QED  BY <1>2, <1>3, <1>4, <2>1, <2>2 DEF IInv, Good
<1> QED  BY <1>6, <1>7

\* A failed prepare or commit.
LEMMA FailureInv ==
  ASSUME IInv, NEW c \in Claims, NEW o, NEW a, Answered(c, o, a),
         Good(claim[c], o.claim), FailAndUndo, UNCHANGED <<drain, genState>>,
         o.claim.phase = "reserved" => claim[c].phase = "reserved" \/ Drained(c)
  PROVE  IInv'
<1> DEFINE s == At("undo", 1, tokens)
<1>1. s \in ThreadStates /\ s.pc = "undo" /\ s.tokens = tokens
  BY ThreadTyped, NAssumption DEF IInv, TypeOK, Stages, At
<1>2. /\ status' = "failed" /\ watcher' \in {"none", "armed", "fired"} /\ Goto("user", s)
      /\ UNCHANGED <<record, lease, renewal, drainDone, transferDone, tokens>>
  BY DEF FailAndUndo, startTimeoutWatcher, handle, IInv, TypeOK
<1>3. /\ record' \in [Claims -> Views] /\ lease' \in TokenMaps
      /\ renewal' \in [Claims -> BOOLEAN] /\ tokens' \in TokenMaps
      /\ status' \in Statuses /\ "user" \in Threads
  BY <1>2 DEF IInv, TypeOK, Statuses, Threads
<1> HIDE DEF s
<1>4. \A d \in Claims : Kept(d, lease'[d]) /\ Kept(d, tokens'[d]) /\ Kept(d, s.tokens[d])
  BY <1>1, <1>2 DEF Kept
<1> QED  BY <1>1, <1>2, <1>3, <1>4, MethodCall

\* Transfer reserves a claim.
LEMMA ReserveInv ==
  ASSUME IInv, ReserveClaim
  PROVE  IInv'
<1> DEFINE i == Index("user")
           o == PrepareTransfer(claim[i], Self, Successor, currentLeaseToken(i), TTL)
           s == At("recordToken", i, [NoTokens EXCEPT ![i] = claim'[i].token])
<1>0. /\ i \in Claims /\ thread["user"].pc = "reserve" /\ UNCHANGED <<drain, genState>>
      /\ claim[i] \in Records /\ Consistent(claim[i])
      /\ Self \in Gens /\ Successor \in Gens /\ TTL \in Int
  BY PartiesAssumption, HandoffTTLAssumption, TTLAssumption DEF ReserveClaim, IInv, TypeOK
<1>1. PICK a \in Answers(claim[i], o) :
         /\ Answered(i, o, a)
         /\ IF a.err = "ok"
            THEN /\ applyRecord(i, a.claim)
                 /\ Goto("user", At("recordToken", i,
                                    [NoTokens EXCEPT ![i] = a.claim.token]))
                 /\ UNCHANGED handoff
            ELSE FailAndUndo
  BY Zenon DEF ReserveClaim
<1>2. Good(claim[i], o.claim) /\ Drained(i) /\ drainDone
  BY <1>0, PrepareGood DEF IInv, DrainedFirst
<1>3. o.err = "ok" => o.claim.owner = Self
  BY <1>0, PrepareOk
<1> HIDE DEF o, i
<1>4. CASE a.err # "ok"
  BY <1>0, <1>1, <1>2, <1>4, FailureInv
<1>5. CASE a.err = "ok"
  <2>1. claim' \in [Claims -> Records] /\ claim'[i] = a.claim /\ a = o
    BY <1>0, <1>1, <1>2, <1>5, CallStep
  <2>2. claim'[i].token \in Nat /\ View(claim'[i]) \in Views /\ claim'[i].owner = Self
    BY <1>0, <1>3, <1>5, <2>1 DEF Records, View, Views
  <2>3. /\ s \in ThreadStates /\ s.pc = "recordToken" /\ s.i = i
        /\ \A d \in Claims : s.tokens[d] = IF d = i THEN claim'[i].token ELSE 0
    BY <1>0, <2>2, ThreadTyped, NAssumption
       DEF At, ThreadStates, Stages, NoTokens, TokenMaps, Claims
  <2>4. /\ Goto("user", s) /\ UNCHANGED handoff
        /\ record' = [record EXCEPT ![i] = View(claim'[i])] /\ renewal' = renewal
        /\ lease' = [lease EXCEPT
              ![i] = IF @ = 0 \/ ~Controls(View(claim'[i]), Self) THEN 0
                                                               ELSE claim'[i].token]
    BY <1>1, <1>5, <2>1 DEF applyRecord
  <2> HIDE DEF s
  <2>5. /\ record' \in [Claims -> Views] /\ lease' \in TokenMaps
        /\ renewal' \in [Claims -> BOOLEAN] /\ tokens' \in TokenMaps
        /\ status' \in Statuses /\ watcher' \in {"none", "armed", "fired"}
        /\ "user" \in Threads
    BY <1>0, <2>2, <2>4 DEF IInv, TypeOK, TokenMaps, Threads, handoff
  <2>6. \A d \in Claims : record'[d] \in {record[d], View(claim'[d])}
    BY <1>0, <2>4 DEF IInv, TypeOK
  <2>7. \A d \in Claims : Kept(d, lease'[d]) /\ Kept(d, tokens'[d]) /\ Kept(d, s.tokens[d])
    BY <1>0, <2>2, <2>3, <2>4 DEF IInv, TypeOK, TokenMaps, handoff, Kept
  <2>8. status' # "committed"
    BY <1>0, <2>4 DEF IInv, CommittedRetires, handoff
  <2>9. UNCHANGED <<drain, genState, drainDone, transferDone>>
    BY <1>0, <2>4 DEF handoff
  <2>10. /\ s.pc \notin {"drain", "drainTransfer"} /\ s.i \in Claims
         /\ s.pc \in {"reserve", "recordToken"} => drainDone
    BY <1>0, <1>2, <2>3
  <2>11. Goto("user", s) /\ s \in ThreadStates /\ i \in Claims /\ Answered(i, o, a)
    BY <1>0, <1>1, <2>3, <2>4
  <2> QED
    BY <1>2, <2>5, <2>6, <2>7, <2>8, <2>9, <2>10, <2>11, MethodCall
<1> QED  BY <1>4, <1>5

\* Commit hands a claim over.
LEMMA CommitInv ==
  ASSUME IInv, CommitClaim
  PROVE  IInv'
<1> DEFINE i == Index("user")
           o == CommitTransfer(claim[i], Self, Successor, thread["user"].tokens[i], TTL)
           s == [thread["user"] EXCEPT !.i = @ + 1]
<1>0. /\ i \in Claims /\ thread["user"].pc = "commit" /\ UNCHANGED <<drain, genState>>
      /\ claim[i] \in Records /\ Consistent(claim[i]) /\ thread["user"] \in ThreadStates
      /\ Self \in Gens /\ Successor \in Gens /\ TTL \in Int /\ "user" \in Threads
  BY PartiesAssumption, HandoffTTLAssumption, TTLAssumption DEF CommitClaim, IInv, TypeOK, Threads
<1>1. PICK a \in Answers(claim[i], o) :
         /\ Answered(i, o, a)
         /\ IF a.err = "ok"
            THEN /\ record' = [record EXCEPT ![i] = View(a.claim)]
                 /\ lease' = [lease EXCEPT ![i] = 0]
                 /\ tokens' = [tokens EXCEPT ![i] = 0]
                 /\ Goto("user", s)
                 /\ UNCHANGED <<renewal, status, drainDone, transferDone, watcher>>
            ELSE FailAndUndo
  BY DEF CommitClaim, Advance
<1>2. /\ Good(claim[i], o.claim)
      /\ o.claim.phase = "reserved" => claim[i].phase = "reserved"
  BY <1>0, CommitGood, NotReserved
<1>3. s \in ThreadStates /\ s.pc = "commit" /\ s.tokens = thread["user"].tokens
  BY <1>0, Advanced DEF Index
<1> HIDE DEF o, i, s
<1>4. CASE a.err # "ok"
  BY <1>0, <1>1, <1>2, <1>4, FailureInv
<1>5. CASE a.err = "ok"
  <2>1. claim' \in [Claims -> Records] /\ claim'[i] = a.claim
    BY <1>0, <1>1, <1>2, CallStep
  <2>2. View(claim'[i]) \in Views
    BY <1>0, <2>1 DEF Records, View, Views
  <2>3. /\ record' \in [Claims -> Views] /\ lease' \in TokenMaps
        /\ renewal' \in [Claims -> BOOLEAN] /\ tokens' \in TokenMaps
        /\ status' \in Statuses /\ watcher' \in {"none", "armed", "fired"}
    BY <1>0, <1>1, <1>5, <2>1, <2>2 DEF IInv, TypeOK, TokenMaps
  <2>4. \A d \in Claims : record'[d] \in {record[d], View(claim'[d])}
    BY <1>0, <1>1, <1>5, <2>1 DEF IInv, TypeOK
  <2>5. \A d \in Claims : Kept(d, lease'[d]) /\ Kept(d, tokens'[d]) /\ Kept(d, s.tokens[d])
    BY <1>0, <1>1, <1>3, <1>5 DEF IInv, TypeOK, TokenMaps, Kept
  <2>6. status' # "committed"
    BY <1>0, <1>1, <1>5 DEF IInv, CommittedRetires
  <2>7. Goto("user", s) /\ UNCHANGED <<drain, genState, drainDone, transferDone>>
    BY <1>0, <1>1, <1>5
  <2> QED  BY <1>0, <1>1, <1>2, <1>3, <2>3, <2>4, <2>5, <2>6, <2>7, MethodCall
<1> QED  BY <1>4, <1>5

\* What restoreLease leaves behind: the record of the answer and, when that
\* record is this generation's, its epoch.
LEMMA RestoreStep ==
  ASSUME IInv, NEW c \in Claims, claim'[c] \in Records, restoreLease(c, claim'[c])
  PROVE  /\ record' \in [Claims -> Views] /\ lease' \in TokenMaps
         /\ renewal' \in [Claims -> BOOLEAN]
         /\ \A d \in Claims : record'[d] \in {record[d], View(claim'[d])}
         /\ \A d \in Claims : \/ lease'[d] = lease[d]
                              \/ /\ lease'[d] = claim'[d].token
                                 /\ claim'[d].owner = Self
<1>1. View(claim'[c]) \in Views /\ claim'[c].token \in Nat
  BY DEF Records, View, Views
<1>2. Controls(View(claim'[c]), Self) => claim'[c].owner = Self
  BY DEF Controls, View
<1>3. TRUE \in BOOLEAN /\ renewal \in [Claims -> BOOLEAN]
  BY DEF IInv, TypeOK
<1>4. renewal' \in [Claims -> BOOLEAN]
  BY <1>3, Zenon DEF restoreLease
<1>5. record \in [Claims -> Views] /\ lease \in TokenMaps
  BY DEF IInv, TypeOK
<1>6. /\ record' = [record EXCEPT ![c] = View(claim'[c])]
      /\ \/ lease' = lease
         \/ lease' = [lease EXCEPT ![c] = claim'[c].token] /\ claim'[c].owner = Self
  BY <1>2 DEF restoreLease
<1>7. record' \in [Claims -> Views] /\ lease' \in TokenMaps
  BY <1>1, <1>5, <1>6 DEF TokenMaps
<1> QED  BY <1>4, <1>5, <1>6, <1>7 DEF TokenMaps

\* A rollback aborts the transfer of one claim, Abort's own or the one of a
\* method that failed.
LEMMA AbortInv ==
  ASSUME IInv, NEW t \in Threads, (UndoClaim /\ t = "user") \/ AbortClaim(t)
  PROVE  IInv'
<1> DEFINE i == Index(t)
           o == AbortTransfer(claim[i], Self, thread[t].tokens[i])
           s == [thread[t] EXCEPT !.i = @ + 1]
<1>0. /\ i \in Claims /\ thread[t].pc \in {"undo", "abort"}
      /\ UNCHANGED <<drain, genState, drainDone, transferDone, status, watcher>>
      /\ claim[i] \in Records /\ Consistent(claim[i]) /\ thread[t] \in ThreadStates
      /\ thread[t].tokens[i] \in Nat /\ Self \in Gens
  <2>1. /\ i \in Claims /\ thread[t].pc \in {"undo", "abort"}
        /\ UNCHANGED <<drain, genState, drainDone, transferDone, status, watcher>>
    BY DEF UndoClaim, AbortClaim, handoff
  <2> QED  BY <2>1, PartiesAssumption DEF IInv, TypeOK, ThreadStates, TokenMaps
<1>1. PICK a \in Answers(claim[i], o) :
         /\ Answered(i, o, a)
         /\ \/ restoreLease(i, a.claim) \/ UNCHANGED handle
         /\ tokens' = tokens \/ tokens' = [tokens EXCEPT ![i] = 0]
         /\ Goto(t, s) \/ Goto(t, Idle)
  BY DEF UndoClaim, AbortClaim, Advance, handoff, handle
<1>2. /\ Good(claim[i], o.claim)
      /\ o.claim.phase = "reserved" => claim[i].phase = "reserved"
  BY <1>0, AbortGood, NotReservedEither
<1>3. s \in ThreadStates /\ s.pc = thread[t].pc /\ s.tokens = thread[t].tokens
  BY <1>0, Advanced DEF Index
<1>4. Idle \in ThreadStates /\ Idle.pc = "idle" /\ \A d \in Claims : Idle.tokens[d] = 0
  BY ThreadTyped DEF Idle, At, NoTokens
<1> HIDE DEF o, i, s
<1>5. claim' \in [Claims -> Records] /\ claim'[i] = a.claim
  BY <1>0, <1>1, <1>2, CallStep
<1>6. /\ record' \in [Claims -> Views] /\ lease' \in TokenMaps
      /\ renewal' \in [Claims -> BOOLEAN]
      /\ \A d \in Claims : record'[d] \in {record[d], View(claim'[d])}
      /\ \A d \in Claims : \/ lease'[d] = lease[d]
                           \/ /\ lease'[d] = claim'[d].token
                              /\ claim'[d].owner = Self
  <2>1. CASE restoreLease(i, a.claim)
    BY <1>0, <1>5, <2>1, RestoreStep
  <2>2. CASE UNCHANGED handle
    BY <2>2 DEF handle, IInv, TypeOK
  <2> QED  BY <1>1, <2>1, <2>2
<1>7. /\ tokens' \in TokenMaps /\ \A d \in Claims : tokens'[d] \in {0, tokens[d]}
      /\ status' \in Statuses /\ watcher' \in {"none", "armed", "fired"}
  BY <1>0, <1>1 DEF IInv, TypeOK, TokenMaps
<1>8. t = "user" => status' # "committed"
  BY <1>0 DEF IInv, CommittedRetires
<1>9. ASSUME NEW u \in {s, Idle}, Goto(t, u)
      PROVE  IInv'
  <2>1. u \in ThreadStates /\ u.pc \notin {"drain", "drainTransfer", "reserve", "recordToken"}
    BY <1>0, <1>3, <1>4
  <2>2. \A d \in Claims : Kept(d, lease'[d]) /\ Kept(d, tokens'[d]) /\ Kept(d, u.tokens[d])
    BY <1>3, <1>4, <1>6, <1>7 DEF Kept
  <2>3. UNCHANGED <<drain, genState, drainDone, transferDone>>
    BY <1>0
  <2>4. status' = "committed" => status = "committed" /\ t # "user"
    BY <1>0, <1>8
  <2>5. /\ i \in Claims /\ Answered(i, o, a) /\ Good(claim[i], o.claim)
        /\ o.claim.phase = "reserved" => claim[i].phase = "reserved" \/ Drained(i)
    BY <1>0, <1>1, <1>2
  <2> QED  BY <1>6, <1>7, <1>9, <2>1, <2>2, <2>3, <2>4, <2>5, MethodCall
<1> QED  BY <1>1, <1>9

\* Every step of the generation, its watcher, its application and its
\* successor keeps the invariant.
LEMMA StepInv == IInv /\ [Next]_vars => IInv'
<1> SUFFICES ASSUME IInv, [Next]_vars PROVE IInv'
  OBVIOUS
<1>1. CASE UNCHANGED vars
  <2>1. TypeOK' /\ DrainedFirst' /\ CommittedRetires'
    BY <1>1 DEF vars, handle, drain, handoff, IInv, TypeOK, DrainedFirst,
                CommittedRetires, Drained, InDrain, Index
  <2> QED  BY <1>1, <2>1, EpochsKept DEF vars, handle, handoff, IInv
<1>2. CASE UserProgress
  <2>1. "user" \in Threads
    BY DEF Threads
  <2> QED  BY <1>2, <2>1, DrainInv, MethodsInv, ReserveInv, CommitInv, AbortInv
              DEF UserProgress
<1>3. CASE \E t \in Threads : Progress(t)
  BY <1>3, MethodsInv, AbortInv DEF Progress
<1>4. CASE \E c \in Claims : Renew(c) \/ Release(c) \/ SuccessorAcquire(c)
  BY <1>4, HandleInv
<1>5. CASE \E c \in Claims : BeginNamed(c) \/ EndWork(c)
  BY <1>5, WorkInv
<1>6. CASE \/ PrepareHandoff \/ Drain \/ Transfer \/ Commit \/ Abort
           \/ TimeoutFires \/ TimeoutAbort
  BY <1>6, DrainInv, MethodsInv
<1>7. CASE Tick
  BY <1>7, HandleInv
<1> QED  BY <1>1, <1>2, <1>3, <1>4, <1>5, <1>6, <1>7 DEF Next

\* The invariant holds in every state of a handoff.
THEOREM Invariance == Spec => []IInv
  BY InitInv, StepInv, PTL DEF Spec

\* Type correctness of the handoff.
THEOREM TypeCorrect == Spec => []TypeOK
<1>1. IInv => TypeOK
  BY DEF IInv
<1> QED  BY <1>1, Invariance, PTL

\* A claim that Transfer reserved has no work in flight and lets none begin,
\* for any number of claims, whichever of the watcher's and the application's
\* aborts, undos and retries have run, and whatever was lost on the way.
THEOREM ReservedIdle == Spec => []ReservedClaimIsIdle
<1>1. IInv => ReservedClaimIsIdle
  BY DEF IInv, DrainedFirst, Drained, ReservedClaimIsIdle
<1> QED  BY <1>1, Invariance, PTL

\* The successor's epoch is never taken for one of this generation's own, in a
\* lease that an abort restored or in a token that Transfer noted.
THEOREM OwnEpochs == Spec => []EpochIsOwn
<1>1. IInv => EpochIsOwn
  <2> SUFFICES ASSUME IInv, NEW c \in Claims, claim[c].owner = Successor
               PROVE  claim[c].token \notin {lease[c], tokens[c]}
    BY DEF EpochIsOwn
  <2>1. Successor \notin {Self, NoGen}
    BY PartiesAssumption, NoGenAssumption
  <2> QED  BY <2>1 DEF IInv, EpochsOwn, EpochOf
<1> QED  BY <1>1, Invariance, PTL

\* No method, and no timeout that fires late, takes a committed handoff back:
\* the watcher's look at the status is repeated by the Abort it calls.
THEOREM CommitFinal == Spec => CommitIsFinal
<1>1. IInv /\ IInv' /\ [Next]_vars
        => [status = "committed" => status' = "committed" /\ genState' = "retired"]_vars
  <2> SUFFICES ASSUME IInv, IInv', Next, status = "committed"
               PROVE  status' = "committed"
    BY DEF IInv, CommittedRetires
  <2>1. thread["user"].pc = "idle"
    BY DEF IInv, CommittedRetires
  <2>2. CASE UserProgress
    <3>1. ~(StartDrain \/ DrainWaited \/ DrainTimeout \/ DrainComplete)
      BY <2>1 DEF StartDrain, DrainWaited, DrainTimeout, DrainComplete, InDrain
    <3>2. ~(ReserveClaim \/ RecordToken \/ TransferComplete)
      BY <2>1 DEF ReserveClaim, RecordToken, TransferComplete
    <3>3. ~(CommitClaim \/ CommitComplete \/ UndoClaim \/ UndoComplete)
      BY <2>1 DEF CommitClaim, CommitComplete, UndoClaim, UndoComplete
    <3> QED  BY <2>2, <3>1, <3>2, <3>3 DEF UserProgress
  <2>3. CASE \E t \in Threads : Progress(t)
    BY <2>3 DEF Progress, SkipClaim, AbortClaim, AbortComplete, handoff
  <2>4. CASE Tick \/ \E c \in Claims : \/ Renew(c) \/ Release(c) \/ BeginNamed(c)
                                       \/ EndWork(c) \/ SuccessorAcquire(c)
    BY <2>4 DEF Tick, Renew, Release, BeginNamed, EndWork, SuccessorAcquire, handoff
  <2>5. CASE PrepareHandoff \/ Drain \/ Transfer \/ Commit \/ Abort
    BY <2>5 DEF PrepareHandoff, Drain, Transfer, Commit, Abort, handoff
  <2>6. CASE TimeoutFires \/ TimeoutAbort
    BY <2>6 DEF TimeoutFires, TimeoutAbort
  <2> QED  BY <2>2, <2>3, <2>4, <2>5, <2>6 DEF Next
<1> QED  BY <1>1, Invariance, PTL DEF Spec, CommitIsFinal
=============================================================================
