------------------------------ MODULE Migration ------------------------------
(***************************************************************************)
(* migration.Coordinator: one defined migration, advanced by concurrent    *)
(* calls of Start and Resume and interrupted by Pause, Compensate and      *)
(* SetPhase.  The lock is given back around every gate and every hook.     *)
(* The copy counters are left out.                                         *)
(***************************************************************************)
EXTENDS Integers, Sequences

CONSTANTS
    Callers,
    PauseAfters,    \* what StartOptions.PauseAfter may be; "" is none
    OperatorPhases, \* what SetPhase is called with
    MaxStarts,      \* bound on the calls of Start and Resume
    MaxMoves        \* bound on Pause, Compensate, SetPhase and gate changes

VARIABLES
    phase,          \* Run.Phase
    dryRun,         \* Run.DryRun
    resumeFrom,     \* Run.Checkpoint.ResumeFrom
    call,           \* caller -> the Start under way
    gates,          \* do lockdown, ownership and fence let a mutation pass?
    starts, moves,
    verified, cuts, \* history: all verify steps passed; cutover hooks done
    asked, manual   \* history: was the run only asked for dry; a SetPhase

vars == <<phase, dryRun, resumeFrom, call, gates, starts, moves, verified, cuts, asked, manual>>

hist == <<verified, cuts, asked, manual>>

Phases == <<"validated", "preparing", "copying", "verifying", "cutover", "completed">>
Order == <<"planned">> \o Phases
Terminal(p) == p \in {"completed", "failed"}
AllPhases == {Order[i] : i \in DOMAIN Order} \cup {"paused", "compensating", "failed"}

Idle == [pc |-> "idle"]

TypeOK ==
    /\ phase \in AllPhases /\ resumeFrom \in AllPhases \cup {""}
    /\ ~Terminal(resumeFrom) /\ resumeFrom # "paused"
    /\ \A c \in Callers :
          call[c].pc \in {"idle", "begin", "resume", "gates", "loop", "advance", "hook", "apply"}
    /\ cuts \in 0..MaxStarts

Init ==
    /\ phase = "planned" /\ dryRun = FALSE /\ resumeFrom = "" /\ gates = TRUE
    /\ call = [c \in Callers |-> Idle] /\ starts = 0 /\ moves = 0
    /\ verified = FALSE /\ cuts = 0 /\ asked = "none" /\ manual = FALSE

-----------------------------------------------------------------------------

Return(c) == call' = [call EXCEPT ![c] = Idle]
Goto(c, pc) == call' = [call EXCEPT ![c].pc = pc]

\* A call of Start; Resume is one that begins at "resume".
Start(c) ==
    /\ call[c].pc = "idle" /\ starts < MaxStarts
    /\ starts' = starts + 1
    /\ \E dry, resumes \in BOOLEAN, after \in PauseAfters :
          call' = [call EXCEPT ![c] =
             [pc |-> IF resumes THEN "resume" ELSE "begin", dry |-> dry, after |-> after,
              resume |-> FALSE, todo |-> <<>>]]
    /\ UNCHANGED <<phase, dryRun, resumeFrom, gates, moves, hist>>

\* What the run was asked for, once a Start has begun.
Asked(c) ==
    asked' = IF call[c].resume \/ asked = "real" THEN asked
             ELSE IF call[c].dry THEN "dry" ELSE "real"

\* Faulty: that the run is dry is not noted.
BeginForgets(c) ==
    /\ call[c].pc = "begin"
    /\ IF Terminal(phase) \/ phase = "compensating" THEN Return(c)
       ELSE Goto(c, IF phase = "paused" THEN "resume" ELSE "gates")
    /\ Asked(c)
    /\ UNCHANGED <<phase, dryRun, resumeFrom, gates, starts, moves, verified, cuts, manual>>

\* The first critical section of Start.
Begin(c) ==
    /\ call[c].pc = "begin"
    /\ dryRun' = (dryRun \/ (~Terminal(phase) /\ call[c].dry))
    /\ IF Terminal(phase) \/ phase = "compensating" THEN Return(c)
       ELSE Goto(c, IF phase = "paused" THEN "resume" ELSE "gates")
    /\ Asked(c)
    /\ UNCHANGED <<phase, resumeFrom, gates, starts, moves, verified, cuts, manual>>

Resume(c) ==
    /\ call[c].pc = "resume"
    /\ IF phase # "paused" THEN Return(c) /\ UNCHANGED phase
       ELSE /\ phase' = IF resumeFrom = "" THEN "copying" ELSE resumeFrom
            /\ call' = [call EXCEPT ![c] = [pc |-> "begin", dry |-> dryRun, after |-> "",
                                            resume |-> TRUE, todo |-> <<>>]]
    /\ asked' = IF asked = "none" THEN "real" ELSE asked
    /\ UNCHANGED <<dryRun, resumeFrom, gates, starts, moves, verified, cuts, manual>>

\* The phases still ahead of a run in phase cur: all of them if cur is none
\* of the regular phases.
Ahead(cur, inclusive) ==
    LET after == {i \in DOMAIN Phases : Phases[i] = cur}
        first == IF after = {} THEN 1
                 ELSE (CHOOSE i \in after : TRUE) + (IF inclusive THEN 0 ELSE 1)
    IN  SubSeq(Phases, first, Len(Phases))

CheckGates(c) ==
    /\ call[c].pc = "gates"
    /\ IF gates THEN call' = [call EXCEPT ![c].pc = "loop", ![c].todo = Ahead(phase, call[c].resume)]
       ELSE Return(c)
    /\ UNCHANGED <<phase, dryRun, resumeFrom, gates, starts, moves, hist>>

fail(c) == phase' = "failed" /\ Return(c)

\* The head of the loop: the context may have ended, the run may be paused.
Round(c) ==
    /\ call[c].pc = "loop"
    /\ \E ended \in BOOLEAN :
          IF call[c].todo = <<>> THEN Return(c) /\ UNCHANGED phase
          ELSE IF ended THEN fail(c)
          ELSE IF phase = "paused" THEN Return(c) /\ UNCHANGED phase
          ELSE Goto(c, "advance") /\ UNCHANGED phase
    /\ UNCHANGED <<dryRun, resumeFrom, gates, starts, moves, hist>>

Target(c) == Head(call[c].todo)
Mutating(p) == p \in {"preparing", "copying", "cutover"}

\* advanceTo up to the hooks.  A dry run is completed in place of cutover.
advanceTo(c) ==
    /\ call[c].pc = "advance"
    /\ LET dry == dryRun \/ call[c].dry IN
       IF Mutating(Target(c)) /\ ~gates THEN fail(c) /\ UNCHANGED resumeFrom
       ELSE IF dry /\ Target(c) = "cutover"
       THEN /\ phase' = "completed" /\ resumeFrom' = ""
            /\ call' = [call EXCEPT ![c].pc = "loop", ![c].todo = Tail(@)]
       ELSE /\ Goto(c, IF Target(c) \in {"verifying", "cutover"} THEN "hook" ELSE "apply")
            /\ UNCHANGED <<phase, resumeFrom>>
    /\ UNCHANGED <<dryRun, gates, starts, moves, hist>>

\* Faulty: the error of a verify step is dropped.
HookDropsError(c, ok) ==
    /\ call[c].pc = "hook"
    /\ Goto(c, "apply")
    /\ verified' = (verified \/ (ok /\ Target(c) = "verifying"))
    /\ cuts' = IF ok /\ Target(c) = "cutover" THEN cuts + 1 ELSE cuts
    /\ UNCHANGED <<phase, dryRun, resumeFrom, gates, starts, moves, asked, manual>>

\* The verify steps, or the cutover hook, of the application return.
Hook(c, ok) ==
    /\ call[c].pc = "hook"
    /\ IF ok THEN Goto(c, "apply") /\ UNCHANGED phase ELSE fail(c)
    /\ verified' = (verified \/ (ok /\ Target(c) = "verifying"))
    /\ cuts' = IF ok /\ Target(c) = "cutover" THEN cuts + 1 ELSE cuts
    /\ UNCHANGED <<dryRun, resumeFrom, gates, starts, moves, asked, manual>>

\* The rest of advanceTo: the phase is set whatever it is by now.
Apply(c) ==
    /\ call[c].pc = "apply"
    /\ IF call[c].after = Target(c) /\ ~Terminal(Target(c))
       THEN phase' = "paused" /\ resumeFrom' = Target(c) /\ Return(c)
       ELSE /\ phase' = Target(c) /\ resumeFrom' = ""
            /\ call' = [call EXCEPT ![c].pc = "loop", ![c].todo = Tail(@)]
    /\ UNCHANGED <<dryRun, gates, starts, moves, hist>>

-----------------------------------------------------------------------------

Move == moves < MaxMoves /\ moves' = moves + 1

Pause ==
    /\ Move /\ ~Terminal(phase) /\ phase # "paused"
    /\ resumeFrom' = phase /\ phase' = "paused"
    /\ UNCHANGED <<dryRun, call, gates, starts, hist>>

Compensate ==
    /\ Move /\ phase # "completed"
    /\ phase' = "failed"
    /\ UNCHANGED <<dryRun, resumeFrom, call, gates, starts, hist>>

allowedTransition(from, to) ==
    \/ from = to
    \/ to \in {"failed", "paused", "compensating"} /\ ~Terminal(from)
    \/ from = "paused"
    \/ \E i \in 1..Len(Phases) : Order[i] = from /\ Order[i + 1] = to

SetPhase(to) ==
    /\ Move /\ allowedTransition(phase, to)
    /\ phase' = to /\ manual' = TRUE
    /\ UNCHANGED <<dryRun, resumeFrom, call, gates, starts, verified, cuts, asked>>

\* Lockdown begins or ends, ownership is lost or regained.
SwitchGates ==
    /\ Move
    /\ gates' = ~gates
    /\ UNCHANGED <<phase, dryRun, resumeFrom, call, starts, hist>>

CallStep(c) ==
    \/ Begin(c) \/ Resume(c) \/ CheckGates(c) \/ Round(c) \/ advanceTo(c)
    \/ (\E ok \in BOOLEAN : Hook(c, ok)) \/ Apply(c)

Next ==
    \/ \E c \in Callers : Start(c) \/ CallStep(c)
    \/ Pause \/ Compensate \/ SwitchGates
    \/ \E to \in OperatorPhases : SetPhase(to)

Spec == Init /\ [][Next]_vars

-----------------------------------------------------------------------------

\* However calls, pauses and failures interleave, the cutover hook runs only
\* behind verify steps that passed, unless an operator set the phase by hand.
VerifiedBeforeCutover == cuts > 0 /\ ~manual => verified

\* A migration that was only ever started dry is never cut over, not even
\* when it is paused and resumed without the option.
DryRunNeverCutsOver == cuts > 0 => asked = "real"

\* A run that was paused is not moved on by a call that was under way.
\* The code does not keep this (README, Disagreements).
PauseHolds ==
    \A c \in Callers : call[c].pc = "apply" /\ call'[c].pc # "apply" => phase # "paused"

\* A completed or failed run stays so.
\* The code does not keep this (README, Disagreements).
TerminalIsFinal == Terminal(phase) => phase' = phase

-----------------------------------------------------------------------------
(* What the liveness properties of the runs speak of.                       *)

Busy(c) == call[c].pc # "idle"
=============================================================================
