--------------------------- MODULE WorkflowStores ---------------------------
(***************************************************************************)
(* workflow.FileStore and workflow.JournalStore on a disk that survives a  *)
(* crash of the process.                                                   *)
(*                                                                         *)
(* FileStore rewrites the whole map beside the file and renames it over    *)
(* it.  JournalStore appends one line per call and reads the lines back    *)
(* when it is opened; a crash may leave a line cut short or without its    *)
(* newline.  A line is a record or TornLine; only the last one may be open.  *)
(***************************************************************************)
EXTENDS Naturals, Sequences, FiniteSets, SequencesExt

CONSTANTS
    Ids, Checkpoints, NoCheckpoint,
    MaxInstances,            \* the bound on instances
    Journal,        \* TRUE: JournalStore, FALSE: FileStore
    Torn,           \* what a crash leaves of a line: "none", "part", "whole"
    MaxLines        \* bound on the lines of the journal

StoresAssumption == Journal \in BOOLEAN /\ MaxInstances \in Nat \ {0}

VARIABLES
    file,       \* FileStore: the map in the file
    tmp,        \* FileStore: the map in the temporary file, or TornMap
    lines,      \* JournalStore: the lines of the file
    open,       \* JournalStore: the last line has no newline
    data,       \* JournalStore: the map in memory
    call,       \* the call in progress, or NoCall
    acked       \* history: id -> the value last acknowledged, or "unknown"

vars == <<file, tmp, lines, open, data, call, acked>>

Values == Checkpoints \cup {NoCheckpoint}
Empty == [i \in Ids |-> NoCheckpoint]
NoCall == [id |-> "none"]
TornLine == [id |-> "torn"]
TornMap == <<>>

\* replay: corrupt lines are skipped.
Replay(ls) ==
    FoldLeft(LAMBDA m, l : IF l = TornLine THEN m ELSE [m EXCEPT ![l.id] = l.value],
             Empty, ls)

\* What a process that opens the store now reads.
Contents == IF Journal THEN Replay(lines) ELSE file

TypeOK ==
    /\ file \in [Ids -> Values] /\ data \in [Ids -> Values]
    /\ tmp \in [Ids -> Values] \cup {TornMap}
    /\ open \in BOOLEAN
    /\ Cardinality({i \in Ids : Contents[i] # NoCheckpoint}) <= MaxInstances

Init ==
    /\ file = Empty /\ tmp = TornMap /\ lines = <<>> /\ open = FALSE
    /\ data = Empty /\ call = NoCall
    /\ acked = [i \in Ids |-> NoCheckpoint]

-----------------------------------------------------------------------------

\* The map a call looks at: the file is read again, the journal is not.
Held == IF Journal THEN data ELSE file

\* Faulty: the bound on instances is not looked at.
BeginUnbounded(i, v) ==
    /\ call = NoCall
    /\ call' = [id |-> i, value |-> v]
    /\ acked' = [acked EXCEPT ![i] = "unknown"]
    /\ UNCHANGED <<file, tmp, lines, open, data>>

\* Save and Delete (value NoCheckpoint) begin: JournalStore changes its map
\* before it writes.
Begin(i, v) ==
    /\ call = NoCall
    /\ v # NoCheckpoint /\ Held[i] = NoCheckpoint =>
          Cardinality({j \in Ids : Held[j] # NoCheckpoint}) < MaxInstances
    /\ Journal => Len(lines) < MaxLines
    /\ call' = [id |-> i, value |-> v]
    /\ data' = IF Journal THEN [data EXCEPT ![i] = v] ELSE data
    /\ acked' = [acked EXCEPT ![i] = "unknown"]
    /\ UNCHANGED <<file, tmp, lines, open>>

\* Faulty: the map is written to the file itself.
WriteInPlace ==
    /\ ~Journal /\ call # NoCall
    /\ \E m \in {Empty, [file EXCEPT ![call.id] = call.value]} : file' = m
    /\ tmp' = file'
    /\ UNCHANGED <<lines, open, data, call, acked>>

\* FileStore.writeLocked: the temporary file is written and synced.
WriteTemp ==
    /\ ~Journal /\ call # NoCall
    /\ tmp' = [file EXCEPT ![call.id] = call.value]
    /\ UNCHANGED <<file, lines, open, data, call, acked>>

\* FileStore.writeLocked: the rename, and the call returns.
Rename ==
    /\ ~Journal /\ call # NoCall
    /\ tmp = [file EXCEPT ![call.id] = call.value]
    /\ file' = tmp
    /\ acked' = [acked EXCEPT ![call.id] = call.value]
    /\ call' = NoCall
    /\ UNCHANGED <<tmp, lines, open, data>>

\* A line written behind an open line becomes part of it.
Behind(l) == IF open THEN [lines EXCEPT ![Len(lines)] = TornLine] ELSE lines \o <<l>>

\* The file after appending the line of a call.
Appended(l) == Behind(l)

\* JournalStore.appendLocked, synced, and the call returns.
AppendLine ==
    /\ Journal /\ call # NoCall
    /\ lines' = Appended(call)
    /\ open' = FALSE
    /\ acked' = [acked EXCEPT ![call.id] = call.value]
    /\ call' = NoCall
    /\ UNCHANGED <<file, tmp, data>>

\* Writing fails and the call returns the error.
WriteFails ==
    /\ call # NoCall
    /\ call' = NoCall
    /\ UNCHANGED <<file, tmp, lines, open, data, acked>>

\* The process ends, in the middle of a write perhaps, and another one opens
\* the store.
Crash ==
    /\ \E left \in IF call = NoCall THEN {"none"} ELSE Torn :
          LET cut == Journal /\ left # "none" IN
          /\ lines' = IF cut THEN Behind(IF left = "whole" THEN call ELSE TornLine)
                      ELSE lines
          /\ open' = (open \/ cut)
          /\ tmp' = IF Journal \/ left = "none" THEN tmp ELSE TornMap
    /\ data' = IF Journal THEN Replay(lines') ELSE data
    /\ call' = NoCall
    /\ UNCHANGED <<file, acked>>

Next ==
    \/ \E i \in Ids, v \in Values : Begin(i, v)
    \/ WriteTemp \/ Rename \/ AppendLine \/ WriteFails \/ Crash

Spec == Init /\ [][Next]_vars

-----------------------------------------------------------------------------

\* A checkpoint whose save was acknowledged is what the next process reads,
\* until another call for the instance begins.
AcknowledgedIsKept ==
    \A i \in Ids : acked[i] # "unknown" => Contents[i] = acked[i]

\* On disk, every step of the store saves or deletes the checkpoint of one
\* instance, as MemoryStore does in memory: a step for one instance never shows
\* in another, and a new instance finds room.
OneInstanceAtATime ==
    Contents' # Contents =>
        \E i \in Ids, cp \in Values :
            /\ Contents' = [Contents EXCEPT ![i] = cp]
            /\ Contents[i] = NoCheckpoint =>
                  Cardinality({j \in Ids : Contents[j] # NoCheckpoint}) < MaxInstances
=============================================================================
