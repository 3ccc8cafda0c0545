------------------------------ MODULE AuditLog ------------------------------
(***************************************************************************)
(* audit.Store: a chain of records with their hashes, its checkpoints, the *)
(* file that mirrors it, and the verification of a chain.  A hash is the   *)
(* body it is computed from, so that different bodies have different       *)
(* hashes; signatures are left out.                                        *)
(***************************************************************************)
EXTENDS Integers, Sequences, FiniteSets, SequencesExt

CONSTANTS
    Writers, Ops,       \* operation ids
    MirrorFails,        \* whether a write to the file may fail
    MaxRecords, MaxRestarts

VARIABLES
    records, ops,       \* Store
    file,               \* the records in the file
    call,               \* writer -> the tip its Checkpoint has read
    restarts

vars == <<records, ops, file, call, restarts>>

NoHash == <<>>
NoOpID == "none"
Idle == [pc |-> "idle"]

Init ==
    /\ records = <<>> /\ ops = {} /\ file = <<>>
    /\ call = [w \in Writers |-> Idle] /\ restarts = 0

-----------------------------------------------------------------------------

hashBody(r) == <<r.seq, r.prev, r.op, r.tip>>

Tip == IF records = <<>> THEN NoHash ELSE Last(records).hash

\* Faulty: the record before is not part of the record.
RecordUnlinked(op, tip) ==
    LET r == [seq |-> Len(records) + 1, prev |-> NoHash, op |-> op, tip |-> tip, hash |-> NoHash] IN
    [r EXCEPT !.hash = hashBody(r)]

\* The record that comes next in the chain.
NewRecord(op, tip) ==
    LET r == [seq |-> IF records = <<>> THEN 1 ELSE Last(records).seq + 1,
              prev |-> Tip, op |-> op, tip |-> tip, hash |-> NoHash] IN
    [r EXCEPT !.hash = hashBody(r)]

\* Append refuses an operation id it has seen; an error of the file comes when
\* the record is in memory.
Add(op, tip) ==
    /\ Len(records) < MaxRecords
    /\ op \notin ops
    /\ records' = Append(records, NewRecord(op, tip))
    /\ ops' = IF op = NoOpID THEN ops ELSE ops \cup {op}
    /\ file' \in {Append(file, NewRecord(op, tip))} \cup IF MirrorFails THEN {file} ELSE {}

Record(op) ==
    /\ Add(op, NoHash)
    /\ UNCHANGED <<call, restarts>>

\* Checkpoint reads the tip and gives up the lock ...
Checkpoint(w) ==
    /\ call[w].pc = "idle"
    /\ call' = [call EXCEPT ![w] = [pc |-> "append", tip |-> Tip]]
    /\ UNCHANGED <<records, ops, file, restarts>>

\* ... and appends its record.
AppendCheckpoint(w) ==
    /\ call[w].pc = "append"
    /\ Add(NoOpID, <<"tip", call[w].tip>>)
    /\ call' = [call EXCEPT ![w] = Idle]
    /\ UNCHANGED restarts

\* A new process begins with an empty store and the same file.
Restart ==
    /\ restarts < MaxRestarts
    /\ restarts' = restarts + 1
    /\ records' = <<>> /\ ops' = {} /\ call' = [w \in Writers |-> Idle]
    /\ UNCHANGED file

Next ==
    \/ \E op \in Ops \cup {NoOpID} : Record(op)
    \/ \E w \in Writers : Checkpoint(w) \/ AppendCheckpoint(w)
    \/ Restart

Spec == Init /\ [][Next]_vars

-----------------------------------------------------------------------------

\* Faulty: the hash of the record before is not compared.
VerifyUnlinked(recs) ==
    \A i \in DOMAIN recs :
        /\ recs[i].seq = IF i = 1 THEN 1 ELSE recs[i - 1].seq + 1
        /\ recs[i].hash = hashBody(recs[i])
        /\ recs[i].op # NoOpID => \A j \in 1 .. i - 1 : recs[j].op # recs[i].op

\* Whether VerifyRecords has no finding.
VerifyRecords(recs) ==
    \A i \in DOMAIN recs :
        /\ recs[i].seq = IF i = 1 THEN 1 ELSE recs[i - 1].seq + 1
        /\ recs[i].prev = IF i = 1 THEN NoHash ELSE recs[i - 1].hash
        /\ recs[i].hash = hashBody(recs[i])
        /\ recs[i].op # NoOpID => \A j \in 1 .. i - 1 : recs[j].op # recs[i].op

-----------------------------------------------------------------------------

\* The store's chain verifies, in every order of appends and checkpoints.
ChainVerifies == VerifyRecords(records)

\* A record that is changed, with its own hash made to fit, leaves a chain that
\* does not verify, unless it is the last one; so does one that is left out.
ChangeIsFound ==
    \A i \in 1 .. Len(records) - 1 :
        LET other == [records[i] EXCEPT !.tip = <<"other">>]
            fitting == [other EXCEPT !.hash = hashBody(other)] IN
        /\ ~VerifyRecords([records EXCEPT ![i] = fitting])
        /\ ~VerifyRecords(RemoveAt(records, i))

\* A checkpoint is over the record before it.
\* The code does not keep this (README, Disagreements).
CheckpointCoversTip ==
    \A i \in DOMAIN records : records[i].tip # NoHash => records[i].tip = <<"tip", records[i].prev>>

\* The file holds a chain that verifies.
\* The code does not keep this (README, Disagreements).
MirrorVerifies == VerifyRecords(file)
=============================================================================
