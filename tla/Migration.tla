------------------------------ MODULE Migration ------------------------------
(***************************************************************************)
(* import_plan: the records and edges of a migration plan are written into *)
(* a new database in bounded batches, each a transaction of a              *)
(* TransactionCore, then checkpointed, counted, and read back by a fresh   *)
(* open.  The importer may be killed anywhere and started again.           *)
(*                                                                         *)
(* A plan file is its digests, which match or not (intact), the counts of  *)
(* its header and its operations, [lid, kind, key, bytes].  Nothing that   *)
(* MigrationPlan::read checks makes the record ids or the edges distinct,  *)
(* and the sizes of the batches are counted twice: import_plan adds up the *)
(* users' payloads, WriteBatch the encoded entries, which for a record are *)
(* longer by a header and its id.                                          *)
(*                                                                         *)
(* A commit and a checkpoint are one step each here: that a kill leaves    *)
(* either all or nothing of them is what DurableDatabase is about.         *)
(***************************************************************************)
EXTENDS Integers, Sequences, FiniteSets, SequencesExt, Functions

CONSTANTS
    PlanFiles,        \* plan files: [intact, records, edges, ops]
    MaxOperations,    \* DEFAULT_MAX_OPERATIONS_PER_BATCH
    MaxPayload,       \* DEFAULT_MAX_PAYLOAD_BYTES_PER_BATCH
    RecordHeader,     \* encoded bytes of a record beyond its payload
    MaxAttempts       \* bound on the times the importer is started

ASSUME MigrationConstants ==
    /\ MaxOperations \in Nat \ {0} /\ MaxPayload \in Nat
    /\ RecordHeader \in Nat /\ MaxAttempts \in Nat
    /\ \A f \in PlanFiles :
          /\ f.ops \in Seq(Range(f.ops))
          /\ \A i \in DOMAIN f.ops :
                f.ops[i].kind \in {"record", "edge"} /\ f.ops[i].bytes \in Nat

VARIABLES
    planFile,    \* the plan file
    target,      \* the database at target_root
    writer,      \* the TransactionCore of the running importer
    importer,    \* where it is
    attempts     \* times it has been started

migrationVars == <<planFile, target, writer, importer, attempts>>

Absent == [exists |-> FALSE]
NoTransaction == [state |-> "None"]
Stopped == [pc |-> "stopped", result |-> "none"]

plan == planFile.ops

\* MigrationPlan::read
ReadPlan ==
    /\ planFile.intact
    /\ \A i \in DOMAIN plan : plan[i].lid > IF i = 1 THEN 0 ELSE plan[i - 1].lid
    /\ planFile.records = Cardinality({i \in DOMAIN plan : plan[i].kind = "record"})
    /\ planFile.edges = Cardinality({i \in DOMAIN plan : plan[i].kind = "edge"})

(***************************************************************************)
(* WriteBatch and TransactionCore, as the importer drives them             *)
(***************************************************************************)

Limits == [operations |-> MaxOperations, bytes |-> MaxPayload]

\* The payload of the entry an operation becomes.
EncodedBytes(op) == IF op.kind = "record" THEN RecordHeader + op.bytes ELSE op.bytes

\* begin
BeginBatch(id) == [state |-> "Active", id |-> id, entries |-> <<>>, bytes |-> 0]

\* add_entry: another operation on the same record or edge is a conflict (its
\* fingerprint differs, for its logical id does), and both limits are kept.
MayAdd(w, i) ==
    /\ w.state = "Active"
    /\ \A k \in 1..Len(w.entries) : <<plan[w.entries[k]].kind, plan[w.entries[k]].key>>
                                        # <<plan[i].kind, plan[i].key>>
    /\ Len(w.entries) + 1 <= Limits.operations
    /\ w.bytes + EncodedBytes(plan[i]) <= Limits.bytes

WithEntry(w, i) ==
    [w EXCEPT !.entries = Append(@, i), !.bytes = @ + EncodedBytes(plan[i])]

(***************************************************************************)
(* The target: a database that keeps the last operation on each record and *)
(* each edge (RecoveredState::apply)                                       *)
(***************************************************************************)

KeysOf(ops) == {<<plan[i].kind, plan[i].key>> : i \in ops}

Committed == UNION {ToSet(target.commits[k]) : k \in 1..Len(target.commits)}

\* The latest operation on a key is the one served.
Serves(i) ==
    /\ i \in Committed
    /\ \A j \in Committed : KeysOf({i}) = KeysOf({j}) => j <= i

CountOf(kind) == Cardinality({k \in KeysOf(Committed) : k[1] = kind})

(***************************************************************************)
(* import_plan                                                             *)
(***************************************************************************)

Refuse == importer' = [Stopped EXCEPT !.result = "refused"]

\* The plan must be accepted and the target root must not exist.
StartImport ==
    /\ importer.pc = "stopped" /\ attempts < MaxAttempts
    /\ attempts' = attempts + 1
    /\ writer' = NoTransaction
    /\ IF ~ReadPlan \/ target.exists
       THEN Refuse /\ UNCHANGED target
       ELSE /\ target' = [exists |-> TRUE, commits |-> <<>>, checkpoint |-> 0]
            /\ importer' = [pc |-> "begin", at |-> 1, batch |-> 0, added |-> 0, bytes |-> 0]
    /\ UNCHANGED planFile

BeginTransaction ==
    /\ importer.pc = "begin"
    /\ importer.at <= Len(plan)
    /\ writer' = BeginBatch(importer.batch + 1)
    /\ importer' = [importer EXCEPT !.pc = "fill", !.batch = @ + 1, !.added = 0, !.bytes = 0]
    /\ UNCHANGED <<planFile, target, attempts>>

\* Room by import_plan's own count.
Room ==
    /\ importer.at <= Len(plan)
    /\ importer.added < MaxOperations
    /\ \/ importer.added = 0
       \/ importer.bytes + plan[importer.at].bytes <= MaxPayload

\* put_record or put_edge; an error of theirs ends the import.
AddOperation ==
    /\ importer.pc = "fill" /\ Room
    /\ IF MayAdd(writer, importer.at)
       THEN /\ writer' = WithEntry(writer, importer.at)
            /\ importer' = [importer EXCEPT !.at = @ + 1, !.added = @ + 1,
                                !.bytes = @ + plan[importer.at].bytes]
       ELSE Refuse /\ UNCHANGED writer
    /\ UNCHANGED <<planFile, target, attempts>>

\* prepare: the entries are fixed.
PrepareBatch ==
    /\ importer.pc = "fill" /\ ~Room
    /\ writer' = [writer EXCEPT !.state = "Prepared"]
    /\ importer' = [importer EXCEPT !.pc = "commit"]
    /\ UNCHANGED <<planFile, target, attempts>>

\* commit_durable at generation batch_index, then release_terminal.
CommitBatch ==
    /\ importer.pc = "commit" /\ writer.state = "Prepared"
    /\ target' = [target EXCEPT !.commits = Append(@, writer.entries)]
    /\ writer' = NoTransaction
    /\ importer' = [importer EXCEPT !.pc = "begin"]
    /\ UNCHANGED <<planFile, attempts>>

\* checkpoint at the generation after the last batch's.
CheckpointTarget ==
    /\ importer.pc = "begin" /\ importer.at > Len(plan)
    /\ target' = [target EXCEPT !.checkpoint = Len(target.commits)]
    /\ importer' = [importer EXCEPT !.pc = "count"]
    /\ UNCHANGED <<planFile, writer, attempts>>

\* Mutant of CountsAgree: operations are counted, not what they left.
OperationsAgree == Cardinality(Committed) = planFile.records + planFile.edges

\* state_counts against the plan's header.
CountsAgree == CountOf("record") = planFile.records /\ CountOf("edge") = planFile.edges

\* The counts, and the reopened database: the checkpoint covers every commit.
FinishImport ==
    /\ importer.pc = "count"
    /\ IF CountsAgree /\ target.checkpoint = Len(target.commits)
       THEN importer' = [Stopped EXCEPT !.result = "receipt"]
       ELSE Refuse
    /\ UNCHANGED <<planFile, target, writer, attempts>>

ImporterKilled ==
    /\ importer.pc # "stopped"
    /\ importer' = Stopped /\ writer' = NoTransaction
    /\ UNCHANGED <<planFile, target, attempts>>

MigrationInit ==
    /\ planFile \in PlanFiles
    /\ target = Absent /\ writer = NoTransaction /\ importer = Stopped /\ attempts = 0

MigrationNext ==
    \/ StartImport \/ BeginTransaction \/ AddOperation \/ PrepareBatch \/ CommitBatch
    \/ CheckpointTarget \/ FinishImport \/ ImporterKilled

MigrationSpec == MigrationInit /\ [][MigrationNext]_migrationVars

(***************************************************************************)
(* Property                                                                *)
(***************************************************************************)

\* The operation behind those of the first batches, if each begins behind the one
\* before.
FirstBehind(batches, n) == IF n = 0 THEN 1 ELSE batches[n][Len(batches[n])] + 1

\* The batches hold operations of the plan one after the other.
InPlanOrder(batches) ==
    \A k \in DOMAIN batches : \A j \in DOMAIN batches[k] :
        batches[k][j] = FirstBehind(batches, k - 1) + j - 1

\* A receipt is given only for a target that serves every operation of the plan:
\* none lost between two batches or overwritten by a later one on the same
\* record, none committed twice, each batch of at most MaxOperations operations.  An
\* import that was killed leaves a target that no later import takes for its own.
ReceiptMeansComplete ==
    importer.pc = "stopped" /\ importer.result = "receipt" =>
        /\ \A i \in DOMAIN plan : Serves(i)
        /\ InPlanOrder(target.commits)
        /\ FirstBehind(target.commits, Len(target.commits)) = Len(plan) + 1
        /\ \A k \in DOMAIN target.commits : Len(target.commits[k]) \in 1..MaxOperations
        /\ target.checkpoint = Len(target.commits)
=============================================================================
