------------------------------ MODULE NativeCli ------------------------------
(***************************************************************************)
(* The native command line on top of DurableDatabase.  A command opens the *)
(* database without repair, and one that changes something opens it twice: *)
(* first to see whether there is anything to change, then in mutate, which *)
(* commits one operation, checkpoints, and answers only when the head is   *)
(* published.  Commands run one after the other (there is no lock); any of *)
(* them may fail or be killed anywhere, and be given again.                *)
(*                                                                         *)
(* Records and edges are both keys: an edge's weight is part of its key.   *)
(* get, list, status and verify are all "read".                            *)
(***************************************************************************)
EXTENDS DurableDatabase

CONSTANT Commands       \* [kind, key, val]: put and delete, checkpoint, read

ASSUME CommandsAssumption ==
    \A c \in Commands : c.kind \in {"put", "delete"} =>
        /\ <<c.key, c.val>> \in Pair
        /\ {<<c.key, c.val>>} \in Batches
        /\ c.kind = "delete" <=> c.val = Absent

VARIABLES
    command,    \* the command being run
    stage,      \* how far it is
    told        \* told[k]: {} or what answers so far say of key k

cliVars == <<command, stage, told>>

Unused(t) == \A i \in 1 .. Len(wal) : wal[i].tx # t

NoCommand == [kind |-> "none"]

\* A command that has come to its end, whatever the answer.
Over == command' = NoCommand /\ stage' = "none"

\* Everything on which the state rests is fsynced: an open reads a COMMIT frame
\* of a killed process whether or not it is.
Settled == CommitsUpTo(wal, synced) = CommitsUpTo(wal, Len(wal))

-----------------------------------------------------------------------------

\* Room for the frames of one command, and an id for it, are bounds of the model.
StartCommand(c) ==
    /\ command = NoCommand /\ pc = "closed"
    /\ c.kind # "read" => Len(wal) + 4 <= MaxLsn /\ \E t \in Tx : Unused(t)
    /\ command' = c
    /\ stage' = IF c.kind = "checkpoint" THEN "checkpoint" ELSE "check"
    /\ UNCHANGED <<told, vars>>

CliOpen ==
    /\ command # NoCommand
    /\ \E n \in 0 .. Len(wal) : Open(FALSE, n)
    /\ UNCHANGED cliVars

\* A log with an incomplete end is an error until something repairs it.
CliOpenFails ==
    /\ command # NoCommand /\ pc = "closed"
    /\ \E n \in 0 .. Len(wal) - 1 : ValidPrefix(n)
    /\ Over
    /\ UNCHANGED <<told, vars>>

\* A program that opens the database through the library, with repair.
RepairTail ==
    /\ command = NoCommand
    /\ \E n \in 0 .. Len(wal) - 1 : Open(TRUE, n)
    /\ command' = [kind |-> "repair"] /\ stage' = "check"
    /\ UNCHANGED told

\* Mutant of NothingToDo: any record under the id is taken for the one given.
SomethingThere(c) == (c.val = Absent) <=> (state[c.key] = Absent)

\* The record has the identical value, or is already absent.
NothingToDo(c) == state[c.key] = c.val

AnswerNoChange ==
    /\ pc = "idle" /\ stage = "check"
    /\ command.kind \in {"put", "delete"} /\ NothingToDo(command)
    /\ told' = [told EXCEPT ![command.key] = {[val |-> command.val, sure |-> Settled]}]
    /\ DropHandle /\ Over

AnswerRead ==
    /\ pc = "idle" /\ stage = "check" /\ command.kind \in {"read", "repair"}
    /\ told' = IF command.kind = "read"
               THEN [k \in Key |-> {[val |-> state[k], sure |-> Settled]}] ELSE told
    /\ DropHandle /\ Over

\* The first handle is dropped; mutate opens another one.
GoOnToMutate ==
    /\ pc = "idle" /\ stage = "check"
    /\ command.kind \in {"put", "delete"} /\ ~NothingToDo(command)
    /\ stage' = "mutate"
    /\ DropHandle
    /\ UNCHANGED <<command, told>>

-----------------------------------------------------------------------------

Operation(c) == {<<c.key, c.val>>}
NextSlot == <<baseGen + 1, baseLsn + 1>>

\* derive_transaction_id hashes the state, the slot and the command: the id is
\* new unless a command killed before its first frame left it unused.
Mutate ==
    /\ stage = "mutate"
    /\ \E t \in Tx : WriteSegment(t, Operation(command), NextSlot)
    /\ told' = [told EXCEPT ![command.key] = {}]
    /\ stage' = "commit"
    /\ UNCHANGED command

\* SEGMENT-<gen>-<seq> is there, with another operation: left by a command that
\* was killed before its first frame.
SegmentTaken ==
    /\ pc = "idle" /\ stage = "mutate"
    /\ LET seg == [gen |-> NextSlot[1], seq |-> NextSlot[2], ops |-> Operation(command)]
       IN  ~Publishable(seg, SegmentNamed(NextSlot[1], NextSlot[2]))
    /\ DropHandle /\ Over
    /\ UNCHANGED told

Committed ==
    /\ stage = "commit" /\ SyncCommit
    /\ stage' = "checkpoint"
    /\ UNCHANGED <<command, told>>

BeginCheckpoint ==
    /\ stage = "checkpoint" /\ AppendCheckpoint
    /\ stage' = "publish"
    /\ UNCHANGED <<command, told>>

\* The calls inside commit_prepared, checkpoint and open.
Inside ==
    /\ \/ AppendBegin \/ AppendCommit \/ \E p \in Pair : AppendOp(p)
       \/ SyncCheckpoint \/ CheckpointConflict
       \/ \E ok \in DirSync : WriteCheckpoint(ok) \/ WriteManifest(ok) \/ PublishHead(ok)
       \/ ReplayPass \/ ReplayBegin \/ ReplayOp \/ ReplayCommit \/ FinishOpen
    /\ UNCHANGED cliVars

\* The receipt: commit and checkpoint agree and the head is published.
AnswerChanged ==
    /\ pc = "idle" /\ stage = "publish"
    /\ told' = IF command.kind \in {"put", "delete"}
               THEN [told EXCEPT ![command.key] = {[val |-> command.val, sure |-> TRUE]}]
               ELSE told
    /\ DropHandle /\ Over

\* An error of the database ends the command, though it may have committed.
AnswerError ==
    /\ pc = "erred"
    /\ DropHandle /\ Over
    /\ UNCHANGED told

-----------------------------------------------------------------------------

IoError ==
    /\ \/ AppendFails /\ stage \in {"commit", "checkpoint"}
       \/ SyncFails
    /\ UNCHANGED cliVars

CliKilled ==
    /\ Kill /\ Over
    /\ UNCHANGED told

\* Of what was said, the power takes what rested on frames not fsynced.
CliPowerLoss ==
    /\ \E n \in 0 .. Len(wal) : PowerLoss(n)
    /\ Over
    /\ told' = [k \in Key |-> {a \in told[k] : a.sure}]

\* command_create has made the files and goes on to its checkpoint.
CliInit ==
    /\ Init
    /\ command = [kind |-> "create"] /\ stage = "checkpoint"
    /\ told = [k \in Key |-> {}]

CliNext ==
    \/ \E c \in Commands : StartCommand(c)
    \/ CliOpen \/ CliOpenFails \/ RepairTail
    \/ AnswerNoChange \/ AnswerRead \/ GoOnToMutate
    \/ Mutate \/ SegmentTaken \/ Committed \/ BeginCheckpoint \/ Inside
    \/ AnswerChanged \/ AnswerError
    \/ IoError \/ CliKilled \/ CliPowerLoss

CliSpec == CliInit /\ [][CliNext]_<<vars, cliVars>>

-----------------------------------------------------------------------------

\* What a command has answered stays true: the value it said it put, deleted,
\* found identical or read is the one every later open serves, until another
\* command sets out to change that key, whatever fails or is killed in between.
\* An answer read from frames that no fsync covered ("no change" to the repeated
\* command of a killed process) is good until the power fails, not longer.
AnswersStay ==
    pc = "idle" => \A k \in Key : \A a \in told[k] : state[k] = a.val
=============================================================================
