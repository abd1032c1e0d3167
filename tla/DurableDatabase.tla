--------------------------- MODULE DurableDatabase ---------------------------
(***************************************************************************)
(* The durable single-writer database of ultraballoondb-lifecycle          *)
(* (durable.rs) on top of the write-ahead log (ultraballoondb-wal) and the *)
(* immutable files of the page store (ultraballoondb-storage).             *)
(*                                                                         *)
(* Every system call whose order matters is a step of its own: publishing  *)
(* a file, appending one WAL frame, fsync.  Between any two of them the    *)
(* process may be killed (what was written stays in the OS cache) or the   *)
(* power may fail (only a prefix of what was not fsynced stays).           *)
(*                                                                         *)
(* SHA-256 is taken to be injective: the hash of a file, batch or state is *)
(* modelled by the file, batch or state itself.                            *)
(***************************************************************************)
EXTENDS Integers, Sequences, FiniteSets

CONSTANTS
    Tx,               \* transaction ids
    NoTx,             \* the zero id, written in CHECKPOINT frames
    Key, Val,         \* record ids / edge keys, and their encoded entries
    Absent,           \* no entry under a key; as an operation, a tombstone
    Batches,          \* the prepared batches callers hand to commit_prepared
    MaxLsn,           \* bound: frames the log may hold
    MaxFaults,        \* bound: kills, power losses and I/O errors together
    RepairModes,      \* the values of repair_trailing callers pass to open
    RetryIds,         \* may a caller reuse an id that the log knows already?
    ReuseAfterError,  \* may a caller go on with a handle whose call failed?
    IoFaults          \* may write, fsync and rename report an error?

Content == Val \cup {Absent}
Pair    == Key \X Content
State   == [Key -> Content]

ASSUME ConstantsAssumption ==
    /\ NoTx \notin Tx
    /\ Batches \subseteq SUBSET Pair
    /\ \A b \in Batches : b # {} /\ IsFiniteSet(b)
    /\ \A b \in Batches : \A p, q \in b : p[1] = q[1] => p = q
    /\ MaxLsn \in Nat
    /\ MaxFaults \in Nat
    /\ RepairModes \subseteq BOOLEAN
    /\ RetryIds \in BOOLEAN
    /\ ReuseAfterError \in BOOLEAN
    /\ IoFaults \in BOOLEAN

VARIABLES
    \* On disk.
    wal,          \* frames of the log file, in file order
    synced,       \* frames [1..synced] are covered by an fsync
    segments,     \* immutable SEGMENT-<gen>-<seq> files
    checkpoints,  \* immutable CHECKPOINT-<gen> files
    manifests,    \* immutable MANIFEST-<gen> files
    head,         \* CURRENT.ubhead: {} or the manifest it names and hashes
    \* The open handle (DurableDatabase and its WalWriter).
    pc,           \* where the current call stands
    state,        \* self.state
    committed,    \* self.committed_transactions
    nextLsn,      \* self.wal.next_lsn
    baseGen,      \* self.recovery.checkpoint_generation
    baseLsn,      \* self.recovery.maximum_valid_wal_lsn
    jobTx, jobOps, todo,   \* the batch being committed; its operations left
    rpos, begun, got,      \* replay: next frame; pending batches; their ops
    \* What callers know.
    acked,        \* transactions whose commit_prepared returned Ok
    faults

disk   == <<wal, synced, segments, checkpoints, manifests, head>>
files  == <<segments, checkpoints, manifests, head>>
base   == <<baseGen, baseLsn>>
job    == <<jobTx, jobOps, todo>>
replay == <<rpos, begun, got>>
vars   == <<disk, pc, state, committed, nextLsn, base, job, replay, acked,
            faults>>

-----------------------------------------------------------------------------
(* States, frames and files.                                               *)

EmptyState == [k \in Key |-> Absent]

\* RecoveredState::apply_all; a batch names a key at most once, so the order
\* of its entries does not matter.
Apply(s, b) ==
    [k \in Key |-> IF \E v \in Content : <<k, v>> \in b
                     THEN CHOOSE v \in Content : <<k, v>> \in b
                     ELSE s[k]]

Frame ==
    [type : {"begin", "op", "commit"}, lsn : Nat, tx : Tx,
     ops : SUBSET Pair, state : State]
    \cup
    [type : {"checkpoint", "torn"}, lsn : Nat, tx : {NoTx},
     ops : SUBSET Pair, state : State]

\* BEGIN carries the batch digest, COMMIT the digest and the hash of the
\* state after the batch, CHECKPOINT the hash of the state.
BeginFrame(t, b)     == [type |-> "begin", lsn |-> nextLsn, tx |-> t,
                         ops |-> b, state |-> EmptyState]
OpFrame(t, p)        == [type |-> "op", lsn |-> nextLsn, tx |-> t,
                         ops |-> {p}, state |-> EmptyState]
CommitFrame(t, b, s) == [type |-> "commit", lsn |-> nextLsn, tx |-> t,
                         ops |-> b, state |-> s]
CheckpointFrame(s)   == [type |-> "checkpoint", lsn |-> nextLsn, tx |-> NoTx,
                         ops |-> {}, state |-> s]

\* Bytes of an incomplete frame.
TornFrame == [type |-> "torn", lsn |-> 0, tx |-> NoTx, ops |-> {},
              state |-> EmptyState]

Segment    == [gen : Nat, seq : Nat, ops : SUBSET Pair]
Checkpoint == [gen : Nat, lsn : Nat, state : State, committed : SUBSET Tx]
Manifest   == [gen : Nat, lsn : Nat, state : State, file : Checkpoint]

\* Mutant: an existing file is taken for the one to be published.
PublishableAlways(file, named) == TRUE

\* publish_immutable: an existing file with the same name must be identical.
Publishable(file, named) == \A f \in named : f = file

\* The files of a name: SEGMENT-<gen>-<seq>, CHECKPOINT-<gen>, MANIFEST-<gen>.
SegmentNamed(gen, seq) == {f \in segments : f.gen = gen /\ f.seq = seq}
CheckpointNamed(gen)   == {f \in checkpoints : f.gen = gen}
ManifestNamed(gen)     == {f \in manifests : f.gen = gen}

\* The slots callers commit into: next_generation() and
\* next_segment_sequence(), both from the recovery receipt of the open, or a
\* number of the caller's own that grows with every batch of the handle (the
\* migrator's batch index).
Slots == {<<baseGen + 1, baseLsn + 1>>, <<nextLsn, 0>>}

\* sync_parent_dir after a rename may fail although the file is in place.
DirSync == IF IoFaults /\ faults < MaxFaults THEN BOOLEAN ELSE {TRUE}

DirSynced(ok) == faults' = IF ok THEN faults ELSE faults + 1

\* The locals of commit_prepared are gone when it returns.
CallOver == jobTx' = NoTx /\ jobOps' = {} /\ todo' = {}

\* The locals of replay_after_checkpoint, before and after it runs.
ReplayOver ==
    /\ rpos' = 1
    /\ begun' = [t \in Tx |-> {}]
    /\ got' = [t \in Tx |-> {}]

\* The handle and everything it holds in memory is gone.
HandleGone ==
    /\ CallOver
    /\ ReplayOver
    /\ state' = EmptyState /\ committed' = {}
    /\ nextLsn' = 1 /\ baseGen' = 0 /\ baseLsn' = 0

-----------------------------------------------------------------------------
(* commit_prepared.                                                        *)

\* The duplicate check and write_segment.  Where the id is committed, or the
\* slot holds another batch, the call returns an error and changes nothing.
\* The command line derives the id from the maximum LSN, so it repeats one only
\* where no frame of the earlier attempt is left.
WriteSegment(t, b, slot) ==
    LET seg == [gen |-> slot[1], seq |-> slot[2], ops |-> b] IN
    /\ pc = "idle"
    /\ RetryIds \/ \A i \in 1 .. Len(wal) : wal[i].tx # t
    /\ nextLsn + Cardinality(b) + 1 <= MaxLsn
    /\ t \notin committed
    /\ Publishable(seg, SegmentNamed(slot[1], slot[2]))
    /\ segments' = segments \cup {seg}
    /\ pc' = "begin"
    /\ jobTx' = t /\ jobOps' = b /\ todo' = b
    /\ UNCHANGED <<wal, synced, checkpoints, manifests, head, state,
                   committed, nextLsn, base, replay, acked, faults>>

\* Mutant: next_lsn is not advanced.
AppendFrameSameLsn(f) ==
    /\ wal' = Append(wal, f)
    /\ nextLsn' = nextLsn

\* WalWriter::append; next_lsn moves only when both writes succeeded.
AppendFrame(f) ==
    /\ wal' = Append(wal, f)
    /\ nextLsn' = nextLsn + 1

AppendBegin ==
    /\ pc = "begin"
    /\ AppendFrame(BeginFrame(jobTx, jobOps))
    /\ pc' = "ops"
    /\ UNCHANGED <<synced, files, state, committed, base, job, replay,
                   acked, faults>>

AppendOp(p) ==
    /\ pc = "ops"
    /\ p \in todo
    /\ AppendFrame(OpFrame(jobTx, p))
    /\ todo' = todo \ {p}
    /\ UNCHANGED <<synced, files, pc, state, committed, base, jobTx, jobOps,
                   replay, acked, faults>>

AppendCommit ==
    /\ pc = "ops"
    /\ todo = {}
    /\ AppendFrame(CommitFrame(jobTx, jobOps, Apply(state, jobOps)))
    /\ pc' = "commitSync"
    /\ UNCHANGED <<synced, files, state, committed, base, job, replay,
                   acked, faults>>

\* Mutant: the receipt is returned without flush_and_sync.
SyncCommitUnsynced ==
    /\ pc = "commitSync"
    /\ synced' = synced
    /\ state' = Apply(state, jobOps)
    /\ committed' = committed \cup {jobTx}
    /\ acked' = acked \cup {jobTx}
    /\ pc' = "idle"
    /\ CallOver
    /\ UNCHANGED <<wal, files, nextLsn, base, replay, faults>>

\* flush_and_sync, then the in-memory update and the receipt.
SyncCommit ==
    /\ pc = "commitSync"
    /\ synced' = Len(wal)
    /\ state' = Apply(state, jobOps)
    /\ committed' = committed \cup {jobTx}
    /\ acked' = acked \cup {jobTx}
    /\ pc' = "idle"
    /\ CallOver
    /\ UNCHANGED <<wal, files, nextLsn, base, replay, faults>>

-----------------------------------------------------------------------------
(* checkpoint(next_generation()).                                          *)

AppendCheckpoint ==
    /\ pc = "idle"
    /\ nextLsn <= MaxLsn
    /\ AppendFrame(CheckpointFrame(state))
    /\ pc' = "ckptSync"
    /\ UNCHANGED <<synced, files, state, committed, base, job, replay,
                   acked, faults>>

\* Mutant: the checkpoint file is written before its frame is durable.
SyncCheckpointUnsynced ==
    /\ pc = "ckptSync"
    /\ synced' = synced
    /\ pc' = "ckptFile"
    /\ UNCHANGED <<wal, files, state, committed, nextLsn, base, job, replay,
                   acked, faults>>

SyncCheckpoint ==
    /\ pc = "ckptSync"
    /\ synced' = Len(wal)
    /\ pc' = "ckptFile"
    /\ UNCHANGED <<wal, files, state, committed, nextLsn, base, job, replay,
                   acked, faults>>

CheckpointFile ==
    [gen |-> baseGen + 1, lsn |-> nextLsn - 1, state |-> state,
     committed |-> committed]

ManifestFile ==
    [gen |-> baseGen + 1, lsn |-> nextLsn - 1, state |-> state,
     file |-> CheckpointFile]

\* write_checkpoint.
WriteCheckpoint(ok) ==
    /\ pc = "ckptFile"
    /\ Publishable(CheckpointFile, CheckpointNamed(baseGen + 1))
    /\ checkpoints' = checkpoints \cup {CheckpointFile}
    /\ pc' = IF ok THEN "ckptManifest" ELSE "erred"
    /\ DirSynced(ok)
    /\ UNCHANGED <<wal, synced, segments, manifests, head, state, committed,
                   nextLsn, base, job, replay, acked>>

\* "immutable checkpoint already exists with different bytes".
CheckpointConflict ==
    /\ pc = "ckptFile"
    /\ ~Publishable(CheckpointFile, CheckpointNamed(baseGen + 1))
    /\ pc' = "erred"
    /\ UNCHANGED <<disk, state, committed, nextLsn, base, job, replay,
                   acked, faults>>

\* write_manifest.
WriteManifest(ok) ==
    /\ pc = "ckptManifest"
    /\ Publishable(ManifestFile, ManifestNamed(baseGen + 1))
    /\ manifests' = manifests \cup {ManifestFile}
    /\ pc' = IF ok THEN "ckptHead" ELSE "erred"
    /\ DirSynced(ok)
    /\ UNCHANGED <<wal, synced, segments, checkpoints, head, state,
                   committed, nextLsn, base, job, replay, acked>>

\* publish_head re-reads the manifest, then atomically replaces the head.
PublishHead(ok) ==
    /\ pc = "ckptHead"
    /\ ManifestFile \in manifests
    /\ head' = {ManifestFile}
    /\ pc' = IF ok THEN "idle" ELSE "erred"
    /\ DirSynced(ok)
    /\ UNCHANGED <<wal, synced, segments, checkpoints, manifests, state,
                   committed, nextLsn, base, job, replay, acked>>

-----------------------------------------------------------------------------
(* Errors reported by the operating system, and what callers do then.      *)

\* write_all stops early: nothing, or part of the frame, reached the file.
AppendFails ==
    /\ IoFaults /\ faults < MaxFaults
    /\ faults' = faults + 1
    /\ pc \in {"begin", "ops"} \/ (pc = "idle" /\ nextLsn <= MaxLsn)
    /\ wal' \in {wal, Append(wal, TornFrame)}
    /\ pc' = "erred"
    /\ UNCHANGED <<synced, files, state, committed, nextLsn, base, job,
                   replay, acked>>

\* fsync, or writing a temporary file, fails.
SyncFails ==
    /\ IoFaults /\ faults < MaxFaults
    /\ faults' = faults + 1
    /\ pc \in {"commitSync", "ckptSync", "ckptFile", "ckptManifest",
               "ckptHead"}
    /\ pc' = "erred"
    /\ UNCHANGED <<disk, state, committed, nextLsn, base, job, replay,
                   acked>>

KeepHandle ==
    /\ ReuseAfterError
    /\ pc = "erred"
    /\ pc' = "idle"
    /\ CallOver
    /\ UNCHANGED <<disk, state, committed, nextLsn, base, replay, acked,
                   faults>>

DropHandle ==
    /\ pc \in {"idle", "erred"}
    /\ pc' = "closed"
    /\ HandleGone
    /\ UNCHANGED <<disk, acked, faults>>

-----------------------------------------------------------------------------
(* Crashes.                                                                *)

\* The process dies; the file keeps every write that was issued, and perhaps
\* the first bytes of the append under way.
Kill ==
    /\ faults < MaxFaults
    /\ pc \notin {"closed", "refused"}
    /\ \/ wal' = wal
       \/ pc \in {"begin", "ops"} /\ wal' = Append(wal, TornFrame)
    /\ pc' = "closed"
    /\ HandleGone
    /\ faults' = faults + 1
    /\ UNCHANGED <<synced, files, acked>>

\* The machine dies; of the frames not fsynced a prefix is left, perhaps with
\* the first bytes of the next one.  Published files and the head are durable.
PowerLoss(n) ==
    /\ faults < MaxFaults
    /\ n \in synced .. Len(wal)
    /\ \/ wal' = SubSeq(wal, 1, n)
       \/ n < Len(wal) /\ wal' = Append(SubSeq(wal, 1, n), TornFrame)
    /\ synced' = n
    /\ pc' = IF pc = "refused" THEN "refused" ELSE "closed"
    /\ HandleGone
    /\ faults' = faults + 1
    /\ UNCHANGED <<files, acked>>

-----------------------------------------------------------------------------
(* open: load_checkpoint, scan_wal, replay_after_checkpoint.               *)

\* scan_wal rejects an LSN that does not grow.
LsnsGrow(n) == \A i \in 1 .. n - 1 : wal[i].lsn < wal[i + 1].lsn

\* The first n frames are complete, and the file ends there or goes on with an
\* incomplete one.
ValidPrefix(n) ==
    /\ \A i \in 1 .. n : wal[i].type # "torn"
    /\ n < Len(wal) => wal[n + 1].type = "torn"

\* Bytes written after an incomplete frame are read as the rest of it: the
\* scan meets a wrong hash or magic, or takes them for part of a longer
\* payload that the file ends in.
TornInside == \E i \in 1 .. Len(wal) - 1 : wal[i].type = "torn"

MaximumLsn(n) == IF n = 0 THEN 0 ELSE wal[n].lsn

\* load_checkpoint: head -> manifest -> checkpoint, each bound by its hash.
HeadLoads ==
    \A m \in head : /\ m \in manifests
                    /\ m.file \in checkpoints
                    /\ m.file.gen = m.gen
                    /\ m.file.lsn = m.lsn
                    /\ m.file.state = m.state

CheckpointGen       == IF head = {} THEN 0 ELSE (CHOOSE m \in head : TRUE).gen
CheckpointLsn       == IF head = {} THEN 0 ELSE (CHOOSE m \in head : TRUE).lsn
CheckpointState     == IF head = {} THEN EmptyState
                       ELSE (CHOOSE m \in head : TRUE).file.state
CheckpointCommitted == IF head = {} THEN {}
                       ELSE (CHOOSE m \in head : TRUE).file.committed

\* What every open does once it has the first n frames of the file.
Opened(n) ==
    /\ state' = CheckpointState
    /\ committed' = CheckpointCommitted
    /\ baseGen' = CheckpointGen
    /\ baseLsn' = MaximumLsn(n)
    /\ nextLsn' = MaximumLsn(n) + 1
    /\ ReplayOver
    /\ pc' = "replay"
    /\ UNCHANGED <<files, job, acked, faults>>

\* Mutant: an incomplete end is cut off whether or not a repair was asked for.
OpenRepairsAlways(repair, n) ==
    /\ pc = "closed"
    /\ HeadLoads
    /\ ValidPrefix(n)
    /\ LsnsGrow(n)
    /\ wal' = SubSeq(wal, 1, n)
    /\ synced' = IF n < Len(wal) THEN n ELSE synced
    /\ Opened(n)

\* Mutant: the repair cuts one frame too many.
OpenCutsTooMuch(repair, n) ==
    LET kept == IF n < Len(wal) /\ n > 0 THEN n - 1 ELSE n IN
    /\ pc = "closed"
    /\ HeadLoads
    /\ ValidPrefix(n)
    /\ n < Len(wal) => repair
    /\ LsnsGrow(n)
    /\ wal' = SubSeq(wal, 1, kept)
    /\ synced' = IF n < Len(wal) THEN kept ELSE synced
    /\ Opened(n)

\* Under repair the file is cut at its first incomplete frame and fsynced;
\* without repair the open returns an error and changes nothing.
Open(repair, n) ==
    /\ pc = "closed"
    /\ HeadLoads
    /\ ValidPrefix(n)
    /\ n < Len(wal) => repair
    /\ LsnsGrow(n)
    /\ wal' = SubSeq(wal, 1, n)
    /\ synced' = IF n < Len(wal) THEN n ELSE synced
    /\ Opened(n)

\* The open ends in an error that no repair mode avoids.
OpenRefused ==
    /\ pc = "closed"
    /\ \/ ~HeadLoads
       \/ TornInside
       \/ \E n \in 0 .. Len(wal) : ValidPrefix(n) /\ ~LsnsGrow(n)
    /\ pc' = "refused"
    /\ HandleGone
    /\ UNCHANGED <<disk, acked, faults>>

Current == wal[rpos]

\* The checks of replay_after_checkpoint on the current frame.
FrameReplayable ==
    CASE Current.type = "begin"  -> begun[Current.tx] = {}
      [] Current.type = "op"     -> begun[Current.tx] # {}
      [] Current.type = "commit" ->
             /\ begun[Current.tx] # {}
             /\ got[Current.tx] = begun[Current.tx]
             /\ got[Current.tx] = Current.ops
             /\ Current.tx \notin committed
             /\ Apply(state, got[Current.tx]) = Current.state
      [] OTHER -> TRUE

Replaying ==
    /\ pc = "replay"
    /\ rpos <= Len(wal)
    /\ Current.lsn > CheckpointLsn
    /\ FrameReplayable
    /\ rpos' = rpos + 1

\* Mutant: the loop does not move on from a frame it skips.
ReplayPassStays ==
    /\ pc = "replay"
    /\ rpos <= Len(wal)
    /\ Current.lsn <= CheckpointLsn \/ Current.type = "checkpoint"
    /\ UNCHANGED vars

\* A frame the checkpoint covers, or a CHECKPOINT frame.
ReplayPass ==
    /\ pc = "replay"
    /\ rpos <= Len(wal)
    /\ Current.lsn <= CheckpointLsn \/ Current.type = "checkpoint"
    /\ rpos' = rpos + 1
    /\ UNCHANGED <<disk, pc, state, committed, nextLsn, base, job, begun,
                   got, acked, faults>>

ReplayBegin ==
    /\ Replaying
    /\ Current.type = "begin"
    /\ begun' = [begun EXCEPT ![Current.tx] = Current.ops]
    /\ got' = [got EXCEPT ![Current.tx] = {}]
    /\ UNCHANGED <<disk, pc, state, committed, nextLsn, base, job, acked,
                   faults>>

ReplayOp ==
    /\ Replaying
    /\ Current.type = "op"
    /\ got' = [got EXCEPT ![Current.tx] = @ \cup Current.ops]
    /\ UNCHANGED <<disk, pc, state, committed, nextLsn, base, job, begun,
                   acked, faults>>

ReplayCommit ==
    /\ Replaying
    /\ Current.type = "commit"
    /\ state' = Apply(state, got[Current.tx])
    /\ committed' = committed \cup {Current.tx}
    /\ begun' = [begun EXCEPT ![Current.tx] = {}]
    /\ got' = [got EXCEPT ![Current.tx] = {}]
    /\ UNCHANGED <<disk, pc, nextLsn, base, job, acked, faults>>

ReplayRefused ==
    /\ pc = "replay"
    /\ rpos <= Len(wal)
    /\ Current.lsn > CheckpointLsn
    /\ ~FrameReplayable
    /\ pc' = "refused"
    /\ HandleGone
    /\ UNCHANGED <<disk, acked, faults>>

\* Mutant: operations of a transaction that never reached COMMIT are applied.
FinishOpenApplies ==
    /\ pc = "replay"
    /\ rpos > Len(wal)
    /\ pc' = "idle"
    /\ state' = Apply(state, UNION {got[t] : t \in Tx})
    /\ ReplayOver
    /\ UNCHANGED <<disk, committed, nextLsn, base, job, acked, faults>>

\* Transactions still pending are ignored.
FinishOpen ==
    /\ pc = "replay"
    /\ rpos > Len(wal)
    /\ pc' = "idle"
    /\ ReplayOver
    /\ UNCHANGED <<disk, state, committed, nextLsn, base, job, acked,
                   faults>>

-----------------------------------------------------------------------------
Init ==
    /\ wal = <<>> /\ synced = 0
    /\ segments = {} /\ checkpoints = {} /\ manifests = {} /\ head = {}
    /\ pc = "idle"
    /\ state = EmptyState /\ committed = {}
    /\ nextLsn = 1 /\ baseGen = 0 /\ baseLsn = 0
    /\ jobTx = NoTx /\ jobOps = {} /\ todo = {}
    /\ rpos = 1
    /\ begun = [t \in Tx |-> {}] /\ got = [t \in Tx |-> {}]
    /\ acked = {}
    /\ faults = 0

Commit ==
    \/ \E t \in Tx, b \in Batches, slot \in Slots : WriteSegment(t, b, slot)
    \/ AppendBegin
    \/ \E p \in Pair : AppendOp(p)
    \/ AppendCommit
    \/ SyncCommit

CheckpointSteps ==
    \/ AppendCheckpoint
    \/ SyncCheckpoint
    \/ CheckpointConflict
    \/ \E ok \in DirSync :
          WriteCheckpoint(ok) \/ WriteManifest(ok) \/ PublishHead(ok)

Recovery ==
    \/ \E repair \in RepairModes, n \in 0 .. Len(wal) : Open(repair, n)
    \/ OpenRefused
    \/ ReplayPass
    \/ ReplayBegin
    \/ ReplayOp
    \/ ReplayCommit
    \/ ReplayRefused
    \/ FinishOpen

Environment ==
    \/ AppendFails
    \/ SyncFails
    \/ KeepHandle
    \/ DropHandle
    \/ Kill
    \/ \E n \in 0 .. Len(wal) : PowerLoss(n)

Next == Commit \/ CheckpointSteps \/ Recovery \/ Environment

Spec == Init /\ [][Next]_vars

\* The process goes on executing the call it is in, and a closed database is
\* opened again; nothing obliges a caller to start a call, or the environment
\* to fail.
Fairness ==
    /\ WF_vars(Recovery)
    /\ WF_vars(pc # "idle" /\ (Commit \/ CheckpointSteps))
    /\ WF_vars(pc = "erred" /\ DropHandle)

FairSpec == Spec /\ Fairness

-----------------------------------------------------------------------------
(* Properties.                                                             *)

PcValues ==
    {"closed", "replay", "idle", "begin", "ops", "commitSync", "ckptSync",
     "ckptFile", "ckptManifest", "ckptHead", "erred", "refused"}

\* The types of the files on disk, of the handle and of the callers' view.
TypeOK ==
    /\ wal \in Seq(Frame)
    /\ synced \in Nat /\ synced <= Len(wal)
    /\ segments \subseteq Segment
    /\ checkpoints \subseteq Checkpoint
    /\ manifests \subseteq Manifest
    /\ head \subseteq Manifest
    /\ \A m, n \in head : m = n
    /\ pc \in PcValues
    /\ state \in State
    /\ committed \subseteq Tx
    /\ nextLsn \in Nat \ {0}
    /\ baseGen \in Nat
    /\ baseLsn \in Nat
    /\ jobTx \in Tx \cup {NoTx}
    /\ pc \in {"begin", "ops", "commitSync"} => jobTx \in Tx
    /\ jobOps \in SUBSET Pair
    /\ todo \in SUBSET Pair
    /\ rpos \in Nat \ {0}
    /\ begun \in [Tx -> SUBSET Pair]
    /\ got \in [Tx -> SUBSET Pair]
    /\ acked \subseteq Tx
    /\ faults \in Nat

CommitsUpTo(w, n) == {i \in 1 .. n : w[i].type = "commit"}

CommittedUpTo(w, n) == {w[i].tx : i \in CommitsUpTo(w, n)}

\* s is the state after the last COMMIT among the first n frames of w.
IsStateAt(w, n, s) ==
    \/ CommitsUpTo(w, n) = {} /\ s = EmptyState
    \/ \E i \in CommitsUpTo(w, n) :
          s = w[i].state /\ \A j \in CommitsUpTo(w, n) : j <= i

\* A transaction whose COMMIT frame an fsync covers.
OnDisk(t) == t \in CommittedUpTo(wal, synced)

\* commit_prepared returns Ok only for a transaction that no later kill, power
\* loss, repair of a torn tail or failed call removes from the log.
AckedOnDisk == \A t \in acked : OnDisk(t)

\* The log and files the code wrote itself are never refused by open, wherever
\* the writer was interrupted (scan_wal, load_checkpoint, replay).
NeverRefused == pc # "refused"

\* An idle handle serves exactly the transactions whose COMMIT frame is in the
\* log, none that was interrupted before its COMMIT, in log order, whether it
\* wrote them, replayed them or took them from a checkpoint.
ServedState ==
    pc = "idle" => /\ committed = CommittedUpTo(wal, Len(wal))
                   /\ IsStateAt(wal, Len(wal), state)

\* A checkpoint file stands for a durable CHECKPOINT frame and the log up to it.
CheckpointExact(c) ==
    /\ c.lsn \in 1 .. synced
    /\ wal[c.lsn].type = "checkpoint"
    /\ c.committed = CommittedUpTo(wal, c.lsn)
    /\ IsStateAt(wal, c.lsn, c.state)

\* The checkpoint the head leads to loads, its LSN is a durable CHECKPOINT
\* frame, and its contents are what replaying the log up to there would give:
\* skipping those frames loses and repeats nothing (checkpoint).
HeadExact ==
    /\ HeadLoads
    /\ \A m \in head : CheckpointExact(m.file)

\* A new head always names a later generation and a later LSN: an interrupted
\* or stale publication never takes the database back (publish_head).
HeadAdvances ==
    [][head' # head => /\ CheckpointGen' > CheckpointGen
                       /\ CheckpointLsn' > CheckpointLsn]_head

\* A log with an incomplete end that no caller repairs.
AwaitsRepair ==
    TRUE \notin RepairModes /\ \E n \in 0 .. Len(wal) - 1 : ValidPrefix(n)

\* Every call on a handle ends, and every open, in a served database, a refusal
\* or the error that asks for a repair: replay never stands still, whatever the
\* crashes and retried ids have left in the log.
CallsEnd ==
    /\ pc = "closed" ~> pc \in {"idle", "refused"} \/ AwaitsRepair
    /\ pc \notin {"idle", "closed", "refused"} ~> pc \in {"idle", "closed",
                                                          "refused"}

\* The abstract log: COMMIT frames, every other frame being a mark.
Entry(f) == IF f.type = "commit" THEN [tx |-> f.tx, state |-> f.state]
            ELSE [tx |-> NoTx, state |-> EmptyState]

AfterOne(s) == {Apply(s, b) : b \in Batches}

Promise == INSTANCE DurableLog WITH
    Start   <- EmptyState,
    Results <- AfterOne,
    log     <- [i \in 1 .. Len(wal) |-> Entry(wal[i])],
    stable  <- synced,
    view    <- IF pc = "idle"
                 THEN {[state |-> state, committed |-> committed]} ELSE {}

\* Every step of the database, interrupted wherever it may be, is a step of
\* the abstract log or none.
KeepsPromise == Promise!Spec

\* The checkpoint command, run on a freshly opened database, can publish its
\* file.
FreshHandleCheckpoints ==
    pc = "ckptFile" /\ baseGen = CheckpointGen
        => Publishable(CheckpointFile, CheckpointNamed(baseGen + 1))

-----------------------------------------------------------------------------
(* The inductive invariant behind AckedOnDisk, ServedState and HeadExact,  *)
(* for callers that drop a handle after an error.                          *)

Live == {"idle", "begin", "ops", "ckptSync", "ckptFile", "ckptManifest",
         "ckptHead"}

\* An incomplete frame is the last one, and nobody writes behind it.
TornLast ==
    \A i \in 1 .. Len(wal) :
        wal[i].type = "torn" => i = Len(wal) /\ pc \in {"erred", "closed",
                                                       "refused"}

\* LSNs number the frames, across every crash and repair.
LsnIsPosition ==
    /\ \A i \in 1 .. Len(wal) : wal[i].type # "torn" => wal[i].lsn = i
    /\ pc \in Live \cup {"commitSync", "replay"} => nextLsn = Len(wal) + 1

\* What is in memory is what the log says, up to the frame just written.
MemoryExact ==
    /\ pc \in Live => /\ committed = CommittedUpTo(wal, Len(wal))
                      /\ IsStateAt(wal, Len(wal), state)
    /\ pc = "commitSync" =>
          /\ Len(wal) # 0
          /\ wal[Len(wal)].type = "commit"
          /\ wal[Len(wal)].tx = jobTx
          /\ wal[Len(wal)].state = Apply(state, jobOps)
          /\ committed = CommittedUpTo(wal, Len(wal) - 1)

\* Replay has applied the checkpoint and the frames before rpos.
Covered == IF rpos - 1 < CheckpointLsn THEN CheckpointLsn ELSE rpos - 1

ReplayExact ==
    pc = "replay" => /\ rpos <= Len(wal) + 1
                     /\ committed = CommittedUpTo(wal, Covered)
                     /\ IsStateAt(wal, Covered, state)

\* The frame a checkpoint file will stand for is the last one, and durable.
CheckpointPending ==
    /\ pc \in {"ckptSync", "ckptFile", "ckptManifest", "ckptHead"} =>
          Len(wal) # 0 /\ wal[Len(wal)].type = "checkpoint"
    /\ pc \in {"ckptFile", "ckptManifest", "ckptHead"} => synced = Len(wal)
    /\ pc = "ckptManifest" => CheckpointFile \in checkpoints

FilesExact ==
    /\ \A c \in checkpoints : CheckpointExact(c)
    /\ \A m \in manifests : /\ m.file \in checkpoints
                            /\ m.file.gen = m.gen
                            /\ m.file.lsn = m.lsn
                            /\ m.file.state = m.state
    /\ head \subseteq manifests

DurableInv ==
    /\ TypeOK
    /\ TornLast
    /\ LsnIsPosition
    /\ MemoryExact
    /\ ReplayExact
    /\ CheckpointPending
    /\ FilesExact
    /\ AckedOnDisk
=============================================================================
