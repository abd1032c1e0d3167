--------------------------- MODULE DurableProofs ---------------------------
(* Theorems about DurableDatabase, and the command line on top of it, for  *)
(* every value of their constants.                                         *)
EXTENDS NativeCli, SequenceTheorems, TLAPS

\* What Apply makes of a state is a state.
LEMMA ApplyType ==
    ASSUME NEW s \in State, NEW b
    PROVE  Apply(s, b) \in State
  <1>1. ASSUME NEW k \in Key
        PROVE  (IF \E v \in Content : <<k, v>> \in b
                  THEN CHOOSE v \in Content : <<k, v>> \in b
                  ELSE s[k]) \in Content
    BY DEF State
  <1> QED
    BY <1>1 DEF Apply, State

LEMMA EmptyStateType == EmptyState \in State
  BY DEF EmptyState, State, Content

\* The frames the writer builds are frames.
LEMMA FrameType ==
    ASSUME TypeOK
    PROVE  /\ TornFrame \in Frame
           /\ CheckpointFrame(state) \in Frame
           /\ \A t \in Tx, b \in SUBSET Pair, s \in State :
                 /\ BeginFrame(t, b) \in Frame
                 /\ CommitFrame(t, b, s) \in Frame
           /\ \A t \in Tx, p \in Pair : OpFrame(t, p) \in Frame
  BY EmptyStateType
     DEF TypeOK, Frame, TornFrame, CheckpointFrame, BeginFrame,
         CommitFrame, OpFrame

\* What the head leads to has the types of a checkpoint.
LEMMA HeadType ==
    ASSUME TypeOK
    PROVE  /\ CheckpointGen \in Nat
           /\ CheckpointLsn \in Nat
           /\ CheckpointState \in State
           /\ CheckpointCommitted \subseteq Tx
  <1>1. CASE head = {}
    BY <1>1, EmptyStateType
       DEF CheckpointGen, CheckpointLsn, CheckpointState, CheckpointCommitted
  <1>2. CASE head # {}
    <2>1. (CHOOSE m \in head : TRUE) \in Manifest
      BY <1>2 DEF TypeOK
    <2> QED
      BY <1>2, <2>1
         DEF CheckpointGen, CheckpointLsn, CheckpointState,
             CheckpointCommitted, Manifest, Checkpoint
  <1> QED
    BY <1>1, <1>2

\* Appending a frame and cutting the log keep it a log.
LEMMA WalAppend ==
    ASSUME NEW w \in Seq(Frame), NEW f \in Frame
    PROVE  /\ Append(w, f) \in Seq(Frame)
           /\ Len(Append(w, f)) = Len(w) + 1
           /\ \A i \in 1 .. Len(w) : Append(w, f)[i] = w[i]
           /\ Append(w, f)[Len(w) + 1] = f
  OBVIOUS

LEMMA WalCut ==
    ASSUME NEW w \in Seq(Frame), NEW n \in 0 .. Len(w)
    PROVE  /\ SubSeq(w, 1, n) \in Seq(Frame)
           /\ Len(SubSeq(w, 1, n)) = n
           /\ \A i \in 1 .. n : SubSeq(w, 1, n)[i] = w[i]
  OBVIOUS

-----------------------------------------------------------------------------
LEMMA InitTypeOK == Init => TypeOK
  BY EmptyStateType, EmptySeq DEF Init, TypeOK, PcValues

LEMMA CommitTypeOK == TypeOK /\ Commit => TypeOK'
  <1> SUFFICES ASSUME TypeOK, Commit PROVE TypeOK'
    OBVIOUS
  <1>1. ASSUME NEW t \in Tx, NEW b \in Batches, NEW slot \in Slots,
               WriteSegment(t, b, slot)
        PROVE  TypeOK'
    <2>1. b \in SUBSET Pair
      BY ConstantsAssumption
    <2>2. [gen |-> slot[1], seq |-> slot[2], ops |-> b] \in Segment
      BY <2>1 DEF Slots, Segment, TypeOK
    <2> QED
      BY <1>1, <2>1, <2>2
         DEF WriteSegment, TypeOK, PcValues, base, replay
  <1>2. CASE AppendBegin
    <2>1. BeginFrame(jobTx, jobOps) \in Frame
      BY <1>2, FrameType DEF AppendBegin, TypeOK
    <2> QED
      BY <1>2, <2>1, WalAppend
         DEF AppendBegin, AppendFrame, TypeOK, PcValues, files, base, job,
             replay
  <1>3. ASSUME NEW p \in Pair, AppendOp(p)
        PROVE  TypeOK'
    <2>1. OpFrame(jobTx, p) \in Frame
      BY <1>3, FrameType DEF AppendOp, TypeOK
    <2> QED
      BY <1>3, <2>1, WalAppend
         DEF AppendOp, AppendFrame, TypeOK, PcValues, files, base, job,
             replay
  <1>4. CASE AppendCommit
    <2>1. CommitFrame(jobTx, jobOps, Apply(state, jobOps)) \in Frame
      BY <1>4, FrameType, ApplyType DEF AppendCommit, TypeOK
    <2> QED
      BY <1>4, <2>1, WalAppend
         DEF AppendCommit, AppendFrame, TypeOK, PcValues, files, base, job,
             replay
  <1>5. CASE SyncCommit
    BY <1>5, ApplyType
       DEF SyncCommit, CallOver, TypeOK, PcValues, files, base, replay
  <1> QED
    BY <1>1, <1>2, <1>3, <1>4, <1>5 DEF Commit

LEMMA CheckpointTypeOK == TypeOK /\ CheckpointSteps => TypeOK'
  <1> SUFFICES ASSUME TypeOK, CheckpointSteps PROVE TypeOK'
    OBVIOUS
  <1>1. CASE AppendCheckpoint
    BY <1>1, FrameType, WalAppend
       DEF AppendCheckpoint, AppendFrame, TypeOK, PcValues, files, base, job,
           replay
  <1>2. CASE SyncCheckpoint
    BY <1>2
       DEF SyncCheckpoint, TypeOK, PcValues, files, base, job, replay
  <1>3. CASE CheckpointConflict
    BY <1>3
       DEF CheckpointConflict, TypeOK, PcValues, disk, base, job, replay
  <1>4. CheckpointFile \in Checkpoint /\ ManifestFile \in Manifest
    BY DEF CheckpointFile, ManifestFile, Checkpoint, Manifest, TypeOK
  <1>5. ASSUME NEW ok \in DirSync, WriteCheckpoint(ok)
        PROVE  TypeOK'
    BY <1>4, <1>5
       DEF WriteCheckpoint, DirSynced, TypeOK, PcValues, base, job, replay
  <1>6. ASSUME NEW ok \in DirSync, WriteManifest(ok)
        PROVE  TypeOK'
    BY <1>4, <1>6
       DEF WriteManifest, DirSynced, TypeOK, PcValues, base, job, replay
  <1>7. ASSUME NEW ok \in DirSync, PublishHead(ok)
        PROVE  TypeOK'
    BY <1>4, <1>7
       DEF PublishHead, DirSynced, TypeOK, PcValues, base, job, replay
  <1> QED
    BY <1>1, <1>2, <1>3, <1>5, <1>6, <1>7 DEF CheckpointSteps

LEMMA RecoveryTypeOK == TypeOK /\ Recovery => TypeOK'
  <1> SUFFICES ASSUME TypeOK, Recovery PROVE TypeOK'
    OBVIOUS
  <1>1. ASSUME NEW repair \in RepairModes, NEW n \in 0 .. Len(wal),
               Open(repair, n)
        PROVE  TypeOK'
    <2>1. MaximumLsn(n) \in Nat
      <3>1. n # 0 => wal[n] \in Frame
        BY DEF TypeOK
      <3> QED
        BY <3>1 DEF MaximumLsn, Frame
    <2>2. wal' \in Seq(Frame) /\ Len(wal') = n /\ synced' \in Nat
          /\ synced' <= Len(wal')
      BY <1>1, WalCut DEF Open, Opened, TypeOK
    <2> QED
      BY <1>1, <2>1, <2>2, HeadType
         DEF Open, Opened, ReplayOver, TypeOK, PcValues, files, job
  <1>2. CASE OpenRefused
    BY <1>2, EmptyStateType
       DEF OpenRefused, HandleGone, CallOver, ReplayOver, TypeOK, PcValues,
           disk
  <1>3. CASE ReplayPass
    BY <1>3
       DEF ReplayPass, TypeOK, PcValues, disk, base, job
  <1>4. ASSUME Replaying, Current.type \in {"begin", "op", "commit"}
        PROVE  Current.tx \in Tx /\ Current.ops \in SUBSET Pair
    <2>1. Current \in Frame
      BY <1>4 DEF Replaying, Current, TypeOK
    <2> QED
      BY <1>4, <2>1 DEF Frame
  <1>5. CASE ReplayBegin
    BY <1>4, <1>5
       DEF ReplayBegin, Replaying, TypeOK, PcValues, disk, base, job
  <1>6. CASE ReplayOp
    BY <1>4, <1>6
       DEF ReplayOp, Replaying, TypeOK, PcValues, disk, base, job
  <1>7. CASE ReplayCommit
    <2>1. Current.tx \in Tx
      BY <1>4, <1>7 DEF ReplayCommit
    <2> QED
      BY <1>7, <2>1, ApplyType
         DEF ReplayCommit, Replaying, TypeOK, PcValues, disk, base, job
  <1>8. CASE ReplayRefused
    BY <1>8, EmptyStateType
       DEF ReplayRefused, HandleGone, CallOver, ReplayOver, TypeOK, PcValues,
           disk
  <1>9. CASE FinishOpen
    BY <1>9
       DEF FinishOpen, ReplayOver, TypeOK, PcValues, disk, base, job
  <1> QED
    BY <1>1, <1>2, <1>3, <1>5, <1>6, <1>7, <1>8, <1>9 DEF Recovery

LEMMA EnvironmentTypeOK == TypeOK /\ Environment => TypeOK'
  <1> SUFFICES ASSUME TypeOK, Environment PROVE TypeOK'
    OBVIOUS
  <1>1. CASE AppendFails
    <2>1. wal' \in Seq(Frame) /\ Len(wal') >= Len(wal)
      BY <1>1, FrameType, WalAppend DEF AppendFails, TypeOK
    <2> QED
      BY <1>1, <2>1
         DEF AppendFails, TypeOK, PcValues, files, base, job, replay
  <1>2. CASE SyncFails
    BY <1>2 DEF SyncFails, TypeOK, PcValues, disk, base, job, replay
  <1>3. CASE KeepHandle
    BY <1>3
       DEF KeepHandle, CallOver, TypeOK, PcValues, disk, base, replay
  <1>4. CASE DropHandle
    BY <1>4, EmptyStateType
       DEF DropHandle, HandleGone, CallOver, ReplayOver, TypeOK, PcValues,
           disk
  <1>5. CASE Kill
    <2>1. wal' \in Seq(Frame) /\ Len(wal') >= Len(wal)
      BY <1>5, FrameType, WalAppend DEF Kill, TypeOK
    <2> QED
      BY <1>5, <2>1, EmptyStateType
         DEF Kill, HandleGone, CallOver, ReplayOver, TypeOK, PcValues, files
  <1>6. ASSUME NEW n \in 0 .. Len(wal), PowerLoss(n)
        PROVE  TypeOK'
    <2> DEFINE cut == SubSeq(wal, 1, n)
    <2>1. cut \in Seq(Frame) /\ Len(cut) = n
      BY WalCut DEF TypeOK
    <2>2. wal' \in {cut, Append(cut, TornFrame)} /\ n \in Nat
      BY <1>6 DEF PowerLoss
    <2>3. TornFrame \in Frame
      BY FrameType
    <2> HIDE DEF cut
    <2>4. wal' \in Seq(Frame) /\ n <= Len(wal')
      BY <2>1, <2>2, <2>3, WalAppend
    <2> QED
      BY <1>6, <2>4, EmptyStateType
         DEF PowerLoss, HandleGone, CallOver, ReplayOver, TypeOK, PcValues,
             files
  <1> QED
    BY <1>1, <1>2, <1>3, <1>4, <1>5, <1>6 DEF Environment

LEMMA NextTypeOK == TypeOK /\ [Next]_vars => TypeOK'
  <1>1. TypeOK /\ UNCHANGED vars => TypeOK'
    BY DEF TypeOK, vars, disk, base, job, replay
  <1> QED
    BY <1>1, CommitTypeOK, CheckpointTypeOK, RecoveryTypeOK,
       EnvironmentTypeOK DEF Next

\* The type invariant, for every value of the constants: in particular no
\* step of open, of a repair or of a crash leaves fewer frames than the
\* fsynced ones (synced <= Len(wal)).
THEOREM TypeCorrect == Spec => []TypeOK
  BY InitTypeOK, NextTypeOK, PTL DEF Spec

-----------------------------------------------------------------------------
(* What a log says about commits depends on its frames one by one.         *)

\* Two logs that agree on their first n frames say the same about them.
LEMMA SamePrefix ==
    ASSUME NEW w, NEW x, NEW n \in Nat,
           \A i \in 1 .. n : x[i] = w[i]
    PROVE  /\ CommitsUpTo(x, n) = CommitsUpTo(w, n)
           /\ CommittedUpTo(x, n) = CommittedUpTo(w, n)
           /\ \A s : IsStateAt(x, n, s) <=> IsStateAt(w, n, s)
  <1>1. CommitsUpTo(x, n) = CommitsUpTo(w, n)
    BY DEF CommitsUpTo
  <1>2. \A i \in CommitsUpTo(w, n) : x[i] = w[i]
    BY DEF CommitsUpTo
  <1>3. CommittedUpTo(x, n) = CommittedUpTo(w, n)
    BY <1>1, <1>2 DEF CommittedUpTo
  <1>4. \A s : IsStateAt(x, n, s) <=> IsStateAt(w, n, s)
    BY <1>1, <1>2 DEF IsStateAt
  <1> QED
    BY <1>1, <1>3, <1>4

\* A frame that is no COMMIT changes nothing.
LEMMA NoCommit ==
    ASSUME NEW w, NEW n \in Nat, w[n + 1].type # "commit"
    PROVE  /\ CommittedUpTo(w, n + 1) = CommittedUpTo(w, n)
           /\ \A s : IsStateAt(w, n + 1, s) <=> IsStateAt(w, n, s)
  <1>1. CommitsUpTo(w, n + 1) = CommitsUpTo(w, n)
    BY DEF CommitsUpTo
  <1> QED
    BY <1>1 DEF CommittedUpTo, IsStateAt

\* A COMMIT adds its transaction and fixes the state.
LEMMA OneCommit ==
    ASSUME NEW w, NEW n \in Nat, w[n + 1].type = "commit"
    PROVE  /\ CommittedUpTo(w, n + 1)
                  = CommittedUpTo(w, n) \cup {w[n + 1].tx}
           /\ IsStateAt(w, n + 1, w[n + 1].state)
  <1>1. CommitsUpTo(w, n + 1) = CommitsUpTo(w, n) \cup {n + 1}
    BY DEF CommitsUpTo
  <1>2. \A j \in CommitsUpTo(w, n + 1) : j <= n + 1
    BY DEF CommitsUpTo
  <1> QED
    BY <1>1, <1>2 DEF CommittedUpTo, IsStateAt

LEMMA NoFrames ==
    ASSUME NEW w
    PROVE  CommittedUpTo(w, 0) = {} /\ IsStateAt(w, 0, EmptyState)
  <1>1. CommitsUpTo(w, 0) = {}
    BY DEF CommitsUpTo
  <1> QED
    BY <1>1 DEF CommittedUpTo, IsStateAt

\* More frames, more commits.
LEMMA CommittedGrows ==
    ASSUME NEW w, NEW m \in Nat, NEW n \in Nat, m <= n
    PROVE  CommittedUpTo(w, m) \subseteq CommittedUpTo(w, n)
  BY DEF CommittedUpTo, CommitsUpTo

\* Appending a frame other than COMMIT leaves the committed state alone.
LEMMA AppendPlain ==
    ASSUME NEW w \in Seq(Frame), NEW f \in Frame, f.type # "commit",
           NEW x, x = Append(w, f)
    PROVE  /\ CommittedUpTo(x, Len(x)) = CommittedUpTo(w, Len(w))
           /\ \A s : IsStateAt(x, Len(x), s) <=> IsStateAt(w, Len(w), s)
  <1>1. /\ Len(w) \in Nat
        /\ Len(x) = Len(w) + 1
        /\ \A i \in 1 .. Len(w) : x[i] = w[i]
        /\ x[Len(w) + 1] = f
    BY WalAppend
  <1>2. /\ CommittedUpTo(x, Len(w)) = CommittedUpTo(w, Len(w))
        /\ \A s : IsStateAt(x, Len(w), s) <=> IsStateAt(w, Len(w), s)
    BY <1>1, SamePrefix
  <1>3. /\ CommittedUpTo(x, Len(w) + 1) = CommittedUpTo(x, Len(w))
        /\ \A s : IsStateAt(x, Len(w) + 1, s) <=> IsStateAt(x, Len(w), s)
    BY <1>1, NoCommit
  <1> QED
    BY <1>1, <1>2, <1>3

-----------------------------------------------------------------------------
(* The inductive invariant.                                                *)

\* A step that keeps every complete fsynced frame keeps the files exact and
\* the acknowledged transactions on disk.
LEMMA DiskKept ==
    ASSUME TypeOK, FilesExact, AckedOnDisk,
           UNCHANGED <<checkpoints, manifests, head, acked>>,
           NEW k \in Nat, k <= synced', synced' \in Nat,
           \A i \in 1 .. k : wal'[i] = wal[i],
           \A i \in 1 .. synced : i <= k \/ wal[i].type = "torn"
    PROVE  FilesExact' /\ AckedOnDisk'
  <1>1. ASSUME NEW c \in checkpoints
        PROVE  CheckpointExact(c)'
    <2>1. /\ c.lsn \in 1 .. synced
          /\ wal[c.lsn].type = "checkpoint"
          /\ c.committed = CommittedUpTo(wal, c.lsn)
          /\ IsStateAt(wal, c.lsn, c.state)
      BY DEF FilesExact, CheckpointExact
    <2>2. c.lsn \in Nat /\ c.lsn <= k
      BY <2>1 DEF TypeOK
    <2>3. \A i \in 1 .. c.lsn : wal'[i] = wal[i]
      BY <2>2
    <2>4. /\ CommittedUpTo(wal', c.lsn) = CommittedUpTo(wal, c.lsn)
          /\ IsStateAt(wal', c.lsn, c.state)
      BY <2>1, <2>2, <2>3, SamePrefix
    <2> QED
      BY <2>1, <2>2, <2>3, <2>4 DEF CheckpointExact
  <1>2. FilesExact'
    BY <1>1 DEF FilesExact
  <1>3. ASSUME NEW t \in acked
        PROVE  OnDisk(t)'
    <2>1. PICK i \in 1 .. synced : wal[i].type = "commit" /\ wal[i].tx = t
      BY DEF AckedOnDisk, OnDisk, CommittedUpTo, CommitsUpTo
    <2>2. i \in 1 .. synced' /\ wal'[i] = wal[i]
      BY <2>1 DEF TypeOK
    <2> QED
      BY <2>1, <2>2 DEF OnDisk, CommittedUpTo, CommitsUpTo
  <1> QED
    BY <1>2, <1>3 DEF AckedOnDisk

\* The same for an append.
LEMMA DiskKeptByAppend ==
    ASSUME TypeOK, FilesExact, AckedOnDisk, NEW f \in Frame,
           wal' \in {wal, Append(wal, f)}, synced' = synced,
           UNCHANGED <<checkpoints, manifests, head, acked>>
    PROVE  FilesExact' /\ AckedOnDisk'
  <1>1. synced \in Nat /\ \A i \in 1 .. synced : wal'[i] = wal[i]
    BY WalAppend DEF TypeOK
  <1> QED
    BY <1>1, DiskKept DEF TypeOK

\* A live handle appends a BEGIN, operation or CHECKPOINT frame.
LEMMA PlainAppend ==
    ASSUME DurableInv, TypeOK', NEW f \in Frame,
           f.type \in {"begin", "op", "checkpoint"}, f.lsn = nextLsn,
           wal' = Append(wal, f), nextLsn' = nextLsn + 1, synced' = synced,
           pc \in Live, pc' \in {"ops", "ckptSync"},
           pc' = "ckptSync" => f.type = "checkpoint",
           UNCHANGED <<checkpoints, manifests, head, acked, state, committed>>
    PROVE  DurableInv'
  <1> USE DEF DurableInv
  <1>1. FilesExact' /\ AckedOnDisk'
    BY DiskKeptByAppend
  <1>2. /\ CommittedUpTo(wal', Len(wal')) = CommittedUpTo(wal, Len(wal))
        /\ \A s : IsStateAt(wal', Len(wal'), s) <=> IsStateAt(wal, Len(wal), s)
    BY AppendPlain DEF TypeOK
  <1>3. MemoryExact' /\ ReplayExact'
    BY <1>2 DEF MemoryExact, ReplayExact, Live
  <1>4. /\ Len(wal') = Len(wal) + 1
        /\ Len(wal) \in Nat
        /\ \A i \in 1 .. Len(wal) : wal'[i] = wal[i]
        /\ wal'[Len(wal')] = f
    BY WalAppend DEF TypeOK
  <1>5. TornLast' /\ LsnIsPosition' /\ CheckpointPending'
    BY <1>4 DEF TornLast, LsnIsPosition, CheckpointPending, Live
  <1> QED
    BY <1>1, <1>3, <1>5

LEMMA InitDurable == Init => DurableInv
  <1> SUFFICES ASSUME Init PROVE DurableInv
    OBVIOUS
  <1>1. TypeOK
    BY InitTypeOK
  <1>2. Len(wal) = 0
    BY DEF Init
  <1>3. MemoryExact
    BY <1>2, NoFrames DEF Init, MemoryExact, Live
  <1>4. TornLast /\ LsnIsPosition /\ ReplayExact /\ CheckpointPending
    BY <1>2
       DEF Init, TornLast, LsnIsPosition, ReplayExact, CheckpointPending, Live
  <1>5. FilesExact /\ AckedOnDisk
    BY DEF Init, FilesExact, AckedOnDisk
  <1> QED
    BY <1>1, <1>3, <1>4, <1>5 DEF DurableInv

LEMMA CommitDurable == DurableInv /\ Commit => DurableInv'
  <1> SUFFICES ASSUME DurableInv, Commit PROVE DurableInv'
    OBVIOUS
  <1> USE DEF DurableInv
  <1>0. TypeOK'
    BY CommitTypeOK
  <1>1. ASSUME NEW t \in Tx, NEW b \in Batches, NEW slot \in Slots,
               WriteSegment(t, b, slot)
        PROVE  DurableInv'
    <2>1. FilesExact' /\ AckedOnDisk'
      BY <1>1
         DEF WriteSegment, FilesExact, AckedOnDisk, CheckpointExact, OnDisk
    <2>2. MemoryExact' /\ ReplayExact' /\ CheckpointPending'
      BY <1>1
         DEF WriteSegment, MemoryExact, ReplayExact, CheckpointPending, Live
    <2>3. TornLast' /\ LsnIsPosition'
      BY <1>1 DEF WriteSegment, TornLast, LsnIsPosition, Live
    <2> QED
      BY <1>0, <2>1, <2>2, <2>3
  <1>2. CASE AppendBegin
    <2> DEFINE f == BeginFrame(jobTx, jobOps)
    <2>1. f \in Frame /\ f.type = "begin" /\ f.lsn = nextLsn
      BY <1>2, FrameType DEF AppendBegin, TypeOK, BeginFrame
    <2>2. wal' = Append(wal, f)
      BY <1>2 DEF AppendBegin, AppendFrame
    <2> HIDE DEF f
    <2> QED
      BY <1>0, <1>2, <2>1, <2>2, PlainAppend
         DEF AppendBegin, AppendFrame, files, Live
  <1>3. ASSUME NEW p \in Pair, AppendOp(p)
        PROVE  DurableInv'
    <2> DEFINE f == OpFrame(jobTx, p)
    <2>1. f \in Frame /\ f.type = "op" /\ f.lsn = nextLsn
      BY <1>3, FrameType DEF AppendOp, TypeOK, OpFrame
    <2>2. wal' = Append(wal, f)
      BY <1>3 DEF AppendOp, AppendFrame
    <2> HIDE DEF f
    <2> QED
      BY <1>0, <1>3, <2>1, <2>2, PlainAppend
         DEF AppendOp, AppendFrame, files, Live
  <1>4. CASE AppendCommit
    <2> DEFINE f == CommitFrame(jobTx, jobOps, Apply(state, jobOps))
    <2>1. /\ f \in Frame /\ f.type = "commit" /\ f.lsn = nextLsn
          /\ f.tx = jobTx /\ f.state = Apply(state, jobOps)
      BY <1>4, FrameType, ApplyType DEF AppendCommit, TypeOK, CommitFrame
    <2>2. wal' = Append(wal, f)
      BY <1>4 DEF AppendCommit, AppendFrame
    <2> HIDE DEF f
    <2>3. FilesExact' /\ AckedOnDisk'
      BY <1>4, <2>1, <2>2, DiskKeptByAppend
         DEF AppendCommit, files
    <2>4. /\ Len(wal') = Len(wal) + 1
          /\ Len(wal) \in Nat
          /\ \A i \in 1 .. Len(wal) : wal'[i] = wal[i]
          /\ wal'[Len(wal')] = f
      BY <2>1, <2>2, WalAppend DEF TypeOK
    <2>5. CommittedUpTo(wal', Len(wal)) = CommittedUpTo(wal, Len(wal))
      BY <2>4, SamePrefix
    <2>6. MemoryExact'
      <3>1. Len(wal') - 1 = Len(wal)
        BY <2>4
      <3> QED
        BY <1>4, <2>1, <2>4, <2>5, <3>1
           DEF AppendCommit, MemoryExact, Live, job
    <2>7. TornLast' /\ LsnIsPosition'
      BY <1>4, <2>1, <2>4
         DEF AppendCommit, AppendFrame, TornLast, LsnIsPosition, Live
    <2>8. ReplayExact' /\ CheckpointPending'
      BY <1>4 DEF AppendCommit, ReplayExact, CheckpointPending
    <2> QED
      BY <1>0, <2>3, <2>6, <2>7, <2>8
  <1>5. CASE SyncCommit
    <2>1. /\ Len(wal) \in Nat /\ Len(wal) # 0
          /\ wal[Len(wal)].type = "commit"
          /\ wal[Len(wal)].tx = jobTx
          /\ wal[Len(wal)].state = Apply(state, jobOps)
          /\ committed = CommittedUpTo(wal, Len(wal) - 1)
      BY <1>5 DEF SyncCommit, MemoryExact, TypeOK
    <2>2. /\ CommittedUpTo(wal, Len(wal)) = committed \cup {jobTx}
          /\ IsStateAt(wal, Len(wal), Apply(state, jobOps))
      <3>1. Len(wal) - 1 \in Nat /\ (Len(wal) - 1) + 1 = Len(wal)
        BY <2>1
      <3> QED
        BY <2>1, <3>1, OneCommit
    <2>3. MemoryExact'
      BY <1>5, <2>2 DEF SyncCommit, MemoryExact, Live
    <2>4. FilesExact'
      <3>1. ASSUME NEW c \in checkpoints
            PROVE  CheckpointExact(c)'
        BY <1>5 DEF SyncCommit, FilesExact, CheckpointExact, TypeOK, files
      <3> QED
        BY <1>5, <3>1 DEF SyncCommit, FilesExact, files
    <2>5. AckedOnDisk'
      <3>1. CommittedUpTo(wal, synced) \subseteq CommittedUpTo(wal, Len(wal))
        BY CommittedGrows DEF TypeOK
      <3> QED
        BY <1>5, <2>2, <3>1 DEF SyncCommit, AckedOnDisk, OnDisk
    <2>6. TornLast' /\ LsnIsPosition' /\ ReplayExact' /\ CheckpointPending'
      BY <1>5
         DEF SyncCommit, TornLast, LsnIsPosition, ReplayExact,
             CheckpointPending, Live
    <2> QED
      BY <1>0, <2>3, <2>4, <2>5, <2>6
  <1> QED
    BY <1>1, <1>2, <1>3, <1>4, <1>5 DEF Commit

LEMMA CheckpointDurable == DurableInv /\ CheckpointSteps => DurableInv'
  <1> SUFFICES ASSUME DurableInv, CheckpointSteps PROVE DurableInv'
    OBVIOUS
  <1> USE DEF DurableInv
  <1>0. TypeOK'
    BY CheckpointTypeOK
  <1>1. CASE AppendCheckpoint
    <2> DEFINE f == CheckpointFrame(state)
    <2>1. f \in Frame /\ f.type = "checkpoint" /\ f.lsn = nextLsn
      BY <1>1, FrameType DEF TypeOK, CheckpointFrame
    <2>2. wal' = Append(wal, f)
      BY <1>1 DEF AppendCheckpoint, AppendFrame
    <2> HIDE DEF f
    <2> QED
      BY <1>0, <1>1, <2>1, <2>2, PlainAppend
         DEF AppendCheckpoint, AppendFrame, files, Live
  <1>2. CASE SyncCheckpoint
    <2>1. FilesExact' /\ AckedOnDisk'
      <3>1. ASSUME NEW c \in checkpoints
            PROVE  CheckpointExact(c)'
        BY <1>2 DEF SyncCheckpoint, FilesExact, CheckpointExact, TypeOK, files
      <3>2. CommittedUpTo(wal, synced) \subseteq CommittedUpTo(wal, Len(wal))
        BY CommittedGrows DEF TypeOK
      <3> QED
        BY <1>2, <3>1, <3>2
           DEF SyncCheckpoint, FilesExact, AckedOnDisk, OnDisk, files
    <2>2. /\ TornLast' /\ LsnIsPosition' /\ MemoryExact' /\ ReplayExact'
          /\ CheckpointPending'
      BY <1>2
         DEF SyncCheckpoint, TornLast, LsnIsPosition, MemoryExact,
             ReplayExact, CheckpointPending, Live
    <2> QED
      BY <1>0, <2>1, <2>2
  <1>3. CASE CheckpointConflict
    <2>1. FilesExact' /\ AckedOnDisk'
      BY <1>3
         DEF CheckpointConflict, FilesExact, CheckpointExact, AckedOnDisk,
             OnDisk, disk
    <2>2. /\ TornLast' /\ LsnIsPosition' /\ MemoryExact' /\ ReplayExact'
          /\ CheckpointPending'
      BY <1>3
         DEF CheckpointConflict, TornLast, LsnIsPosition, MemoryExact,
             ReplayExact, CheckpointPending, Live, disk
    <2> QED
      BY <1>0, <2>1, <2>2
  <1>4. ASSUME NEW ok \in DirSync, WriteCheckpoint(ok)
        PROVE  DurableInv'
    <2>1. CheckpointExact(CheckpointFile)
      BY <1>4
         DEF WriteCheckpoint, CheckpointExact, CheckpointFile, Live,
             CheckpointPending, MemoryExact, LsnIsPosition, TypeOK
    <2>2. FilesExact' /\ AckedOnDisk'
      BY <1>4, <2>1
         DEF WriteCheckpoint, FilesExact, CheckpointExact, AckedOnDisk,
             OnDisk
    <2>3. CheckpointFile' = CheckpointFile
      BY <1>4 DEF WriteCheckpoint, CheckpointFile, base
    <2>4. /\ TornLast' /\ LsnIsPosition' /\ MemoryExact' /\ ReplayExact'
          /\ CheckpointPending'
      BY <1>4, <2>3
         DEF WriteCheckpoint, TornLast, LsnIsPosition, MemoryExact,
             ReplayExact, CheckpointPending, Live
    <2> QED
      BY <1>0, <2>2, <2>4
  <1>5. ASSUME NEW ok \in DirSync, WriteManifest(ok)
        PROVE  DurableInv'
    <2>1. /\ ManifestFile.file \in checkpoints
          /\ ManifestFile.file.gen = ManifestFile.gen
          /\ ManifestFile.file.lsn = ManifestFile.lsn
          /\ ManifestFile.file.state = ManifestFile.state
      BY <1>5
         DEF WriteManifest, CheckpointPending, ManifestFile, CheckpointFile
    <2>2. FilesExact' /\ AckedOnDisk'
      BY <1>5, <2>1
         DEF WriteManifest, FilesExact, CheckpointExact, AckedOnDisk, OnDisk
    <2>3. /\ TornLast' /\ LsnIsPosition' /\ MemoryExact' /\ ReplayExact'
          /\ CheckpointPending'
      BY <1>5
         DEF WriteManifest, TornLast, LsnIsPosition, MemoryExact,
             ReplayExact, CheckpointPending, Live
    <2> QED
      BY <1>0, <2>2, <2>3
  <1>6. ASSUME NEW ok \in DirSync, PublishHead(ok)
        PROVE  DurableInv'
    <2>1. FilesExact' /\ AckedOnDisk'
      BY <1>6
         DEF PublishHead, FilesExact, CheckpointExact, AckedOnDisk, OnDisk
    <2>2. /\ TornLast' /\ LsnIsPosition' /\ MemoryExact' /\ ReplayExact'
          /\ CheckpointPending'
      BY <1>6
         DEF PublishHead, TornLast, LsnIsPosition, MemoryExact, ReplayExact,
             CheckpointPending, Live
    <2> QED
      BY <1>0, <2>1, <2>2
  <1> QED
    BY <1>1, <1>2, <1>3, <1>4, <1>5, <1>6 DEF CheckpointSteps

\* What load_checkpoint returns is what the log says up to its LSN.
LEMMA HeadCovers ==
    ASSUME TypeOK, FilesExact
    PROVE  /\ CheckpointLsn \in 0 .. synced
           /\ CheckpointLsn # 0 => wal[CheckpointLsn].type = "checkpoint"
           /\ CheckpointCommitted = CommittedUpTo(wal, CheckpointLsn)
           /\ IsStateAt(wal, CheckpointLsn, CheckpointState)
  <1>1. CASE head = {}
    BY <1>1, NoFrames
       DEF CheckpointLsn, CheckpointCommitted, CheckpointState, TypeOK
  <1>2. CASE head # {}
    <2> DEFINE m == CHOOSE h \in head : TRUE
    <2>1. m \in head
      BY <1>2
    <2>2. /\ CheckpointLsn = m.lsn
          /\ CheckpointCommitted = m.file.committed
          /\ CheckpointState = m.file.state
      BY <1>2 DEF CheckpointLsn, CheckpointCommitted, CheckpointState
    <2> HIDE DEF m
    <2>3. CheckpointExact(m.file) /\ m.file.lsn = m.lsn
      BY <2>1 DEF FilesExact
    <2> QED
      BY <2>2, <2>3 DEF CheckpointExact, TypeOK
  <1> QED
    BY <1>1, <1>2

LEMMA RecoveryDurable == DurableInv /\ Recovery => DurableInv'
  <1> SUFFICES ASSUME DurableInv, Recovery PROVE DurableInv'
    OBVIOUS
  <1> USE DEF DurableInv
  <1>0. TypeOK'
    BY RecoveryTypeOK
  <1>1. ASSUME NEW repair \in RepairModes, NEW n \in 0 .. Len(wal),
               Open(repair, n)
        PROVE  DurableInv'
    <2>1. /\ wal' = SubSeq(wal, 1, n) /\ pc' = "replay" /\ rpos' = 1
          /\ UNCHANGED <<checkpoints, manifests, head, acked>>
          /\ synced' = IF n < Len(wal) THEN n ELSE synced
          /\ nextLsn' = MaximumLsn(n) + 1
      BY <1>1 DEF Open, Opened, ReplayOver, files
    <2>2. /\ Len(wal') = n /\ n \in Nat
          /\ \A i \in 1 .. n : wal'[i] = wal[i]
      BY <2>1, WalCut DEF TypeOK
    <2>3. \A i \in 1 .. n : wal[i].type # "torn"
      BY <1>1 DEF Open, ValidPrefix
    <2>4. n < Len(wal) => n + 1 = Len(wal) /\ wal[Len(wal)].type = "torn"
      <3>1. n < Len(wal) => wal[n + 1].type = "torn"
        BY <1>1 DEF Open, ValidPrefix
      <3> QED
        BY <3>1 DEF TornLast
    <2>5. /\ \A i \in 1 .. synced : i <= n \/ wal[i].type = "torn"
          /\ \A i \in 1 .. synced : i <= synced' \/ wal[i].type = "torn"
      BY <2>1, <2>4 DEF TypeOK
    <2>6. FilesExact' /\ AckedOnDisk'
      <3>1. synced' \in Nat
        BY <1>0 DEF TypeOK
      <3>2. synced' <= n /\ \A i \in 1 .. synced' : wal'[i] = wal[i]
        BY <2>1, <2>2 DEF TypeOK
      <3> QED
        BY <2>1, <2>5, <3>1, <3>2, DiskKept
    <2>7. TornLast' /\ LsnIsPosition'
      <3>1. MaximumLsn(n) = n
        BY <2>3 DEF MaximumLsn, LsnIsPosition
      <3> QED
        BY <2>1, <2>2, <2>3, <3>1 DEF TornLast, LsnIsPosition, Live
    <2>8. MemoryExact' /\ CheckpointPending'
      BY <2>1 DEF MemoryExact, CheckpointPending, Live
    <2>9. ReplayExact'
      <3>1. /\ CheckpointLsn' = CheckpointLsn
            /\ CheckpointCommitted' = CheckpointCommitted
            /\ CheckpointState' = CheckpointState
        BY <2>1 DEF CheckpointLsn, CheckpointCommitted, CheckpointState
      <3>2. Covered' = CheckpointLsn'
        BY <1>0, <2>1, HeadType, <3>1 DEF Covered
      <3>3. /\ committed' = CheckpointCommitted'
            /\ state' = CheckpointState'
        BY <1>1, <3>1 DEF Open, Opened
      <3>4. /\ CheckpointCommitted' = CommittedUpTo(wal', CheckpointLsn')
            /\ IsStateAt(wal', CheckpointLsn', CheckpointState')
        <4>1. CheckpointLsn \in Nat /\ CheckpointLsn <= n
          BY <2>5, HeadCovers, HeadType DEF TypeOK
        <4>2. \A i \in 1 .. CheckpointLsn : wal'[i] = wal[i]
          BY <2>2, <4>1
        <4> QED
          BY <3>1, <4>1, <4>2, HeadCovers, SamePrefix
      <3> QED
        BY <2>1, <2>2, <3>2, <3>3, <3>4 DEF ReplayExact
    <2> QED
      BY <1>0, <2>6, <2>7, <2>8, <2>9
  <1>2. ASSUME pc' = "refused", UNCHANGED disk, UNCHANGED acked,
               pc \in {"closed", "replay"}
        PROVE  DurableInv'
    <2>1. FilesExact' /\ AckedOnDisk'
      BY <1>2
         DEF FilesExact, CheckpointExact, AckedOnDisk, OnDisk, disk
    <2> QED
      BY <1>0, <1>2, <2>1
         DEF TornLast, LsnIsPosition, MemoryExact, ReplayExact,
             CheckpointPending, Live, disk
  <1>3. CASE OpenRefused
    BY <1>2, <1>3 DEF OpenRefused
  <1>4. CASE ReplayRefused
    BY <1>2, <1>4 DEF ReplayRefused
  <1>5. ASSUME UNCHANGED <<disk, pc, nextLsn, acked>>, pc = "replay",
               rpos' = rpos + 1, rpos <= Len(wal),
               committed' = CommittedUpTo(wal, Covered'),
               IsStateAt(wal, Covered', state')
        PROVE  DurableInv'
    <2>1. FilesExact' /\ AckedOnDisk'
      BY <1>5
         DEF FilesExact, CheckpointExact, AckedOnDisk, OnDisk, disk
    <2>2. ReplayExact'
      BY <1>5 DEF ReplayExact, disk, TypeOK
    <2> QED
      BY <1>0, <1>5, <2>1, <2>2
         DEF TornLast, LsnIsPosition, MemoryExact, CheckpointPending, Live,
             disk
  <1>6. ASSUME pc = "replay", rpos <= Len(wal)
        PROVE  /\ rpos \in Nat \ {0}
               /\ CheckpointLsn \in Nat
               /\ Current.lsn = rpos
               /\ CheckpointLsn = rpos => Current.type = "checkpoint"
               /\ committed = CommittedUpTo(wal, Covered)
               /\ IsStateAt(wal, Covered, state)
    <2>1. wal[rpos].type # "torn"
      BY <1>6 DEF TornLast, TypeOK
    <2> QED
      BY <1>6, <2>1, HeadCovers, HeadType
         DEF LsnIsPosition, ReplayExact, Current, TypeOK
  <1>7. ASSUME UNCHANGED disk, rpos' = rpos + 1
        PROVE  Covered' = IF rpos < CheckpointLsn THEN CheckpointLsn ELSE rpos
    BY <1>7, HeadType DEF Covered, CheckpointLsn, disk, TypeOK
  <1>8. ASSUME pc = "replay", rpos <= Len(wal), UNCHANGED disk,
               rpos' = rpos + 1, UNCHANGED <<state, committed>>,
               Current.type # "commit" \/ rpos <= CheckpointLsn
        PROVE  /\ committed' = CommittedUpTo(wal, Covered')
               /\ IsStateAt(wal, Covered', state')
    <2>1. CASE rpos < CheckpointLsn
      BY <1>6, <1>7, <1>8, <2>1 DEF Covered
    <2>2. CASE ~(rpos < CheckpointLsn)
      <3>1. Covered' = rpos
        BY <1>7, <1>8, <2>2
      <3>2. CASE CheckpointLsn = rpos
        BY <1>6, <1>8, <3>1, <3>2 DEF Covered
      <3>3. CASE CheckpointLsn # rpos
        <4>1. Covered = rpos - 1 /\ rpos - 1 \in Nat /\ rpos = (rpos - 1) + 1
          BY <1>6, <1>8, <2>2, <3>3 DEF Covered
        <4>2. wal[(rpos - 1) + 1].type # "commit"
          BY <1>6, <1>8, <2>2, <3>3, <4>1 DEF Current
        <4> QED
          BY <1>6, <1>8, <3>1, <4>1, <4>2, NoCommit
      <3> QED
        BY <3>2, <3>3
    <2> QED
      BY <2>1, <2>2
  <1>9. CASE ReplayPass
    BY <1>5, <1>6, <1>8, <1>9 DEF ReplayPass
  <1>10. CASE ReplayBegin
    BY <1>5, <1>8, <1>10 DEF ReplayBegin, Replaying
  <1>11. CASE ReplayOp
    BY <1>5, <1>8, <1>11 DEF ReplayOp, Replaying
  <1>12. CASE ReplayCommit
    <2>1. /\ pc = "replay" /\ rpos <= Len(wal) /\ Current.lsn > CheckpointLsn
          /\ rpos' = rpos + 1 /\ UNCHANGED <<disk, pc, nextLsn, acked>>
          /\ Current.type = "commit" /\ state' = Current.state
          /\ committed' = committed \cup {Current.tx}
      BY <1>12 DEF ReplayCommit, Replaying, FrameReplayable
    <2>2. Covered' = rpos /\ Covered = rpos - 1
      BY <1>6, <1>7, <2>1 DEF Covered
    <2>3. rpos - 1 \in Nat /\ rpos = (rpos - 1) + 1
      BY <1>6, <2>1
    <2>4. /\ CommittedUpTo(wal, rpos)
                = CommittedUpTo(wal, rpos - 1) \cup {Current.tx}
          /\ IsStateAt(wal, rpos, Current.state)
      BY <2>1, <2>3, OneCommit DEF Current
    <2> QED
      BY <1>5, <1>6, <2>1, <2>2, <2>4
  <1>13. CASE FinishOpen
    <2>1. rpos = Len(wal) + 1 /\ Covered = Len(wal)
      BY <1>13, HeadCovers DEF FinishOpen, ReplayExact, Covered, TypeOK
    <2>2. MemoryExact'
      BY <1>13, <2>1 DEF FinishOpen, ReplayExact, MemoryExact, Live, disk
    <2>3. FilesExact' /\ AckedOnDisk'
      BY <1>13
         DEF FinishOpen, FilesExact, CheckpointExact, AckedOnDisk, OnDisk,
             disk
    <2> QED
      BY <1>0, <1>13, <2>2, <2>3
         DEF FinishOpen, TornLast, LsnIsPosition, ReplayExact,
             CheckpointPending, Live, disk
  <1> QED
    BY <1>1, <1>3, <1>4, <1>9, <1>10, <1>11, <1>12, <1>13 DEF Recovery

\* A call that stops leaves a prefix of the log, perhaps with the first bytes
\* of one more frame.
LEMMA Stopped ==
    ASSUME DurableInv, TypeOK', pc' \in {"erred", "closed", "refused"},
           FilesExact', AckedOnDisk',
           NEW n \in 0 .. Len(wal), \A i \in 1 .. n : wal'[i] = wal[i],
           \/ Len(wal') = n
           \/ /\ Len(wal') = n + 1
              /\ wal'[n + 1].type = "torn"
              /\ \A i \in 1 .. n : wal[i].type # "torn"
    PROVE  DurableInv'
  <1>1. Len(wal) \in Nat /\ n \in Nat
    BY DEF DurableInv, TypeOK
  <1>2. TornLast'
    BY <1>1 DEF DurableInv, TornLast
  <1>3. LsnIsPosition'
    BY <1>1 DEF DurableInv, LsnIsPosition, Live
  <1>4. MemoryExact' /\ ReplayExact' /\ CheckpointPending'
    BY DEF MemoryExact, ReplayExact, CheckpointPending, Live
  <1> QED
    BY <1>2, <1>3, <1>4 DEF DurableInv

LEMMA EnvironmentDurable ==
    ASSUME ReuseAfterError = FALSE
    PROVE  DurableInv /\ Environment => DurableInv'
  <1> SUFFICES ASSUME DurableInv, Environment PROVE DurableInv'
    OBVIOUS
  <1>0. /\ TypeOK /\ TypeOK' /\ FilesExact /\ AckedOnDisk
        /\ Len(wal) \in Nat /\ synced \in Nat /\ synced <= Len(wal)
    BY EnvironmentTypeOK DEF DurableInv, TypeOK
  <1>1. ASSUME pc \in Live, wal' = Append(wal, TornFrame), synced' = synced,
               UNCHANGED <<checkpoints, manifests, head, acked>>,
               pc' \in {"erred", "closed"}
        PROVE  DurableInv'
    <2>1. FilesExact' /\ AckedOnDisk'
      BY <1>0, <1>1, FrameType, DiskKeptByAppend
    <2>2. /\ Len(wal') = Len(wal) + 1
          /\ \A i \in 1 .. Len(wal) : wal'[i] = wal[i]
          /\ wal'[Len(wal) + 1].type = "torn"
      <3>1. TornFrame \in Frame
        BY <1>0, FrameType
      <3>2. wal'[Len(wal) + 1] = TornFrame
        BY <1>0, <1>1, <3>1, WalAppend DEF TypeOK
      <3> QED
        BY <1>0, <1>1, <3>1, <3>2, WalAppend DEF TypeOK, TornFrame
    <2>3. \A i \in 1 .. Len(wal) : wal[i].type # "torn"
      BY <1>1 DEF DurableInv, TornLast, Live
    <2> QED
      BY <1>0, <1>1, <2>1, <2>2, <2>3, Stopped
  <1>2. ASSUME wal' = wal, synced' = synced,
               UNCHANGED <<checkpoints, manifests, head, acked>>,
               pc' \in {"erred", "closed"}
        PROVE  DurableInv'
    <2>1. FilesExact' /\ AckedOnDisk'
      BY <1>0, <1>2
         DEF FilesExact, CheckpointExact, AckedOnDisk, OnDisk
    <2> QED
      BY <1>0, <1>2, <2>1, Stopped
  <1>3. CASE AppendFails
    BY <1>1, <1>2, <1>3 DEF AppendFails, Live, files
  <1>4. CASE SyncFails
    BY <1>2, <1>4 DEF SyncFails, disk
  <1>5. CASE KeepHandle
    BY <1>5 DEF KeepHandle
  <1>6. CASE DropHandle
    BY <1>2, <1>6 DEF DropHandle, disk
  <1>7. CASE Kill
    BY <1>1, <1>2, <1>7 DEF Kill, Live, files
  <1>8. ASSUME NEW n \in 0 .. Len(wal), PowerLoss(n)
        PROVE  DurableInv'
    <2>1. /\ n \in Nat /\ synced <= n /\ synced' = n
          /\ pc' \in {"closed", "refused"}
          /\ UNCHANGED <<checkpoints, manifests, head, acked>>
      BY <1>0, <1>8 DEF PowerLoss, files
    <2> DEFINE cut == SubSeq(wal, 1, n)
    <2>2. /\ cut \in Seq(Frame) /\ Len(cut) = n
          /\ \A i \in 1 .. n : cut[i] = wal[i]
      BY <1>0, WalCut DEF TypeOK
    <2>3. /\ wal' = cut \/ (n < Len(wal) /\ wal' = Append(cut, TornFrame))
      BY <1>8 DEF PowerLoss
    <2> HIDE DEF cut
    <2>4. /\ \A i \in 1 .. n : wal'[i] = wal[i]
          /\ \/ Len(wal') = n
             \/ /\ Len(wal') = n + 1 /\ n < Len(wal)
                /\ wal'[n + 1].type = "torn"
      <3>1. CASE wal' = cut
        BY <2>2, <3>1
      <3>2. CASE n < Len(wal) /\ wal' = Append(cut, TornFrame)
        <4>1. TornFrame \in Frame
          BY <1>0, FrameType
        <4>2. TornFrame.type = "torn"
          BY DEF TornFrame
        <4>3. /\ Len(wal') = n + 1 /\ wal'[n + 1] = TornFrame
              /\ \A i \in 1 .. n : wal'[i] = cut[i]
          BY <2>2, <3>2, <4>1, WalAppend
        <4> QED
          BY <2>2, <3>2, <4>2, <4>3
      <3> QED
        BY <2>3, <3>1, <3>2
    <2>5. n < Len(wal) => \A i \in 1 .. n : wal[i].type # "torn"
      BY <1>0, <2>1 DEF DurableInv, TornLast
    <2>6. FilesExact' /\ AckedOnDisk'
      BY <1>0, <2>1, <2>4, DiskKept
    <2> QED
      BY <1>0, <2>1, <2>4, <2>5, <2>6, Stopped
  <1> QED
    BY <1>3, <1>4, <1>5, <1>6, <1>7, <1>8 DEF Environment

LEMMA NextDurable ==
    ASSUME ReuseAfterError = FALSE
    PROVE  DurableInv /\ [Next]_vars => DurableInv'
  <1> SUFFICES ASSUME DurableInv, [Next]_vars PROVE DurableInv'
    OBVIOUS
  <1>1. CASE UNCHANGED vars
    <2>1. TypeOK'
      BY <1>1, NextTypeOK DEF DurableInv
    <2>2. CheckpointFile' = CheckpointFile /\ Covered' = Covered
      BY <1>1
         DEF vars, disk, base, replay, CheckpointFile, Covered, CheckpointLsn
    <2> QED
      BY <1>1, <2>1, <2>2
         DEF vars, disk, base, job, replay, DurableInv, TornLast,
             LsnIsPosition, MemoryExact, ReplayExact, CheckpointPending,
             FilesExact, CheckpointExact, AckedOnDisk, OnDisk
  <1> QED
    BY <1>1, CommitDurable, CheckpointDurable, RecoveryDurable,
       EnvironmentDurable DEF Next

-----------------------------------------------------------------------------
(* The theorems, for callers that drop a handle whose call failed, as every *)
(* command of the CLI does.  Retried ids, failing system calls, any number  *)
(* of kills and power losses and both repair modes are allowed.             *)

\* The inductive invariant holds in every reachable state of the durable
\* database.
THEOREM DurableInvariant ==
    ASSUME ReuseAfterError = FALSE
    PROVE  Spec => []DurableInv
  BY InitDurable, NextDurable, PTL DEF Spec

\* commit_prepared's Ok is final: the COMMIT frame of an acknowledged
\* transaction stays in the fsynced part of the log.
THEOREM AckedStaysOnDisk ==
    ASSUME ReuseAfterError = FALSE
    PROVE  Spec => []AckedOnDisk
  <1>1. DurableInv => AckedOnDisk
    BY DEF DurableInv
  <1> QED
    BY <1>1, DurableInvariant, PTL

\* An idle handle serves what the log says, no matter how it got there: by
\* commit_prepared, by replay, or by a checkpoint and the replay of the rest.
THEOREM ServedStateCorrect ==
    ASSUME ReuseAfterError = FALSE
    PROVE  Spec => []ServedState
  <1>1. DurableInv => ServedState
    BY DEF DurableInv, MemoryExact, ServedState, Live
  <1> QED
    BY <1>1, DurableInvariant, PTL

\* The published head always loads, and stands for a durable prefix of the
\* log that ends in its CHECKPOINT frame.
THEOREM HeadIsExact ==
    ASSUME ReuseAfterError = FALSE
    PROVE  Spec => []HeadExact
  <1>1. DurableInv => HeadExact
    BY DEF DurableInv, FilesExact, HeadExact, HeadLoads
  <1> QED
    BY <1>1, DurableInvariant, PTL

-----------------------------------------------------------------------------
(* Callers that go on with a handle after an error, where nobody repairs.   *)

\* The frame that SyncCommit makes durable is the COMMIT of its transaction.
CommitPending ==
    pc = "commitSync" =>
        Len(wal) # 0 /\ wal[Len(wal)].type = "commit" /\ wal[Len(wal)].tx = jobTx

UnrepairedInv == TypeOK /\ CommitPending /\ AckedOnDisk

\* What an fsync covers is there after every step.
FsyncedStays ==
    synced' >= synced /\ \A i \in 1 .. synced : wal'[i] = wal[i]

\* Every append is behind the file's end.
LEMMA AppendStays ==
    ASSUME TypeOK, NEW f \in Frame, wal' = Append(wal, f), synced' = synced
    PROVE  FsyncedStays
  <1>1. synced \in Nat /\ Len(wal) \in Nat /\ synced <= Len(wal) /\ wal \in Seq(Frame)
    BY DEF TypeOK
  <1>2. \A i \in 1 .. Len(wal) : wal'[i] = wal[i]
    BY <1>1, WalAppend
  <1> QED
    BY <1>1, <1>2 DEF FsyncedStays

LEMMA SameStays ==
    ASSUME TypeOK, wal' = wal, synced' \in {synced, Len(wal)}
    PROVE  FsyncedStays
  BY DEF TypeOK, FsyncedStays

\* Without repair no step takes back what was fsynced.
LEMMA FsyncedStep ==
    ASSUME RepairModes = {FALSE}, TypeOK, [Next]_vars
    PROVE  FsyncedStays
  <1>0. synced \in Nat /\ Len(wal) \in Nat /\ synced <= Len(wal) /\ wal \in Seq(Frame)
    BY DEF TypeOK
  <1>1. CASE Commit
    <2>1. CASE \E t \in Tx, b \in Batches, slot \in Slots : WriteSegment(t, b, slot)
      BY <2>1, SameStays DEF WriteSegment
    <2>2. CASE AppendBegin
      <3>1. BeginFrame(jobTx, jobOps) \in Frame
        BY <2>2, FrameType DEF AppendBegin, TypeOK
      <3> QED
        BY <2>2, <3>1, AppendStays DEF AppendBegin, AppendFrame
    <2>3. ASSUME NEW p \in Pair, AppendOp(p) PROVE FsyncedStays
      <3>1. OpFrame(jobTx, p) \in Frame
        BY <2>3, FrameType DEF AppendOp, TypeOK
      <3> QED
        BY <2>3, <3>1, AppendStays DEF AppendOp, AppendFrame
    <2>4. CASE AppendCommit
      <3>1. CommitFrame(jobTx, jobOps, Apply(state, jobOps)) \in Frame
        BY <2>4, FrameType, ApplyType DEF AppendCommit, TypeOK
      <3> QED
        BY <2>4, <3>1, AppendStays DEF AppendCommit, AppendFrame
    <2>5. CASE SyncCommit
      BY <2>5, SameStays DEF SyncCommit
    <2> QED
      BY <1>1, <2>1, <2>2, <2>3, <2>4, <2>5 DEF Commit
  <1>2. CASE CheckpointSteps
    <2>1. CASE AppendCheckpoint
      BY <2>1, FrameType, AppendStays DEF AppendCheckpoint, AppendFrame
    <2>2. CASE ~AppendCheckpoint
      BY <1>2, <2>2, SameStays
         DEF CheckpointSteps, SyncCheckpoint, CheckpointConflict, WriteCheckpoint,
             WriteManifest, PublishHead, disk
    <2> QED
      BY <2>1, <2>2
  <1>3. CASE Recovery
    <2>1. ASSUME NEW n \in 0 .. Len(wal), Open(FALSE, n) PROVE FsyncedStays
      <3>1. n = Len(wal)
        BY <1>0, <2>1 DEF Open
      <3>2. wal' = wal /\ synced' = synced
        BY <1>0, <2>1, <3>1 DEF Open
      <3> QED
        BY <3>2, SameStays
    <2>2. CASE OpenRefused \/ ReplayPass \/ ReplayBegin \/ ReplayOp \/ ReplayCommit
                  \/ ReplayRefused \/ FinishOpen
      BY <2>2, SameStays DEF OpenRefused, ReplayPass, ReplayBegin, ReplayOp, ReplayCommit,
                             ReplayRefused, FinishOpen, disk
    <2> QED
      BY <1>3, <2>1, <2>2 DEF Recovery
  <1>4. CASE Environment
    <2>1. ASSUME wal' \in {wal, Append(wal, TornFrame)}, synced' = synced
          PROVE  FsyncedStays
      BY <2>1, FrameType, SameStays, AppendStays
    <2>2. CASE AppendFails \/ SyncFails \/ KeepHandle \/ DropHandle \/ Kill
      BY <2>1, <2>2 DEF AppendFails, SyncFails, KeepHandle, DropHandle, Kill, disk
    <2>3. ASSUME NEW n \in 0 .. Len(wal), PowerLoss(n) PROVE FsyncedStays
      <3> DEFINE cut == SubSeq(wal, 1, n)
      <3>1. cut \in Seq(Frame) /\ Len(cut) = n /\ \A i \in 1 .. n : cut[i] = wal[i]
        BY <1>0, WalCut
      <3>2. wal' = cut \/ wal' = Append(cut, TornFrame)
        BY <2>3 DEF PowerLoss
      <3> HIDE DEF cut
      <3>3. \A i \in 1 .. n : wal'[i] = wal[i]
        BY <3>1, <3>2, FrameType, WalAppend
      <3>4. n \in Nat /\ synced <= n /\ synced' = n
        BY <1>0, <2>3 DEF PowerLoss
      <3> QED
        BY <1>0, <3>3, <3>4 DEF FsyncedStays
    <2> QED
      BY <1>4, <2>2, <2>3 DEF Environment
  <1>5. CASE UNCHANGED vars
    BY <1>5, SameStays DEF vars, disk
  <1> QED
    BY <1>1, <1>2, <1>3, <1>4, <1>5 DEF Next

\* A COMMIT that was fsynced still is.
LEMMA OnDiskStays ==
    ASSUME TypeOK, TypeOK', FsyncedStays, NEW t, OnDisk(t)
    PROVE  OnDisk(t)'
  <1>1. PICK i \in 1 .. synced : wal[i].type = "commit" /\ wal[i].tx = t
    BY DEF OnDisk, CommittedUpTo, CommitsUpTo
  <1>2. i \in 1 .. synced' /\ wal'[i] = wal[i]
    BY <1>1 DEF FsyncedStays, TypeOK
  <1> QED
    BY <1>1, <1>2 DEF OnDisk, CommittedUpTo, CommitsUpTo

LEMMA UnrepairedStep ==
    ASSUME RepairModes = {FALSE}, UnrepairedInv, [Next]_vars
    PROVE  UnrepairedInv'
  <1>1. TypeOK /\ TypeOK' /\ FsyncedStays
    BY NextTypeOK, FsyncedStep DEF UnrepairedInv
  <1>2. CASE AppendCommit
    <2> DEFINE f == CommitFrame(jobTx, jobOps, Apply(state, jobOps))
    <2>1. f \in Frame /\ f.type = "commit" /\ f.tx = jobTx
      BY <1>1, <1>2, FrameType, ApplyType DEF AppendCommit, TypeOK, CommitFrame
    <2>2. wal' = Append(wal, f) /\ jobTx' = jobTx /\ acked' = acked
      BY <1>2 DEF AppendCommit, AppendFrame, job
    <2> HIDE DEF f
    <2>3. Len(wal') = Len(wal) + 1 /\ wal'[Len(wal) + 1] = f /\ Len(wal) \in Nat
      BY <1>1, <2>1, <2>2, WalAppend DEF TypeOK
    <2>4. CommitPending'
      BY <2>1, <2>2, <2>3 DEF CommitPending
    <2>5. AckedOnDisk'
      BY <1>1, <2>2, OnDiskStays DEF UnrepairedInv, AckedOnDisk
    <2> QED
      BY <1>1, <2>4, <2>5 DEF UnrepairedInv
  <1>3. CASE SyncCommit
    <2>1. acked' = acked \cup {jobTx} /\ pc' = "idle" /\ wal' = wal /\ synced' = Len(wal)
      BY <1>3 DEF SyncCommit
    <2>2. Len(wal) # 0 /\ Len(wal) \in Nat /\ wal[Len(wal)].type = "commit"
          /\ wal[Len(wal)].tx = jobTx
      BY <1>1, <1>3 DEF SyncCommit, UnrepairedInv, CommitPending, TypeOK
    <2>3. ASSUME NEW t, t = jobTx PROVE OnDisk(t)'
      <3>1. Len(wal) \in CommitsUpTo(wal, Len(wal))
        BY <2>2 DEF CommitsUpTo
      <3> QED
        BY <2>1, <2>2, <2>3, <3>1 DEF OnDisk, CommittedUpTo
    <2>4. AckedOnDisk'
      BY <1>1, <2>1, <2>3, OnDiskStays DEF UnrepairedInv, AckedOnDisk
    <2> QED
      BY <1>1, <2>1, <2>4 DEF UnrepairedInv, CommitPending
  <1>4. CASE ~AppendCommit /\ ~SyncCommit
    <2>1. acked' = acked /\ (pc' = "commitSync" => UNCHANGED vars)
      <3>1. CASE Commit
        BY <1>4, <3>1 DEF Commit, WriteSegment, AppendBegin, AppendOp
      <3>2. CASE CheckpointSteps
        BY <3>2 DEF CheckpointSteps, AppendCheckpoint, SyncCheckpoint, CheckpointConflict,
                    WriteCheckpoint, WriteManifest, PublishHead
      <3>3. CASE Recovery
        BY <3>3 DEF Recovery, Open, Opened, OpenRefused, Replaying, ReplayPass, ReplayBegin,
                    ReplayOp, ReplayCommit, ReplayRefused, FinishOpen
      <3>4. CASE Environment
        BY <3>4 DEF Environment, AppendFails, SyncFails, KeepHandle, DropHandle, Kill, PowerLoss
      <3>5. CASE UNCHANGED vars
        BY <3>5 DEF vars
      <3> QED
        BY <3>1, <3>2, <3>3, <3>4, <3>5 DEF Next
    <2>2. CommitPending'
      BY <2>1 DEF UnrepairedInv, CommitPending, vars, disk, job
    <2>3. AckedOnDisk'
      BY <1>1, <2>1, OnDiskStays DEF UnrepairedInv, AckedOnDisk
    <2> QED
      BY <1>1, <2>2, <2>3 DEF UnrepairedInv
  <1> QED
    BY <1>2, <1>3, <1>4

\* Even a caller that retries ids and goes on with a handle after errors has its
\* acknowledged COMMIT frames in the fsynced log, as long as nobody repairs it.
\* (With a repair it has not: the frames may lie behind an incomplete one.)
THEOREM AckedStaysUnrepaired ==
    ASSUME RepairModes = {FALSE}
    PROVE  Spec => []AckedOnDisk
  <1>1. Init => UnrepairedInv
    BY InitTypeOK DEF Init, UnrepairedInv, CommitPending, AckedOnDisk
  <1>2. UnrepairedInv => AckedOnDisk
    BY DEF UnrepairedInv
  <1> QED
    BY <1>1, <1>2, UnrepairedStep, PTL DEF Spec

-----------------------------------------------------------------------------
(* Publications go forward. *)

\* A handle knows the published generation, or published the next one itself;
\* while it makes a checkpoint, the published one is older.
HeadInv ==
    /\ pc \in Live \cup {"commitSync", "replay"} =>
          CheckpointGen \in {baseGen, baseGen + 1}
    /\ pc \in {"ckptSync", "ckptFile"} => CheckpointLsn < Len(wal)
    /\ pc \in {"ckptManifest", "ckptHead"} =>
          CheckpointGen = baseGen /\ CheckpointLsn < Len(wal)

\* What the head says depends on the head alone.
LEMMA SameHead ==
    head' = head => CheckpointGen' = CheckpointGen /\ CheckpointLsn' = CheckpointLsn
  BY DEF CheckpointGen, CheckpointLsn

LEMMA InitHead == Init => HeadInv
  BY DEF Init, HeadInv, CheckpointGen, CheckpointLsn, Live

LEMMA Published ==
    ASSUME NEW ok, PublishHead(ok)
    PROVE  /\ CheckpointGen' = baseGen + 1
           /\ CheckpointLsn' = nextLsn - 1
  <1>1. head' = {ManifestFile}
    BY DEF PublishHead
  <1>2. (CHOOSE m \in head' : TRUE) = ManifestFile
    BY <1>1
  <1> QED
    BY <1>1, <1>2 DEF CheckpointGen, CheckpointLsn, ManifestFile

LEMMA HeadStep ==
    ASSUME ReuseAfterError = FALSE
    PROVE  DurableInv /\ HeadInv /\ [Next]_vars =>
              /\ HeadInv'
              /\ head' # head => /\ CheckpointGen' > CheckpointGen
                                 /\ CheckpointLsn' > CheckpointLsn
  <1> SUFFICES ASSUME DurableInv, HeadInv, [Next]_vars
               PROVE  /\ HeadInv'
                      /\ head' # head => /\ CheckpointGen' > CheckpointGen
                                         /\ CheckpointLsn' > CheckpointLsn
    OBVIOUS
  <1> USE DEF DurableInv
  <1>0. /\ CheckpointGen \in Nat /\ CheckpointLsn \in Nat /\ baseGen \in Nat
        /\ Len(wal) \in Nat /\ CheckpointLsn <= Len(wal)
        /\ pc \in Live \cup {"commitSync", "replay"} => nextLsn = Len(wal) + 1
    BY HeadType, HeadCovers DEF TypeOK, LsnIsPosition
  <1>1. ASSUME head' = head, baseGen' = baseGen, Len(wal') >= Len(wal), Len(wal') \in Nat,
               pc' \in {"ckptSync", "ckptFile"} =>
                  pc \in {"ckptSync", "ckptFile"} \/ Len(wal') > Len(wal),
               pc' \in {"ckptManifest", "ckptHead"} => pc \in {"ckptManifest", "ckptHead"},
               pc' \in Live \cup {"commitSync", "replay"} =>
                  pc \in Live \cup {"commitSync", "replay"}
        PROVE  HeadInv'
    BY <1>0, <1>1, SameHead DEF HeadInv
  <1>2. ASSUME head' = head, pc' \in {"erred", "closed", "refused"}
        PROVE  HeadInv'
    BY <1>2 DEF HeadInv, Live
  <1>3. ASSUME Commit PROVE HeadInv' /\ head' = head
    <2>1. /\ head' = head /\ baseGen' = baseGen
          /\ pc \in Live \cup {"commitSync"}
          /\ pc' \in {"begin", "ops", "commitSync", "idle"}
      BY <1>3 DEF Commit, WriteSegment, AppendBegin, AppendOp, AppendCommit, SyncCommit,
                  files, base, Live
    <2>2. Len(wal') \in Nat /\ Len(wal') >= Len(wal)
      <3>1. wal' = wal \/ \E f : wal' = Append(wal, f)
        BY <1>3 DEF Commit, WriteSegment, AppendBegin, AppendOp, AppendCommit, SyncCommit,
                    AppendFrame
      <3> QED
        BY <3>1 DEF TypeOK
    <2> QED
      BY <1>1, <2>1, <2>2
  <1>4. ASSUME AppendCheckpoint PROVE HeadInv' /\ head' = head
    <2>1. Len(wal') = Len(wal) + 1
      BY <1>4 DEF AppendCheckpoint, AppendFrame, TypeOK
    <2> QED
      BY <1>0, <1>1, <1>4, <2>1 DEF AppendCheckpoint, files, base, Live
  <1>5. ASSUME SyncCheckpoint \/ CheckpointConflict PROVE HeadInv' /\ head' = head
    BY <1>0, <1>1, <1>2, <1>5 DEF SyncCheckpoint, CheckpointConflict, files, base, disk, Live
  <1>6. ASSUME NEW ok \in DirSync, WriteCheckpoint(ok) PROVE HeadInv' /\ head' = head
    <2>1. CheckpointGen = baseGen
      <3>1. SUFFICES ASSUME CheckpointGen = baseGen + 1 PROVE FALSE
        BY <1>6 DEF WriteCheckpoint, HeadInv, Live
      <3>2. PICK m : m \in head /\ CheckpointGen = m.gen /\ CheckpointLsn = m.lsn
        <4>1. head # {}
          BY <1>0, <3>1 DEF CheckpointGen
        <4>2. (CHOOSE m \in head : TRUE) \in head
          BY <4>1
        <4> QED
          BY <4>1, <4>2 DEF CheckpointGen, CheckpointLsn
      <3>3. m.file \in checkpoints /\ m.file.gen = baseGen + 1 /\ m.file.lsn = CheckpointLsn
        BY <3>1, <3>2 DEF FilesExact
      <3>4. m.file = CheckpointFile
        BY <1>6, <3>3 DEF WriteCheckpoint, Publishable, CheckpointNamed
      <3>5. CheckpointLsn = nextLsn - 1
        BY <3>3, <3>4 DEF CheckpointFile
      <3> QED
        BY <1>0, <1>6, <3>5 DEF WriteCheckpoint, HeadInv, Live
    <2> QED
      BY <1>0, <1>6, <2>1, SameHead DEF WriteCheckpoint, HeadInv, base, Live
  <1>7. ASSUME NEW ok \in DirSync, WriteManifest(ok) PROVE HeadInv' /\ head' = head
    BY <1>0, <1>7, SameHead DEF WriteManifest, HeadInv, base, Live
  <1>8. ASSUME NEW ok \in DirSync, PublishHead(ok)
        PROVE  HeadInv' /\ CheckpointGen' > CheckpointGen /\ CheckpointLsn' > CheckpointLsn
    <2>1. /\ CheckpointGen' = baseGen + 1 /\ CheckpointLsn' = Len(wal)
      BY <1>0, <1>8, Published DEF PublishHead, Live
    <2>2. CheckpointGen = baseGen /\ CheckpointLsn < Len(wal)
      BY <1>8 DEF PublishHead, HeadInv
    <2> QED
      BY <1>0, <1>8, <2>1, <2>2 DEF PublishHead, HeadInv, base, Live
  <1>9. ASSUME Recovery PROVE HeadInv' /\ head' = head
    <2>1. ASSUME NEW repair \in RepairModes, NEW n \in 0 .. Len(wal), Open(repair, n)
          PROVE  HeadInv' /\ head' = head
      <3>1. head' = head /\ baseGen' = CheckpointGen /\ pc' = "replay"
        BY <2>1 DEF Open, Opened, files
      <3> QED
        BY <3>1, SameHead DEF HeadInv, Live
    <2>2. ASSUME ReplayPass \/ ReplayBegin \/ ReplayOp \/ ReplayCommit \/ FinishOpen
          PROVE  HeadInv' /\ head' = head
      <3>1. /\ head' = head /\ baseGen' = baseGen /\ wal' = wal
            /\ pc = "replay" /\ pc' \in {"replay", "idle"}
        BY <2>2 DEF ReplayPass, ReplayBegin, ReplayOp, ReplayCommit, FinishOpen, Replaying,
                    disk, base
      <3> QED
        BY <1>0, <1>1, <3>1
    <2>3. ASSUME OpenRefused \/ ReplayRefused PROVE HeadInv' /\ head' = head
      BY <1>2, <2>3 DEF OpenRefused, ReplayRefused, disk
    <2> QED
      BY <1>9, <2>1, <2>2, <2>3 DEF Recovery
  <1>10. ASSUME Environment, ~KeepHandle PROVE HeadInv' /\ head' = head
    BY <1>2, <1>10 DEF Environment, AppendFails, SyncFails, DropHandle, Kill, PowerLoss, disk,
                       files
  <1>11. ASSUME KeepHandle PROVE HeadInv' /\ head' = head
    BY <1>11 DEF KeepHandle
  <1>12. ASSUME UNCHANGED vars PROVE HeadInv' /\ head' = head
    BY <1>12, SameHead DEF vars, disk, base, HeadInv
  <1> QED
    BY <1>3, <1>4, <1>5, <1>6, <1>7, <1>8, <1>9, <1>10, <1>11, <1>12 DEF Next, CheckpointSteps

\* The head never goes back: each publication names a later generation and a
\* later LSN than the one before.
THEOREM HeadOnlyAdvances ==
    ASSUME ReuseAfterError = FALSE
    PROVE  Spec => HeadAdvances
  <1>1. DurableInv /\ HeadInv /\ [Next]_vars
            => [head' # head => /\ CheckpointGen' > CheckpointGen
                                /\ CheckpointLsn' > CheckpointLsn]_head
    BY HeadStep
  <1>2. DurableInv /\ HeadInv /\ [Next]_vars => HeadInv'
    BY HeadStep
  <1> QED
    BY <1>1, <1>2, InitHead, DurableInvariant, PTL DEF Spec, HeadAdvances

-----------------------------------------------------------------------------
(* The database implements DurableLog. *)

\* The call under way commits a batch of the caller's, whose id is new to the handle.
JobInv ==
    pc \in {"begin", "ops"} => jobOps \in Batches /\ jobTx \notin committed

LEMMA InitJob == Init => JobInv
  BY DEF Init, JobInv

LEMMA JobStep ==
    ASSUME JobInv, [Next]_vars
    PROVE  JobInv'
  <1>1. ASSUME Commit PROVE JobInv'
    <2>1. ASSUME NEW t \in Tx, NEW b \in Batches, NEW slot \in Slots, WriteSegment(t, b, slot)
          PROVE  JobInv'
      BY <2>1 DEF WriteSegment, JobInv
    <2>2. CASE AppendBegin
      BY <2>2 DEF AppendBegin, JobInv, job
    <2>3. ASSUME NEW p \in Pair, AppendOp(p) PROVE JobInv'
      BY <2>3 DEF AppendOp, JobInv
    <2>4. CASE AppendCommit \/ SyncCommit
      BY <2>4 DEF AppendCommit, SyncCommit, JobInv
    <2> QED
      BY <1>1, <2>1, <2>2, <2>3, <2>4 DEF Commit
  <1>2. ASSUME CheckpointSteps PROVE JobInv'
    BY <1>2 DEF CheckpointSteps, AppendCheckpoint, SyncCheckpoint, CheckpointConflict,
                WriteCheckpoint, WriteManifest, PublishHead, JobInv
  <1>3. ASSUME Recovery PROVE JobInv'
    BY <1>3 DEF Recovery, Open, Opened, OpenRefused, ReplayPass, ReplayBegin, ReplayOp,
                ReplayCommit, ReplayRefused, FinishOpen, Replaying, JobInv
  <1>4. ASSUME Environment PROVE JobInv'
    BY <1>4 DEF Environment, AppendFails, SyncFails, KeepHandle, DropHandle, Kill, PowerLoss,
                JobInv
  <1>5. ASSUME UNCHANGED vars PROVE JobInv'
    BY <1>5 DEF vars, job, JobInv
  <1> QED
    BY <1>1, <1>2, <1>3, <1>4, <1>5 DEF Next

\* The refinement mapping: the abstract log and what is shown of it.
Log(w) == [i \in 1 .. Len(w) |-> Entry(w[i])]

View == IF pc = "idle" THEN {[state |-> state, committed |-> committed]} ELSE {}

LEMMA LogShape ==
    ASSUME NEW w \in Seq(Frame)
    PROVE  /\ Log(w) \in Seq({Entry(f) : f \in Frame})
           /\ Len(Log(w)) = Len(w) /\ Len(w) \in Nat
           /\ DOMAIN Log(w) = 1 .. Len(w)
           /\ \A i \in 1 .. Len(w) : Log(w)[i] = Entry(w[i])
  BY DEF Log

\* The abstract log says of commits what the frames say.
LEMMA LogSays ==
    ASSUME NEW w \in Seq(Frame)
    PROVE  /\ Promise!Commits(Log(w)) = CommitsUpTo(w, Len(w))
           /\ Promise!Committed(Log(w)) = CommittedUpTo(w, Len(w))
           /\ \A s : Promise!IsLast(Log(w), s) <=> IsStateAt(w, Len(w), s)
  <1>1. ASSUME NEW i \in 1 .. Len(w)
        PROVE  /\ w[i].type = "commit" <=> Log(w)[i].tx # NoTx
               /\ w[i].type = "commit" => Log(w)[i].tx = w[i].tx /\ Log(w)[i].state = w[i].state
    <2>1. w[i] \in Frame
      OBVIOUS
    <2>2. w[i].type = "commit" => w[i].tx # NoTx
      BY <2>1, ConstantsAssumption DEF Frame
    <2>3. Log(w)[i] = Entry(w[i])
      BY LogShape, Zenon
    <2> QED
      BY <2>2, <2>3 DEF Entry
  <1>2. Promise!Commits(Log(w)) = CommitsUpTo(w, Len(w))
    BY <1>1, LogShape DEF Promise!Commits, CommitsUpTo
  <1>3. \A i \in CommitsUpTo(w, Len(w)) :
            Log(w)[i].tx = w[i].tx /\ Log(w)[i].state = w[i].state
    BY <1>1 DEF CommitsUpTo
  <1>4. Promise!Committed(Log(w)) = CommittedUpTo(w, Len(w))
    BY <1>2, <1>3 DEF Promise!Committed, CommittedUpTo
  <1>5. \A s : Promise!IsLast(Log(w), s) <=> IsStateAt(w, Len(w), s)
    BY <1>2, <1>3 DEF Promise!IsLast, IsStateAt
  <1> QED
    BY <1>2, <1>4, <1>5

LEMMA LogAppend ==
    ASSUME NEW w \in Seq(Frame), NEW f \in Frame
    PROVE  Log(Append(w, f)) = Append(Log(w), Entry(f))
  <1> DEFINE l == Log(w)
             T == {Entry(g) : g \in Frame}
             e == Entry(f)
             x == Append(w, f)
             y == Append(l, e)
  <1>1. x \in Seq(Frame) /\ Len(x) = Len(w) + 1 /\ x[Len(w) + 1] = f
        /\ \A i \in 1 .. Len(w) : x[i] = w[i]
    BY WalAppend
  <1>2. /\ l \in Seq(T) /\ Len(l) = Len(w) /\ Len(w) \in Nat /\ e \in T
        /\ \A i \in 1 .. Len(w) : l[i] = Entry(w[i])
    BY LogShape, Zenon
  <1> HIDE DEF l, T, e
  <1>3. y \in Seq(T) /\ Len(y) = Len(w) + 1 /\ y[Len(w) + 1] = e
    BY <1>2
  <1>4. \A i \in 1 .. Len(w) : y[i] = l[i]
    BY <1>2
  <1> HIDE DEF x, y
  <1>5. y = [i \in 1 .. Len(w) + 1 |-> y[i]]
    BY <1>3
  <1>6. ASSUME NEW i \in 1 .. Len(w) + 1 PROVE y[i] = Entry(x[i])
    <2>1. i \in 1 .. Len(w) \/ i = Len(w) + 1
      BY <1>2
    <2> QED
      BY <1>2, <1>1, <1>3, <1>4, <2>1 DEF e
  <1>7. Log(x) = [i \in 1 .. Len(w) + 1 |-> Entry(x[i])]
    BY <1>1 DEF Log
  <1>8. Log(x) = y
    BY <1>5, <1>6, <1>7
  <1> QED
    BY <1>8 DEF x, y, l, e

LEMMA LogCut ==
    ASSUME NEW w \in Seq(Frame), NEW n \in 0 .. Len(w)
    PROVE  Log(SubSeq(w, 1, n)) = SubSeq(Log(w), 1, n)
  <1> DEFINE x == SubSeq(w, 1, n)
  <1>1. Len(x) = n /\ \A i \in 1 .. n : x[i] = w[i]
    BY WalCut
  <1> HIDE DEF x
  <1>2. Log(x) = [i \in 1 .. n |-> Entry(w[i])]
    BY <1>1 DEF Log
  <1>3. SubSeq(Log(w), 1, n) = [i \in 1 .. n |-> Log(w)[i]]
    BY LogShape
  <1>4. \A i \in 1 .. n : Log(w)[i] = Entry(w[i])
    <2>1. \A i \in 1 .. Len(w) : Log(w)[i] = Entry(w[i])
      BY LogShape, Zenon
    <2> QED
      BY <2>1
  <1> QED
    BY <1>2, <1>3, <1>4 DEF x

\* A frame that is no COMMIT is a mark.
LEMMA MarkOf ==
    ASSUME NEW f, f.type # "commit"
    PROVE  Entry(f) = Promise!Mark
  BY DEF Entry, Promise!Mark

LEMMA InitPromise == Init => Promise!Init
  <1> SUFFICES ASSUME Init PROVE Promise!Init
    OBVIOUS
  <1>1. wal = <<>> /\ wal \in Seq(Frame) /\ Len(wal) = 0
    BY DEF Init
  <1>2. Log(wal) = <<>>
    BY <1>1 DEF Log
  <1>3. Promise!IsLast(Log(wal), state) /\ Promise!Committed(Log(wal)) = committed
    BY <1>1, LogSays, NoFrames DEF Init
  <1>4. View = {[state |-> state, committed |-> Promise!Committed(Log(wal))]}
    BY <1>3 DEF View, Init
  <1>5. Promise!Shows(Log(wal), View)
    BY <1>3, <1>4 DEF Promise!Shows
  <1> QED
    BY <1>1, <1>2, <1>5 DEF Promise!Init, Init, View, Log

\* What an idle handle shows is the end of the log.
EndShown == Promise!Shows(Log(wal), View)

LEMMA IdleShows == DurableInv /\ pc = "idle" => EndShown
  <1> SUFFICES ASSUME DurableInv, pc = "idle" PROVE EndShown
    OBVIOUS
  <1>1. committed = CommittedUpTo(wal, Len(wal)) /\ IsStateAt(wal, Len(wal), state)
    BY DEF DurableInv, MemoryExact, Live
  <1>2. Promise!Committed(Log(wal)) = committed /\ Promise!IsLast(Log(wal), state)
    BY <1>1, LogSays DEF DurableInv, TypeOK
  <1> QED
    BY <1>2 DEF Promise!Shows, View, EndShown

LEMMA IdleShowsNext == DurableInv' /\ pc' = "idle" => EndShown'
  <1>1. (DurableInv /\ pc = "idle")' => EndShown'
    BY IdleShows, PTL
  <1> QED
    BY <1>1

\* The abstract steps, by the frames they append and what they show.
LEMMA HideStep ==
    ASSUME TypeOK, View' = {}, synced' = synced, acked' = acked,
           \/ wal' = wal
           \/ \E f \in Frame : f.type # "commit" /\ wal' = Append(wal, f)
    PROVE  [Promise!Next]_(Promise!vars)
  <1>1. Log(wal') \in {Log(wal), Append(Log(wal), Promise!Mark)}
    BY LogAppend, MarkOf DEF TypeOK
  <1> QED
    BY <1>1 DEF Promise!Next, Promise!Hide, Log, View

LEMMA ShowStep ==
    ASSUME DurableInv', wal' = wal, synced' = synced, acked' = acked, pc' = "idle"
    PROVE  [Promise!Next]_(Promise!vars)
  <1>1. EndShown'
    BY IdleShowsNext
  <1> QED
    BY <1>1 DEF EndShown, Promise!Next, Promise!Show, Log, View

\* Neither files nor marks show: the log, its stable part and the view stay.
LEMMA StillStep ==
    ASSUME View' = View, wal' = wal, synced' = synced, acked' = acked
    PROVE  [Promise!Next]_(Promise!vars)
  BY DEF Promise!vars, Log, View

LEMMA CommitStep ==
    ASSUME DurableInv, JobInv, AppendCommit
    PROVE  [Promise!Next]_(Promise!vars)
  <1> DEFINE f == CommitFrame(jobTx, jobOps, Apply(state, jobOps))
             l == Log(wal)
  <1>1. f \in Frame /\ wal' = Append(wal, f) /\ jobTx \in Tx
    BY FrameType, ApplyType DEF AppendCommit, AppendFrame, DurableInv, TypeOK
  <1>2. Entry(f) = [tx |-> jobTx, state |-> Apply(state, jobOps)]
    BY DEF Entry, CommitFrame
  <1>3. /\ committed = CommittedUpTo(wal, Len(wal)) /\ IsStateAt(wal, Len(wal), state)
        /\ jobOps \in Batches /\ jobTx \notin committed
    BY DEF AppendCommit, DurableInv, MemoryExact, Live, JobInv
  <1>4. jobTx \notin Promise!Committed(l) /\ Promise!IsLast(l, state)
    BY <1>3, LogSays DEF DurableInv, TypeOK
  <1>5. state \in {EmptyState} \cup {l[i].state : i \in Promise!Commits(l)}
    BY <1>4 DEF Promise!IsLast
  <1>6. Apply(state, jobOps) \in AfterOne(state)
    BY <1>3 DEF AfterOne
  <1>7. Log(wal') = Append(l, [tx |-> jobTx, state |-> Apply(state, jobOps)])
    BY <1>1, <1>2, LogAppend DEF DurableInv, TypeOK
  <1>8. View = {} /\ View' = {} /\ synced' = synced /\ acked' = acked
    BY DEF AppendCommit, View
  <1>9. \E s \in {EmptyState} \cup {l[i].state : i \in Promise!Commits(l)} :
           /\ Promise!IsLast(l, s)
           /\ \E r \in AfterOne(s) : Log(wal') = Append(l, [tx |-> jobTx, state |-> r])
    BY <1>4, <1>5, <1>6, <1>7, Zenon
  <1>10. Promise!Commit(jobTx)
    BY <1>4, <1>8, <1>9, Zenon DEF Promise!Commit, Log, View
  <1> QED
    BY <1>1, <1>10 DEF Promise!Next

LEMMA ConfirmStep ==
    ASSUME DurableInv, DurableInv', SyncCommit
    PROVE  [Promise!Next]_(Promise!vars)
  <1>1. EndShown' /\ wal' = wal /\ synced' = Len(wal) /\ acked' = acked \cup {jobTx}
    BY IdleShowsNext DEF SyncCommit
  <1>2. jobTx \in Tx /\ jobTx \in CommittedUpTo(wal, Len(wal))
    BY DEF SyncCommit, DurableInv, TypeOK, MemoryExact, CommittedUpTo, CommitsUpTo
  <1>3. jobTx \in Promise!Committed(Log(wal)) /\ Len(Log(wal)) = Len(wal)
    BY <1>2, LogSays, LogShape DEF DurableInv, TypeOK
  <1>4. Promise!Confirm(jobTx)
    BY <1>1, <1>3 DEF Promise!Confirm, EndShown, Log, View
  <1> QED
    BY <1>2, <1>4 DEF Promise!Next

LEMMA HardenStep ==
    ASSUME DurableInv, SyncCheckpoint
    PROVE  [Promise!Next]_(Promise!vars)
  <1>1. Len(Log(wal)) = Len(wal)
    BY LogShape DEF DurableInv, TypeOK
  <1> QED
    BY <1>1 DEF SyncCheckpoint, Promise!Next, Promise!Harden, Log, View

\* An open that repairs removes one mark, an open that need not nothing.
LEMMA OpenStep ==
    ASSUME DurableInv, NEW repair \in RepairModes, NEW n \in 0 .. Len(wal), Open(repair, n)
    PROVE  [Promise!Next]_(Promise!vars)
  <1> USE DEF DurableInv
  <1>1. /\ wal \in Seq(Frame) /\ Len(wal) \in Nat /\ n \in Nat
        /\ wal' = SubSeq(wal, 1, n) /\ acked' = acked /\ View = {} /\ View' = {}
    BY DEF Open, Opened, TypeOK, View
  <1>2. CASE n = Len(wal)
    <2>1. wal' = wal /\ synced' = synced
      BY <1>1, <1>2 DEF Open
    <2> QED
      BY <1>1, <2>1, StillStep
  <1>3. CASE n < Len(wal)
    <2>1. n + 1 \in 1 .. Len(wal) /\ wal[n + 1].type = "torn"
      BY <1>1, <1>3 DEF Open, ValidPrefix
    <2>2. n = Len(wal) - 1 /\ synced' = n
      BY <1>1, <1>3, <2>1 DEF TornLast, Open
    <2>3. /\ Len(Log(wal)) = Len(wal) /\ Log(wal)[Len(wal)] = Promise!Mark
          /\ Log(wal') = SubSeq(Log(wal), 1, Len(wal) - 1)
      <3>1. Log(wal)[n + 1] = Entry(wal[n + 1])
        BY <1>1, <2>1, LogShape, Zenon
      <3>2. Log(wal') = SubSeq(Log(wal), 1, n)
        BY <1>1, LogCut
      <3>3. Entry(wal[n + 1]) = Promise!Mark /\ Len(Log(wal)) = Len(wal)
        BY <1>1, <2>1, LogShape, MarkOf
      <3> QED
        BY <1>1, <2>1, <2>2, <3>1, <3>2, <3>3
    <2>4. Log(wal) # <<>>
      BY <1>1, <1>3, <2>3
    <2>5. Promise!Repair
      BY <1>1, <2>2, <2>3, <2>4 DEF Promise!Repair, Log, View
    <2> QED
      BY <2>5 DEF Promise!Next
  <1> QED
    BY <1>1, <1>2, <1>3

LEMMA CutStep ==
    ASSUME DurableInv, NEW n \in 0 .. Len(wal), PowerLoss(n)
    PROVE  [Promise!Next]_(Promise!vars)
  <1>1. wal \in Seq(Frame) /\ Len(Log(wal)) = Len(wal) /\ n \in synced .. Len(Log(wal))
    BY LogShape DEF DurableInv, TypeOK, PowerLoss
  <1> DEFINE cut == SubSeq(wal, 1, n)
  <1>2. cut \in Seq(Frame) /\ Log(cut) = SubSeq(Log(wal), 1, n)
    BY <1>1, WalCut, LogCut
  <1>3. wal' \in {cut, Append(cut, TornFrame)}
    BY DEF PowerLoss
  <1>4. TornFrame \in Frame /\ Entry(TornFrame) = Promise!Mark
    BY FrameType, MarkOf DEF DurableInv, TornFrame
  <1> HIDE DEF cut
  <1>5. Log(wal') \in {SubSeq(Log(wal), 1, n), Append(SubSeq(Log(wal), 1, n), Promise!Mark)}
    BY <1>2, <1>3, <1>4, LogAppend
  <1>6. synced' = n /\ View' = {} /\ acked' = acked
    BY DEF PowerLoss, View
  <1>7. Promise!Cut(n)
    BY <1>1, <1>5, <1>6 DEF Promise!Cut, Log, View
  <1> QED
    BY <1>1, <1>7 DEF Promise!Next, Log

\* Every step of the database maps to a step of the abstract log, or to none.
LEMMA PromiseStep ==
    ASSUME ReuseAfterError = FALSE
    PROVE  DurableInv /\ DurableInv' /\ JobInv /\ [Next]_vars => [Promise!Next]_(Promise!vars)
  <1> SUFFICES ASSUME DurableInv, DurableInv', JobInv, [Next]_vars
               PROVE  [Promise!Next]_(Promise!vars)
    OBVIOUS
  <1> USE DEF DurableInv
  <1>1. ASSUME NEW f \in Frame, f.type # "commit", wal' \in {wal, Append(wal, f)},
               synced' = synced, acked' = acked, pc' # "idle"
        PROVE  [Promise!Next]_(Promise!vars)
    BY <1>1, HideStep DEF View
  <1>2. ASSUME wal' = wal, synced' = synced, acked' = acked, pc' # "idle"
        PROVE  [Promise!Next]_(Promise!vars)
    BY <1>2, HideStep DEF View
  <1>3. CASE Commit
    <2>1. ASSUME NEW t \in Tx, NEW b \in Batches, NEW slot \in Slots, WriteSegment(t, b, slot)
          PROVE  [Promise!Next]_(Promise!vars)
      BY <1>2, <2>1 DEF WriteSegment
    <2>2. CASE AppendBegin
      <3> DEFINE f == BeginFrame(jobTx, jobOps)
      <3>1. f \in Frame /\ f.type # "commit"
        BY <2>2, FrameType DEF AppendBegin, TypeOK, BeginFrame
      <3>2. wal' = Append(wal, f)
        BY <2>2 DEF AppendBegin, AppendFrame
      <3> HIDE DEF f
      <3> QED
        BY <1>1, <2>2, <3>1, <3>2 DEF AppendBegin
    <2>3. ASSUME NEW p \in Pair, AppendOp(p) PROVE [Promise!Next]_(Promise!vars)
      <3> DEFINE f == OpFrame(jobTx, p)
      <3>1. f \in Frame /\ f.type # "commit"
        BY <2>3, FrameType DEF AppendOp, TypeOK, OpFrame
      <3>2. wal' = Append(wal, f)
        BY <2>3 DEF AppendOp, AppendFrame
      <3> HIDE DEF f
      <3> QED
        BY <1>1, <2>3, <3>1, <3>2 DEF AppendOp
    <2> QED
      BY <1>3, <2>1, <2>2, <2>3, CommitStep, ConfirmStep DEF Commit
  <1>4. CASE CheckpointSteps
    <2>1. CASE AppendCheckpoint
      <3> DEFINE f == CheckpointFrame(state)
      <3>1. f \in Frame /\ f.type # "commit"
        BY FrameType DEF CheckpointFrame
      <3>2. wal' = Append(wal, f)
        BY <2>1 DEF AppendCheckpoint, AppendFrame
      <3> HIDE DEF f
      <3> QED
        BY <1>1, <2>1, <3>1, <3>2 DEF AppendCheckpoint
    <2>2. CASE CheckpointConflict
      BY <1>2, <2>2 DEF CheckpointConflict, disk
    <2>3. ASSUME NEW ok \in DirSync, WriteCheckpoint(ok) \/ WriteManifest(ok)
          PROVE  [Promise!Next]_(Promise!vars)
      BY <1>2, <2>3 DEF WriteCheckpoint, WriteManifest
    <2>4. ASSUME NEW ok \in DirSync, PublishHead(ok)
          PROVE  [Promise!Next]_(Promise!vars)
      <3>1. wal' = wal /\ synced' = synced /\ acked' = acked
        BY <2>4 DEF PublishHead
      <3> QED
        BY <1>2, <3>1, ShowStep
    <2> QED
      BY <1>4, <2>1, <2>2, <2>3, <2>4, HardenStep DEF CheckpointSteps
  <1>5. CASE Recovery
    <2>1. CASE OpenRefused \/ ReplayPass \/ ReplayBegin \/ ReplayOp \/ ReplayCommit
               \/ ReplayRefused
      BY <1>2, <2>1 DEF OpenRefused, ReplayPass, ReplayBegin, ReplayOp, ReplayCommit,
                        ReplayRefused, Replaying, disk
    <2>2. CASE FinishOpen
      BY <2>2, ShowStep DEF FinishOpen, disk
    <2> QED
      BY <1>5, <2>1, <2>2, OpenStep DEF Recovery
  <1>6. CASE Environment
    <2>1. TornFrame \in Frame /\ TornFrame.type # "commit"
      BY FrameType DEF TornFrame
    <2>2. CASE AppendFails
      BY <1>1, <2>1, <2>2 DEF AppendFails
    <2>3. CASE SyncFails \/ DropHandle
      BY <1>2, <2>3 DEF SyncFails, DropHandle, disk
    <2>4. CASE Kill
      BY <1>1, <2>1, <2>4 DEF Kill
    <2>5. CASE KeepHandle
      BY <2>5 DEF KeepHandle
    <2> QED
      BY <1>6, <2>2, <2>3, <2>4, <2>5, CutStep DEF Environment
  <1>7. CASE UNCHANGED vars
    <2>1. View' = View /\ wal' = wal /\ synced' = synced /\ acked' = acked
      BY <1>7 DEF vars, disk, View
    <2> QED
      BY <2>1, StillStep
  <1> QED
    BY <1>3, <1>4, <1>5, <1>6, <1>7 DEF Next

\* The database implements DurableLog.
THEOREM PromiseKept ==
    ASSUME ReuseAfterError = FALSE
    PROVE  Spec => KeepsPromise
  <1>1. JobInv /\ [Next]_vars => JobInv'
    BY JobStep
  <1> QED
    BY <1>1, InitJob, InitPromise, PromiseStep, DurableInvariant, PTL
       DEF Spec, KeepsPromise, Promise!Spec

-----------------------------------------------------------------------------
(* Open refuses nothing the code wrote, when every attempt has a new id. *)

\* Frame b begins a transaction, and every frame from there to i is of its operations.
RunFrom(w, b, i) ==
    /\ w[b].type = "begin"
    /\ \A j \in b + 1 .. i - 1 : w[j].type = "op" /\ w[j].tx = w[b].tx

OpsBetween(w, b, i) == UNION {w[j].ops : j \in b + 1 .. i - 1}

\* Frame i of the log stands behind frames that replay needs to accept it.
FrameFits(w, i) ==
    /\ w[i].type = "begin" => w[i].ops # {} /\ \A j \in 1 .. i - 1 : w[j].tx # w[i].tx
    /\ w[i].type \in {"op", "commit"} =>
          \E b \in 1 .. i - 1 : RunFrom(w, b, i) /\ w[b].tx = w[i].tx
    /\ w[i].type = "commit" =>
          \A b \in 1 .. i - 1 : RunFrom(w, b, i) =>
              /\ OpsBetween(w, b, i) = w[b].ops /\ w[i].ops = w[b].ops
              /\ \E s \in State : IsStateAt(w, b, s) /\ w[i].state = Apply(s, w[b].ops)

LogOrdered == \A i \in 1 .. Len(wal) : FrameFits(wal, i)

JobOrdered ==
    /\ pc = "begin" =>
          jobOps # {} /\ todo = jobOps /\ \A i \in 1 .. Len(wal) : wal[i].tx # jobTx
    /\ pc = "ops" =>
          \E b \in 1 .. Len(wal) :
              /\ RunFrom(wal, b, Len(wal) + 1)
              /\ wal[b].tx = jobTx /\ wal[b].ops = jobOps
              /\ OpsBetween(wal, b, Len(wal) + 1) \cup todo = jobOps

ReplayOrdered ==
    pc = "replay" =>
        /\ \A t \in Tx : begun[t] # {} => \E i \in 1 .. rpos - 1 : wal[i].tx = t
        /\ \A b \in 1 .. rpos - 1 :
              b > CheckpointLsn /\ RunFrom(wal, b, rpos) =>
                  /\ begun[wal[b].tx] = wal[b].ops
                  /\ got[wal[b].tx] = OpsBetween(wal, b, rpos)

OrderInv == LogOrdered /\ JobOrdered /\ ReplayOrdered /\ NeverRefused

\* Whether a frame fits depends on the frames before it.
LEMMA FitsInPrefix ==
    ASSUME NEW w, NEW x, NEW i \in Nat, \A j \in 1 .. i : x[j] = w[j], FrameFits(w, i), i >= 1
    PROVE  FrameFits(x, i)
  <1>1. ASSUME NEW b \in 1 .. i - 1
        PROVE  /\ RunFrom(x, b, i) <=> RunFrom(w, b, i)
               /\ OpsBetween(x, b, i) = OpsBetween(w, b, i)
               /\ \A s : IsStateAt(x, b, s) <=> IsStateAt(w, b, s)
               /\ x[b] = w[b]
    <2>1. b \in Nat /\ b \in 1 .. i /\ \A j \in 1 .. b : x[j] = w[j]
      OBVIOUS
    <2>2. \A j \in b + 1 .. i - 1 : x[j] = w[j]
      OBVIOUS
    <2>3. \A s : IsStateAt(x, b, s) <=> IsStateAt(w, b, s)
      BY <2>1, SamePrefix
    <2>4. OpsBetween(x, b, i) = OpsBetween(w, b, i)
      BY <2>2 DEF OpsBetween
    <2> QED
      BY <2>1, <2>2, <2>3, <2>4 DEF RunFrom
  <1>2. x[i] = w[i] /\ \A j \in 1 .. i - 1 : x[j] = w[j]
    OBVIOUS
  <1> QED
    BY <1>1, <1>2 DEF FrameFits

LEMMA OrderedPrefix ==
    ASSUME LogOrdered, NEW n \in Nat, n <= Len(wal), Len(wal) \in Nat,
           \A i \in 1 .. n : wal'[i] = wal[i]
    PROVE  \A i \in 1 .. n : FrameFits(wal', i)
  <1> SUFFICES ASSUME NEW i \in 1 .. n PROVE FrameFits(wal', i)
    OBVIOUS
  <1>1. i \in Nat /\ i >= 1 /\ i \in 1 .. Len(wal) /\ \A j \in 1 .. i : wal'[j] = wal[j]
    OBVIOUS
  <1>2. FrameFits(wal, i)
    BY <1>1 DEF LogOrdered
  <1> QED
    BY <1>1, <1>2, FitsInPrefix

\* One frame more, which fits.
LEMMA OrderedAppend ==
    ASSUME TypeOK, LogOrdered, NEW f \in Frame, wal' = Append(wal, f),
           FrameFits(wal', Len(wal) + 1)
    PROVE  LogOrdered'
  <1>1. /\ Len(wal) \in Nat /\ Len(wal') = Len(wal) + 1
        /\ \A i \in 1 .. Len(wal) : wal'[i] = wal[i]
    BY WalAppend DEF TypeOK
  <1>2. \A i \in 1 .. Len(wal) : FrameFits(wal', i)
    BY <1>1, OrderedPrefix
  <1>3. \A i \in 1 .. Len(wal') : i \in 1 .. Len(wal) \/ i = Len(wal) + 1
    BY <1>1
  <1> QED
    BY <1>2, <1>3 DEF LogOrdered

\* A frame that opens, continues or ends no transaction fits anywhere.
LEMMA PlainFits ==
    ASSUME NEW w, NEW i, w[i].type \notin {"begin", "op", "commit"}
    PROVE  FrameFits(w, i)
  BY DEF FrameFits

LEMMA OrderedPlain ==
    ASSUME TypeOK, LogOrdered, NEW f \in Frame, f.type \in {"checkpoint", "torn"},
           wal' \in {wal, Append(wal, f)}
    PROVE  LogOrdered'
  <1>1. CASE wal' = wal
    BY <1>1 DEF LogOrdered
  <1>2. CASE wal' = Append(wal, f)
    <2>1. wal'[Len(wal) + 1] = f
      BY <1>2, WalAppend DEF TypeOK
    <2> QED
      BY <1>2, <2>1, PlainFits, OrderedAppend
  <1> QED
    BY <1>1, <1>2

\* The state after n frames is one.
LEMMA StateUnique ==
    ASSUME NEW w, NEW n \in Nat, NEW s, NEW t, IsStateAt(w, n, s), IsStateAt(w, n, t)
    PROVE  s = t
  <1>1. CASE CommitsUpTo(w, n) = {}
    BY <1>1 DEF IsStateAt
  <1>2. CASE CommitsUpTo(w, n) # {}
    <2>1. PICK i \in CommitsUpTo(w, n) : s = w[i].state /\ \A j \in CommitsUpTo(w, n) : j <= i
      BY <1>2 DEF IsStateAt
    <2>2. PICK j \in CommitsUpTo(w, n) : t = w[j].state /\ \A k \in CommitsUpTo(w, n) : k <= j
      BY <1>2 DEF IsStateAt
    <2>3. i \in Nat /\ j \in Nat /\ i <= j /\ j <= i
      BY <2>1, <2>2 DEF CommitsUpTo
    <2> QED
      BY <2>1, <2>2, <2>3
  <1> QED
    BY <1>1, <1>2

\* Operations commit nothing: the state behind a BEGIN is the one behind its operations.
LEMMA RunKeepsState ==
    ASSUME NEW w, NEW b \in Nat, NEW n \in Nat, 1 <= b, b <= n, RunFrom(w, b, n + 1)
    PROVE  /\ \A s : IsStateAt(w, n, s) <=> IsStateAt(w, b, s)
           /\ CommittedUpTo(w, n) = CommittedUpTo(w, b)
  <1>1. \A j \in b .. n : w[j].type # "commit"
    BY DEF RunFrom
  <1>2. CommitsUpTo(w, n) = CommitsUpTo(w, b)
    BY <1>1 DEF CommitsUpTo
  <1> QED
    BY <1>2 DEF IsStateAt, CommittedUpTo

LEMMA RunUnique ==
    ASSUME NEW w, NEW i \in Nat, NEW b \in 1 .. i - 1, NEW c \in 1 .. i - 1,
           RunFrom(w, b, i), RunFrom(w, c, i)
    PROVE  b = c
  <1>1. b < c => w[c].type = "op"
    BY DEF RunFrom
  <1>2. c < b => w[b].type = "op"
    BY DEF RunFrom
  <1> QED
    BY <1>1, <1>2 DEF RunFrom

LEMMA OrderBegin ==
    ASSUME DurableInv, OrderInv, AppendBegin
    PROVE  OrderInv'
  <1> DEFINE f == BeginFrame(jobTx, jobOps)
             n == Len(wal) + 1
  <1>1. f \in Frame /\ f.type = "begin" /\ f.tx = jobTx /\ f.ops = jobOps
    BY FrameType DEF AppendBegin, DurableInv, TypeOK, BeginFrame
  <1>2. wal' = Append(wal, f)
    BY DEF AppendBegin, AppendFrame
  <1> HIDE DEF f
  <1>3. /\ Len(wal) \in Nat /\ Len(wal') = n /\ wal'[n] = f
        /\ \A i \in 1 .. Len(wal) : wal'[i] = wal[i]
    BY <1>1, <1>2, WalAppend DEF DurableInv, TypeOK
  <1>4. jobOps # {} /\ todo = jobOps /\ \A i \in 1 .. Len(wal) : wal[i].tx # jobTx
    BY DEF AppendBegin, OrderInv, JobOrdered
  <1>5. FrameFits(wal', n)
    <2>1. \A j \in 1 .. n - 1 : wal'[j].tx # jobTx
      BY <1>3, <1>4
    <2> QED
      BY <1>1, <1>3, <1>4, <2>1 DEF FrameFits
  <1>6. LogOrdered'
    BY <1>1, <1>2, <1>5, OrderedAppend DEF DurableInv, OrderInv
  <1>7. RunFrom(wal', n, n + 1) /\ OpsBetween(wal', n, n + 1) = {}
    <2>1. n + 1 .. n + 1 - 1 = {}
      BY <1>3
    <2> QED
      BY <1>1, <1>3, <2>1 DEF RunFrom, OpsBetween
  <1>8. pc' = "ops" /\ UNCHANGED <<jobTx, jobOps, todo>>
    BY DEF AppendBegin, job
  <1>9. JobOrdered'
    <2>1. n \in 1 .. Len(wal')
      BY <1>3
    <2> QED
      BY <1>1, <1>3, <1>4, <1>7, <1>8, <2>1 DEF JobOrdered
  <1> QED
    BY <1>6, <1>8, <1>9 DEF OrderInv, ReplayOrdered, NeverRefused

\* What one operation adds to those written.
LEMMA OpsGrow ==
    ASSUME NEW w, NEW x, NEW b \in Nat, NEW n \in Nat, 1 <= b, b <= n,
           \A i \in 1 .. n : x[i] = w[i], RunFrom(w, b, n + 1)
    PROVE  /\ OpsBetween(x, b, n + 1) = OpsBetween(w, b, n + 1)
           /\ OpsBetween(x, b, n + 2) = OpsBetween(w, b, n + 1) \cup x[n + 1].ops
           /\ RunFrom(x, b, n + 1)
           /\ x[n + 1].type = "op" /\ x[n + 1].tx = w[b].tx => RunFrom(x, b, n + 2)
  <1>1. \A i \in b + 1 .. n : x[i] = w[i]
    OBVIOUS
  <1>2. b + 1 .. n + 2 - 1 = (b + 1 .. n) \cup {n + 1} /\ b + 1 .. n + 1 - 1 = b + 1 .. n
    OBVIOUS
  <1>3. x[b] = w[b]
    OBVIOUS
  <1>4. OpsBetween(x, b, n + 1) = OpsBetween(w, b, n + 1)
    BY <1>1, <1>2 DEF OpsBetween
  <1>5. OpsBetween(x, b, n + 2) = OpsBetween(x, b, n + 1) \cup x[n + 1].ops
    BY <1>2 DEF OpsBetween
  <1>6. \A i \in b + 1 .. n : x[i].type = "op" /\ x[i].tx = w[b].tx
    BY <1>1, <1>2 DEF RunFrom
  <1> QED
    BY <1>2, <1>3, <1>4, <1>5, <1>6 DEF RunFrom

LEMMA OrderOp ==
    ASSUME DurableInv, OrderInv, NEW p \in Pair, AppendOp(p)
    PROVE  OrderInv'
  <1> DEFINE f == OpFrame(jobTx, p)
             n == Len(wal)
  <1>1. f \in Frame /\ f.type = "op" /\ f.tx = jobTx /\ f.ops = {p}
    BY FrameType DEF AppendOp, DurableInv, TypeOK, OpFrame
  <1>2. wal' = Append(wal, f)
    BY DEF AppendOp, AppendFrame
  <1> HIDE DEF f
  <1>3. /\ n \in Nat /\ Len(wal') = n + 1 /\ wal'[n + 1] = f
        /\ \A i \in 1 .. n : wal'[i] = wal[i]
    BY <1>1, <1>2, WalAppend DEF DurableInv, TypeOK
  <1>4. PICK b \in 1 .. n :
            /\ RunFrom(wal, b, n + 1)
            /\ wal[b].tx = jobTx /\ wal[b].ops = jobOps
            /\ OpsBetween(wal, b, n + 1) \cup todo = jobOps
    BY DEF AppendOp, OrderInv, JobOrdered
  <1>5. /\ OpsBetween(wal', b, n + 2) = OpsBetween(wal, b, n + 1) \cup {p}
        /\ RunFrom(wal', b, n + 1) /\ RunFrom(wal', b, n + 2)
        /\ wal'[b] = wal[b] /\ b \in 1 .. n + 1 /\ b \in 1 .. (n + 1) - 1
    <2>1. b \in Nat /\ 1 <= b /\ b <= n /\ b \in 1 .. n + 1 /\ b \in 1 .. (n + 1) - 1
      BY <1>3
    <2>2. wal'[b] = wal[b]
      BY <1>3
    <2>3. /\ OpsBetween(wal', b, n + 2) = OpsBetween(wal, b, n + 1) \cup wal'[n + 1].ops
          /\ RunFrom(wal', b, n + 1)
          /\ wal'[n + 1].type = "op" /\ wal'[n + 1].tx = wal[b].tx => RunFrom(wal', b, n + 2)
      BY <1>3, <1>4, <2>1, OpsGrow
    <2> QED
      BY <1>1, <1>3, <1>4, <2>1, <2>2, <2>3
  <1>6. FrameFits(wal', n + 1)
    BY <1>1, <1>3, <1>4, <1>5 DEF FrameFits
  <1>7. LogOrdered'
    BY <1>1, <1>2, <1>6, OrderedAppend DEF DurableInv, OrderInv
  <1>8. pc' = "ops" /\ jobTx' = jobTx /\ jobOps' = jobOps /\ todo' = todo \ {p} /\ p \in todo
    BY DEF AppendOp
  <1>9. JobOrdered'
    <2>1. OpsBetween(wal', b, n + 2) \cup todo' = jobOps
      BY <1>4, <1>5, <1>8
    <2>2. Len(wal') + 1 = n + 2
      BY <1>3
    <2> QED
      BY <1>3, <1>4, <1>5, <1>8, <2>1, <2>2 DEF JobOrdered
  <1> QED
    BY <1>7, <1>8, <1>9 DEF OrderInv, ReplayOrdered, NeverRefused

LEMMA OrderCommit ==
    ASSUME DurableInv, OrderInv, AppendCommit
    PROVE  OrderInv'
  <1> DEFINE f == CommitFrame(jobTx, jobOps, Apply(state, jobOps))
             n == Len(wal)
  <1>1. /\ f \in Frame /\ f.type = "commit" /\ f.tx = jobTx /\ f.ops = jobOps
        /\ f.state = Apply(state, jobOps)
    BY FrameType, ApplyType DEF AppendCommit, DurableInv, TypeOK, CommitFrame
  <1>2. wal' = Append(wal, f)
    BY DEF AppendCommit, AppendFrame
  <1> HIDE DEF f
  <1>3. /\ n \in Nat /\ Len(wal') = n + 1 /\ wal'[n + 1] = f
        /\ \A i \in 1 .. n : wal'[i] = wal[i]
    BY <1>1, <1>2, WalAppend DEF DurableInv, TypeOK
  <1>4. PICK b \in 1 .. n :
            /\ RunFrom(wal, b, n + 1)
            /\ wal[b].tx = jobTx /\ wal[b].ops = jobOps
            /\ OpsBetween(wal, b, n + 1) = jobOps
    BY DEF AppendCommit, OrderInv, JobOrdered
  <1>5. /\ OpsBetween(wal', b, n + 1) = jobOps /\ RunFrom(wal', b, n + 1)
        /\ wal'[b] = wal[b] /\ b \in 1 .. (n + 1) - 1 /\ b \in Nat /\ 1 <= b /\ b <= n
    <2>1. b \in Nat /\ 1 <= b /\ b <= n /\ b \in 1 .. (n + 1) - 1 /\ wal'[b] = wal[b]
      BY <1>3
    <2> QED
      BY <1>3, <1>4, <2>1, OpsGrow
  <1>6. IsStateAt(wal', b, state) /\ state \in State
    <2>1. IsStateAt(wal, n, state) /\ state \in State
      BY DEF AppendCommit, DurableInv, MemoryExact, Live, TypeOK
    <2>2. IsStateAt(wal, b, state)
      BY <1>3, <1>4, <1>5, <2>1, RunKeepsState
    <2>3. \A i \in 1 .. b : wal'[i] = wal[i]
      BY <1>3, <1>5
    <2> QED
      BY <1>5, <2>1, <2>2, <2>3, SamePrefix
  <1>7. FrameFits(wal', n + 1)
    <2>1. ASSUME NEW c \in 1 .. (n + 1) - 1, RunFrom(wal', c, n + 1)
          PROVE  c = b
      BY <1>3, <1>5, <2>1, RunUnique
    <2> QED
      BY <1>1, <1>3, <1>4, <1>5, <1>6, <2>1 DEF FrameFits
  <1>8. LogOrdered'
    BY <1>1, <1>2, <1>7, OrderedAppend DEF DurableInv, OrderInv
  <1> QED
    BY <1>8 DEF AppendCommit, OrderInv, JobOrdered, ReplayOrdered, NeverRefused

LEMMA OrderReplay ==
    ASSUME DurableInv, OrderInv, ReplayPass \/ ReplayBegin \/ ReplayOp \/ ReplayCommit
    PROVE  OrderInv'
  <1>1. /\ pc = "replay" /\ pc' = "replay" /\ wal' = wal /\ head' = head
        /\ rpos \in Nat \ {0} /\ rpos <= Len(wal) /\ rpos' = rpos + 1 /\ Len(wal) \in Nat
        /\ wal[rpos].type # "torn" => wal[rpos].lsn = rpos
    <2>1. rpos \in 1 .. Len(wal)
      BY DEF ReplayPass, ReplayBegin, ReplayOp, ReplayCommit, Replaying, DurableInv, TypeOK
    <2> QED
      BY <2>1 DEF ReplayPass, ReplayBegin, ReplayOp, ReplayCommit, Replaying, disk, DurableInv,
                  TypeOK, LsnIsPosition
  <1>2. /\ \A t \in Tx : begun[t] # {} => \E i \in 1 .. rpos - 1 : wal[i].tx = t
        /\ \A b \in 1 .. rpos - 1 :
              b > CheckpointLsn /\ RunFrom(wal, b, rpos) =>
                  /\ begun[wal[b].tx] = wal[b].ops
                  /\ got[wal[b].tx] = OpsBetween(wal, b, rpos)
    BY <1>1 DEF OrderInv, ReplayOrdered
  <1>3. CheckpointLsn' = CheckpointLsn /\ CheckpointLsn \in Nat
    BY <1>1, HeadType DEF CheckpointLsn, DurableInv
  <1>4. begun \in [Tx -> SUBSET Pair] /\ got \in [Tx -> SUBSET Pair]
    BY DEF DurableInv, TypeOK
  <1>5. wal[rpos] \in Frame
    BY <1>1 DEF DurableInv, TypeOK
  \* A run that goes beyond frame rpos begins there, or has an operation there.
  <1>6. ASSUME NEW b \in 1 .. rpos, RunFrom(wal, b, rpos + 1)
        PROVE  \/ b = rpos /\ wal[rpos].type = "begin"
               \/ /\ b \in 1 .. rpos - 1 /\ RunFrom(wal, b, rpos)
                  /\ wal[rpos].type = "op" /\ wal[rpos].tx = wal[b].tx
                  /\ OpsBetween(wal, b, rpos + 1) = OpsBetween(wal, b, rpos) \cup wal[rpos].ops
    <2>1. CASE b = rpos
      BY <1>6, <2>1 DEF RunFrom
    <2>2. CASE b < rpos
      <3>1. b \in 1 .. rpos - 1 /\ rpos \in b + 1 .. (rpos + 1) - 1
        BY <1>1, <2>2
      <3>2. b + 1 .. (rpos + 1) - 1 = (b + 1 .. rpos - 1) \cup {rpos}
        BY <1>1, <3>1
      <3> QED
        BY <1>6, <3>1, <3>2 DEF RunFrom, OpsBetween
    <2> QED
      BY <1>1, <2>1, <2>2
  <1>7. SUFFICES /\ \A t \in Tx : begun'[t] # {} => \E i \in 1 .. rpos : wal[i].tx = t
                 /\ \A b \in 1 .. rpos :
                       b > CheckpointLsn /\ RunFrom(wal, b, rpos + 1) =>
                           /\ begun'[wal[b].tx] = wal[b].ops
                           /\ got'[wal[b].tx] = OpsBetween(wal, b, rpos + 1)
    <2>1. rpos' - 1 = rpos
      BY <1>1
    <2> QED
      BY <1>1, <1>3, <1>7, <2>1
         DEF OrderInv, LogOrdered, JobOrdered, ReplayOrdered, NeverRefused
  <1>8. \A t \in Tx : begun[t] # {} => \E i \in 1 .. rpos : wal[i].tx = t
    BY <1>1, <1>2
  <1>9. CASE ReplayPass
    <2>1. begun' = begun /\ got' = got
      BY <1>9 DEF ReplayPass
    <2>2. wal[rpos].lsn <= CheckpointLsn \/ wal[rpos].type = "checkpoint"
      BY <1>9 DEF ReplayPass, Current
    <2>3. wal[rpos].type = "torn" => FALSE
      BY <1>1 DEF DurableInv, TornLast
    <2>4. ASSUME NEW b \in 1 .. rpos, b > CheckpointLsn, RunFrom(wal, b, rpos + 1)
          PROVE  FALSE
      BY <1>1, <1>3, <1>6, <2>2, <2>3, <2>4
    <2> QED
      BY <1>8, <2>1, <2>4
  <1>10. CASE ReplayBegin
    <2>1. /\ wal[rpos].type = "begin" /\ wal[rpos].tx \in Tx
          /\ begun' = [begun EXCEPT ![wal[rpos].tx] = wal[rpos].ops]
          /\ got' = [got EXCEPT ![wal[rpos].tx] = {}]
      BY <1>5, <1>10 DEF ReplayBegin, Current, Frame
    <2>2. OpsBetween(wal, rpos, rpos + 1) = {}
      <3>1. rpos + 1 .. (rpos + 1) - 1 = {}
        BY <1>1
      <3> QED
        BY <3>1 DEF OpsBetween
    <2>3. ASSUME NEW b \in 1 .. rpos, RunFrom(wal, b, rpos + 1) PROVE b = rpos
      BY <1>6, <2>1, <2>3
    <2>4. \A t \in Tx : begun'[t] # {} => \E i \in 1 .. rpos : wal[i].tx = t
      BY <1>1, <1>4, <1>8, <2>1
    <2>5. begun'[wal[rpos].tx] = wal[rpos].ops /\ got'[wal[rpos].tx] = {}
      BY <1>4, <2>1
    <2> QED
      BY <2>2, <2>3, <2>4, <2>5
  <1>11. CASE ReplayOp
    <2>1. /\ wal[rpos].type = "op" /\ wal[rpos].tx \in Tx /\ begun' = begun
          /\ got' = [got EXCEPT ![wal[rpos].tx] = @ \cup wal[rpos].ops]
      BY <1>5, <1>11 DEF ReplayOp, Current, Frame
    <2>2. ASSUME NEW b \in 1 .. rpos, b > CheckpointLsn, RunFrom(wal, b, rpos + 1)
          PROVE  /\ begun'[wal[b].tx] = wal[b].ops
                 /\ got'[wal[b].tx] = OpsBetween(wal, b, rpos + 1)
      <3>1. /\ b \in 1 .. rpos - 1 /\ RunFrom(wal, b, rpos) /\ wal[rpos].tx = wal[b].tx
            /\ OpsBetween(wal, b, rpos + 1) = OpsBetween(wal, b, rpos) \cup wal[rpos].ops
        BY <1>6, <2>1, <2>2
      <3>2. begun[wal[b].tx] = wal[b].ops /\ got[wal[b].tx] = OpsBetween(wal, b, rpos)
        BY <1>2, <2>2, <3>1
      <3> QED
        BY <1>4, <2>1, <3>1, <3>2
    <2> QED
      BY <1>8, <2>1, <2>2
  <1>12. CASE ReplayCommit
    <2>1. /\ wal[rpos].type = "commit" /\ wal[rpos].tx \in Tx
          /\ begun' = [begun EXCEPT ![wal[rpos].tx] = {}]
      BY <1>5, <1>12 DEF ReplayCommit, Replaying, Current, Frame
    <2>2. ASSUME NEW b \in 1 .. rpos, RunFrom(wal, b, rpos + 1) PROVE FALSE
      BY <1>6, <2>1, <2>2
    <2>3. \A t \in Tx : begun'[t] # {} => begun[t] # {}
      BY <1>4, <2>1
    <2> QED
      BY <1>8, <2>2, <2>3
  <1> QED
    BY <1>9, <1>10, <1>11, <1>12

\* Whatever frame replay has come to, its checks pass.
LEMMA ReplayAccepts ==
    ASSUME DurableInv, OrderInv, pc = "replay", rpos <= Len(wal), Current.lsn > CheckpointLsn
    PROVE  FrameReplayable
  <1> DEFINE f == wal[rpos]
  <1>1. /\ rpos \in 1 .. Len(wal) /\ rpos \in Nat /\ Len(wal) \in Nat /\ f \in Frame
        /\ CheckpointLsn \in Nat /\ Current = f
    BY HeadType DEF DurableInv, TypeOK, Current
  <1>2. f.type # "torn" /\ f.lsn = rpos /\ CheckpointLsn < rpos
    BY <1>1 DEF DurableInv, TornLast, LsnIsPosition
  <1>3. FrameFits(wal, rpos)
    BY <1>1 DEF OrderInv, LogOrdered
  <1>4. /\ \A t \in Tx : begun[t] # {} => \E i \in 1 .. rpos - 1 : wal[i].tx = t
        /\ \A b \in 1 .. rpos - 1 :
              b > CheckpointLsn /\ RunFrom(wal, b, rpos) =>
                  /\ begun[wal[b].tx] = wal[b].ops
                  /\ got[wal[b].tx] = OpsBetween(wal, b, rpos)
    BY DEF OrderInv, ReplayOrdered
  <1>5. ASSUME f.type = "begin" PROVE begun[f.tx] = {}
    BY <1>1, <1>3, <1>4, <1>5 DEF FrameFits, Frame
  <1>6. ASSUME f.type \in {"op", "commit"}
        PROVE  \E b \in 1 .. rpos - 1 :
                  /\ RunFrom(wal, b, rpos) /\ wal[b].tx = f.tx /\ FrameFits(wal, b)
                  /\ wal[b].ops # {} /\ wal[b].type = "begin"
                  /\ begun[f.tx] = wal[b].ops /\ got[f.tx] = OpsBetween(wal, b, rpos)
    <2>1. PICK b \in 1 .. rpos - 1 : RunFrom(wal, b, rpos) /\ wal[b].tx = f.tx
      BY <1>3, <1>6 DEF FrameFits
    <2>2. b \in 1 .. Len(wal) /\ FrameFits(wal, b) /\ wal[b].type = "begin" /\ wal[b].ops # {}
      <3>1. b \in 1 .. Len(wal)
        BY <1>1
      <3> QED
        BY <2>1, <3>1 DEF OrderInv, LogOrdered, RunFrom, FrameFits
    <2>3. b > CheckpointLsn
      <3>1. CheckpointLsn # 0 => wal[CheckpointLsn].type = "checkpoint"
        BY HeadCovers DEF DurableInv
      <3>2. ASSUME CheckpointLsn >= b PROVE FALSE
        <4>1. CheckpointLsn = b \/ CheckpointLsn \in b + 1 .. rpos - 1
          BY <1>1, <1>2, <3>2
        <4>2. CheckpointLsn # 0
          BY <1>1, <3>2
        <4> QED
          BY <2>1, <3>1, <4>1, <4>2 DEF RunFrom
      <3> QED
        BY <1>1, <3>2
    <2> QED
      BY <1>4, <2>1, <2>2, <2>3
  <1>7. ASSUME f.type = "commit"
        PROVE  /\ begun[f.tx] # {} /\ got[f.tx] = begun[f.tx] /\ got[f.tx] = f.ops
               /\ f.tx \notin committed
               /\ Apply(state, got[f.tx]) = f.state
    <2>1. PICK b \in 1 .. rpos - 1 :
              /\ RunFrom(wal, b, rpos) /\ wal[b].tx = f.tx /\ FrameFits(wal, b)
              /\ wal[b].ops # {} /\ wal[b].type = "begin"
              /\ begun[f.tx] = wal[b].ops /\ got[f.tx] = OpsBetween(wal, b, rpos)
      BY <1>6, <1>7
    <2>2. /\ OpsBetween(wal, b, rpos) = wal[b].ops /\ f.ops = wal[b].ops
          /\ \E s \in State : IsStateAt(wal, b, s) /\ f.state = Apply(s, wal[b].ops)
      BY <1>3, <1>7, <2>1 DEF FrameFits
    <2>3. /\ committed = CommittedUpTo(wal, rpos - 1) /\ IsStateAt(wal, rpos - 1, state)
          /\ rpos - 1 \in Nat
      <3>1. Covered = rpos - 1
        BY <1>1, <1>2 DEF Covered
      <3> QED
        BY <1>1, <3>1 DEF DurableInv, ReplayExact
    <2>4. b \in Nat /\ 1 <= b /\ b <= rpos - 1 /\ RunFrom(wal, b, (rpos - 1) + 1)
      <3>1. (rpos - 1) + 1 = rpos
        BY <1>1
      <3> QED
        BY <1>1, <2>1, <3>1
    <2>5. /\ IsStateAt(wal, b, state)
          /\ CommittedUpTo(wal, rpos - 1) = CommittedUpTo(wal, b)
      BY <2>3, <2>4, RunKeepsState
    <2>6. f.tx \notin CommittedUpTo(wal, b)
      <3>1. \A i \in 1 .. b - 1 : wal[i].tx # f.tx
        BY <2>1 DEF FrameFits
      <3>2. \A i \in CommitsUpTo(wal, b) : i \in 1 .. b - 1
        BY <2>1, <2>4 DEF CommitsUpTo
      <3> QED
        BY <3>1, <3>2 DEF CommittedUpTo
    <2>7. PICK s \in State : IsStateAt(wal, b, s) /\ f.state = Apply(s, wal[b].ops)
      BY <2>2
    <2>8. s = state
      BY <2>4, <2>5, <2>7, StateUnique
    <2> QED
      BY <2>1, <2>2, <2>3, <2>5, <2>6, <2>7, <2>8
  <1> QED
    BY <1>1, <1>5, <1>6, <1>7 DEF FrameReplayable

\* Open finds what it needs.
LEMMA OpenAccepts ==
    ASSUME DurableInv
    PROVE  HeadLoads /\ ~TornInside /\ \A n \in 0 .. Len(wal) : ValidPrefix(n) => LsnsGrow(n)
  <1> USE DEF DurableInv
  <1>1. HeadLoads
    BY DEF FilesExact, HeadLoads
  <1>2. ~TornInside
    BY DEF TornLast, TornInside, TypeOK
  <1>3. ASSUME NEW n \in 0 .. Len(wal), ValidPrefix(n) PROVE LsnsGrow(n)
    <2>1. Len(wal) \in Nat /\ \A i \in 1 .. n : i \in 1 .. Len(wal) /\ wal[i].lsn = i
      BY <1>3 DEF ValidPrefix, LsnIsPosition, TypeOK
    <2>2. ASSUME NEW i \in 1 .. n - 1 PROVE wal[i].lsn < wal[i + 1].lsn
      <3>1. i \in 1 .. n /\ i + 1 \in 1 .. n
        BY <2>1
      <3> QED
        BY <2>1, <3>1
    <2> QED
      BY <2>2 DEF LsnsGrow
  <1> QED
    BY <1>1, <1>2, <1>3

LEMMA InitOrder == Init => OrderInv
  <1> SUFFICES ASSUME Init PROVE OrderInv
    OBVIOUS
  <1>1. Len(wal) = 0
    BY DEF Init
  <1> QED
    BY <1>1 DEF Init, OrderInv, LogOrdered, JobOrdered, ReplayOrdered, NeverRefused

LEMMA OrderStep ==
    ASSUME ReuseAfterError = FALSE, RetryIds = FALSE
    PROVE  DurableInv /\ OrderInv /\ [Next]_vars => OrderInv'
  <1> SUFFICES ASSUME DurableInv, OrderInv, [Next]_vars PROVE OrderInv'
    OBVIOUS
  <1>0. TypeOK /\ wal \in Seq(Frame) /\ Len(wal) \in Nat
    BY DEF DurableInv, TypeOK
  \* Steps that leave the log as it was, outside of a commit and of replay.
  <1>1. ASSUME wal' = wal, pc' \notin {"begin", "ops", "replay", "refused"}
        PROVE  OrderInv'
    BY <1>1 DEF OrderInv, LogOrdered, JobOrdered, ReplayOrdered, NeverRefused
  <1>2. ASSUME LogOrdered', pc' \notin {"begin", "ops", "replay", "refused"}
        PROVE  OrderInv'
    BY <1>2 DEF OrderInv, JobOrdered, ReplayOrdered, NeverRefused
  <1>3. TornFrame \in Frame /\ TornFrame.type = "torn"
    BY <1>0, FrameType DEF TornFrame
  <1>4. CASE Commit
    <2>1. ASSUME NEW t \in Tx, NEW b \in Batches, NEW slot \in Slots, WriteSegment(t, b, slot)
          PROVE  OrderInv'
      <3>1. /\ wal' = wal /\ pc' = "begin" /\ jobTx' = t /\ jobOps' = b /\ todo' = b
            /\ \A i \in 1 .. Len(wal) : wal[i].tx # t
        BY <2>1 DEF WriteSegment
      <3>2. b # {}
        BY ConstantsAssumption
      <3> QED
        BY <3>1, <3>2 DEF OrderInv, LogOrdered, JobOrdered, ReplayOrdered, NeverRefused
    <2>2. CASE SyncCommit
      BY <1>1, <2>2 DEF SyncCommit
    <2> QED
      BY <1>4, <2>1, <2>2, OrderBegin, OrderOp, OrderCommit DEF Commit
  <1>5. CASE CheckpointSteps
    <2>1. CASE AppendCheckpoint
      <3> DEFINE f == CheckpointFrame(state)
      <3>1. f \in Frame /\ f.type = "checkpoint"
        BY <1>0, FrameType DEF CheckpointFrame
      <3>2. wal' = Append(wal, f)
        BY <2>1 DEF AppendCheckpoint, AppendFrame
      <3> HIDE DEF f
      <3> QED
        BY <1>0, <1>2, <2>1, <3>1, <3>2, OrderedPlain DEF AppendCheckpoint, OrderInv
    <2>2. CASE SyncCheckpoint \/ CheckpointConflict
      BY <1>1, <2>2 DEF SyncCheckpoint, CheckpointConflict, disk
    <2>3. ASSUME NEW ok \in DirSync, WriteCheckpoint(ok) \/ WriteManifest(ok) \/ PublishHead(ok)
          PROVE  OrderInv'
      BY <1>1, <2>3 DEF WriteCheckpoint, WriteManifest, PublishHead
    <2> QED
      BY <1>5, <2>1, <2>2, <2>3 DEF CheckpointSteps
  <1>6. CASE Recovery
    <2>1. ASSUME NEW repair \in RepairModes, NEW n \in 0 .. Len(wal), Open(repair, n)
          PROVE  OrderInv'
      <3>1. /\ wal' = SubSeq(wal, 1, n) /\ pc' = "replay" /\ rpos' = 1
            /\ begun' = [t \in Tx |-> {}]
        BY <2>1 DEF Open, Opened, ReplayOver
      <3>2. n \in Nat /\ n <= Len(wal) /\ Len(wal') = n /\ \A i \in 1 .. n : wal'[i] = wal[i]
        BY <1>0, <3>1, WalCut
      <3>3. LogOrdered'
        BY <1>0, <3>2, OrderedPrefix DEF OrderInv, LogOrdered
      <3>4. ReplayOrdered'
        <4>1. 1 .. rpos' - 1 = {}
          BY <3>1
        <4> QED
          BY <3>1, <4>1 DEF ReplayOrdered
      <3> QED
        BY <3>1, <3>3, <3>4 DEF OrderInv, JobOrdered, NeverRefused
    <2>2. ~OpenRefused
      BY OpenAccepts DEF OpenRefused
    <2>3. ~ReplayRefused
      BY ReplayAccepts DEF ReplayRefused
    <2>4. CASE FinishOpen
      BY <1>1, <2>4 DEF FinishOpen, disk
    <2> QED
      BY <1>6, <2>1, <2>2, <2>3, <2>4, OrderReplay DEF Recovery
  <1>7. CASE Environment
    <2>1. CASE AppendFails
      BY <1>0, <1>2, <1>3, <2>1, OrderedPlain DEF AppendFails, OrderInv
    <2>2. CASE SyncFails \/ DropHandle
      BY <1>1, <2>2 DEF SyncFails, DropHandle, disk
    <2>3. CASE Kill
      BY <1>0, <1>2, <1>3, <2>3, OrderedPlain DEF Kill, OrderInv
    <2>4. CASE KeepHandle
      BY <2>4 DEF KeepHandle
    <2>5. ASSUME NEW n \in 0 .. Len(wal), PowerLoss(n) PROVE OrderInv'
      <3> DEFINE cut == SubSeq(wal, 1, n)
      <3>1. /\ wal' = cut \/ wal' = Append(cut, TornFrame)
            /\ pc' = "closed"
        BY <2>5 DEF PowerLoss, OrderInv, NeverRefused
      <3>2. cut \in Seq(Frame) /\ Len(cut) = n /\ n \in Nat /\ \A i \in 1 .. n : cut[i] = wal[i]
        BY <1>0, WalCut
      <3> HIDE DEF cut
      <3>3. /\ \A i \in 1 .. n : wal'[i] = wal[i]
            /\ Len(wal') = n \/ (Len(wal') = n + 1 /\ wal'[n + 1].type = "torn")
        <4>1. CASE wal' = cut
          BY <3>2, <4>1
        <4>2. CASE wal' = Append(cut, TornFrame)
          <5>1. /\ Len(wal') = n + 1 /\ wal'[n + 1] = TornFrame
                /\ \A i \in 1 .. n : wal'[i] = cut[i]
            BY <1>3, <3>2, <4>2, WalAppend
          <5> QED
            BY <1>3, <3>2, <5>1
        <4> QED
          BY <3>1, <4>1, <4>2
      <3>4. \A i \in 1 .. n : FrameFits(wal', i)
        BY <1>0, <3>2, <3>3, OrderedPrefix DEF OrderInv
      <3>5. Len(wal') = n + 1 => FrameFits(wal', n + 1)
        BY <3>2, <3>3, PlainFits
      <3>6. LogOrdered'
        <4>1. \A i \in 1 .. Len(wal') : i \in 1 .. n \/ (i = n + 1 /\ Len(wal') = n + 1)
          BY <3>2, <3>3
        <4> QED
          BY <3>4, <3>5, <4>1 DEF LogOrdered
      <3> QED
        BY <1>2, <3>1, <3>6
    <2> QED
      BY <1>7, <2>1, <2>2, <2>3, <2>4, <2>5 DEF Environment
  <1>8. CASE UNCHANGED vars
    BY <1>8 DEF vars, disk, job, replay, OrderInv, LogOrdered, JobOrdered, ReplayOrdered,
                NeverRefused, CheckpointLsn
  <1> QED
    BY <1>4, <1>5, <1>6, <1>7, <1>8 DEF Next

\* With a fresh id for every attempt, as the command line derives them, open
\* accepts whatever log and files a killed or failing writer has left.
THEOREM OpenNeverRefuses ==
    ASSUME ReuseAfterError = FALSE, RetryIds = FALSE
    PROVE  Spec => []NeverRefused
  <1>1. OrderInv => NeverRefused
    BY DEF OrderInv
  <1> QED
    BY <1>1, InitOrder, OrderStep, DurableInvariant, PTL DEF Spec

-----------------------------------------------------------------------------
(* The command line. *)

\* After n frames of the log, key k has value v.
Says(w, n, k, v) == \A s : IsStateAt(w, n, s) => s[k] = v

\* An answer holds of the whole log, and a sure one of every part a crash may leave.
Holds(k, a) ==
    \A n \in (IF a.sure THEN synced ELSE Len(wal)) .. Len(wal) : Says(wal, n, k, a.val)

\* What callers were told is what the log says.
ToldTrue ==
    /\ told = [k \in Key |-> told[k]]
    /\ \A k \in Key : \A a \in told[k] : a.sure \in BOOLEAN /\ Holds(k, a)

\* The command under way is one that changes a key.
Changing == command.kind \in {"put", "delete"}

\* Where a handle is between its commit and the receipt of its checkpoint.
Publishing == {"idle", "ckptSync", "ckptFile", "ckptManifest", "ckptHead"}

\* A transaction under way is the command's and silences its key; once it is
\* committed, the key has the command's value and the log is fsynced.
CommandStands ==
    /\ Changing => command \in Commands
    /\ stage = "mutate" => Changing
    /\ pc \in {"begin", "ops", "commitSync"} =>
          /\ stage = "commit" /\ Changing
          /\ jobOps = Operation(command) /\ told[command.key] = {}
    /\ Changing /\ stage \in {"checkpoint", "publish"} =>
          \/ pc = "erred"
          \/ pc \in Publishing /\ state[command.key] = command.val /\ Settled

CliInv == ToldTrue /\ CommandStands

\* A command's operation changes its key and no other.
LEMMA OperationApplies ==
    ASSUME NEW c \in Commands, c.kind \in {"put", "delete"}, NEW s \in State
    PROVE  /\ c.key \in Key
           /\ Apply(s, Operation(c))[c.key] = c.val
           /\ \A k \in Key : k # c.key => Apply(s, Operation(c))[k] = s[k]
  <1>1. c.key \in Key /\ c.val \in Content
    BY CommandsAssumption DEF Pair
  <1>2. \A k, v : <<k, v>> \in Operation(c) <=> k = c.key /\ v = c.val
    BY DEF Operation
  <1>3. \E v \in Content : <<c.key, v>> \in Operation(c)
    BY <1>1, <1>2
  <1>4. (CHOOSE v \in Content : <<c.key, v>> \in Operation(c)) = c.val
    BY <1>1, <1>2
  <1>5. ASSUME NEW k \in Key, k # c.key
        PROVE  ~\E v \in Content : <<k, v>> \in Operation(c)
    BY <1>2, <1>5
  <1> QED
    BY <1>1, <1>3, <1>4, <1>5 DEF Apply

\* Every step of the command line is a step of a caller of the database.
LEMMA CliIsDurable ==
    ASSUME RepairModes = BOOLEAN
    PROVE  CliInv /\ CliNext => [Next]_vars
  <1> SUFFICES ASSUME CliInv, CliNext PROVE [Next]_vars
    OBVIOUS
  <1>1. CASE \E c \in Commands : StartCommand(c)
    BY <1>1 DEF StartCommand
  <1>2. CASE CliOpen \/ RepairTail
    <2>1. \E repair \in RepairModes, n \in 0 .. Len(wal) : Open(repair, n)
      <3>1. CASE CliOpen
        BY <3>1 DEF CliOpen
      <3>2. CASE RepairTail
        <4>1. PICK n \in 0 .. Len(wal) - 1 : Open(TRUE, n)
          BY <3>2 DEF RepairTail
        <4>2. n \in 0 .. Len(wal)
          BY DEF Open, ValidPrefix
        <4> QED
          BY <4>1, <4>2
      <3> QED
        BY <1>2, <3>1, <3>2
    <2> QED
      BY <2>1 DEF Next, Recovery
  <1>3. CASE CliOpenFails
    BY <1>3 DEF CliOpenFails
  <1>4. CASE AnswerNoChange \/ AnswerRead \/ GoOnToMutate \/ SegmentTaken \/ AnswerChanged
             \/ AnswerError
    BY <1>4 DEF AnswerNoChange, AnswerRead, GoOnToMutate, SegmentTaken, AnswerChanged,
                AnswerError, Next, Environment
  <1>5. CASE Mutate
    <2>1. PICK t \in Tx : WriteSegment(t, Operation(command), NextSlot)
      BY <1>5 DEF Mutate
    <2>2. Operation(command) \in Batches
      BY <1>5, CommandsAssumption DEF Mutate, CliInv, CommandStands, Changing, Operation
    <2> QED
      BY <2>1, <2>2 DEF Next, Commit, Slots, NextSlot
  <1>6. CASE Committed \/ BeginCheckpoint
    BY <1>6 DEF Committed, BeginCheckpoint, Next, Commit, CheckpointSteps
  <1>7. CASE Inside
    BY <1>7 DEF Inside, Next, Commit, CheckpointSteps, Recovery
  <1>8. CASE IoError \/ CliKilled \/ CliPowerLoss
    BY <1>8 DEF IoError, CliKilled, CliPowerLoss, Next, Environment
  <1> QED
    BY <1>1, <1>2, <1>3, <1>4, <1>5, <1>6, <1>7, <1>8 DEF CliNext

-----------------------------------------------------------------------------
(* What the log says of a key, as it grows and is cut. *)

\* Only the frames up to n count.
LEMMA SaysPrefix ==
    ASSUME NEW w, NEW x, NEW n \in Nat, \A i \in 1 .. n : x[i] = w[i]
    PROVE  \A k, v : Says(w, n, k, v) <=> Says(x, n, k, v)
  BY SamePrefix DEF Says

\* A frame that is no COMMIT changes nothing.
LEMMA SaysPlain ==
    ASSUME NEW w, NEW n \in Nat, w[n + 1].type # "commit"
    PROVE  \A k, v : Says(w, n + 1, k, v) <=> Says(w, n, k, v)
  BY NoCommit DEF Says

\* The state after n frames gives every key its value.
LEMMA SaysState ==
    ASSUME NEW w, NEW n \in Nat, NEW s, IsStateAt(w, n, s), NEW k
    PROVE  Says(w, n, k, s[k])
  BY StateUnique DEF Says

\* Where no COMMIT lies behind frame m, the log says the same from there on.
LEMMA SaysSettled ==
    ASSUME NEW w, NEW m \in Nat, NEW l \in Nat, m <= l,
           CommitsUpTo(w, m) = CommitsUpTo(w, l), NEW n \in m .. l
    PROVE  \A k, v : Says(w, l, k, v) <=> Says(w, n, k, v)
  <1>1. CommitsUpTo(w, n) = CommitsUpTo(w, l)
    BY DEF CommitsUpTo
  <1> QED
    BY <1>1 DEF Says, IsStateAt

\* The log stays, more of it is fsynced, nothing new is said.
LEMMA ToldStays ==
    ASSUME TypeOK, TypeOK', ToldTrue, wal' = wal, synced' >= synced, told' = told
    PROVE  ToldTrue'
  <1>1. ASSUME NEW k \in Key, NEW a \in told[k] PROVE a.sure \in BOOLEAN /\ Holds(k, a)'
    <2>1. a.sure \in BOOLEAN /\ Holds(k, a)
      BY <1>1 DEF ToldTrue
    <2>2. \A n \in (IF a.sure THEN synced' ELSE Len(wal)) .. Len(wal) :
              n \in (IF a.sure THEN synced ELSE Len(wal)) .. Len(wal)
      BY DEF TypeOK
    <2> QED
      BY <2>1, <2>2 DEF Holds
  <1> QED
    BY <1>1 DEF ToldTrue

\* A frame that is no COMMIT says nothing.
LEMMA ToldAppend ==
    ASSUME TypeOK, ToldTrue, NEW f \in Frame, f.type # "commit", wal' \in {wal, Append(wal, f)},
           synced' = synced, told' = told
    PROVE  ToldTrue'
  <1>1. CASE wal' = wal
    BY <1>1 DEF ToldTrue, Holds
  <1>2. CASE wal' = Append(wal, f)
    <2>1. /\ Len(wal) \in Nat /\ Len(wal') = Len(wal) + 1 /\ wal'[Len(wal) + 1] = f
          /\ \A i \in 1 .. Len(wal) : wal'[i] = wal[i]
          /\ synced \in Nat /\ synced <= Len(wal)
      BY <1>2, WalAppend DEF TypeOK
    <2>2. ASSUME NEW n \in 0 .. Len(wal) PROVE \A k, v : Says(wal, n, k, v) <=> Says(wal', n, k, v)
      <3>1. n \in Nat /\ \A i \in 1 .. n : wal'[i] = wal[i]
        BY <2>1
      <3> QED
        BY <3>1, SaysPrefix
    <2>3. \A k, v : Says(wal, Len(wal), k, v) <=> Says(wal', Len(wal) + 1, k, v)
      BY <2>1, <2>2, SaysPlain
    <2>4. ASSUME NEW k \in Key, NEW a \in told[k] PROVE Holds(k, a)'
      <3>1. a.sure \in BOOLEAN /\ Holds(k, a)
        BY DEF ToldTrue
      <3> DEFINE from == IF a.sure THEN synced ELSE Len(wal)
      <3>2. from \in 0 .. Len(wal) /\ \A n \in from .. Len(wal) : Says(wal, n, k, a.val)
        BY <2>1, <3>1 DEF Holds
      <3>3. ASSUME NEW n \in from .. Len(wal) + 1 PROVE Says(wal', n, k, a.val)
        <4>1. CASE n <= Len(wal)
          <5>1. n \in from .. Len(wal) /\ n \in 0 .. Len(wal)
            BY <2>1, <3>2, <4>1
          <5> QED
            BY <2>2, <3>2, <5>1
        <4>2. CASE n = Len(wal) + 1
          BY <2>1, <2>3, <3>2, <4>2
        <4> QED
          BY <2>1, <3>2, <4>1, <4>2
      <3>4. \A n \in (IF a.sure THEN synced ELSE Len(wal) + 1) .. Len(wal) + 1 :
                n \in from .. Len(wal) + 1
        BY <2>1
      <3> QED
        BY <1>2, <2>1, <3>3, <3>4 DEF Holds
    <2> QED
      BY <2>4 DEF ToldTrue
  <1> QED
    BY <1>1, <1>2

\* The log of today is in every answer's range.
LEMMA ToldNow ==
    ASSUME TypeOK, ToldTrue, NEW k \in Key, NEW a \in told[k]
    PROVE  Says(wal, Len(wal), k, a.val)
  <1>1. a.sure \in BOOLEAN /\ Holds(k, a)
    BY DEF ToldTrue
  <1>2. Len(wal) \in (IF a.sure THEN synced ELSE Len(wal)) .. Len(wal)
    BY DEF TypeOK
  <1> QED
    BY <1>1, <1>2 DEF Holds

\* open cuts at most an incomplete frame.
LEMMA ToldOpen ==
    ASSUME DurableInv, ToldTrue, NEW repair, NEW m \in 0 .. Len(wal), Open(repair, m),
           told' = told
    PROVE  ToldTrue'
  <1> USE DEF DurableInv
  <1>1. /\ wal \in Seq(Frame) /\ Len(wal) \in Nat /\ m \in Nat /\ wal' = SubSeq(wal, 1, m)
        /\ Len(wal') = m /\ \A i \in 1 .. m : wal'[i] = wal[i]
    BY WalCut DEF Open, TypeOK
  <1>2. CASE m = Len(wal)
    <2>1. wal' = wal /\ synced' = synced
      BY <1>1, <1>2 DEF Open
    <2> QED
      BY <2>1 DEF ToldTrue, Holds
  <1>3. CASE m < Len(wal)
    <2>1. m + 1 \in 1 .. Len(wal) /\ wal[m + 1].type = "torn"
      BY <1>1, <1>3 DEF Open, ValidPrefix
    <2>2. Len(wal) = m + 1 /\ synced' = m
      BY <1>1, <1>3, <2>1 DEF TornLast, Open
    <2>3. ASSUME NEW k \in Key, NEW a \in told[k] PROVE Holds(k, a)'
      <3>1. Says(wal, m + 1, k, a.val)
        BY <2>2, ToldNow
      <3>2. Says(wal', m, k, a.val)
        BY <1>1, <2>1, <3>1, SaysPlain, SaysPrefix
      <3>3. \A n \in (IF a.sure THEN m ELSE m) .. m : n = m
        BY <1>1
      <3> QED
        BY <1>1, <2>2, <3>2, <3>3 DEF Holds
    <2> QED
      BY <2>3 DEF ToldTrue
  <1> QED
    BY <1>1, <1>2, <1>3

\* A power loss takes back the answers that were not sure.
LEMMA ToldCut ==
    ASSUME DurableInv, ToldTrue, NEW m \in 0 .. Len(wal), PowerLoss(m),
           told' = [k \in Key |-> {a \in told[k] : a.sure}]
    PROVE  ToldTrue'
  <1> DEFINE cut == SubSeq(wal, 1, m)
  <1>1. /\ wal \in Seq(Frame) /\ Len(wal) \in Nat /\ m \in Nat /\ synced' = m
        /\ synced \in Nat /\ synced <= m
        /\ cut \in Seq(Frame) /\ Len(cut) = m /\ \A i \in 1 .. m : cut[i] = wal[i]
    BY WalCut DEF PowerLoss, DurableInv, TypeOK
  <1>2. wal' = cut \/ wal' = Append(cut, TornFrame)
    BY DEF PowerLoss
  <1>3. TornFrame \in Frame /\ TornFrame.type = "torn"
    BY FrameType DEF TornFrame, DurableInv
  <1> HIDE DEF cut
  <1>4. /\ \A i \in 1 .. m : wal'[i] = wal[i]
        /\ Len(wal') = m \/ (Len(wal') = m + 1 /\ wal'[m + 1].type = "torn")
    <2>1. CASE wal' = cut
      BY <1>1, <2>1
    <2>2. CASE wal' = Append(cut, TornFrame)
      <3>1. /\ Len(wal') = m + 1 /\ wal'[m + 1] = TornFrame
            /\ \A i \in 1 .. m : wal'[i] = cut[i]
        BY <1>1, <1>3, <2>2, WalAppend
      <3> QED
        BY <1>1, <1>3, <3>1
    <2> QED
      BY <1>2, <2>1, <2>2
  <1>5. ASSUME NEW k \in Key, NEW a \in told[k], a.sure PROVE Holds(k, a)'
    <2>1. Says(wal, m, k, a.val)
      <3>1. m \in synced .. Len(wal)
        BY <1>1
      <3> QED
        BY <1>5, <3>1 DEF ToldTrue, Holds
    <2>2. Says(wal', m, k, a.val)
      BY <1>1, <1>4, <2>1, SaysPrefix
    <2>3. Len(wal') = m + 1 => Says(wal', m + 1, k, a.val)
      BY <1>1, <1>4, <2>2, SaysPlain
    <2>4. \A n \in m .. Len(wal') : n = m \/ (n = m + 1 /\ Len(wal') = m + 1)
      BY <1>1, <1>4
    <2> QED
      BY <1>1, <1>5, <2>2, <2>3, <2>4 DEF Holds
  <1> QED
    BY <1>5 DEF ToldTrue

\* A COMMIT frame contradicts no answer: its key's was taken back.
LEMMA ToldCommit ==
    ASSUME DurableInv, CliInv, AppendCommit, told' = told
    PROVE  ToldTrue'
  <1> DEFINE f == CommitFrame(jobTx, jobOps, Apply(state, jobOps))
  <1>1. f \in Frame /\ f.type = "commit" /\ f.state = Apply(state, jobOps)
    BY FrameType, ApplyType DEF AppendCommit, DurableInv, TypeOK, CommitFrame
  <1>2. wal' = Append(wal, f) /\ synced' = synced
    BY DEF AppendCommit, AppendFrame
  <1> HIDE DEF f
  <1>3. /\ Len(wal) \in Nat /\ Len(wal') = Len(wal) + 1 /\ wal'[Len(wal) + 1] = f
        /\ \A i \in 1 .. Len(wal) : wal'[i] = wal[i]
        /\ synced \in Nat /\ synced <= Len(wal) /\ state \in State
    BY <1>1, <1>2, WalAppend DEF DurableInv, TypeOK
  <1>4. /\ command \in Commands /\ command.kind \in {"put", "delete"}
        /\ jobOps = Operation(command) /\ told[command.key] = {}
    BY DEF AppendCommit, CliInv, CommandStands, Changing
  <1>5. IsStateAt(wal, Len(wal), state)
    BY DEF AppendCommit, DurableInv, MemoryExact, Live
  <1>6. IsStateAt(wal', Len(wal) + 1, Apply(state, jobOps))
    BY <1>1, <1>3, OneCommit
  <1>7. ASSUME NEW k \in Key, NEW a \in told[k] PROVE Holds(k, a)'
    <2>1. Says(wal, Len(wal), k, a.val)
      BY ToldNow DEF CliInv, DurableInv
    <2>2. state[k] = a.val
      BY <1>5, <2>1 DEF Says
    <2>3. Apply(state, jobOps)[k] = a.val
      BY <1>3, <1>4, <1>7, <2>2, OperationApplies
    <2>4. Says(wal', Len(wal) + 1, k, a.val)
      <3>1. Says(wal', Len(wal) + 1, k, Apply(state, jobOps)[k])
        BY <1>3, <1>6, SaysState
      <3> QED
        BY <2>3, <3>1
    <2>5. a.sure \in BOOLEAN /\ Holds(k, a)
      BY DEF CliInv, ToldTrue
    <2>6. ASSUME NEW n \in (IF a.sure THEN synced ELSE Len(wal) + 1) .. Len(wal) + 1
          PROVE  Says(wal', n, k, a.val)
      <3>1. CASE n = Len(wal) + 1
        BY <2>4, <3>1
      <3>2. CASE n # Len(wal) + 1
        <4>1. a.sure /\ n \in synced .. Len(wal) /\ n \in Nat
          BY <1>3, <2>5, <3>2
        <4>2. Says(wal, n, k, a.val)
          BY <2>5, <4>1 DEF Holds
        <4>3. \A i \in 1 .. n : wal'[i] = wal[i]
          BY <1>3, <4>1
        <4> QED
          BY <4>1, <4>2, <4>3, SaysPrefix
      <3> QED
        BY <3>1, <3>2
    <2> QED
      BY <1>2, <1>3, <2>6 DEF Holds
  <1> QED
    BY <1>7 DEF CliInv, ToldTrue

\* An answer from an idle handle's state is true, and sure where all is fsynced.
LEMMA ToldFresh ==
    ASSUME DurableInv, pc = "idle", wal' = wal, synced' = synced, NEW k \in Key, NEW a,
           a = [val |-> state[k], sure |-> Settled]
    PROVE  a.sure \in BOOLEAN /\ Holds(k, a)'
  <1>1. /\ IsStateAt(wal, Len(wal), state) /\ Len(wal) \in Nat /\ synced \in Nat
        /\ synced <= Len(wal)
    BY DEF DurableInv, MemoryExact, Live, TypeOK
  <1>2. Says(wal, Len(wal), k, state[k])
    BY <1>1, SaysState
  <1>3. a.val = state[k] /\ a.sure = Settled /\ a.sure \in BOOLEAN
    BY DEF Settled
  <1>4. ASSUME NEW n \in (IF a.sure THEN synced ELSE Len(wal)) .. Len(wal)
        PROVE  Says(wal, n, k, a.val)
    <2>1. CASE a.sure
      <3>1. CommitsUpTo(wal, synced) = CommitsUpTo(wal, Len(wal)) /\ n \in synced .. Len(wal)
        BY <1>3, <2>1 DEF Settled
      <3> QED
        BY <1>1, <1>2, <1>3, <3>1, SaysSettled
    <2>2. CASE ~a.sure
      <3>1. n = Len(wal)
        BY <1>1, <2>2
      <3> QED
        BY <1>2, <1>3, <3>1
    <2> QED
      BY <2>1, <2>2
  <1> QED
    BY <1>3, <1>4 DEF Holds

\* One key gets a new answer, or loses the one it had.
LEMMA ToldReplaced ==
    ASSUME TypeOK, ToldTrue, wal' = wal, synced' = synced, NEW key \in Key, NEW A,
           told' = [told EXCEPT ![key] = A],
           \A a \in A : a.sure \in BOOLEAN /\ Holds(key, a)'
    PROVE  ToldTrue'
  <1>1. /\ told' = [k \in Key |-> told'[k]]
        /\ \A k \in Key : told'[k] = IF k = key THEN A ELSE told[k]
    BY DEF ToldTrue
  <1>2. \A k \in Key : \A a \in told[k] : a.sure \in BOOLEAN /\ Holds(k, a)'
    BY DEF ToldTrue, Holds
  <1> QED
    BY <1>1, <1>2 DEF ToldTrue

\* A command answers from an idle handle.
LEMMA ToldAnswered ==
    ASSUME DurableInv, ToldTrue, pc = "idle", wal' = wal, synced' = synced, NEW key \in Key,
           NEW val, val = state[key],
           told' = [told EXCEPT ![key] = {[val |-> val, sure |-> Settled]}]
    PROVE  ToldTrue'
  <1> DEFINE A == {[val |-> val, sure |-> Settled]}
  <1>1. ASSUME NEW a \in A PROVE a.sure \in BOOLEAN /\ Holds(key, a)'
    <2>1. a = [val |-> state[key], sure |-> Settled]
      BY <1>1
    <2> QED
      BY <2>1, ToldFresh
  <1>2. told' = [told EXCEPT ![key] = A] /\ TypeOK
    BY DEF DurableInv
  <1> HIDE DEF A
  <1> QED
    BY <1>1, <1>2, ToldReplaced

\* ToldTrue is kept by every step.
LEMMA ToldStep ==
    ASSUME DurableInv, DurableInv', CliInv, CliNext
    PROVE  ToldTrue'
  <1>0. TypeOK /\ TypeOK' /\ ToldTrue
    BY DEF DurableInv, CliInv
  <1>1. ASSUME wal' = wal, synced' >= synced, told' = told PROVE ToldTrue'
    BY <1>0, <1>1, ToldStays
  <1>2. synced \in Nat /\ Len(wal) \in Nat /\ synced <= Len(wal)
    BY <1>0 DEF TypeOK
  <1>3. Changing => command \in Commands /\ command.key \in Key
    BY CommandsAssumption DEF CliInv, CommandStands, Changing, Pair
  <1>4. TornFrame \in Frame /\ TornFrame.type # "commit"
    BY <1>0, FrameType DEF TornFrame
  <1>5. CASE (\E c \in Commands : StartCommand(c)) \/ CliOpenFails
    BY <1>1, <1>2, <1>5 DEF StartCommand, CliOpenFails, vars, disk
  <1>6. CASE CliOpen \/ RepairTail
    <2>1. told' = told
      BY <1>6 DEF CliOpen, RepairTail, cliVars
    <2>2. CASE CliOpen
      <3>1. PICK n \in 0 .. Len(wal) : Open(FALSE, n)
        BY <2>2 DEF CliOpen
      <3> QED
        BY <1>0, <2>1, <3>1, ToldOpen
    <2>3. CASE RepairTail
      <3>1. PICK n \in 0 .. Len(wal) - 1 : Open(TRUE, n)
        BY <2>3 DEF RepairTail
      <3>2. n \in 0 .. Len(wal)
        BY DEF Open, ValidPrefix
      <3> QED
        BY <1>0, <2>1, <3>1, <3>2, ToldOpen
    <2> QED
      BY <1>6, <2>2, <2>3
  <1>7. CASE AnswerNoChange
    <2>1. /\ pc = "idle" /\ wal' = wal /\ synced' = synced /\ Changing
          /\ command.val = state[command.key]
          /\ told' = [told EXCEPT ![command.key] = {[val |-> command.val, sure |-> Settled]}]
      BY <1>7 DEF AnswerNoChange, DropHandle, disk, Changing, NothingToDo
    <2> QED
      BY <1>0, <1>3, <2>1, ToldAnswered
  <1>8. CASE AnswerRead
    <2>1. pc = "idle" /\ wal' = wal /\ synced' = synced
      BY <1>8 DEF AnswerRead, DropHandle, disk
    <2>2. CASE command.kind = "read"
      <3>1. told' = [k \in Key |-> {[val |-> state[k], sure |-> Settled]}]
        BY <1>8, <2>2 DEF AnswerRead
      <3>2. ASSUME NEW k \in Key, NEW a \in told'[k] PROVE a.sure \in BOOLEAN /\ Holds(k, a)'
        <4>1. a = [val |-> state[k], sure |-> Settled]
          BY <3>1, <3>2
        <4> QED
          BY <2>1, <4>1, ToldFresh
      <3> QED
        BY <3>1, <3>2 DEF ToldTrue
    <2>3. CASE command.kind # "read"
      BY <1>1, <1>2, <1>8, <2>1, <2>3 DEF AnswerRead
    <2> QED
      BY <2>2, <2>3
  <1>9. CASE GoOnToMutate \/ SegmentTaken \/ AnswerError
    BY <1>1, <1>2, <1>9 DEF GoOnToMutate, SegmentTaken, AnswerError, DropHandle, disk
  <1>10. CASE Mutate
    <2>1. /\ wal' = wal /\ synced' = synced /\ Changing
          /\ told' = [told EXCEPT ![command.key] = {}]
      BY <1>10 DEF Mutate, WriteSegment, CliInv, CommandStands
    <2> DEFINE silent == {}
    <2> PICK key \in Key : key = command.key
      BY <1>3, <2>1
    <2>2. /\ \A a \in silent : a.sure \in BOOLEAN /\ Holds(key, a)'
          /\ told' = [told EXCEPT ![key] = silent]
      BY <2>1
    <2> HIDE DEF silent
    <2> QED
      BY <1>0, <1>3, <2>1, <2>2, ToldReplaced
  <1>11. CASE Committed
    BY <1>1, <1>2, <1>11 DEF Committed, SyncCommit
  <1>12. CASE BeginCheckpoint
    <2> DEFINE f == CheckpointFrame(state)
    <2>1. f \in Frame /\ f.type # "commit"
      BY <1>0, FrameType DEF CheckpointFrame
    <2>2. wal' = Append(wal, f) /\ synced' = synced /\ told' = told
      BY <1>12 DEF BeginCheckpoint, AppendCheckpoint, AppendFrame
    <2> HIDE DEF f
    <2> QED
      BY <1>0, <2>1, <2>2, ToldAppend
  <1>13. CASE Inside
    <2>0. told' = told
      BY <1>13 DEF Inside, cliVars
    <2>1. CASE AppendBegin
      <3> DEFINE f == BeginFrame(jobTx, jobOps)
      <3>1. f \in Frame /\ f.type # "commit"
        BY <1>0, <2>1, FrameType DEF AppendBegin, TypeOK, BeginFrame
      <3>2. wal' = Append(wal, f) /\ synced' = synced
        BY <2>1 DEF AppendBegin, AppendFrame
      <3> HIDE DEF f
      <3> QED
        BY <1>0, <2>0, <3>1, <3>2, ToldAppend
    <2>2. ASSUME NEW p \in Pair, AppendOp(p) PROVE ToldTrue'
      <3> DEFINE f == OpFrame(jobTx, p)
      <3>1. f \in Frame /\ f.type # "commit"
        BY <1>0, <2>2, FrameType DEF AppendOp, TypeOK, OpFrame
      <3>2. wal' = Append(wal, f) /\ synced' = synced
        BY <2>2 DEF AppendOp, AppendFrame
      <3> HIDE DEF f
      <3> QED
        BY <1>0, <2>0, <3>1, <3>2, ToldAppend
    <2>3. CASE AppendCommit
      BY <2>0, <2>3, ToldCommit
    <2>4. CASE SyncCheckpoint \/ CheckpointConflict
      BY <1>1, <1>2, <2>0, <2>4 DEF SyncCheckpoint, CheckpointConflict, disk
    <2>5. ASSUME NEW ok \in DirSync, WriteCheckpoint(ok) \/ WriteManifest(ok) \/ PublishHead(ok)
          PROVE  ToldTrue'
      BY <1>1, <1>2, <2>0, <2>5 DEF WriteCheckpoint, WriteManifest, PublishHead
    <2>6. CASE ReplayPass \/ ReplayBegin \/ ReplayOp \/ ReplayCommit \/ FinishOpen
      BY <1>1, <1>2, <2>0, <2>6
         DEF ReplayPass, ReplayBegin, ReplayOp, ReplayCommit, FinishOpen, disk
    <2> QED
      BY <1>13, <2>1, <2>2, <2>3, <2>4, <2>5, <2>6 DEF Inside
  <1>14. CASE AnswerChanged
    <2>1. pc = "idle" /\ wal' = wal /\ synced' = synced
      BY <1>14 DEF AnswerChanged, DropHandle, disk
    <2>2. CASE Changing
      <3>1. /\ command.val = state[command.key] /\ Settled
            /\ told' = [told EXCEPT ![command.key] = {[val |-> command.val, sure |-> TRUE]}]
        BY <1>14, <2>1, <2>2 DEF AnswerChanged, Changing, CliInv, CommandStands
      <3>2. Settled = TRUE
        BY <3>1 DEF Settled
      <3>3. told' = [told EXCEPT ![command.key] = {[val |-> command.val, sure |-> Settled]}]
        BY <3>1, <3>2
      <3> QED
        BY <1>0, <1>3, <2>1, <2>2, <3>1, <3>3, ToldAnswered
    <2>3. CASE ~Changing
      BY <1>1, <1>2, <1>14, <2>1, <2>3 DEF AnswerChanged, Changing
    <2> QED
      BY <2>2, <2>3
  <1>15. CASE IoError
    <2>1. told' = told
      BY <1>15 DEF IoError, cliVars
    <2>2. CASE AppendFails
      BY <1>0, <1>4, <2>1, <2>2, ToldAppend DEF AppendFails
    <2>3. CASE SyncFails
      BY <1>1, <1>2, <2>1, <2>3 DEF SyncFails, disk
    <2> QED
      BY <1>15, <2>2, <2>3 DEF IoError
  <1>16. CASE CliKilled
    BY <1>0, <1>4, <1>16, ToldAppend DEF CliKilled, Kill
  <1>17. CASE CliPowerLoss
    BY <1>0, <1>17, ToldCut DEF CliPowerLoss
  <1> QED
    BY <1>5, <1>6, <1>7, <1>8, <1>9, <1>10, <1>11, <1>12, <1>13, <1>14, <1>15, <1>16, <1>17
       DEF CliNext

\* A step inside a call leaves the command where it is.
LEMMA CommandStays ==
    ASSUME CommandStands, UNCHANGED cliVars,
           pc' \in {"begin", "ops", "commitSync"} =>
              pc \in {"begin", "ops", "commitSync"} /\ jobOps' = jobOps,
           pc \in Publishing =>
              pc' = "erred" \/ (pc' \in Publishing /\ state' = state /\ (Settled => Settled')),
           pc = "erred" => pc' = "erred"
    PROVE  CommandStands'
  BY DEF CommandStands, Changing, cliVars

\* A CHECKPOINT frame leaves a settled log settled.
LEMMA PlainSettled ==
    ASSUME TypeOK, wal' = Append(wal, CheckpointFrame(state)), synced' = synced, Settled
    PROVE  Settled'
  <1> DEFINE f == CheckpointFrame(state)
  <1>1. f \in Frame /\ f.type # "commit"
    BY FrameType DEF CheckpointFrame
  <1>2. wal' = Append(wal, f)
    OBVIOUS
  <1> HIDE DEF f
  <1>3. /\ Len(wal) \in Nat /\ Len(wal') = Len(wal) + 1 /\ wal'[Len(wal) + 1] = f
        /\ \A i \in 1 .. Len(wal) : wal'[i] = wal[i]
        /\ synced \in Nat /\ synced <= Len(wal)
    BY <1>1, <1>2, WalAppend DEF TypeOK
  <1>4. CommitsUpTo(wal', synced) = CommitsUpTo(wal, synced)
    BY <1>3 DEF CommitsUpTo
  <1>5. CommitsUpTo(wal', Len(wal) + 1) = CommitsUpTo(wal, Len(wal))
    BY <1>1, <1>3 DEF CommitsUpTo
  <1> QED
    BY <1>3, <1>4, <1>5 DEF Settled

\* When a command is over nothing is asked of it.
LEMMA CommandOver ==
    ASSUME Over, pc' \notin {"begin", "ops", "commitSync"}
    PROVE  CommandStands'
  BY DEF Over, NoCommand, CommandStands, Changing

\* CommandStands is kept by every step.
LEMMA CommandStep ==
    ASSUME DurableInv, DurableInv', CliInv, CliNext
    PROVE  CommandStands'
  <1>0. CommandStands /\ TypeOK
    BY DEF CliInv, DurableInv
  <1>1. CASE \E c \in Commands : StartCommand(c)
    BY <1>1 DEF StartCommand, CommandStands, Changing, vars
  <1>2. CASE CliOpen
    BY <1>0, <1>2, CommandStays DEF CliOpen, Open, Opened, Publishing
  <1>3. CASE RepairTail
    BY <1>3 DEF RepairTail, Open, Opened, CommandStands, Changing
  <1>4. CASE CliOpenFails
    BY <1>4, CommandOver DEF CliOpenFails, vars
  <1>5. CASE AnswerNoChange \/ AnswerRead \/ SegmentTaken \/ AnswerChanged \/ AnswerError
    BY <1>5, CommandOver
       DEF AnswerNoChange, AnswerRead, SegmentTaken, AnswerChanged, AnswerError, DropHandle
  <1>6. CASE GoOnToMutate
    BY <1>0, <1>6 DEF GoOnToMutate, DropHandle, CommandStands, Changing
  <1>7. CASE Mutate
    <2>1. Changing /\ command \in Commands /\ command.key \in Key
      BY <1>0, <1>7, CommandsAssumption DEF Mutate, CommandStands, Changing, Pair
    <2>2. told'[command.key] = {}
      BY <1>7, <2>1 DEF Mutate, CliInv, ToldTrue
    <2> QED
      BY <1>7, <2>1, <2>2 DEF Mutate, WriteSegment, CommandStands, Changing
  <1>8. CASE Committed
    <2>1. /\ pc' = "idle" /\ stage' = "checkpoint" /\ command' = command /\ Changing
          /\ command \in Commands /\ state' = Apply(state, Operation(command))
          /\ wal' = wal /\ synced' = Len(wal)
      BY <1>0, <1>8 DEF Committed, SyncCommit, CommandStands
    <2>2. state'[command.key] = command.val
      BY <1>0, <2>1, OperationApplies DEF Changing, TypeOK
    <2>3. Settled'
      BY <2>1 DEF Settled
    <2> QED
      BY <2>1, <2>2, <2>3 DEF CommandStands, Changing, Publishing
  <1>9. CASE BeginCheckpoint
    <2>1. /\ pc = "idle" /\ pc' = "ckptSync" /\ stage = "checkpoint" /\ stage' = "publish"
          /\ command' = command /\ state' = state
      BY <1>9 DEF BeginCheckpoint, AppendCheckpoint
    <2>2. Settled => Settled'
      BY <1>0, <1>9, PlainSettled DEF BeginCheckpoint, AppendCheckpoint, AppendFrame
    <2> QED
      BY <1>0, <2>1, <2>2 DEF CommandStands, Changing, Publishing
  <1>10. CASE Inside
    <2>0. UNCHANGED cliVars
      BY <1>10 DEF Inside
    <2>1. CASE AppendBegin \/ AppendCommit \/ \E p \in Pair : AppendOp(p)
      BY <1>0, <2>0, <2>1, CommandStays DEF AppendBegin, AppendCommit, AppendOp, job, Publishing
    <2>2. CASE SyncCheckpoint
      <3>1. Settled'
        BY <2>2 DEF SyncCheckpoint, Settled
      <3> QED
        BY <1>0, <2>0, <2>2, <3>1, CommandStays DEF SyncCheckpoint, Publishing
    <2>3. CASE CheckpointConflict
      BY <1>0, <2>0, <2>3, CommandStays DEF CheckpointConflict, Publishing
    <2>4. ASSUME NEW ok \in DirSync, WriteCheckpoint(ok) \/ WriteManifest(ok) \/ PublishHead(ok)
          PROVE  CommandStands'
      <3>1. Settled => Settled'
        BY <2>4 DEF WriteCheckpoint, WriteManifest, PublishHead, Settled
      <3> QED
        BY <1>0, <2>0, <2>4, <3>1, CommandStays
           DEF WriteCheckpoint, WriteManifest, PublishHead, Publishing
    <2>5. CASE ReplayPass \/ ReplayBegin \/ ReplayOp \/ ReplayCommit \/ FinishOpen
      <3>1. pc = "replay" /\ pc' \in {"replay", "idle", "refused"}
        BY <2>5 DEF ReplayPass, Replaying, ReplayBegin, ReplayOp, ReplayCommit, FinishOpen
      <3> QED
        BY <1>0, <2>0, <3>1, CommandStays DEF Publishing
    <2> QED
      BY <1>10, <2>1, <2>2, <2>3, <2>4, <2>5 DEF Inside
  <1>11. CASE IoError
    BY <1>0, <1>11, CommandStays DEF IoError, AppendFails, SyncFails, Publishing
  <1>12. CASE CliKilled \/ CliPowerLoss
    BY <1>12, CommandOver DEF CliKilled, Kill, CliPowerLoss, PowerLoss
  <1> QED
    BY <1>1, <1>2, <1>3, <1>4, <1>5, <1>6, <1>7, <1>8, <1>9, <1>10, <1>11, <1>12 DEF CliNext

LEMMA CliStep ==
    ASSUME RepairModes = BOOLEAN, ReuseAfterError = FALSE
    PROVE  DurableInv /\ CliInv /\ [CliNext]_<<vars, cliVars>> => DurableInv' /\ CliInv'
  <1> SUFFICES ASSUME DurableInv, CliInv, [CliNext]_<<vars, cliVars>>
               PROVE  DurableInv' /\ CliInv'
    OBVIOUS
  <1>1. CASE CliNext
    <2>1. DurableInv'
      BY <1>1, CliIsDurable, NextDurable
    <2> QED
      BY <1>1, <2>1, ToldStep, CommandStep DEF CliInv
  <1>2. CASE UNCHANGED <<vars, cliVars>>
    <2>1. DurableInv'
      BY <1>2, NextDurable
    <2>2. ToldTrue'
      BY <1>2 DEF CliInv, ToldTrue, Holds, vars, disk, cliVars
    <2>3. CommandStands'
      BY <1>2 DEF CliInv, CommandStands, Changing, Settled, vars, disk, cliVars, job
    <2> QED
      BY <2>1, <2>2, <2>3 DEF CliInv
  <1> QED
    BY <1>1, <1>2

LEMMA CliStart == CliInit => DurableInv /\ CliInv
  <1> SUFFICES ASSUME CliInit PROVE DurableInv /\ CliInv
    OBVIOUS
  <1>1. DurableInv
    BY InitDurable DEF CliInit
  <1>2. ToldTrue
    BY DEF CliInit, ToldTrue
  <1>3. CommandStands
    BY DEF CliInit, Init, CommandStands, Changing
  <1> QED
    BY <1>1, <1>2, <1>3 DEF CliInv

\* The command line is a caller the database is made for: each of its steps is
\* one of the database's, so every theorem above holds of its runs too.
THEOREM CliIsACaller ==
    ASSUME RepairModes = BOOLEAN, ReuseAfterError = FALSE
    PROVE  CliSpec => Spec
  <1>1. CliInit => Init
    BY DEF CliInit
  <1>2. CliInv /\ [CliNext]_<<vars, cliVars>> => [Next]_vars
    BY CliIsDurable
  <1> QED
    BY <1>1, <1>2, CliStart, CliStep, PTL DEF CliSpec, Spec

\* What a command has answered stays true: every later open serves the value it
\* said it put, deleted, found or read, until a command sets out to change the key.
THEOREM AnswersStayTrue ==
    ASSUME RepairModes = BOOLEAN, ReuseAfterError = FALSE
    PROVE  CliSpec => []AnswersStay
  <1>1. DurableInv /\ CliInv => AnswersStay
    <2> SUFFICES ASSUME DurableInv, CliInv, pc = "idle", NEW k \in Key, NEW a \in told[k]
                 PROVE  state[k] = a.val
      BY DEF AnswersStay
    <2>1. Says(wal, Len(wal), k, a.val)
      BY ToldNow DEF DurableInv, CliInv
    <2>2. IsStateAt(wal, Len(wal), state)
      BY DEF DurableInv, MemoryExact, Live
    <2> QED
      BY <2>1, <2>2 DEF Says
  <1> QED
    BY CliStart, CliStep, <1>1, PTL DEF CliSpec
=============================================================================
