---------------------------- MODULE BackupRestore ----------------------------
(***************************************************************************)
(* The offline backup core: create_backup copies a set of files from a     *)
(* source directory, restore_dry_run computes a plan, and                  *)
(* restore_to_new_directory rebuilds the files where nothing exists yet.   *)
(* Both build in a temporary sibling directory and rename it into place.   *)
(*                                                                         *)
(* A file's contents are two blocks, each a version number, read one block *)
(* at a time: the source may be written between the two, though the        *)
(* documentation asks for a stable one.  Versions only grow: a writer      *)
(* never puts back an old block, as the database's files, appended to or   *)
(* replaced by a rename, never do.  A digest of contents is the contents.  *)
(* The disk may damage a file (Rot), and an operator may delete a backup   *)
(* and have another one made under its name.                               *)
(***************************************************************************)
EXTENDS Integers, Sequences, FiniteSets, FiniteSetsExt

CONSTANTS
    Tool,            \* processes that run the backup core
    BackupRoot,      \* names a backup can be given
    RestoreRoot,     \* names a restored directory can be given
    FileCount,       \* files are numbered in the order of their names
    ReceiptFile,     \* the file named restore-receipt.ubrestore, 0 if none
    FileSets,        \* the requests' file sets
    Busy,            \* files still written while backups are made
    MaxVersion,      \* bound on the versions of a block
    MaxMishaps       \* bound on rotten files, deletions, failures and kills

ASSUME BackupConstants ==
    /\ FileCount \in Nat \ {0}
    /\ ReceiptFile \in 0..FileCount
    /\ FileSets \subseteq SUBSET (1..FileCount)
    /\ Busy \subseteq 1..FileCount
    /\ MaxVersion \in Nat /\ MaxMishaps \in Nat

File == 1..FileCount
Nothing == <<>>
Damaged == <<MaxVersion + 1, MaxVersion + 1>>

VARIABLES
    source,      \* source[f]: the two blocks of file f
    everHeld,    \* everHeld[f]: all contents file f has had
    backups,     \* backups[b]: the directory named b, Nothing if there is none
    restored,    \* restored[r]: likewise for restored directories
    plans,       \* plan digests the operator was given by a dry run
    tools,       \* what each process is doing
    mishaps      \* deletions, damage, failures and kills so far

backupVars == <<source, everHeld, backups, restored, plans, tools, mishaps>>

NoJob == [job |-> "none"]

(***************************************************************************)
(* The layout of a backup: a manifest that gives each file's digest, and   *)
(* the payload.  Opening it strictly recomputes every digest and compares  *)
(* the set of files found with the set expected.                           *)
(***************************************************************************)

\* verify_payload
PayloadMatches(manifest, payload) ==
    /\ DOMAIN payload = DOMAIN manifest
    /\ \A f \in DOMAIN manifest : payload[f] = manifest[f]

\* open_backup_strict, verify_backup_directory
Opens(dir) ==
    /\ dir # Nothing
    /\ dir.manifest # Nothing
    /\ PayloadMatches(dir.manifest, dir.payload)

\* upgrade_plan and compute_plan_digest for the schema the backup has: the
\* digest binds the manifest, and through it every file
PlanDigest(manifest) == manifest

(***************************************************************************)
(* create_backup                                                           *)
(***************************************************************************)

\* Up to the empty temporary directory.
BeginBackup(t) ==
    /\ tools[t] = NoJob
    /\ \E b \in BackupRoot, files \in FileSets :
          /\ files # {}
          /\ backups[b] = Nothing
          /\ tools' = [tools EXCEPT ![t] =
                [job |-> "backup", pc |-> "copy", name |-> b, todo |-> files,
                 seen |-> <<>>, manifest |-> <<>>, payload |-> <<>>]]
    /\ UNCHANGED <<source, everHeld, backups, restored, plans, mishaps>>

\* The directory is removed and the call returns an error.
GiveUp(t) == tools' = [tools EXCEPT ![t] = NoJob]

\* Mutant of SameTwice: the second digest is not compared.
CopiedOnce(seen) == Len(seen) = 4

\* The first digest is taken while the blocks are copied, the second one by
\* reading the source again.
SameTwice(seen) == SubSeq(seen, 1, 2) = SubSeq(seen, 3, 4)

\* copy_stable_file, one block: twice over the file, and then its entry of the
\* manifest or an error.
CopyBlock(t) ==
    /\ tools[t].job = "backup" /\ tools[t].pc = "copy" /\ tools[t].todo # {}
    /\ LET f == Min(tools[t].todo)
           seen == Append(tools[t].seen, source[f][(Len(tools[t].seen) % 2) + 1])
           copied == SubSeq(seen, 1, 2)
       IN  IF Len(seen) < 4
           THEN tools' = [tools EXCEPT ![t].seen = seen]
           ELSE IF SameTwice(seen)
           THEN tools' = [tools EXCEPT ![t].seen = <<>>,
                    ![t].todo = @ \ {f},
                    ![t].manifest = [g \in DOMAIN @ \cup {f} |-> IF g = f THEN copied ELSE @[g]],
                    ![t].payload = [g \in DOMAIN @ \cup {f} |-> IF g = f THEN copied ELSE @[g]]]
           ELSE GiveUp(t)
    /\ UNCHANGED <<source, everHeld, backups, restored, plans, mishaps>>

\* The manifest is written and the temporary directory verified.
SealBackup(t) ==
    /\ tools[t].job = "backup" /\ tools[t].pc = "copy" /\ tools[t].todo = {}
    /\ IF PayloadMatches(tools[t].manifest, tools[t].payload)
       THEN tools' = [tools EXCEPT ![t].pc = "rename"]
       ELSE GiveUp(t)
    /\ UNCHANGED <<source, everHeld, backups, restored, plans, mishaps>>

\* The rename fails if a directory has appeared under the name since the start;
\* the strict open that follows decides only what the caller is told.
PublishBackup(t) ==
    /\ tools[t].job = "backup" /\ tools[t].pc = "rename"
    /\ LET b == tools[t].name IN
       IF backups[b] = Nothing
       THEN backups' = [backups EXCEPT ![b] =
                [manifest |-> tools[t].manifest, payload |-> tools[t].payload]]
       ELSE UNCHANGED backups
    /\ GiveUp(t)
    /\ UNCHANGED <<source, everHeld, restored, plans, mishaps>>

(***************************************************************************)
(* restore_dry_run, restore_to_new_directory                               *)
(***************************************************************************)

\* The dry run opens the backup strictly and writes nothing.
DryRun ==
    /\ \E b \in BackupRoot :
          /\ Opens(backups[b])
          /\ plans' = plans \cup {PlanDigest(backups[b].manifest)}
    /\ UNCHANGED <<source, everHeld, backups, restored, tools, mishaps>>

\* Mutant of PlanApproved: the plan digest binds the names of the files only.
PlanOfSameNames(manifest, approved) == DOMAIN manifest = DOMAIN approved

\* The plan the operator approved is the one the backup has now.
PlanApproved(manifest, approved) == PlanDigest(manifest) = approved

BeginRestore(t) ==
    /\ tools[t] = NoJob
    /\ \E b \in BackupRoot, r \in RestoreRoot, approved \in plans :
          /\ Opens(backups[b])
          /\ PlanApproved(backups[b].manifest, approved)
          /\ restored[r] = Nothing
          /\ tools' = [tools EXCEPT ![t] =
                [job |-> "restore", pc |-> "copy", name |-> r, from |-> b,
                 approved |-> approved, manifest |-> backups[b].manifest,
                 todo |-> DOMAIN backups[b].manifest, files |-> <<>>]]
    /\ UNCHANGED <<source, everHeld, backups, restored, plans, mishaps>>

\* copy_verified_file: the digest of what was read is compared with the entry
\* of the manifest that was opened, whatever the directory holds by now.
CopyAccepted(entry, read) == read = entry

RestoreFile(t) ==
    /\ tools[t].job = "restore" /\ tools[t].pc = "copy" /\ tools[t].todo # {}
    /\ LET f == Min(tools[t].todo)
           dir == backups[tools[t].from]
       IN  IF /\ dir # Nothing
              /\ f \in DOMAIN dir.payload
              /\ CopyAccepted(tools[t].manifest[f], dir.payload[f])
           THEN tools' = [tools EXCEPT ![t].todo = @ \ {f},
                    ![t].files = [g \in DOMAIN @ \cup {f} |->
                                    IF g = f THEN dir.payload[f] ELSE @[g]]]
           ELSE GiveUp(t)
    /\ UNCHANGED <<source, everHeld, backups, restored, plans, mishaps>>

\* The receipt is a new file: a backed-up file of its name is in the way.  The
\* directory is then verified as verify_restored_directory does: the files of
\* the manifest and nothing else but the receipt.
SealRestore(t) ==
    /\ tools[t].job = "restore" /\ tools[t].pc = "copy" /\ tools[t].todo = {}
    /\ IF ReceiptFile \notin DOMAIN tools[t].manifest
          /\ PayloadMatches(tools[t].manifest, tools[t].files)
       THEN tools' = [tools EXCEPT ![t].pc = "rename"]
       ELSE GiveUp(t)
    /\ UNCHANGED <<source, everHeld, backups, restored, plans, mishaps>>

PublishRestore(t) ==
    /\ tools[t].job = "restore" /\ tools[t].pc = "rename"
    /\ LET r == tools[t].name IN
       IF restored[r] = Nothing
       THEN restored' = [restored EXCEPT ![r] =
                [files |-> tools[t].files, receipt |-> tools[t].manifest,
                 approved |-> tools[t].approved]]
       ELSE UNCHANGED restored
    /\ GiveUp(t)
    /\ UNCHANGED <<source, everHeld, backups, plans, mishaps>>

(***************************************************************************)
(* The world around: a writer, the disk, the operator, and processes that  *)
(* fail or are killed (a killed one leaves a temporary directory under a   *)
(* name nobody uses again).                                                *)
(***************************************************************************)

WriteSource ==
    /\ \E f \in Busy, i \in {1, 2} :
          LET now == [source[f] EXCEPT ![i] = @ + 1] IN
          /\ source[f][i] < MaxVersion
          /\ source' = [source EXCEPT ![f] = now]
          /\ everHeld' = [everHeld EXCEPT ![f] = @ \cup {now}]
    /\ UNCHANGED <<backups, restored, plans, tools, mishaps>>

\* A file of a backup, or of one under construction.
Rot ==
    /\ mishaps < MaxMishaps
    /\ \/ /\ \E b \in BackupRoot :
                /\ backups[b] # Nothing
                /\ \E f \in DOMAIN backups[b].payload :
                      backups' = [backups EXCEPT ![b].payload[f] = Damaged]
          /\ UNCHANGED tools
       \/ /\ \E t \in Tool :
                /\ tools[t].job = "backup" /\ tools[t].pc = "copy"
                /\ \E f \in DOMAIN tools[t].payload :
                      tools' = [tools EXCEPT ![t].payload[f] = Damaged]
          /\ UNCHANGED backups
    /\ mishaps' = mishaps + 1
    /\ UNCHANGED <<source, everHeld, restored, plans>>

DeleteBackup ==
    /\ mishaps < MaxMishaps
    /\ \E b \in BackupRoot :
          /\ backups[b] # Nothing
          /\ backups' = [backups EXCEPT ![b] = Nothing]
    /\ mishaps' = mishaps + 1
    /\ UNCHANGED <<source, everHeld, restored, plans, tools>>

FailOrDie(t) ==
    /\ mishaps < MaxMishaps
    /\ tools[t] # NoJob
    /\ GiveUp(t)
    /\ mishaps' = mishaps + 1
    /\ UNCHANGED <<source, everHeld, backups, restored, plans>>

BackupInit ==
    /\ source = [f \in File |-> <<0, 0>>]
    /\ everHeld = [f \in File |-> {<<0, 0>>}]
    /\ backups = [b \in BackupRoot |-> Nothing]
    /\ restored = [r \in RestoreRoot |-> Nothing]
    /\ plans = {}
    /\ tools = [t \in Tool |-> NoJob]
    /\ mishaps = 0

BackupNext ==
    \/ \E t \in Tool :
          \/ BeginBackup(t) \/ CopyBlock(t) \/ SealBackup(t) \/ PublishBackup(t)
          \/ BeginRestore(t) \/ RestoreFile(t) \/ SealRestore(t) \/ PublishRestore(t)
          \/ FailOrDie(t)
    \/ DryRun \/ WriteSource \/ Rot \/ DeleteBackup

BackupSpec == BackupInit /\ [][BackupNext]_backupVars

(***************************************************************************)
(* Properties                                                              *)
(***************************************************************************)

\* A backup that the strict open accepts holds, for every file of its manifest,
\* contents the source file really had at one moment: never the front of one
\* version with the back of another, and never what the disk made of them.
\* (Nothing makes the files of one backup come from one moment: the source is
\* expected to be offline.)
BackupsHoldTheSource ==
    \A b \in BackupRoot :
        Opens(backups[b]) =>
            \A f \in DOMAIN backups[b].manifest :
                backups[b].payload[f] \in everHeld[f]

\* A directory restore_to_new_directory has published holds the files of the
\* plan the operator approved, whole and unchanged, whatever was damaged,
\* deleted or made anew under the backup's name while the files were copied, and
\* no other process's restore has been mixed into it.
RestoredAsApproved ==
    \A r \in RestoreRoot :
        restored[r] # Nothing =>
            /\ restored[r].files = restored[r].approved
            /\ restored[r].receipt = restored[r].approved
            /\ \A f \in DOMAIN restored[r].files : restored[r].files[f] \in everHeld[f]
=============================================================================
