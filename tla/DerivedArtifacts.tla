-------------------------- MODULE DerivedArtifacts --------------------------
(***************************************************************************)
(* The inventory of derived artifacts and the two builders that use it:    *)
(* GraphSnapshotIndex::materialize and build_native_structural_space.  An  *)
(* artifact is derived from one snapshot of the database; a builder first  *)
(* invalidates the records of other snapshots, then makes its file, then   *)
(* registers it.  Every change of the inventory replaces its whole file,   *)
(* through a temporary file and a backup.                                  *)
(*                                                                         *)
(* A snapshot is the number of transactions committed, which its digest    *)
(* includes.  A builder borrows the snapshot, so that no commit of its     *)
(* process falls inside a call; the one process may be killed anywhere,    *)
(* and an operation may fail, after which it drops the inventory.          *)
(*                                                                         *)
(* The graph of a snapshot is built in a directory of its own and renamed; *)
(* the native column is one file, rewritten for every snapshot.  That the  *)
(* column is replaced at once is what VectorStore is about.                *)
(***************************************************************************)
EXTENDS Integers, FiniteSets

CONSTANTS
    MaxCommits,       \* bound on the transactions committed
    MaxBreaks         \* bound on kills and failing file operations

ASSUME InventoryConstants == MaxCommits \in Nat /\ MaxBreaks \in Nat

VARIABLES
    commits,      \* transactions committed: the current snapshot
    inventory,    \* the files INVENTORY.ubdai, .tmp and .bak
    catalog,      \* the DerivedArtifactInventory in memory
    task,         \* the call under way
    graphs,       \* snapshots whose graph directory is in place
    index,        \* the snapshot of the GraphSnapshotIndex in memory, or -1
    native,       \* the native column: its generation and source snapshot
    owed,         \* records whose registration was answered
    founded,      \* the inventory's creation was answered
    broken,       \* an open found an inventory it could not decode
    breaks        \* kills and errors so far

derivedVars ==
    <<commits, inventory, catalog, task, graphs, index, native, owed, founded, broken, breaks>>

Missing == [is |-> "absent"]
Partial == [is |-> "torn"]
Complete(records) == [is |-> "whole", records |-> records]

NoCatalog == [open |-> FALSE, records |-> {}]
NoTask == [call |-> "none"]

\* A DerivedArtifactRecord; its id is made of the first three fields.
Artifact(kind, generation, snapshot) ==
    [kind |-> kind, generation |-> generation, snapshot |-> snapshot, state |-> "Complete"]

\* verify_files: the file of the record has the recorded digest.
Matches(r) ==
    IF r.kind = "HotSnapshot" THEN r.snapshot \in graphs
    ELSE native = [generation |-> r.generation, snapshot |-> r.snapshot]

Continue(at) == task' = [task EXCEPT !.at = at]

-----------------------------------------------------------------------------

\* open_or_create.
OpenInventory ==
    /\ ~catalog.open /\ task = NoTask /\ ~broken
    /\ IF \A name \in DOMAIN inventory : inventory[name] = Missing
       THEN /\ catalog' = [catalog EXCEPT !.records = {}]
            /\ task' = [call |-> "create", at |-> "clear", after |-> "answer"]
       ELSE task' = [call |-> "open", at |-> "recover"] /\ UNCHANGED catalog
    /\ UNCHANGED <<commits, inventory, graphs, index, native, owed, founded, broken, breaks>>

\* recover_inventory_files, one file operation at a time.
Settled(f) ==
    IF f.main = Missing /\ f.bak # Missing THEN [f EXCEPT !.main = f.bak, !.bak = Missing]
    ELSE IF f.main = Missing /\ f.tmp # Missing THEN [f EXCEPT !.main = f.tmp, !.tmp = Missing]
    ELSE IF f.bak # Missing THEN [f EXCEPT !.bak = Missing]
    ELSE [f EXCEPT !.tmp = Missing]

RecoverInventory ==
    /\ task.call = "open" /\ task.at = "recover"
    /\ IF Settled(inventory) # inventory
       THEN inventory' = Settled(inventory) /\ UNCHANGED task
       ELSE Continue("read") /\ UNCHANGED inventory
    /\ UNCHANGED <<commits, catalog, graphs, index, native, owed, founded, broken, breaks>>

ReadInventory ==
    /\ task.call = "open" /\ task.at = "read"
    /\ IF inventory.main.is = "whole"
       THEN /\ catalog' = [open |-> TRUE, records |-> inventory.main.records]
            /\ UNCHANGED broken
       ELSE broken' = TRUE /\ UNCHANGED catalog
    /\ task' = NoTask
    /\ UNCHANGED <<commits, inventory, graphs, index, native, owed, founded, breaks>>

-----------------------------------------------------------------------------

\* persist
ClearResidue ==
    /\ task # NoTask /\ task.at = "clear"
    /\ \/ inventory.tmp # Missing /\ inventory' = [inventory EXCEPT !.tmp = Missing]
          /\ UNCHANGED task
       \/ inventory.tmp = Missing /\ inventory.bak # Missing
          /\ inventory' = [inventory EXCEPT !.bak = Missing] /\ UNCHANGED task
       \/ inventory.tmp = Missing /\ inventory.bak = Missing
          /\ inventory' = [inventory EXCEPT !.tmp = Partial] /\ Continue("writing")
    /\ UNCHANGED <<commits, catalog, graphs, index, native, owed, founded, broken, breaks>>

ReplaceFile ==
    /\ task # NoTask
    /\ \/ /\ task.at = "writing"
          /\ inventory' = [inventory EXCEPT !.tmp = Complete(catalog.records)]
          /\ Continue("aside")
       \/ /\ task.at = "aside"
          /\ inventory' = [inventory EXCEPT !.main = Missing, !.bak = inventory.main]
          /\ Continue("promote")
       \/ /\ task.at = "promote"
          /\ inventory' = [inventory EXCEPT !.main = inventory.tmp, !.tmp = Missing]
          /\ Continue("dropBackup")
       \/ /\ task.at = "dropBackup"
          /\ inventory' = [inventory EXCEPT !.bak = Missing]
          /\ Continue(task.after)
    /\ UNCHANGED <<commits, catalog, graphs, index, native, owed, founded, broken, breaks>>

-----------------------------------------------------------------------------

Invalidated(records) == {[r EXCEPT !.state = "Invalidated"] : r \in records}

\* Mutant of Stale: only the kind that is rebuilt first is looked at.
StaleGraphs(records) ==
    {r \in records : r.state = "Complete" /\ r.snapshot # commits /\ r.kind = "HotSnapshot"}

Stale(records) == {r \in records : r.state = "Complete" /\ r.snapshot # commits}

\* Both builders begin with invalidate_stale; the native one has checked that the
\* graph index is of this snapshot.
Build(call) ==
    /\ catalog.open /\ task = NoTask
    /\ call = "native" => index = commits
    /\ LET stale == Stale(catalog.records)
           make == IF call = "native" THEN "import" ELSE "layout"
       IN  /\ task' = [call |-> call, at |-> IF stale = {} THEN make ELSE "clear", after |-> make]
           /\ catalog' = [catalog EXCEPT !.records = (@ \ stale) \cup Invalidated(stale)]
    /\ UNCHANGED <<commits, inventory, graphs, index, native, owed, founded, broken, breaks>>

\* Verified if it is there, built beside and renamed if not.
MakeLayout ==
    /\ task # NoTask /\ task.at = "layout"
    /\ graphs' = graphs \cup {commits}
    /\ Continue("register")
    /\ UNCHANGED <<commits, inventory, catalog, index, native, owed, founded, broken, breaks>>

\* The import key names the snapshot: a repeated import is ignored.
ImportNative ==
    /\ task # NoTask /\ task.at = "import"
    /\ native' = IF native.snapshot = commits THEN native
                 ELSE [generation |-> native.generation + 1, snapshot |-> commits]
    /\ Continue("register")
    /\ UNCHANGED <<commits, inventory, catalog, graphs, index, owed, founded, broken, breaks>>

ToRegister ==
    IF task.call = "native" THEN Artifact("VectorColumn", native.generation, commits)
    ELSE Artifact("HotSnapshot", commits, commits)

SameId(r, s) ==
    r.kind = s.kind /\ r.generation = s.generation /\ r.snapshot = s.snapshot

\* register_complete_file: DuplicateIgnored, a conflict with the record of the id,
\* or inserted in memory and persisted.
Register ==
    /\ task # NoTask /\ task.at = "register"
    /\ \/ ToRegister \in catalog.records /\ Continue("answer") /\ UNCHANGED catalog
       \/ /\ \E r \in catalog.records \ {ToRegister} : SameId(r, ToRegister)
          /\ task' = NoTask /\ UNCHANGED catalog
       \/ /\ ~\E r \in catalog.records : SameId(r, ToRegister)
          /\ catalog' = [catalog EXCEPT !.records = @ \cup {ToRegister}]
          /\ task' = [task EXCEPT !.at = "clear", !.after = "answer"]
    /\ UNCHANGED <<commits, inventory, graphs, index, native, owed, founded, broken, breaks>>

\* invalidate
InvalidateOne(r) ==
    /\ catalog.open /\ task = NoTask
    /\ r \in catalog.records /\ r.state = "Complete"
    /\ catalog' = [catalog EXCEPT !.records = (@ \ {r}) \cup Invalidated({r})]
    /\ task' = [call |-> "invalidate", at |-> "clear", after |-> "answer"]
    /\ owed' = owed \ {r}
    /\ UNCHANGED <<commits, inventory, graphs, index, native, founded, broken, breaks>>

Answer ==
    /\ task # NoTask /\ task.at = "answer"
    /\ CASE task.call = "create" -> /\ founded' = TRUE
                                    /\ catalog' = [catalog EXCEPT !.open = TRUE]
                                    /\ UNCHANGED <<owed, index>>
         [] task.call = "invalidate" -> UNCHANGED <<founded, catalog, owed, index>>
         [] task.call = "native" -> /\ owed' = owed \cup {ToRegister}
                                    /\ UNCHANGED <<founded, catalog, index>>
         [] task.call = "materialize" -> /\ owed' = owed \cup {ToRegister} /\ index' = commits
                                         /\ UNCHANGED <<founded, catalog>>
    /\ task' = NoTask
    /\ UNCHANGED <<commits, inventory, graphs, native, broken, breaks>>

-----------------------------------------------------------------------------

CommitTransaction ==
    /\ task = NoTask /\ commits < MaxCommits
    /\ commits' = commits + 1
    /\ UNCHANGED <<inventory, catalog, task, graphs, index, native, owed, founded, broken, breaks>>

\* A failed promotion puts the backup back, if it can; memory is ahead of the file
\* and is dropped.
BuildFails ==
    /\ task # NoTask /\ task.at # "answer" /\ breaks < MaxBreaks
    /\ \/ UNCHANGED inventory
       \/ /\ task.at = "promote" /\ inventory.bak # Missing
          /\ inventory' = [inventory EXCEPT !.main = inventory.bak, !.bak = Missing]
    /\ catalog' = NoCatalog /\ task' = NoTask /\ breaks' = breaks + 1
    /\ UNCHANGED <<commits, graphs, index, native, owed, founded, broken>>

BuilderKilled ==
    /\ catalog.open \/ task # NoTask
    /\ breaks < MaxBreaks
    /\ catalog' = NoCatalog /\ task' = NoTask /\ index' = -1 /\ breaks' = breaks + 1
    /\ UNCHANGED <<commits, inventory, graphs, native, owed, founded, broken>>

DerivedInit ==
    /\ commits = 0 /\ inventory = [name \in {"main", "tmp", "bak"} |-> Missing]
    /\ catalog = NoCatalog /\ task = NoTask
    /\ graphs = {} /\ index = -1 /\ native = [generation |-> 0, snapshot |-> -1]
    /\ owed = {} /\ founded = FALSE /\ broken = FALSE /\ breaks = 0

DerivedNext ==
    \/ OpenInventory \/ RecoverInventory \/ ReadInventory
    \/ ClearResidue \/ ReplaceFile
    \/ Build("materialize") \/ Build("native")
    \/ MakeLayout \/ ImportNative \/ Register \/ Answer
    \/ \E r \in catalog.records : InvalidateOne(r)
    \/ CommitTransaction \/ BuildFails \/ BuilderKilled

DerivedSpec == DerivedInit /\ [][DerivedNext]_derivedVars

-----------------------------------------------------------------------------

\* An inventory that was founded opens again, whatever is interrupted; it still
\* has, as complete, every artifact whose registration was answered and which
\* belongs to the current snapshot; and every artifact it calls complete, of this
\* or an older snapshot, is the file that was registered, though the native column
\* is one file that every snapshot rewrites.
ArtifactsAsRegistered ==
    /\ broken => ~founded
    /\ catalog.open /\ task = NoTask =>
          /\ \A r \in catalog.records : r.state = "Complete" => Matches(r)
          /\ \A r \in owed : r.snapshot = commits => r \in catalog.records
=============================================================================
