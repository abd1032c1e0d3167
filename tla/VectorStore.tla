----------------------------- MODULE VectorStore -----------------------------
(***************************************************************************)
(* The vector store: a registry of spaces and one column file per space.   *)
(* Both are replaced as whole images, through a journal, a temporary file  *)
(* and a backup beside the target:                                         *)
(*                                                                         *)
(*     persist_image = recover_image; write the journal; replay_journal    *)
(*                                                                         *)
(* and open recovers every image before it reads it.  One process at a     *)
(* time uses the store; it may be killed between any two file operations   *)
(* and inside a write, any operation may fail with an error, and a caller  *)
(* may go on with its handle after an error.                               *)
(*                                                                         *)
(* An image is what it decodes to, a file is absent, torn or whole: the    *)
(* SHA-256 footers tell a torn one.  The records the vectors belong to     *)
(* exist.  The ranking of find_exact is arithmetic and left out.           *)
(***************************************************************************)
EXTENDS Integers, FiniteSets, FiniteSetsExt

CONSTANTS
    Spaces,            \* vector spaces: positive numbers, in the order of their ids
    Inputs,            \* [key, batch]: key 0 is put_vector, others import_vectors
    MaxGeneration,     \* bound on the generation of a column
    MaxInterrupts      \* bound on kills and failing file operations

ASSUME VectorConstants ==
    /\ Spaces \subseteq Nat \ {0} /\ IsFiniteSet(Spaces)
    /\ MaxGeneration \in Nat /\ MaxInterrupts \in Nat

VARIABLES
    vectorsDir,    \* vectors/ has been made
    images,        \* the files of the registry (path 0) and of every column
    store,         \* the open VectorStore
    work,          \* the call under way
    sworn,         \* sworn[s]: the columns of s that answers so far leave possible
    refusal,       \* why the last open failed
    cuts,          \* where calls were cut short
    interrupts     \* kills and errors so far

vectorVars == <<vectorsDir, images, store, work, sworn, refusal, cuts, interrupts>>

RegistryPath == 0
Paths == {RegistryPath} \cup Spaces

NoFile == [is |-> "absent"]
TornFile == [is |-> "torn"]
WholeFile(image) == [is |-> "whole", image |-> image]

NoFiles == [main |-> NoFile, tmp |-> NoFile, bak |-> NoFile, journal |-> NoFile]

EmptyColumn == [generation |-> 0, imports |-> {}, vectors |-> {}]

NoStore == [open |-> FALSE]
Store(columns) == [open |-> TRUE, columns |-> columns]
Registered == DOMAIN store.columns
NoWork == [call |-> "none"]

\* upsert: the vectors a batch of <<record, vector>> leaves in a column.
Upsert(column, batch) ==
    {p \in column.vectors : \A q \in batch : q[1] # p[1]} \cup batch

-----------------------------------------------------------------------------

\* persist_image of a whole image, from its recover_image on.
Persist(call, path, image) ==
    [call |-> call, path |-> path, image |-> WholeFile(image), at |-> "recover", saved |-> FALSE]

here == images[work.path]
SetFiles(f) == images' = [images EXCEPT ![work.path] = f]
Goto(at) == work' = [work EXCEPT !.at = at]

\* open_or_create, on no vectors/: the directories, then an empty registry.
CreateStore ==
    /\ ~store.open /\ work = NoWork /\ ~vectorsDir
    /\ vectorsDir' = TRUE
    /\ work' = Persist("create", RegistryPath, {})
    /\ UNCHANGED <<images, store, sworn, refusal, cuts, interrupts>>

OpenStore ==
    /\ ~store.open /\ work = NoWork /\ vectorsDir /\ refusal = "none"
    /\ work' = [call |-> "open", path |-> RegistryPath, at |-> "recover", saved |-> FALSE,
                registry |-> {}]
    /\ UNCHANGED <<vectorsDir, images, store, sworn, refusal, cuts, interrupts>>

CreateSpace(s) ==
    /\ store.open /\ work = NoWork /\ s \notin Registered
    /\ work' = Persist("space", s, EmptyColumn)
    /\ UNCHANGED <<vectorsDir, images, store, sworn, refusal, cuts, interrupts>>

\* The column put_vector and import_vectors make of the loaded one.
NextColumn(column, input) ==
    [generation |-> column.generation + 1,
     imports |-> column.imports \cup (IF input.key = 0 THEN {} ELSE {input}),
     vectors |-> Upsert(column, input.batch)]

\* put_vector answers Unchanged, import_vectors DuplicateIgnored or a conflict.
NothingToWrite(column, input) ==
    IF input.key = 0 THEN input.batch \subseteq column.vectors
    ELSE \E i \in column.imports : i.key = input.key

Write(s, input) ==
    /\ store.open /\ work = NoWork /\ s \in Registered
    /\ LET column == store.columns[s]
           next == NextColumn(column, input)
       IN  /\ ~NothingToWrite(column, input)
           /\ column.generation < MaxGeneration
           /\ work' = Persist("write", s, next)
           /\ sworn' = [sworn EXCEPT ![s] = @ \cup {next}]
    /\ UNCHANGED <<vectorsDir, images, store, refusal, cuts, interrupts>>

-----------------------------------------------------------------------------

\* recover_image without a journal, one file operation at a time.
Tidied(f) ==
    IF f.main = NoFile /\ f.bak # NoFile THEN [f EXCEPT !.main = f.bak, !.bak = NoFile]
    ELSE IF f.tmp # NoFile THEN [f EXCEPT !.tmp = NoFile]
    ELSE [f EXCEPT !.bak = NoFile]

AfterRecovery == IF work.call = "open" THEN "read" ELSE "journal"

Recover ==
    /\ work # NoWork /\ work.at = "recover"
    /\ \/ here.journal # NoFile /\ Goto("replay") /\ UNCHANGED images
       \/ /\ here.journal = NoFile /\ Tidied(here) # here
          /\ SetFiles(Tidied(here)) /\ UNCHANGED work
       \/ /\ here.journal = NoFile /\ Tidied(here) = here
          /\ Goto(AfterRecovery) /\ UNCHANGED images
    /\ UNCHANGED <<vectorsDir, store, sworn, refusal, cuts, interrupts>>

\* write_journal_only, in two steps so that it can be torn.
WriteJournal ==
    /\ work # NoWork
    /\ \/ work.at = "journal" /\ SetFiles([here EXCEPT !.journal = TornFile])
          /\ Goto("journalling")
       \/ work.at = "journalling" /\ SetFiles([here EXCEPT !.journal = work.image])
          /\ work' = [work EXCEPT !.at = "replay", !.saved = TRUE]
    /\ UNCHANGED <<vectorsDir, store, sworn, refusal, cuts, interrupts>>

\* replay_journal: the image is already in place, or it is put there.
Replay ==
    /\ work # NoWork /\ work.at = "replay" /\ here.journal.is = "whole"
    /\ Goto(IF here.main = here.journal THEN "sweep" ELSE "clear")
    /\ UNCHANGED <<vectorsDir, images, store, sworn, refusal, cuts, interrupts>>

\* Residue is removed in this order.
Cleared(f) == IF f.tmp # NoFile THEN [f EXCEPT !.tmp = NoFile] ELSE [f EXCEPT !.bak = NoFile]

Swap ==
    /\ work # NoWork
    /\ \/ /\ work.at = "clear" /\ Cleared(here) # here
          /\ SetFiles(Cleared(here)) /\ UNCHANGED work
       \/ /\ work.at = "clear" /\ Cleared(here) = here
          /\ SetFiles([here EXCEPT !.tmp = TornFile]) /\ Goto("writing")
       \/ /\ work.at = "writing"
          /\ SetFiles([here EXCEPT !.tmp = here.journal]) /\ Goto("aside")
       \/ /\ work.at = "aside"
          /\ SetFiles([here EXCEPT !.main = NoFile, !.bak = here.main]) /\ Goto("promote")
       \/ /\ work.at = "promote"
          /\ SetFiles([here EXCEPT !.main = here.tmp, !.tmp = NoFile]) /\ Goto("sweep")
    /\ UNCHANGED <<vectorsDir, store, sworn, refusal, cuts, interrupts>>

\* The journal goes last.
Swept(f) == IF Cleared(f) # f THEN Cleared(f) ELSE [f EXCEPT !.journal = NoFile]

\* Mutant of AfterReplay: a replacement that recovery has finished is taken for
\* the one that was asked for.
AfterReplayDone == IF work.call = "open" THEN "read" ELSE "done"

\* The journal replayed was this call's own, or one that recovery found.
AfterReplay == IF work.saved THEN "done" ELSE AfterRecovery

Sweep ==
    /\ work # NoWork /\ work.at = "sweep"
    /\ IF Swept(here) # here THEN SetFiles(Swept(here)) /\ UNCHANGED work
       ELSE Goto(AfterReplay) /\ UNCHANGED images
    /\ UNCHANGED <<vectorsDir, store, sworn, refusal, cuts, interrupts>>

\* The space whose registry image is being persisted.
NewSpace == CHOOSE s \in Spaces : work.image.image = Registered \cup {s} /\ s \notin Registered

\* create_space goes on to the registry; every other call is answered.
Done ==
    /\ work # NoWork /\ work.at = "done"
    /\ \/ /\ work.call = "space" /\ work.path # RegistryPath
          /\ work' = Persist("space", RegistryPath, Registered \cup {work.path})
          /\ UNCHANGED <<store, sworn>>
       \/ /\ work.call = "space" /\ work.path = RegistryPath
          /\ store' = Store([s \in work.image.image |->
                                IF s = NewSpace THEN EmptyColumn ELSE store.columns[s]])
          /\ sworn' = [sworn EXCEPT ![NewSpace] = {EmptyColumn}]
          /\ work' = NoWork
       \/ /\ work.call = "write"
          /\ store' = [store EXCEPT !.columns[work.path] = work.image.image]
          /\ sworn' = [sworn EXCEPT ![work.path] = {work.image.image}]
          /\ work' = NoWork
       \/ /\ work.call = "create"
          /\ store' = Store(<<>>) /\ work' = NoWork /\ UNCHANGED sworn
    /\ UNCHANGED <<vectorsDir, images, refusal, cuts, interrupts>>

-----------------------------------------------------------------------------

\* Mutant of NextImage: open recovers the registry and only reads the columns.
NextImageUnrecovered(registry) ==
    LET rest == {s \in registry : s > work.path}
    IN  IF rest = {} THEN [work EXCEPT !.registry = registry, !.at = "verify"]
        ELSE [work EXCEPT !.registry = registry, !.path = Min(rest), !.at = "read"]

\* open takes the registered spaces in order.
NextImage(registry) ==
    LET rest == {s \in registry : s > work.path}
    IN  IF rest = {} THEN [work EXCEPT !.registry = registry, !.at = "verify"]
        ELSE [work EXCEPT !.registry = registry, !.path = Min(rest), !.at = "recover"]

ReadImage ==
    /\ work # NoWork /\ work.at = "read" /\ here.main.is = "whole"
    /\ work' = NextImage(IF work.path = RegistryPath THEN here.main.image ELSE work.registry)
    /\ UNCHANGED <<vectorsDir, images, store, sworn, refusal, cuts, interrupts>>

\* verify_column_directory: files of a space that is not registered.
Orphans == {s \in Spaces \ work.registry : images[s] # NoFiles}

Opened ==
    /\ work # NoWork /\ work.at = "verify" /\ Orphans = {}
    /\ LET columns == [s \in work.registry |-> images[s].main.image]
       IN  /\ store' = Store(columns)
           /\ sworn' = [s \in Spaces |->
                          IF s \in work.registry /\ (sworn[s] = {} \/ columns[s] \in sworn[s])
                          THEN {columns[s]} ELSE sworn[s]]
    /\ work' = NoWork
    /\ UNCHANGED <<vectorsDir, images, refusal, cuts, interrupts>>

\* What makes open fail.  It leaves the files as they are, so that it fails for
\* ever after.
Refusal ==
    CASE work.at = "replay" /\ here.journal.is = "torn" -> "journal"
      [] work.at = "read" /\ here.main.is = "torn" -> "image"
      [] work.at = "read" /\ here.main = NoFile ->
             IF work.path = RegistryPath THEN "registry" ELSE "column"
      [] work.at = "verify" /\ Orphans # {} -> "orphan"
      [] OTHER -> "none"

OpenRefused ==
    /\ work # NoWork /\ work.call = "open" /\ Refusal # "none"
    /\ refusal' = Refusal /\ work' = NoWork
    /\ UNCHANGED <<vectorsDir, images, store, sworn, cuts, interrupts>>

-----------------------------------------------------------------------------

\* What a call leaves unfinished when it ends here.
Cut == cuts' = cuts \cup (IF work.at = "journalling" THEN {"journal"} ELSE {})
                   \cup ({"create", "space"} \cap {work.call})

\* A failed promotion puts the backup back, if it can.
LeftBehind ==
    {here} \cup (IF work.at = "promote" /\ here.bak # NoFile
                THEN {[here EXCEPT !.main = here.bak, !.bak = NoFile]} ELSE {})

\* create_space removes the column of a space it could not register, if it can,
\* and not the registry's journal.
Abandon(files) ==
    \/ SetFiles(files)
    \/ /\ work.call = "space" /\ work.path = RegistryPath
       /\ images' = [images EXCEPT ![RegistryPath] = files, ![NewSpace] = NoFiles]

OperationFails ==
    /\ work # NoWork /\ work.at # "done" /\ interrupts < MaxInterrupts
    /\ \E files \in LeftBehind : Abandon(files)
    /\ Cut /\ work' = NoWork /\ interrupts' = interrupts + 1
    /\ UNCHANGED <<vectorsDir, store, sworn, refusal>>

\* A handle that goes on after an error meets the torn journal it left.
JournalRefused ==
    /\ work # NoWork /\ work.call # "open" /\ work.at = "replay" /\ here.journal.is = "torn"
    /\ Abandon(here)
    /\ Cut /\ work' = NoWork
    /\ UNCHANGED <<vectorsDir, store, sworn, refusal, interrupts>>

StoreKilled ==
    /\ work # NoWork /\ interrupts < MaxInterrupts
    /\ Cut /\ store' = NoStore /\ work' = NoWork
    /\ interrupts' = interrupts + 1
    /\ UNCHANGED <<vectorsDir, images, sworn, refusal>>

CloseStore ==
    /\ store.open /\ work = NoWork
    /\ store' = NoStore
    /\ UNCHANGED <<vectorsDir, images, work, sworn, refusal, cuts, interrupts>>

VectorInit ==
    /\ vectorsDir = FALSE /\ images = [p \in Paths |-> NoFiles]
    /\ store = NoStore /\ work = NoWork
    /\ sworn = [s \in Spaces |-> {}]
    /\ refusal = "none" /\ cuts = {} /\ interrupts = 0

VectorNext ==
    \/ CreateStore \/ OpenStore \/ CloseStore
    \/ \E s \in Spaces : CreateSpace(s) \/ \E input \in Inputs : Write(s, input)
    \/ Recover \/ WriteJournal \/ Replay \/ Swap \/ Sweep \/ Done
    \/ ReadImage \/ Opened \/ OpenRefused
    \/ OperationFails \/ JournalRefused \/ StoreKilled

VectorSpec == VectorInit /\ [][VectorNext]_vectorVars

-----------------------------------------------------------------------------

\* A store that opens holds every space create_space has answered for, and in it
\* the column of the last put or import that was answered, or of one that was cut
\* short since; never an older one, nor a part of one.  An Unchanged answered
\* behind a failed put speaks of the handle's memory only.
VectorsKept ==
    store.open =>
        \A s \in Spaces : sworn[s] # {} =>
            s \in Registered /\ store.columns[s] \in sworn[s]

\* Interrupted replacements are recovered: open fails only where a journal was
\* being written, or the store or a space was being created, when a call was cut
\* short.  No interruption of a put or import behind its journal, of an open, or
\* of another recovery can keep the store from opening.
RefusedOnlyUnfinished ==
    /\ refusal # "image"
    /\ refusal = "journal" => "journal" \in cuts
    /\ refusal = "registry" => "create" \in cuts
    /\ refusal \in {"column", "orphan"} => "space" \in cuts
=============================================================================
