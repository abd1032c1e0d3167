---------------------------- MODULE SemanticProofs ---------------------------
(***************************************************************************)
(* Theorems about the semantic layer's three stateful parts, which share   *)
(* no state: the vector store, the inventory of derived artifacts and the  *)
(* GPU router.                                                             *)
(***************************************************************************)
EXTENDS VectorStore, DerivedArtifacts, GpuRouter, FileLemmas, FiniteSetTheorems

-----------------------------------------------------------------------------
(* The vector store, for any spaces, batches, kills and failing operations. *)

\* A file that decodes.
IsWhole(x) == x.is = "whole" /\ x = WholeFile(x.image)

\* What a path may hold between any two file operations.
GoodFiles(f) ==
    /\ f = [main |-> f.main, tmp |-> f.tmp, bak |-> f.bak, journal |-> f.journal]
    /\ f.main = NoFile \/ IsWhole(f.main)
    /\ f.bak = NoFile \/ IsWhole(f.bak)
    /\ f.journal \in {NoFile, TornFile} \/ IsWhole(f.journal)
    /\ f.tmp \in {NoFile, TornFile} \/ f.tmp = f.journal
    /\ ~IsWhole(f.journal) => f.tmp = NoFile /\ f.bak = NoFile

\* Nothing of a replacement is left beside the target.
Tidy(f) == f.tmp = NoFile /\ f.bak = NoFile /\ f.journal = NoFile

\* What the next recovery makes of the path.
Held(f) == IF IsWhole(f.journal) THEN f.journal ELSE f.main

\* The spaces the next open finds registered.
Listed == IF IsWhole(Held(images[0])) THEN Held(images[0]).image ELSE {}

\* Where replay_journal is putting the image of the journal in place.
Swapping == {"clear", "writing", "aside", "promote"}

\* Every path can be recovered, and the registry speaks of known spaces.
ImagesGood ==
    /\ images = [p \in Paths |-> images[p]]
    /\ \A p \in Paths : GoodFiles(images[p])
    /\ Listed \subseteq Spaces

\* What the files of a path are where the call is.
Fits(f, at, saved) ==
    /\ at \in {"recover", "journal", "journalling", "replay", "sweep", "read", "verify",
               "done"} \cup Swapping
    /\ at \in {"recover", "journal", "journalling"} => ~saved
    /\ at \in {"journal", "read", "done"} => Tidy(f)
    /\ at = "journalling" => f.journal = TornFile
    /\ at = "replay" => f.journal # NoFile
    /\ at \in Swapping => IsWhole(f.journal)
    /\ at \in {"writing", "aside"} => f.bak = NoFile
    /\ at \in {"aside", "promote"} => f.tmp = f.journal
    /\ at = "promote" => f.main = NoFile
    /\ at = "sweep" => IsWhole(f.main) /\ (f.journal = f.main \/ Tidy(f))
    /\ at = "done" => saved

\* The call under way, against the files of its path.
Shape ==
    /\ work.path \in Paths /\ work.saved \in BOOLEAN
    /\ Fits(here, work.at, work.saved)
    /\ work.saved => Held(here) = work.image

\* A column that open has read.
Recovered(s) == Tidy(images[s]) /\ IsWhole(images[s].main)

\* open has recovered and read the registry, and every column below its path.
OpenStands ==
    /\ work.call = "open"
    /\ work = [call |-> "open", path |-> work.path, at |-> work.at, saved |-> work.saved,
               registry |-> work.registry]
    /\ ~work.saved /\ ~store.open
    /\ work.at \notin {"journal", "journalling", "done"}
    /\ work.path # 0 \/ work.at = "verify" =>
          /\ work.registry \subseteq Spaces
          /\ Tidy(images[0]) /\ images[0].main = WholeFile(work.registry)
          /\ work.path \in work.registry \cup {0}
          /\ \A s \in work.registry : s < work.path => Recovered(s)
    /\ work.at = "verify" => \A s \in work.registry : s <= work.path /\ Recovered(s)

\* create_space is saving the registry with s.
Registering(s) ==
    s \notin Registered /\ work.image = WholeFile(Registered \cup {s})

\* What each of the calls that persist an image is saving, and where.
PersistStands ==
    /\ work.call # "open"
    /\ work = [call |-> work.call, path |-> work.path, image |-> work.image, at |-> work.at,
               saved |-> work.saved]
    /\ IsWhole(work.image)
    /\ work.at \notin {"read", "verify"}
    /\ \/ /\ work.call = "create" /\ work.path = 0 /\ work.image = WholeFile({})
          /\ ~store.open /\ Listed = {} /\ \A s \in Spaces : sworn[s] = {}
       \/ /\ work.call = "space" /\ work.path \in Spaces /\ store.open
          /\ work.path \notin Registered /\ work.image = WholeFile(EmptyColumn)
       \/ /\ work.call = "space" /\ work.path = 0 /\ store.open
          /\ \E s \in Spaces :
                Registering(s) /\ Tidy(images[s]) /\ images[s].main = WholeFile(EmptyColumn)
       \/ /\ work.call = "write" /\ store.open /\ work.path \in Registered
          /\ work.image.image \in sworn[work.path]

\* Whatever call is under way.
CallStands == work # NoWork => vectorsDir /\ Shape /\ (OpenStands \/ PersistStands)

\* The open store, and that there is none before vectors/.
StoreStands ==
    /\ vectorsDir \in BOOLEAN
    /\ ~vectorsDir => store = NoStore /\ Held(images[0]) = NoFile
    /\ \/ store = NoStore
       \/ /\ store = Store(store.columns) /\ Registered \subseteq Spaces
          /\ store.columns = [s \in Registered |-> store.columns[s]]
          /\ \A s \in Registered : sworn[s] # {}

\* What answers have promised is what the next recovery will find.
SwornHeld ==
    /\ sworn = [s \in Spaces |-> sworn[s]]
    /\ \A s \in Spaces : sworn[s] # {} =>
          s \in Listed /\ IsWhole(Held(images[s])) /\ Held(images[s]).image \in sworn[s]

\* The space that create_space is at.
Making(s) ==
    work # NoWork /\ work.call = "space" /\ (work.path = s \/ (work.path = 0 /\ Registering(s)))

\* Everything that could make open refuse is of a call that was cut short, or of
\* the one under way.
CutsKnown ==
    /\ \A p \in Paths : images[p].journal = TornFile =>
          "journal" \in cuts \/ (work # NoWork /\ work.at = "journalling" /\ work.path = p)
    /\ vectorsDir /\ "create" \notin cuts /\ work.call # "create" => Held(images[0]) # NoFile
    /\ "space" \notin cuts =>
          /\ \A s \in Spaces :
                IF s \in Listed THEN Held(images[s]) # NoFile
                ELSE Making(s) \/ images[s] = NoFiles
          /\ store.open =>
                \/ Registered = Listed
                \/ work # NoWork /\ work.call = "space" /\ work.path = 0 /\ work.saved

\* The inductive invariant of the vector store.
VectorInv ==
    /\ ImagesGood /\ CallStands /\ StoreStands /\ SwornHeld /\ VectorsKept
    /\ CutsKnown /\ RefusedOnlyUnfinished

-----------------------------------------------------------------------------

\* The three kinds of file are told apart by their footers.
LEMMA ImageKinds ==
    /\ NoFile # TornFile /\ NoFile.is = "absent" /\ TornFile.is = "torn"
    /\ ~IsWhole(NoFile) /\ ~IsWhole(TornFile)
    /\ \A i : IsWhole(WholeFile(i)) /\ WholeFile(i).image = i /\ WholeFile(i).is = "whole"
  BY DEF NoFile, TornFile, WholeFile, IsWhole

\* A whole file is neither absent nor torn.
LEMMA WholeIs == \A x : IsWhole(x) => x # NoFile /\ x # TornFile /\ x.is = "whole"
  BY ImageKinds DEF IsWhole

\* Without a journal there is nothing to tidy.
LEMMA NothingToTidy ==
    ASSUME NEW f, GoodFiles(f), f.journal = NoFile
    PROVE  Tidy(f) /\ Tidied(f) = f
  <1>1. f.tmp = NoFile /\ f.bak = NoFile
    BY ImageKinds DEF GoodFiles
  <1>2. [f EXCEPT !.bak = NoFile] = f
    BY <1>1 DEF GoodFiles
  <1> QED
    BY <1>1, <1>2 DEF Tidy, Tidied

\* cleanup_replacement_residue, one file at a time: under a journal nothing that
\* recovery needs is removed.
LEMMA ClearedGood ==
    ASSUME NEW f, GoodFiles(f)
    PROVE  /\ GoodFiles(Cleared(f)) /\ Held(Cleared(f)) = Held(f)
           /\ Cleared(f).journal = f.journal /\ Cleared(f).main = f.main
           /\ Cleared(f) = f => f.tmp = NoFile /\ f.bak = NoFile
  <1>1. CASE f.tmp # NoFile
    <2>1. Cleared(f) = [main |-> f.main, tmp |-> NoFile, bak |-> f.bak, journal |-> f.journal]
      BY <1>1 DEF Cleared, GoodFiles
    <2> QED
      BY <1>1, <2>1 DEF GoodFiles, Held
  <1>2. CASE f.tmp = NoFile
    <2>1. Cleared(f) = [main |-> f.main, tmp |-> NoFile, bak |-> NoFile, journal |-> f.journal]
      BY <1>2 DEF Cleared, GoodFiles
    <2> QED
      BY <1>2, <2>1 DEF GoodFiles, Held
  <1> QED
    BY <1>1, <1>2

\* The end of replay_journal, with the image in place: the journal goes last.
LEMMA SweptGood ==
    ASSUME NEW f, GoodFiles(f), IsWhole(f.main), f.journal = f.main \/ Tidy(f)
    PROVE  /\ GoodFiles(Swept(f)) /\ Held(Swept(f)) = Held(f) /\ Swept(f).main = f.main
           /\ Swept(f).journal = f.main \/ Tidy(Swept(f))
           /\ Swept(f).journal # TornFile
           /\ Swept(f) = f => Tidy(f)
  <1>1. CASE Cleared(f) # f
    BY <1>1, ClearedGood, WholeIs, ImageKinds DEF Swept, Tidy, Cleared, GoodFiles
  <1>2. CASE Cleared(f) = f
    <2>1. f.tmp = NoFile /\ f.bak = NoFile
      BY <1>2, ClearedGood
    <2>2. Swept(f) = [main |-> f.main, tmp |-> NoFile, bak |-> NoFile, journal |-> NoFile]
      BY <1>2, <2>1 DEF Swept, GoodFiles
    <2>3. Held(f) = f.main
      BY ImageKinds DEF Held, Tidy
    <2> QED
      BY <2>1, <2>2, <2>3, ImageKinds DEF GoodFiles, Held, Tidy
  <1> QED
    BY <1>1, <1>2

\* Moving the target aside, as two replacements.
LEMMA MainAndBak ==
    ASSUME NEW f, f = [main |-> f.main, tmp |-> f.tmp, bak |-> f.bak, journal |-> f.journal],
           NEW x, NEW y
    PROVE  [f EXCEPT !.main = x, !.bak = y]
                = [main |-> x, tmp |-> f.tmp, bak |-> y, journal |-> f.journal]
  <1> DEFINE g == [main |-> x, tmp |-> f.tmp, bak |-> f.bak, journal |-> f.journal]
  <1>1. [f EXCEPT !.main = x, !.bak = y] = [[f EXCEPT !.main = x] EXCEPT !.bak = y]
    OBVIOUS
  <1>2. [f EXCEPT !.main = x] = g
    OBVIOUS
  <1>3. [g EXCEPT !.bak = y] = [main |-> x, tmp |-> f.tmp, bak |-> y, journal |-> f.journal]
    OBVIOUS
  <1> HIDE DEF g
  <1> QED
    BY <1>1, <1>2, <1>3

\* Promoting the temporary file, as two replacements.
LEMMA MainAndTmp ==
    ASSUME NEW f, f = [main |-> f.main, tmp |-> f.tmp, bak |-> f.bak, journal |-> f.journal],
           NEW x, NEW y
    PROVE  [f EXCEPT !.main = x, !.tmp = y]
                = [main |-> x, tmp |-> y, bak |-> f.bak, journal |-> f.journal]
  <1> DEFINE g == [main |-> x, tmp |-> f.tmp, bak |-> f.bak, journal |-> f.journal]
  <1>1. [f EXCEPT !.main = x, !.tmp = y] = [[f EXCEPT !.main = x] EXCEPT !.tmp = y]
    OBVIOUS
  <1>2. [f EXCEPT !.main = x] = g
    OBVIOUS
  <1>3. [g EXCEPT !.tmp = y] = [main |-> x, tmp |-> y, bak |-> f.bak, journal |-> f.journal]
    OBVIOUS
  <1> HIDE DEF g
  <1> QED
    BY <1>1, <1>2, <1>3

\* The call goes on at another place.
LEMMA Going ==
    ASSUME OpenStands \/ PersistStands, NEW x
    PROVE  LET w == [work EXCEPT !.at = x]
           IN  /\ w.at = x /\ w.path = work.path /\ w.saved = work.saved /\ w.call = work.call
               /\ w # NoWork
               /\ x = work.at => w = work
               /\ OpenStands => /\ w.registry = work.registry
                             /\ w = [call |-> "open", path |-> work.path, at |-> x,
                                     saved |-> work.saved, registry |-> work.registry]
               /\ PersistStands => /\ w.image = work.image
                                /\ w = [call |-> work.call, path |-> work.path,
                                        image |-> work.image, at |-> x, saved |-> work.saved]
  <1>1. CASE OpenStands
    <2>1. work = [call |-> "open", path |-> work.path, at |-> work.at, saved |-> work.saved,
                  registry |-> work.registry]
      BY <1>1 DEF OpenStands
    <2>2. [work EXCEPT !.at = x] = [call |-> "open", path |-> work.path, at |-> x,
                                    saved |-> work.saved, registry |-> work.registry]
      BY <2>1
    <2>3. ~PersistStands
      BY <2>1 DEF PersistStands
    <2> QED
      BY <2>1, <2>2, <2>3 DEF NoWork
  <1>2. CASE PersistStands
    <2>1. work = [call |-> work.call, path |-> work.path, image |-> work.image, at |-> work.at,
                  saved |-> work.saved]
      BY <1>2 DEF PersistStands
    <2>2. [work EXCEPT !.at = x] = [call |-> work.call, path |-> work.path,
                                    image |-> work.image, at |-> x, saved |-> work.saved]
      BY <2>1
    <2>3. ~OpenStands
      BY <1>2 DEF PersistStands, OpenStands
    <2> QED
      BY <2>1, <2>2, <2>3 DEF NoWork
  <1> QED
    BY <1>1, <1>2

\* A step of a call that goes on at x and leaves f at its path, which holds what
\* the path held.
Quiet(f, x) ==
    /\ GoodFiles(f) /\ Held(f) = Held(here) /\ Fits(f, x, work.saved)
    /\ work.at # "journalling"
    /\ f.journal = TornFile => here.journal = TornFile \/ x = "journalling"
    /\ images' = [images EXCEPT ![work.path] = f]
    /\ work' = [work EXCEPT !.at = x]
    /\ IF work.call = "open" THEN x \notin {"journal", "journalling", "done", "verify"}
                             ELSE x \notin {"read", "verify"}

\* Every file operation of recover_image and replay_journal is quiet.
LEMMA FileStep ==
    ASSUME ImagesGood, work # NoWork, Shape, OpenStands \/ PersistStands,
           Recover \/ Replay \/ Swap \/ Sweep \/ (WriteJournal /\ work.at = "journal")
    PROVE  \E f, x : Quiet(f, x)
  <1>0. /\ GoodFiles(here) /\ Fits(here, work.at, work.saved) /\ work.path \in Paths
        /\ images = [p \in Paths |-> images[p]]
        /\ work.saved \in BOOLEAN
    BY DEF ImagesGood, Shape, here
  <1>a. images = [images EXCEPT ![work.path] = here]
    BY <1>0 DEF here
  <1>b. work = [work EXCEPT !.at = work.at]
    BY Going
  <1>c. /\ work.call = "open" => work.saved = FALSE /\ work.at \notin {"journal", "journalling", "done"}
        /\ work.call # "open" => work.at \notin {"read", "verify"}
    BY DEF OpenStands, PersistStands
  <1>d. here = [main |-> here.main, tmp |-> here.tmp, bak |-> here.bak,
                journal |-> here.journal]
    BY <1>0 DEF GoodFiles
  <1>1. CASE Recover
    <2>0. work.at = "recover" /\ ~work.saved
      BY <1>0, <1>1 DEF Recover, Fits
    <2>1. CASE here.journal # NoFile
      <3>1. images' = images /\ work' = [work EXCEPT !.at = "replay"]
        BY <1>1, <2>1 DEF Recover, Goto
      <3> QED
        <4>1. Fits(here, "replay", work.saved)
          BY <2>1 DEF Fits, Swapping
        <4>2. Quiet(here, "replay")
          BY <1>0, <1>a, <2>0, <3>1, <4>1 DEF Quiet
        <4> QED
          BY <4>2
    <2>2. CASE here.journal = NoFile
      <3>0. Tidy(here) /\ Tidied(here) = here
        BY <1>0, <2>2, NothingToTidy
      <3>1. images' = images /\ work' = [work EXCEPT !.at = AfterRecovery]
        BY <1>1, <2>2, <3>0 DEF Recover, Goto
      <3> QED
        <4>1. Fits(here, AfterRecovery, work.saved)
          BY <2>0, <3>0 DEF Fits, Swapping, AfterRecovery
        <4>2. Quiet(here, AfterRecovery)
          BY <1>0, <1>a, <2>0, <2>2, <3>1, <4>1, ImageKinds DEF Quiet, AfterRecovery
        <4> QED
          BY <4>2
    <2> QED
      BY <2>1, <2>2
  <1>2. CASE Replay
    <2>0. work.at = "replay" /\ here.journal.is = "whole" /\ IsWhole(here.journal)
      BY <1>0, <1>2, ImageKinds DEF Replay, GoodFiles
    <2>1. images' = images
          /\ work' = [work EXCEPT !.at = IF here.main = here.journal THEN "sweep" ELSE "clear"]
      BY <1>2 DEF Replay, Goto
    <2> DEFINE x == IF here.main = here.journal THEN "sweep" ELSE "clear"
    <2>2. Fits(here, x, work.saved)
      BY <2>0 DEF Fits, Swapping
    <2>3. Quiet(here, x)
      BY <1>0, <1>a, <2>0, <2>1, <2>2, WholeIs DEF Quiet
    <2> QED
      BY <2>3
  <1>3. CASE Swap
    <2>1. CASE work.at = "clear" /\ Cleared(here) # here
      <3>1. images' = [images EXCEPT ![work.path] = Cleared(here)] /\ work' = work
        BY <1>3, <2>1 DEF Swap, SetFiles
      <3>2. /\ GoodFiles(Cleared(here)) /\ Held(Cleared(here)) = Held(here)
            /\ Cleared(here).journal = here.journal /\ IsWhole(here.journal)
        BY <1>0, <2>1, ClearedGood DEF Fits, Swapping
      <3> QED
        BY <1>0, <1>b, <1>c, <2>1, <3>1, <3>2, WholeIs DEF Quiet, Fits, Swapping
    <2>2. CASE work.at = "clear" /\ Cleared(here) = here
      <3> DEFINE f == [here EXCEPT !.tmp = TornFile]
      <3>1. images' = [images EXCEPT ![work.path] = f] /\ work' = [work EXCEPT !.at = "writing"]
        BY <1>3, <2>2 DEF Swap, SetFiles, Goto
      <3>2. here.bak = NoFile /\ IsWhole(here.journal)
        BY <1>0, <2>2, ClearedGood DEF Fits, Swapping
      <3>3. f = [main |-> here.main, tmp |-> TornFile, bak |-> NoFile, journal |-> here.journal]
        BY <1>0, <3>2 DEF GoodFiles
      <3> HIDE DEF f
      <3>4. GoodFiles(f) /\ Held(f) = Held(here) /\ Fits(f, "writing", work.saved)
        BY <1>0, <3>2, <3>3 DEF GoodFiles, Held, Fits, Swapping
      <3> QED
        BY <1>0, <1>c, <2>2, <3>1, <3>2, <3>3, <3>4, WholeIs DEF Quiet
    <2>3. CASE work.at = "writing"
      <3> DEFINE f == [here EXCEPT !.tmp = here.journal]
      <3>1. images' = [images EXCEPT ![work.path] = f] /\ work' = [work EXCEPT !.at = "aside"]
        BY <1>3, <2>3 DEF Swap, SetFiles, Goto
      <3>2. here.bak = NoFile /\ IsWhole(here.journal)
        BY <1>0, <2>3 DEF Fits, Swapping
      <3>3. f = [main |-> here.main, tmp |-> here.journal, bak |-> NoFile, journal |-> here.journal]
        BY <1>0, <3>2 DEF GoodFiles
      <3> HIDE DEF f
      <3>4. GoodFiles(f) /\ Held(f) = Held(here) /\ Fits(f, "aside", work.saved)
        BY <1>0, <3>2, <3>3 DEF GoodFiles, Held, Fits, Swapping
      <3> QED
        BY <1>0, <1>c, <2>3, <3>1, <3>2, <3>3, <3>4, WholeIs DEF Quiet
    <2>4. CASE work.at = "aside"
      <3> DEFINE f == [here EXCEPT !.main = NoFile, !.bak = here.main]
      <3>1. images' = [images EXCEPT ![work.path] = f] /\ work' = [work EXCEPT !.at = "promote"]
        BY <1>3, <2>4 DEF Swap, SetFiles, Goto
      <3>2. here.tmp = here.journal /\ IsWhole(here.journal)
        BY <1>0, <2>4 DEF Fits, Swapping
      <3>3. f = [main |-> NoFile, tmp |-> here.journal, bak |-> here.main, journal |-> here.journal]
        <4>2. f = [main |-> NoFile, tmp |-> here.tmp, bak |-> here.main, journal |-> here.journal]
          BY <1>d, MainAndBak, Zenon
        <4> QED
          BY <3>2, <4>2
      <3> HIDE DEF f
      <3>4. GoodFiles(f) /\ Held(f) = Held(here) /\ Fits(f, "promote", work.saved)
        BY <1>0, <3>2, <3>3 DEF GoodFiles, Held, Fits, Swapping
      <3> QED
        BY <1>0, <1>c, <2>4, <3>1, <3>2, <3>3, <3>4, WholeIs DEF Quiet
    <2>5. CASE work.at = "promote"
      <3> DEFINE f == [here EXCEPT !.main = here.tmp, !.tmp = NoFile]
      <3>1. images' = [images EXCEPT ![work.path] = f] /\ work' = [work EXCEPT !.at = "sweep"]
        BY <1>3, <2>5 DEF Swap, SetFiles, Goto
      <3>2. here.tmp = here.journal /\ IsWhole(here.journal)
        BY <1>0, <2>5 DEF Fits, Swapping
      <3>3. f = [main |-> here.journal, tmp |-> NoFile, bak |-> here.bak, journal |-> here.journal]
        <4>1. f = [main |-> here.tmp, tmp |-> NoFile, bak |-> here.bak, journal |-> here.journal]
          BY <1>d, MainAndTmp, Zenon
        <4> QED
          BY <3>2, <4>1
      <3> HIDE DEF f
      <3>4. GoodFiles(f) /\ Held(f) = Held(here) /\ Fits(f, "sweep", work.saved)
        BY <1>0, <3>2, <3>3 DEF GoodFiles, Held, Fits, Swapping
      <3> QED
        BY <1>0, <1>c, <2>5, <3>1, <3>2, <3>3, <3>4, WholeIs DEF Quiet
    <2> QED
      BY <1>3, <2>1, <2>2, <2>3, <2>4, <2>5 DEF Swap
  <1>4. CASE Sweep
    <2>0. work.at = "sweep" /\ IsWhole(here.main) /\ (here.journal = here.main \/ Tidy(here))
      BY <1>0, <1>4 DEF Sweep, Fits
    <2>1. /\ GoodFiles(Swept(here)) /\ Held(Swept(here)) = Held(here) /\ Swept(here).main = here.main
          /\ Swept(here).journal = here.main \/ Tidy(Swept(here))
          /\ Swept(here).journal # TornFile
          /\ Swept(here) = here => Tidy(here)
      BY <1>0, <2>0, SweptGood
    <2>2. CASE Swept(here) # here
      <3>1. images' = [images EXCEPT ![work.path] = Swept(here)] /\ work' = work
        BY <1>4, <2>2 DEF Sweep, SetFiles
      <3>2. Fits(Swept(here), "sweep", work.saved)
        BY <2>0, <2>1 DEF Fits, Swapping
      <3> QED
        BY <1>b, <1>c, <2>0, <2>1, <3>1, <3>2 DEF Quiet
    <2>3. CASE Swept(here) = here
      <3>1. images' = images /\ work' = [work EXCEPT !.at = AfterReplay]
        BY <1>4, <2>3 DEF Sweep, Goto
      <3>2. Fits(here, AfterReplay, work.saved)
        BY <1>0, <2>1, <2>3 DEF Fits, Swapping, AfterReplay, AfterRecovery
      <3> QED
        BY <1>0, <1>a, <1>c, <2>0, <2>1, <2>3, <3>1, <3>2 DEF Quiet, AfterReplay, AfterRecovery
    <2> QED
      BY <2>2, <2>3
  <1>5. CASE WriteJournal /\ work.at = "journal"
    <2> DEFINE f == [here EXCEPT !.journal = TornFile]
    <2>1. images' = [images EXCEPT ![work.path] = f] /\ work' = [work EXCEPT !.at = "journalling"]
      BY <1>5 DEF WriteJournal, SetFiles, Goto
    <2>2. Tidy(here) /\ ~work.saved
      BY <1>0, <1>5 DEF Fits
    <2>3. f = [main |-> here.main, tmp |-> NoFile, bak |-> NoFile, journal |-> TornFile]
      BY <1>0, <2>2 DEF GoodFiles, Tidy
    <2> HIDE DEF f
    <2>4. GoodFiles(f) /\ Held(f) = Held(here) /\ Fits(f, "journalling", work.saved)
      BY <1>0, <2>2, <2>3, ImageKinds DEF GoodFiles, Held, Fits, Swapping, Tidy
    <2>5. Quiet(f, "journalling")
      BY <1>5, <1>c, <2>1, <2>4 DEF Quiet
    <2> QED
      BY <2>5
  <1> QED
    BY <1>1, <1>2, <1>3, <1>4, <1>5

\* What a file operation leaves alone.
Idle == UNCHANGED <<vectorsDir, store, sworn, refusal, cuts>>

\* A quiet step changes the files of one path, and what no path held.
LEMMA QuietImages ==
    ASSUME ImagesGood, work.path \in Paths, NEW f, NEW x, Quiet(f, x)
    PROVE  /\ ImagesGood' /\ images'[work.path] = f
           /\ \A p \in Paths : p # work.path => images'[p] = images[p]
           /\ \A p \in Paths : Held(images'[p]) = Held(images[p])
           /\ Listed' = Listed
  <1>1. /\ images'[work.path] = f /\ images' = [p \in Paths |-> images'[p]]
        /\ \A p \in Paths : p # work.path => images'[p] = images[p]
    BY DEF Quiet, ImagesGood
  <1>2. \A p \in Paths : Held(images'[p]) = Held(images[p])
    BY <1>1 DEF Quiet, here
  <1>3. Listed' = Listed
    BY <1>2 DEF Listed, Paths, RegistryPath
  <1>4. \A p \in Paths : GoodFiles(images'[p])
    BY <1>1 DEF Quiet, ImagesGood
  <1> QED
    BY <1>1, <1>2, <1>3, <1>4 DEF ImagesGood

\* Quiet steps keep the invariant.
LEMMA QuietStep ==
    ASSUME VectorInv, work # NoWork, NEW f, NEW x, Quiet(f, x), Idle
    PROVE  VectorInv'
  <1>0. /\ ImagesGood /\ Shape /\ vectorsDir /\ StoreStands /\ SwornHeld /\ CutsKnown
        /\ work.path \in Paths /\ (OpenStands \/ PersistStands)
        /\ 0 \in Paths /\ Spaces \subseteq Paths /\ 0 \notin Spaces /\ Spaces \subseteq Nat
    BY VectorConstants DEF VectorInv, CallStands, Shape, Paths, RegistryPath
  <1>1. /\ ImagesGood' /\ images'[work.path] = f
        /\ \A p \in Paths : p # work.path => images'[p] = images[p]
        /\ \A p \in Paths : Held(images'[p]) = Held(images[p])
        /\ Listed' = Listed
    BY <1>0, QuietImages
  <1>2. /\ work'.at = x /\ work'.path = work.path /\ work'.saved = work.saved
        /\ work'.call = work.call /\ work' # NoWork
        /\ OpenStands => /\ work'.registry = work.registry
                      /\ work' = [call |-> "open", path |-> work.path, at |-> x,
                                  saved |-> work.saved, registry |-> work.registry]
        /\ PersistStands => /\ work'.image = work.image
                         /\ work' = [call |-> work.call, path |-> work.path,
                                     image |-> work.image, at |-> x, saved |-> work.saved]
    BY <1>0, Going DEF Quiet
  <1>3. store' = store /\ sworn' = sworn /\ cuts' = cuts /\ vectorsDir' = vectorsDir
        /\ refusal' = refusal
    BY DEF Idle
  <1>4. here' = f
    BY <1>1, <1>2 DEF here
  <1>5. Shape'
    <2>1. Held(f) = Held(here) /\ Fits(f, x, work.saved)
      BY DEF Quiet
    <2>2. work.saved => Held(f) = work'.image
      BY <1>0, <1>2, <2>1 DEF Shape, OpenStands
    <2> QED
      BY <1>0, <1>2, <1>4, <2>1, <2>2 DEF Shape
  <1>6. ASSUME OpenStands PROVE OpenStands'
    <2>1. work.call = "open" /\ ~work.saved /\ ~store.open /\ x # "verify"
          /\ x \notin {"journal", "journalling", "done"}
      BY <1>6 DEF OpenStands, Quiet
    <2>2. work.path # 0 =>
            /\ work.registry \subseteq Spaces /\ work.path \in work.registry \cup {0}
            /\ Tidy(images[0]) /\ images[0].main = WholeFile(work.registry)
            /\ \A s \in work.registry : s < work.path => Recovered(s)
      BY <1>6 DEF OpenStands
    <2>3. work.path # 0 =>
            /\ Tidy(images'[0]) /\ images'[0].main = WholeFile(work.registry)
            /\ \A s \in work.registry : s < work.path => Recovered(s)'
      <3>1. ASSUME work.path # 0, NEW s \in work.registry, s < work.path
            PROVE  images'[s] = images[s]
        <4>1. s \in Nat /\ work.path \in Nat /\ s \in Paths
          BY <1>0, <2>2, <3>1
        <4>2. s # work.path
          BY <3>1, <4>1
        <4> QED
          BY <1>1, <4>1, <4>2
      <3> QED
        BY <1>0, <1>1, <2>2, <3>1 DEF Recovered
    <2> QED
      BY <1>2, <1>3, <1>6, <2>1, <2>2, <2>3 DEF OpenStands
  <1>7. ASSUME PersistStands PROVE PersistStands' /\ \A s : Registering(s)' = Registering(s)
    <2>1. \A s : Registering(s)' = Registering(s)
      BY <1>2, <1>3, <1>7 DEF Registering, Registered
    <2>2. x \notin {"read", "verify"} /\ work.call # "open" /\ IsWhole(work.image)
      BY <1>7 DEF PersistStands, Quiet
    <2>3. work.path = 0 => \A s \in Spaces : images'[s] = images[s]
      BY <1>0, <1>1
    <2>4. Registered' = Registered
      BY <1>3 DEF Registered
    <2> QED
      BY <1>1, <1>2, <1>3, <1>7, <2>1, <2>2, <2>3, <2>4 DEF PersistStands
  <1>8. \A s \in Spaces : Making(s)' = Making(s)
    <2>1. CASE OpenStands
      BY <1>2, <2>1 DEF Making, OpenStands
    <2>2. CASE PersistStands
      BY <1>2, <1>7, <2>2 DEF Making
    <2> QED
      BY <1>0, <2>1, <2>2
  <1>9. "space" \notin cuts /\ work.path \in Spaces => work.path \in Listed \/ Making(work.path)
    <2>1. CASE OpenStands
      <3>1. work.path # 0 => Tidy(images[0]) /\ images[0].main = WholeFile(work.registry)
                             /\ work.path \in work.registry
        BY <2>1 DEF OpenStands
      <3> QED
        BY <1>0, <3>1, ImageKinds DEF Listed, Held, Tidy
    <2>2. CASE PersistStands
      BY <1>0, <2>2 DEF PersistStands, Making, CutsKnown
    <2> QED
      BY <1>0, <2>1, <2>2
  <1>10. CutsKnown'
    <2>1. ASSUME NEW p \in Paths, images'[p].journal = TornFile
          PROVE  "journal" \in cuts \/ (x = "journalling" /\ work.path = p)
      BY <1>0, <1>1, <2>1 DEF CutsKnown, Quiet, here
    <2>2. vectorsDir /\ "create" \notin cuts /\ work.call # "create" => Held(images'[0]) # NoFile
      BY <1>0, <1>1 DEF CutsKnown
    <2>3. ASSUME "space" \notin cuts, NEW s \in Spaces
          PROVE  IF s \in Listed THEN Held(images'[s]) # NoFile
                 ELSE Making(s) \/ images'[s] = NoFiles
      BY <1>0, <1>1, <1>9, <2>3 DEF CutsKnown
    <2>4. ASSUME "space" \notin cuts, store.open
          PROVE  \/ Registered = Listed
                 \/ work.call = "space" /\ work.path = 0 /\ work.saved
      BY <1>0, <2>4 DEF CutsKnown
    <2>5. Registered' = Registered
      BY <1>3 DEF Registered
    <2> QED
      BY <1>1, <1>2, <1>3, <1>8, <2>1, <2>2, <2>3, <2>4, <2>5 DEF CutsKnown
  <1>11. StoreStands' /\ VectorsKept' /\ RefusedOnlyUnfinished'
    <2>1. Registered' = Registered
      BY <1>3 DEF Registered
    <2> QED
      BY <1>0, <1>1, <1>3, <2>1 DEF VectorInv, StoreStands, VectorsKept, RefusedOnlyUnfinished
  <1>12. SwornHeld'
    BY <1>0, <1>1, <1>3 DEF SwornHeld
  <1> QED
    BY <1>0, <1>1, <1>2, <1>3, <1>5, <1>6, <1>7, <1>10, <1>11, <1>12 DEF VectorInv, CallStands

\* Between calls.
Begins(w, call, path, image) ==
    /\ w.call = call /\ w.path = path /\ w.image = WholeFile(image)
    /\ w.at = "recover" /\ w.saved = FALSE /\ w # NoWork
    /\ w = [call |-> w.call, path |-> w.path, image |-> w.image, at |-> w.at, saved |-> w.saved]

\* A call that persists begins at its recovery.
LEMMA PersistIs == \A call, path, image : Begins(Persist(call, path, image), call, path, image)
  BY DEF Persist, NoWork, Begins

\* A call fits the files wherever it begins.
LEMMA StartShape ==
    ASSUME ImagesGood', work'.path \in Paths, work'.at = "recover", work'.saved = FALSE
    PROVE  Shape'
  BY DEF Shape, Fits, Swapping

\* create, open, create_space, put_vector and import_vectors begin.
LEMMA StartStep ==
    ASSUME VectorInv,
           CreateStore \/ OpenStore \/ \E s \in Spaces : CreateSpace(s) \/ \E i \in Inputs : Write(s, i)
    PROVE  VectorInv'
  <1>0. /\ ImagesGood /\ StoreStands /\ SwornHeld /\ CutsKnown /\ VectorsKept
        /\ RefusedOnlyUnfinished
        /\ 0 \in Paths /\ Spaces \subseteq Paths /\ 0 \notin Spaces
    BY VectorConstants DEF VectorInv, Paths, RegistryPath
  <1>1. /\ work = NoWork /\ images' = images /\ store' = store /\ cuts' = cuts
        /\ refusal' = refusal /\ work.call = "none"
    BY DEF CreateStore, OpenStore, CreateSpace, Write, NoWork
  <1>2. ImagesGood' /\ Listed' = Listed /\ Registered' = Registered
    BY <1>0, <1>1 DEF ImagesGood, Listed, Registered
  <1>3. \A s : ~Making(s)
    BY <1>1 DEF Making
  <1>4. \A p \in Paths : images[p].journal = TornFile => "journal" \in cuts
    BY <1>0, <1>1 DEF CutsKnown
  <1>5. /\ vectorsDir /\ "create" \notin cuts => Held(images[0]) # NoFile
        /\ "space" \notin cuts =>
              /\ \A s \in Spaces : IF s \in Listed THEN Held(images[s]) # NoFile
                                   ELSE images[s] = NoFiles
              /\ store.open => Registered = Listed
    BY <1>0, <1>1, <1>3 DEF CutsKnown
  <1>6. RefusedOnlyUnfinished'
    BY <1>0, <1>1 DEF RefusedOnlyUnfinished
  <1>7. CASE CreateStore
    <2>1. /\ ~store.open /\ ~vectorsDir /\ vectorsDir' = TRUE /\ sworn' = sworn
          /\ work' = Persist("create", 0, {})
      BY <1>7 DEF CreateStore, RegistryPath
    <2>2. /\ work'.call = "create" /\ work'.path = 0 /\ work'.image = WholeFile({})
          /\ work'.at = "recover" /\ work'.saved = FALSE /\ work' # NoWork
          /\ work' = [call |-> work'.call, path |-> work'.path, image |-> work'.image,
                      at |-> work'.at, saved |-> work'.saved]
      <3>1. Begins(work', "create", 0, {})
        BY <2>1, PersistIs
      <3> QED
        BY <3>1 DEF Begins
    <2>3. Listed = {}
      BY <1>0, <2>1, ImageKinds DEF StoreStands, Listed
    <2>4. \A s \in Spaces : sworn[s] = {}
      BY <1>0, <2>3 DEF SwornHeld
    <2>5. PersistStands'
      BY <1>1, <1>2, <2>1, <2>2, <2>3, <2>4, ImageKinds DEF PersistStands
    <2>6. CallStands'
      BY <1>0, <1>2, <2>1, <2>2, <2>5, StartShape DEF CallStands
    <2>7. CutsKnown'
      BY <1>1, <1>2, <1>4, <1>5, <2>1, <2>2 DEF CutsKnown
    <2>8. StoreStands' /\ SwornHeld' /\ VectorsKept'
      BY <1>0, <1>1, <1>2, <2>1 DEF StoreStands, SwornHeld, VectorsKept
    <2> QED
      BY <1>2, <1>6, <2>6, <2>7, <2>8 DEF VectorInv
  <1>8. CASE OpenStore
    <2>1. /\ ~store.open /\ vectorsDir /\ vectorsDir' = vectorsDir /\ sworn' = sworn
          /\ work' = [call |-> "open", path |-> 0, at |-> "recover", saved |-> FALSE,
                      registry |-> {}]
      BY <1>8 DEF OpenStore, RegistryPath
    <2>2. /\ work'.call = "open" /\ work'.path = 0 /\ work'.registry = {}
          /\ work'.at = "recover" /\ work'.saved = FALSE /\ work' # NoWork
      BY <2>1 DEF NoWork
    <2>3. work' = [call |-> "open", path |-> work'.path, at |-> work'.at,
                   saved |-> work'.saved, registry |-> work'.registry]
      BY <2>1
    <2>5. OpenStands'
      BY <1>1, <2>1, <2>2, <2>3 DEF OpenStands
    <2>6. CallStands'
      BY <1>0, <1>2, <2>1, <2>2, <2>5, StartShape DEF CallStands
    <2>7. CutsKnown'
      BY <1>1, <1>2, <1>4, <1>5, <2>1, <2>2 DEF CutsKnown
    <2>8. StoreStands' /\ SwornHeld' /\ VectorsKept'
      BY <1>0, <1>1, <1>2, <2>1 DEF StoreStands, SwornHeld, VectorsKept
    <2> QED
      BY <1>2, <1>6, <2>6, <2>7, <2>8 DEF VectorInv
  <1>9. ASSUME NEW s \in Spaces, CreateSpace(s) PROVE VectorInv'
    <2>1. /\ store.open /\ vectorsDir' = vectorsDir /\ sworn' = sworn /\ s \notin Registered
          /\ work' = Persist("space", s, EmptyColumn)
      BY <1>9 DEF CreateSpace
    <2>2. /\ work'.call = "space" /\ work'.path = s /\ work'.image = WholeFile(EmptyColumn)
          /\ work'.at = "recover" /\ work'.saved = FALSE /\ work' # NoWork
          /\ work' = [call |-> work'.call, path |-> work'.path, image |-> work'.image,
                      at |-> work'.at, saved |-> work'.saved]
      <3>1. Begins(work', "space", s, EmptyColumn)
        BY <2>1, PersistIs
      <3> QED
        BY <3>1 DEF Begins
    <2>3. vectorsDir
      BY <1>0, <2>1 DEF StoreStands, NoStore
    <2>5. PersistStands'
      BY <1>1, <1>2, <2>1, <2>2, ImageKinds DEF PersistStands
    <2>6. CallStands'
      BY <1>0, <1>2, <2>1, <2>2, <2>3, <2>5, StartShape DEF CallStands
    <2>7. CutsKnown'
      BY <1>1, <1>2, <1>4, <1>5, <2>1, <2>2 DEF CutsKnown
    <2>8. StoreStands' /\ SwornHeld' /\ VectorsKept'
      BY <1>0, <1>1, <1>2, <2>1 DEF StoreStands, SwornHeld, VectorsKept
    <2> QED
      BY <1>2, <1>6, <2>6, <2>7, <2>8 DEF VectorInv
  <1>10. ASSUME NEW s \in Spaces, NEW i \in Inputs, Write(s, i) PROVE VectorInv'
    <2> DEFINE next == NextColumn(store.columns[s], i)
    <2>1. /\ store.open /\ vectorsDir' = vectorsDir /\ s \in Registered
          /\ sworn' = [sworn EXCEPT ![s] = @ \cup {next}]
          /\ work' = Persist("write", s, next)
      BY <1>10 DEF Write
    <2> HIDE DEF next
    <2>2. /\ work'.call = "write" /\ work'.path = s /\ work'.image = WholeFile(next)
          /\ work'.at = "recover" /\ work'.saved = FALSE /\ work' # NoWork
          /\ work' = [call |-> work'.call, path |-> work'.path, image |-> work'.image,
                      at |-> work'.at, saved |-> work'.saved]
      <3>1. Begins(work', "write", s, next)
        BY <2>1, PersistIs
      <3> QED
        BY <3>1 DEF Begins
    <2>3. vectorsDir
      BY <1>0, <2>1 DEF StoreStands, NoStore
    <2>4. /\ sworn' = [t \in Spaces |-> sworn'[t]]
          /\ \A t \in Spaces : sworn'[t] = IF t = s THEN sworn[s] \cup {next} ELSE sworn[t]
          /\ sworn[s] # {}
      <3>1. sworn = [t \in Spaces |-> sworn[t]]
        BY <1>0 DEF SwornHeld
      <3>2. sworn[s] # {}
        BY <1>0, <2>1 DEF StoreStands, NoStore
      <3> QED
        BY <2>1, <3>1, <3>2
    <2>5. PersistStands'
      BY <1>1, <1>2, <2>1, <2>2, <2>4, ImageKinds DEF PersistStands
    <2>6. CallStands'
      BY <1>0, <1>2, <2>1, <2>2, <2>3, <2>5, StartShape DEF CallStands
    <2>7. CutsKnown'
      BY <1>1, <1>2, <1>4, <1>5, <2>1, <2>2 DEF CutsKnown
    <2>8. StoreStands' /\ SwornHeld' /\ VectorsKept'
      <3>1. StoreStands'
        BY <1>0, <1>1, <1>2, <2>1, <2>3, <2>4 DEF StoreStands
      <3>2. SwornHeld'
        BY <1>0, <1>1, <1>2, <2>4 DEF SwornHeld
      <3>3. VectorsKept'
        BY <1>0, <1>1, <1>2, <2>4 DEF VectorsKept
      <3> QED
        BY <3>1, <3>2, <3>3
    <2> QED
      BY <1>2, <1>6, <2>6, <2>7, <2>8 DEF VectorInv
  <1> QED
    BY <1>7, <1>8, <1>9, <1>10

\* The journal of call w is complete: v is the call from then on.
Saves(w, v) ==
    /\ v.call = w.call /\ v.path = w.path /\ v.image = w.image /\ v.at = "replay" /\ v.saved = TRUE
    /\ v # NoWork
    /\ v = [call |-> v.call, path |-> v.path, image |-> v.image, at |-> v.at, saved |-> v.saved]

\* The end of write_journal_only changes two fields of the call.
LEMMA AtAndSaved ==
    ASSUME NEW w, w = [call |-> w.call, path |-> w.path, image |-> w.image, at |-> w.at,
                       saved |-> w.saved]
    PROVE  Saves(w, [w EXCEPT !.at = "replay", !.saved = TRUE])
  <1> DEFINE v(a, y) == [call |-> w.call, path |-> w.path, image |-> w.image, at |-> a,
                         saved |-> y]
  <1>1. ASSUME NEW y
        PROVE  [w EXCEPT !.at = "replay", !.saved = y] = v("replay", y)
    <2> DEFINE g == v("replay", w.saved)
    <2>1. [w EXCEPT !.at = "replay", !.saved = y] = [[w EXCEPT !.at = "replay"] EXCEPT !.saved = y]
      OBVIOUS
    <2>2. [w EXCEPT !.at = "replay"] = g
      OBVIOUS
    <2>3. [g EXCEPT !.saved = y] = v("replay", y)
      OBVIOUS
    <2> HIDE DEF g, v
    <2> QED
      BY <2>1, <2>2, <2>3
  <1>2. Saves(w, v("replay", TRUE))
    BY DEF Saves, NoWork
  <1> HIDE DEF v
  <1> QED
    BY <1>1, <1>2, Zenon

\* write_journal_only: from its end on, and not before, the path holds the image.
LEMMA JournalStep ==
    ASSUME VectorInv, WriteJournal, work.at = "journalling"
    PROVE  VectorInv'
  <1>0. /\ ImagesGood /\ StoreStands /\ SwornHeld /\ CutsKnown /\ VectorsKept
        /\ RefusedOnlyUnfinished /\ Shape /\ PersistStands /\ vectorsDir
        /\ 0 \in Paths /\ Spaces \subseteq Paths /\ 0 \notin Spaces
        /\ work.path \in Paths /\ work # NoWork /\ ~work.saved
    BY VectorConstants
       DEF VectorInv, Paths, RegistryPath, WriteJournal, CallStands, OpenStands, Shape, Fits
  <1> DEFINE f == [here EXCEPT !.journal = work.image]
  <1>1. /\ images' = [images EXCEPT ![work.path] = f]
        /\ work' = [work EXCEPT !.at = "replay", !.saved = TRUE]
        /\ store' = store /\ sworn' = sworn /\ cuts' = cuts /\ refusal' = refusal
        /\ vectorsDir' = vectorsDir
    BY DEF WriteJournal, SetFiles
  <1>2. GoodFiles(here) /\ here.journal = TornFile /\ here.tmp = NoFile /\ here.bak = NoFile
    BY <1>0, ImageKinds DEF ImagesGood, here, Shape, Fits, GoodFiles
  <1>3. f = [main |-> here.main, tmp |-> NoFile, bak |-> NoFile, journal |-> work.image]
    BY <1>2 DEF GoodFiles
  <1>4. IsWhole(work.image)
    BY <1>0 DEF PersistStands
  <1> HIDE DEF f
  <1>5. GoodFiles(f) /\ Held(f) = work.image /\ f.journal = work.image
    BY <1>2, <1>3, <1>4 DEF GoodFiles, Held
  <1>6. Saves(work, work')
    BY <1>0, <1>1, AtAndSaved DEF PersistStands
  <1>7. /\ work'.call = work.call /\ work'.path = work.path /\ work'.image = work.image
        /\ work'.at = "replay" /\ work'.saved = TRUE /\ work' # NoWork
        /\ work' = [call |-> work'.call, path |-> work'.path, image |-> work'.image,
                    at |-> work'.at, saved |-> work'.saved]
    BY <1>6 DEF Saves
  <1>8. /\ images'[work.path] = f /\ images' = [p \in Paths |-> images'[p]]
        /\ \A p \in Paths : p # work.path => images'[p] = images[p]
        /\ \A p \in Paths : GoodFiles(images'[p])
    BY <1>0, <1>1, <1>5 DEF ImagesGood
  <1>9. Registered' = Registered /\ \A s : Registering(s)' = Registering(s)
    BY <1>1, <1>7 DEF Registering, Registered
  <1>10. /\ work.path = 0 => Listed' = work.image.image
         /\ work.path # 0 => Listed' = Listed
    BY <1>0, <1>4, <1>5, <1>8 DEF Listed
  <1>11. Shape'
    <2>1. here' = f
      BY <1>7, <1>8 DEF here
    <2>2. Fits(f, "replay", TRUE)
      BY <1>4, <1>5, WholeIs DEF Fits, Swapping
    <2> QED
      BY <1>0, <1>5, <1>7, <2>1, <2>2 DEF Shape
  <1>12. \A s \in Spaces : Making(s)' = Making(s)
    BY <1>0, <1>7, <1>9 DEF Making
  <1>13. \A p \in Paths : images'[p].journal = TornFile => "journal" \in cuts'
    BY <1>0, <1>1, <1>4, <1>5, <1>8, WholeIs DEF CutsKnown
  <1>14. /\ vectorsDir /\ "create" \notin cuts' /\ work'.call # "create" => Held(images'[0]) # NoFile
    BY <1>0, <1>1, <1>4, <1>5, <1>7, <1>8, WholeIs DEF CutsKnown
  <1>15. RefusedOnlyUnfinished' /\ VectorsKept'
    BY <1>0, <1>1, <1>9 DEF RefusedOnlyUnfinished, VectorsKept
  <1>16. StoreStands'
    BY <1>0, <1>1, <1>9 DEF StoreStands
  <1>17. CASE work.call = "create"
    <2>1. /\ work.path = 0 /\ work.image = WholeFile({}) /\ ~store.open /\ Listed = {}
          /\ \A s \in Spaces : sworn[s] = {}
      BY <1>0, <1>17 DEF PersistStands
    <2>2. Listed' = {}
      BY <1>10, <2>1, ImageKinds
    <2>3. PersistStands'
      BY <1>1, <1>4, <1>7, <1>17, <2>1, <2>2 DEF PersistStands
    <2>4. CutsKnown'
      BY <1>0, <1>1, <1>8, <1>12, <1>13, <1>14, <2>1, <2>2 DEF CutsKnown
    <2>5. SwornHeld' /\ ImagesGood'
      BY <1>0, <1>1, <1>8, <2>1, <2>2 DEF SwornHeld, ImagesGood
    <2> QED
      BY <1>0, <1>1, <1>11, <1>15, <1>16, <2>3, <2>4, <2>5 DEF VectorInv, CallStands
  <1>18. CASE work.call = "space" /\ work.path \in Spaces
    <2>1. store.open /\ work.path \notin Registered /\ work.image = WholeFile(EmptyColumn)
          /\ Listed' = Listed
      BY <1>0, <1>10, <1>18 DEF PersistStands
    <2>2. PersistStands'
      BY <1>1, <1>4, <1>7, <1>9, <1>18, <2>1 DEF PersistStands
    <2>3. sworn[work.path] = {}
      BY <1>0, <1>18, <2>1 DEF VectorsKept
    <2>4. Making(work.path) /\ work.path # 0
      BY <1>0, <1>18 DEF Making
    <2>5. CutsKnown'
      <3>1. \A s \in Spaces : "space" \notin cuts =>
              IF s \in Listed THEN Held(images'[s]) # NoFile ELSE Making(s) \/ images'[s] = NoFiles
        BY <1>0, <1>4, <1>5, <1>8, <2>4, WholeIs DEF CutsKnown
      <3>2. "space" \notin cuts => Registered = Listed
        BY <1>0, <2>1, <2>4 DEF CutsKnown
      <3> QED
        BY <1>1, <1>9, <1>12, <1>13, <1>14, <2>1, <3>1, <3>2 DEF CutsKnown
    <2>6. SwornHeld' /\ ImagesGood'
      BY <1>0, <1>1, <1>8, <2>1, <2>3 DEF SwornHeld, ImagesGood
    <2> QED
      BY <1>0, <1>1, <1>11, <1>15, <1>16, <2>2, <2>5, <2>6 DEF VectorInv, CallStands
  <1>19. CASE work.call = "space" /\ work.path = 0
    <2>1. PICK s \in Spaces : /\ Registering(s) /\ Tidy(images[s])
                              /\ images[s].main = WholeFile(EmptyColumn)
      BY <1>0, <1>19 DEF PersistStands
    <2>2. /\ store.open /\ s \notin Registered /\ work.image = WholeFile(Registered \cup {s})
          /\ Listed' = Registered \cup {s} /\ Registered \subseteq Spaces
      BY <1>0, <1>10, <1>19, <2>1, ImageKinds DEF Registering, PersistStands, StoreStands, NoStore
    <2>3. \A t \in Spaces : images'[t] = images[t]
      BY <1>0, <1>8, <1>19
    <2>4. PersistStands'
      BY <1>1, <1>4, <1>7, <1>9, <1>19, <2>1, <2>2, <2>3 DEF PersistStands
    <2>5. CutsKnown'
      <3>1. "space" \notin cuts => Registered = Listed
        BY <1>0, <2>2 DEF CutsKnown
      <3>2. IsWhole(Held(images[s]))
        BY <2>1, ImageKinds DEF Held, Tidy
      <3>3. \A t \in Spaces : Making(t) => t = s
        BY <1>0, <1>19, <2>2, ImageKinds DEF Making, Registering
      <3>4. \A t \in Spaces : "space" \notin cuts =>
              IF t \in Registered \cup {s} THEN Held(images'[t]) # NoFile
              ELSE Making(t) \/ images'[t] = NoFiles
        BY <1>0, <2>3, <3>1, <3>2, <3>3, WholeIs DEF CutsKnown
      <3> QED
        BY <1>1, <1>7, <1>12, <1>13, <1>14, <1>19, <2>2, <3>4 DEF CutsKnown
    <2>6. SwornHeld' /\ ImagesGood'
      <3>1. \A t \in Spaces : sworn[t] # {} => t \in Registered
        BY <1>0, <2>2 DEF VectorsKept
      <3> QED
        BY <1>0, <1>1, <1>8, <2>2, <2>3, <3>1 DEF SwornHeld, ImagesGood
    <2> QED
      BY <1>0, <1>1, <1>11, <1>15, <1>16, <2>4, <2>5, <2>6 DEF VectorInv, CallStands
  <1>20. CASE work.call = "write"
    <2>1. /\ store.open /\ work.path \in Registered /\ work.image.image \in sworn[work.path]
          /\ work.path \in Spaces /\ Listed' = Listed
      BY <1>0, <1>10, <1>20 DEF PersistStands, StoreStands, NoStore
    <2>2. PersistStands'
      BY <1>1, <1>4, <1>7, <1>9, <1>20, <2>1 DEF PersistStands
    <2>3. CutsKnown'
      <3>1. "space" \notin cuts => Registered = Listed
        BY <1>0, <1>20, <2>1 DEF CutsKnown
      <3>2. \A s \in Spaces : "space" \notin cuts =>
              IF s \in Listed THEN Held(images'[s]) # NoFile ELSE Making(s) \/ images'[s] = NoFiles
        BY <1>0, <1>4, <1>5, <1>8, <2>1, <3>1, WholeIs DEF CutsKnown
      <3> QED
        BY <1>1, <1>9, <1>12, <1>13, <1>14, <2>1, <3>1, <3>2 DEF CutsKnown
    <2>4. SwornHeld' /\ ImagesGood'
      BY <1>0, <1>1, <1>4, <1>5, <1>8, <2>1 DEF SwornHeld, ImagesGood
    <2> QED
      BY <1>0, <1>1, <1>11, <1>15, <1>16, <2>2, <2>3, <2>4 DEF VectorInv, CallStands
  <1> QED
    BY <1>0, <1>17, <1>18, <1>19, <1>20 DEF PersistStands

\* The space that is being registered is known from the image.
LEMMA NewSpaceIs ==
    ASSUME NEW s \in Spaces, Registering(s)
    PROVE  NewSpace = s
  <1>1. work.image.image = Registered \cup {s} /\ s \notin Registered
    BY ImageKinds DEF Registering
  <1>2. \A t \in Spaces : work.image.image = Registered \cup {t} /\ t \notin Registered => t = s
    BY <1>1
  <1> QED
    BY <1>1, <1>2 DEF NewSpace

\* What the end of a call leaves, whatever it did to the files.
LEMMA EndRest ==
    ASSUME VectorInv, work # NoWork, Cut, work' = NoWork, store' \in {store, NoStore},
           sworn' = sworn, refusal' = refusal, vectorsDir' = vectorsDir,
           images' = [p \in Paths |-> images'[p]],
           \A p \in Paths : /\ GoodFiles(images'[p])
                            /\ images'[p].journal = TornFile => images[p].journal = TornFile,
           Held(images'[0]) = Held(images[0]),
           \A s \in Spaces : sworn[s] # {} => Held(images'[s]) = Held(images[s]),
           "space" \notin cuts' =>
              \A s \in Spaces : IF s \in Listed THEN Held(images'[s]) # NoFile
                                ELSE images'[s] = NoFiles
    PROVE  VectorInv'
  <1>0. /\ ImagesGood /\ StoreStands /\ SwornHeld /\ CutsKnown /\ VectorsKept
        /\ RefusedOnlyUnfinished /\ vectorsDir
    BY DEF VectorInv, CallStands
  <1>1. /\ cuts \subseteq cuts' /\ (work.at = "journalling" => "journal" \in cuts')
        /\ (work.call = "create" => "create" \in cuts')
        /\ (work.call = "space" => "space" \in cuts')
    BY DEF Cut
  <1>2. Listed' = Listed /\ work'.call = "none"
    BY DEF Listed, NoWork
  <1>3. ImagesGood'
    BY <1>0, <1>2 DEF ImagesGood
  <1>4. store' = NoStore => ~store'.open
    BY DEF NoStore
  <1>5. store' = store => Registered' = Registered
    BY DEF Registered
  <1>6. StoreStands'
    BY <1>0, <1>5 DEF StoreStands
  <1>7. SwornHeld'
    BY <1>0, <1>2 DEF SwornHeld
  <1>8. VectorsKept'
    BY <1>0, <1>4, <1>5 DEF VectorsKept
  <1>9. RefusedOnlyUnfinished'
    BY <1>0, <1>1 DEF RefusedOnlyUnfinished
  <1>10. CutsKnown'
    <2>1. \A p \in Paths : images'[p].journal = TornFile => "journal" \in cuts'
      BY <1>0, <1>1 DEF CutsKnown
    <2>2. "create" \notin cuts' => Held(images'[0]) # NoFile
      BY <1>0, <1>1 DEF CutsKnown
    <2>3. "space" \notin cuts' /\ store'.open => Registered' = Listed
      BY <1>0, <1>1, <1>4, <1>5 DEF CutsKnown
    <2> QED
      BY <1>2, <2>1, <2>2, <2>3 DEF CutsKnown
  <1> QED
    BY <1>3, <1>6, <1>7, <1>8, <1>9, <1>10 DEF VectorInv, CallStands

\* A call that ends early, with files from which the same can be recovered, or
\* without the column of the space it did not register.
LEMMA EndStep ==
    ASSUME VectorInv, work # NoWork, NEW f, GoodFiles(f), Held(f) = Held(here), f.journal = here.journal,
           \/ images' = [images EXCEPT ![work.path] = f]
           \/ /\ work.call = "space" /\ work.path = 0
              /\ images' = [images EXCEPT ![0] = f, ![NewSpace] = NoFiles],
           Cut, work' = NoWork, store' \in {store, NoStore}, sworn' = sworn, refusal' = refusal,
           vectorsDir' = vectorsDir
    PROVE  VectorInv'
  <1>0. /\ ImagesGood /\ StoreStands /\ SwornHeld /\ CutsKnown /\ VectorsKept
        /\ RefusedOnlyUnfinished /\ Shape /\ vectorsDir /\ (OpenStands \/ PersistStands)
        /\ 0 \in Paths /\ Spaces \subseteq Paths /\ 0 \notin Spaces
        /\ work.path \in Paths /\ RegistryPath = 0
    BY VectorConstants DEF VectorInv, Paths, RegistryPath, CallStands, Shape
  <1>1. /\ cuts \subseteq cuts' /\ (work.at = "journalling" => "journal" \in cuts')
        /\ (work.call = "create" => "create" \in cuts')
        /\ (work.call = "space" => "space" \in cuts')
    BY DEF Cut
  <1>2. CASE images' = [images EXCEPT ![work.path] = f]
    <2>1. /\ images'[work.path] = f /\ images' = [p \in Paths |-> images'[p]]
          /\ \A p \in Paths : p # work.path => images'[p] = images[p]
      BY <1>0, <1>2 DEF ImagesGood
    <2>2. /\ \A p \in Paths : Held(images'[p]) = Held(images[p])
          /\ \A p \in Paths : GoodFiles(images'[p]) /\ images'[p].journal = images[p].journal
      BY <1>0, <2>1 DEF ImagesGood, here
    <2>3. "space" \notin cuts' =>
            \A s \in Spaces : IF s \in Listed THEN Held(images'[s]) # NoFile
                              ELSE images'[s] = NoFiles
      <3>1. SUFFICES ASSUME "space" \notin cuts', NEW s \in Spaces
                     PROVE  IF s \in Listed THEN Held(images'[s]) # NoFile
                            ELSE images'[s] = NoFiles
        OBVIOUS
      <3>2. work.call # "space" /\ "space" \notin cuts /\ ~Making(s)
        BY <1>1, <3>1 DEF Making
      <3>3. s \notin Listed => s # work.path
        <4>1. CASE OpenStands
          <5>1. work.path # 0 => /\ Tidy(images[0]) /\ images[0].main = WholeFile(work.registry)
                                 /\ work.path \in work.registry
            BY <4>1 DEF OpenStands
          <5> QED
            BY <1>0, <5>1, ImageKinds DEF Listed, Held, Tidy
        <4>2. CASE PersistStands
          BY <1>0, <3>2, <4>2 DEF PersistStands, CutsKnown
        <4> QED
          BY <1>0, <4>1, <4>2
      <3> QED
        BY <1>0, <2>1, <2>2, <3>2, <3>3 DEF CutsKnown
    <2>4. Held(images'[0]) = Held(images[0])
      BY <1>0, <2>2
    <2> QED
      BY <1>0, <1>1, <2>1, <2>2, <2>3, <2>4, EndRest
  <1>3. CASE /\ work.call = "space" /\ work.path = 0
             /\ images' = [images EXCEPT ![0] = f, ![NewSpace] = NoFiles]
    <2>1. PICK s \in Spaces : Registering(s) /\ store.open
      BY <1>0, <1>3 DEF OpenStands, PersistStands
    <2>2. NewSpace = s /\ s # 0 /\ s \in Paths /\ s \notin Registered
      BY <1>0, <2>1, NewSpaceIs DEF Registering
    <2>3. /\ images'[0] = f /\ images'[s] = NoFiles /\ images' = [p \in Paths |-> images'[p]]
          /\ \A p \in Paths : p # 0 /\ p # s => images'[p] = images[p]
      BY <1>0, <1>3, <2>2 DEF ImagesGood
    <2>4. sworn[s] = {}
      BY <1>0, <2>1, <2>2 DEF VectorsKept
    <2>5. GoodFiles(NoFiles) /\ NoFiles.journal = NoFile
      BY ImageKinds DEF GoodFiles, NoFiles
    <2>6. \A p \in Paths : /\ GoodFiles(images'[p])
                           /\ images'[p].journal = TornFile => images[p].journal = TornFile
      BY <1>0, <1>3, <2>3, <2>5, ImageKinds DEF ImagesGood, here
    <2>7. Held(images'[0]) = Held(images[0])
      BY <1>3, <2>3 DEF here
    <2>8. \A t \in Spaces : sworn[t] # {} => Held(images'[t]) = Held(images[t])
      BY <1>0, <2>3, <2>4
    <2> QED
      BY <1>1, <1>3, <2>3, <2>6, <2>7, <2>8, EndRest
  <1> QED
    BY <1>2, <1>3

\* A failing operation, a refused journal and a kill end a call early.
LEMMA CutShort ==
    ASSUME VectorInv, OperationFails \/ JournalRefused \/ StoreKilled
    PROVE  VectorInv'
  <1>0. /\ ImagesGood /\ Shape /\ work # NoWork /\ Cut /\ work' = NoWork /\ RegistryPath = 0
        /\ sworn' = sworn /\ refusal' = refusal /\ vectorsDir' = vectorsDir
        /\ store' \in {store, NoStore} /\ work.path \in Paths /\ GoodFiles(here)
    BY DEF VectorInv, CallStands, Shape, ImagesGood, here, OperationFails, JournalRefused,
           StoreKilled, RegistryPath
  <1>1. ASSUME NEW f \in LeftBehind, Abandon(f) PROVE VectorInv'
    <2>1. GoodFiles(f) /\ Held(f) = Held(here) /\ f.journal = here.journal
      <3>1. CASE f = here
        BY <1>0, <3>1
      <3>2. CASE f # here
        <4>1. f = [here EXCEPT !.main = here.bak, !.bak = NoFile] /\ IsWhole(here.journal)
          BY <1>0, <1>1, <3>2 DEF LeftBehind, Shape, Fits, Swapping
        <4>2. here = [main |-> here.main, tmp |-> here.tmp, bak |-> here.bak,
                      journal |-> here.journal]
          BY <1>0 DEF GoodFiles
        <4>3. f = [main |-> here.bak, tmp |-> here.tmp, bak |-> NoFile, journal |-> here.journal]
          BY <4>1, <4>2, MainAndBak, Zenon
        <4> QED
          BY <1>0, <4>1, <4>3 DEF GoodFiles, Held
      <3> QED
        BY <3>1, <3>2
    <2>2. \/ images' = [images EXCEPT ![work.path] = f]
          \/ /\ work.call = "space" /\ work.path = 0
             /\ images' = [images EXCEPT ![0] = f, ![NewSpace] = NoFiles]
      BY <1>0, <1>1 DEF Abandon, SetFiles
    <2> QED
      BY <1>0, <2>1, <2>2, EndStep
  <1>2. CASE OperationFails
    BY <1>1, <1>2 DEF OperationFails
  <1>3. CASE JournalRefused
    <2>1. here \in LeftBehind
      BY DEF LeftBehind
    <2> QED
      BY <1>1, <1>3, <2>1 DEF JournalRefused
  <1>4. CASE StoreKilled
    <2>1. images' = [images EXCEPT ![work.path] = here]
      BY <1>0, <1>4 DEF StoreKilled, ImagesGood, here
    <2> QED
      BY <1>0, <2>1, EndStep
  <1> QED
    BY <1>2, <1>3, <1>4

\* A closed store leaves its files.
LEMMA CloseStep ==
    ASSUME VectorInv, CloseStore
    PROVE  VectorInv'
  <1>1. /\ images' = images /\ work' = work /\ work = NoWork /\ sworn' = sworn /\ cuts' = cuts
        /\ refusal' = refusal /\ vectorsDir' = vectorsDir /\ store' = NoStore /\ ~store'.open
    BY DEF CloseStore, NoStore
  <1>2. Listed' = Listed /\ \A s : ~Making(s)
    BY <1>1 DEF Listed, Making
  <1>3. ImagesGood' /\ CallStands' /\ SwornHeld' /\ VectorsKept' /\ RefusedOnlyUnfinished'
    BY <1>1, <1>2
       DEF VectorInv, ImagesGood, CallStands, SwornHeld, VectorsKept, RefusedOnlyUnfinished
  <1>4. StoreStands'
    BY <1>1 DEF VectorInv, StoreStands
  <1>5. CutsKnown'
    <2>1. /\ \A p \in Paths : images[p].journal = TornFile => "journal" \in cuts
          /\ vectorsDir /\ "create" \notin cuts /\ work.call # "create" => Held(images[0]) # NoFile
          /\ "space" \notin cuts =>
                \A s \in Spaces : IF s \in Listed THEN Held(images[s]) # NoFile
                                  ELSE images[s] = NoFiles
      BY <1>1, <1>2 DEF VectorInv, CutsKnown
    <2> QED
      BY <1>1, <1>2, <2>1 DEF CutsKnown
  <1> QED
    BY <1>3, <1>4, <1>5 DEF VectorInv

\* A call whose replacement is done: create_space goes on to the registry, every
\* other call is answered.
LEMMA DoneStep ==
    ASSUME VectorInv, Done
    PROVE  VectorInv'
  <1>0. /\ ImagesGood /\ StoreStands /\ SwornHeld /\ CutsKnown /\ VectorsKept
        /\ RefusedOnlyUnfinished /\ Shape /\ PersistStands /\ vectorsDir
        /\ 0 \in Paths /\ Spaces \subseteq Paths /\ 0 \notin Spaces
        /\ work.path \in Paths /\ work # NoWork /\ RegistryPath = 0 /\ IsWhole(work.image)
    BY VectorConstants
       DEF VectorInv, Paths, RegistryPath, Done, CallStands, OpenStands, Shape, PersistStands
  <1>1. /\ images' = images /\ cuts' = cuts /\ refusal' = refusal /\ vectorsDir' = vectorsDir
    BY DEF Done
  <1>2. Tidy(here) /\ Held(here) = work.image /\ here.main = work.image
    BY <1>0, ImageKinds DEF Done, Shape, Fits, Held, Tidy
  <1>3. Listed' = Listed /\ ImagesGood' /\ (work.path = 0 => Listed = work.image.image)
    BY <1>0, <1>1, <1>2 DEF ImagesGood, Listed, here
  <1>4. \A p \in Paths : images[p].journal = TornFile => "journal" \in cuts
    BY <1>0 DEF CutsKnown, Done
  <1>5. RefusedOnlyUnfinished'
    BY <1>0, <1>1 DEF RefusedOnlyUnfinished
  <1>6. work.path = 0 => Held(images[0]) # NoFile
    BY <1>0, <1>2, WholeIs DEF here
  <1>7. CASE work.call = "space" /\ work.path # RegistryPath
    <2> PICK s : s = work.path
      OBVIOUS
    <2>1. /\ s \in Spaces /\ store.open /\ s \notin Registered /\ work.image = WholeFile(EmptyColumn)
      BY <1>0, <1>7 DEF PersistStands
    <2>2. /\ work' = Persist("space", 0, Registered \cup {s}) /\ store' = store /\ sworn' = sworn
      BY <1>0, <1>7 DEF Done
    <2>3. Begins(work', "space", 0, Registered \cup {s})
      BY <2>2, PersistIs
    <2>4. /\ work'.call = "space" /\ work'.path = 0 /\ work'.image = WholeFile(Registered \cup {s})
          /\ work'.at = "recover" /\ work'.saved = FALSE /\ work' # NoWork
          /\ work' = [call |-> work'.call, path |-> work'.path, image |-> work'.image,
                      at |-> work'.at, saved |-> work'.saved]
      BY <2>3 DEF Begins
    <2>5. Registered' = Registered /\ Registering(s)'
      BY <2>1, <2>2, <2>4 DEF Registered, Registering
    <2>6. Tidy(images[s]) /\ images[s].main = WholeFile(EmptyColumn)
      BY <1>2, <2>1 DEF here
    <2>7. PersistStands'
      <3>1. \E t \in Spaces : /\ Registering(t)' /\ Tidy(images'[t])
                              /\ images'[t].main = WholeFile(EmptyColumn)
        BY <1>1, <2>1, <2>5, <2>6
      <3> QED
        BY <2>1, <2>2, <2>4, <3>1, ImageKinds DEF PersistStands
    <2>8. CallStands'
      BY <1>0, <1>1, <1>3, <2>4, <2>7, StartShape DEF CallStands
    <2>9. CutsKnown'
      <3>1. \A t \in Spaces : Making(t) => t = s
        BY <1>0, <1>7 DEF Making
      <3>2. Making(s)'
        BY <2>4, <2>5 DEF Making
      <3>3. "space" \notin cuts => Registered = Listed
        BY <1>0, <1>7, <2>1 DEF CutsKnown
      <3>4. "space" \notin cuts =>
              \A t \in Spaces : IF t \in Listed THEN Held(images[t]) # NoFile
                                ELSE t = s \/ images[t] = NoFiles
        BY <1>0, <3>1 DEF CutsKnown
      <3>5. vectorsDir /\ "create" \notin cuts => Held(images[0]) # NoFile
        BY <1>0, <1>7 DEF CutsKnown
      <3> QED
        BY <1>1, <1>3, <1>4, <2>2, <2>4, <2>5, <3>2, <3>3, <3>4, <3>5 DEF CutsKnown
    <2>10. StoreStands' /\ SwornHeld' /\ VectorsKept'
      BY <1>0, <1>1, <1>3, <2>2, <2>5 DEF StoreStands, SwornHeld, VectorsKept
    <2> QED
      BY <1>3, <1>5, <2>8, <2>9, <2>10 DEF VectorInv
  <1>8. ASSUME work' = NoWork, SwornHeld', StoreStands', VectorsKept',
               work.call \in {"create", "write", "space"},
               work.call # "write" => work.path = 0,
               "space" \notin cuts => \A s \in Spaces : Making(s) => s \in Listed,
               "space" \notin cuts /\ store'.open => Registered' = Listed
        PROVE  VectorInv'
    <2>1. work'.call = "none"
      BY <1>8 DEF NoWork
    <2>2. "space" \notin cuts =>
            \A s \in Spaces : IF s \in Listed THEN Held(images[s]) # NoFile
                              ELSE images[s] = NoFiles
      BY <1>0, <1>8 DEF CutsKnown
    <2>3. vectorsDir /\ "create" \notin cuts => Held(images[0]) # NoFile
      BY <1>0, <1>6, <1>8 DEF CutsKnown
    <2>4. CutsKnown'
      BY <1>1, <1>3, <1>4, <1>8, <2>1, <2>2, <2>3 DEF CutsKnown
    <2> QED
      BY <1>3, <1>5, <1>8, <2>4 DEF VectorInv, CallStands
  <1>9. CASE work.call = "space" /\ work.path = RegistryPath
    <2>1. PICK s \in Spaces : /\ Registering(s) /\ Tidy(images[s])
                              /\ images[s].main = WholeFile(EmptyColumn)
      BY <1>0, <1>9 DEF PersistStands
    <2>2. /\ store.open /\ s \notin Registered /\ work.image.image = Registered \cup {s}
          /\ NewSpace = s /\ Registered \subseteq Spaces
      BY <1>0, <1>9, <2>1, NewSpaceIs, ImageKinds DEF Registering, PersistStands, StoreStands, NoStore
    <2> DEFINE columns == [t \in Registered \cup {s} |->
                             IF t = s THEN EmptyColumn ELSE store.columns[t]]
    <2>3. /\ store' = Store(columns) /\ sworn' = [sworn EXCEPT ![s] = {EmptyColumn}]
          /\ work' = NoWork
      BY <1>0, <1>9, <2>2 DEF Done
    <2>4. store'.open /\ store'.columns = columns /\ Registered' = Registered \cup {s}
      BY <2>3 DEF Store, Registered
    <2>5. /\ \A t \in Registered \cup {s} :
                columns[t] = IF t = s THEN EmptyColumn ELSE store.columns[t]
          /\ columns = [t \in Registered \cup {s} |-> columns[t]]
      OBVIOUS
    <2> HIDE DEF columns
    <2>6. /\ sworn' = [t \in Spaces |-> sworn'[t]]
          /\ \A t \in Spaces : sworn'[t] = IF t = s THEN {EmptyColumn} ELSE sworn[t]
      <3>1. sworn = [t \in Spaces |-> sworn[t]]
        BY <1>0 DEF SwornHeld
      <3> QED
        BY <2>3, <3>1
    <2>7. Listed = Registered \cup {s}
      BY <1>0, <1>3, <1>9, <2>2
    <2>8. IsWhole(Held(images[s])) /\ Held(images[s]).image = EmptyColumn
      BY <2>1, ImageKinds DEF Held, Tidy
    <2>9. SwornHeld'
      BY <1>0, <1>1, <1>3, <2>6, <2>7, <2>8 DEF SwornHeld
    <2>10. StoreStands'
      <3>1. \A t \in Registered : sworn[t] # {}
        BY <1>0, <2>2 DEF StoreStands, NoStore
      <3> QED
        BY <1>0, <1>1, <2>2, <2>3, <2>4, <2>5, <2>6, <3>1 DEF StoreStands
    <2>11. VectorsKept'
      BY <1>0, <2>2, <2>4, <2>5, <2>6 DEF VectorsKept
    <2>12. \A t \in Spaces : Making(t) => t \in Listed
      <3>1. \A t \in Spaces : Registering(t) => t = s
        BY <2>2, ImageKinds DEF Registering
      <3> QED
        BY <1>0, <1>9, <2>7, <3>1 DEF Making
    <2> QED
      BY <1>0, <1>8, <1>9, <2>3, <2>4, <2>7, <2>9, <2>10, <2>11, <2>12
  <1>10. CASE work.call = "write"
    <2> DEFINE s == work.path
               image == work.image.image
    <2>1. /\ store.open /\ s \in Registered /\ s \in Spaces /\ store = Store(store.columns)
          /\ Registered \subseteq Spaces
          /\ store.columns = [t \in Registered |-> store.columns[t]]
      BY <1>0, <1>10 DEF PersistStands, StoreStands, NoStore
    <2>2. /\ store' = [store EXCEPT !.columns[s] = image]
          /\ sworn' = [sworn EXCEPT ![s] = {image}] /\ work' = NoWork
      BY <1>10 DEF Done
    <2>3. /\ IsWhole(Held(images[s])) /\ Held(images[s]).image = image
      BY <1>0, <1>2 DEF here
    <2> HIDE DEF image, s
    <2>4. /\ store'.open /\ store' = Store(store'.columns)
          /\ store'.columns = [store.columns EXCEPT ![s] = image]
      BY <2>1, <2>2 DEF Store
    <2>5. /\ Registered' = Registered
          /\ store'.columns = [t \in Registered |-> store'.columns[t]]
          /\ \A t \in Registered : store'.columns[t] = IF t = s THEN image ELSE store.columns[t]
      BY <2>1, <2>4 DEF Registered
    <2>6. /\ sworn' = [t \in Spaces |-> sworn'[t]]
          /\ \A t \in Spaces : sworn'[t] = IF t = s THEN {image} ELSE sworn[t]
      <3>1. sworn = [t \in Spaces |-> sworn[t]]
        BY <1>0 DEF SwornHeld
      <3> QED
        BY <2>2, <3>1
    <2>7. \A t \in Registered : sworn[t] # {}
      <3>1. store.open
        BY <2>1
      <3> QED
        BY <1>0, <3>1 DEF StoreStands, NoStore
    <2>8. SwornHeld'
      BY <1>0, <1>1, <1>3, <2>1, <2>3, <2>6, <2>7 DEF SwornHeld
    <2>9. StoreStands'
      BY <1>0, <1>1, <2>1, <2>4, <2>5, <2>6, <2>7 DEF StoreStands
    <2>10. VectorsKept'
      BY <1>0, <2>1, <2>4, <2>5, <2>6 DEF VectorsKept
    <2>11. \A t \in Spaces : ~Making(t)
      BY <1>10 DEF Making
    <2>12. "space" \notin cuts => Registered = Listed
      BY <1>0, <1>10, <2>1 DEF CutsKnown
    <2> QED
      BY <1>8, <1>10, <2>2, <2>5, <2>8, <2>9, <2>10, <2>11, <2>12
  <1>11. CASE work.call = "create"
    <2>1. /\ work.path = 0 /\ Listed = {} /\ \A s \in Spaces : sworn[s] = {}
      BY <1>0, <1>11 DEF PersistStands
    <2>2. store' = Store(<<>>) /\ work' = NoWork /\ sworn' = sworn
      BY <1>11 DEF Done
    <2>3. /\ store' = Store(store'.columns) /\ store'.columns = <<>> /\ Registered' = {}
      BY <2>2 DEF Store, Registered
    <2>4. SwornHeld' /\ VectorsKept'
      BY <1>0, <1>1, <1>3, <2>1, <2>2 DEF SwornHeld, VectorsKept
    <2>5. StoreStands'
      <3>1. <<>> = [s \in {} |-> <<>>[s]]
        OBVIOUS
      <3> QED
        BY <1>0, <1>1, <2>2, <2>3, <3>1 DEF StoreStands
    <2>6. \A t \in Spaces : ~Making(t)
      BY <1>11 DEF Making
    <2> QED
      BY <1>8, <1>11, <2>1, <2>2, <2>3, <2>4, <2>5, <2>6
  <1> QED
    BY <1>7, <1>9, <1>10, <1>11 DEF Done

\* open goes on: v is the call w at the next path.
Reads(w, v, path, at, registry) ==
    /\ v.call = "open" /\ v.path = path /\ v.at = at /\ v.registry = registry
    /\ v.saved = w.saved /\ v # NoWork
    /\ v = [call |-> "open", path |-> v.path, at |-> v.at, saved |-> v.saved,
            registry |-> v.registry]

\* What open changes of its call when it goes on.
LEMMA ReadsOn ==
    ASSUME NEW w, w = [call |-> "open", path |-> w.path, at |-> w.at, saved |-> w.saved,
                       registry |-> w.registry],
           NEW p, NEW a, NEW r
    PROVE  /\ Reads(w, [w EXCEPT !.registry = r, !.at = a], w.path, a, r)
           /\ Reads(w, [w EXCEPT !.registry = r, !.path = p, !.at = a], p, a, r)
  <1> DEFINE v(x, y, z) == [call |-> "open", path |-> x, at |-> y, saved |-> w.saved,
                            registry |-> z]
             g == v(w.path, w.at, r)
             h == v(p, w.at, r)
  <1>1. /\ [w EXCEPT !.registry = r, !.at = a] = [[w EXCEPT !.registry = r] EXCEPT !.at = a]
        /\ [w EXCEPT !.registry = r, !.path = p, !.at = a]
              = [[[w EXCEPT !.registry = r] EXCEPT !.path = p] EXCEPT !.at = a]
    OBVIOUS
  <1>2. [w EXCEPT !.registry = r] = g
    OBVIOUS
  <1>3. [g EXCEPT !.at = a] = v(w.path, a, r) /\ [g EXCEPT !.path = p] = h
    OBVIOUS
  <1>4. [h EXCEPT !.at = a] = v(p, a, r)
    OBVIOUS
  <1>5. Reads(w, v(w.path, a, r), w.path, a, r) /\ Reads(w, v(p, a, r), p, a, r)
    BY DEF Reads, NoWork
  <1> HIDE DEF v, g, h
  <1> QED
    BY <1>1, <1>2, <1>3, <1>4, <1>5

\* open has read an image, and goes on to the least space above it or to the
\* directory check.
LEMMA ReadStep ==
    ASSUME VectorInv, ReadImage
    PROVE  VectorInv'
  <1>0. /\ ImagesGood /\ StoreStands /\ SwornHeld /\ CutsKnown /\ VectorsKept
        /\ RefusedOnlyUnfinished /\ Shape /\ OpenStands /\ vectorsDir
        /\ 0 \in Paths /\ Spaces \subseteq Paths /\ 0 \notin Spaces /\ Spaces \subseteq Nat
        /\ work.path \in Paths /\ work.path \in Nat /\ RegistryPath = 0 /\ ~work.saved
        /\ work.call = "open"
    BY VectorConstants
       DEF VectorInv, Paths, RegistryPath, ReadImage, CallStands, OpenStands, Shape, PersistStands
  <1>1. /\ images' = images /\ cuts' = cuts /\ refusal' = refusal /\ vectorsDir' = vectorsDir
        /\ store' = store /\ sworn' = sworn /\ work.at = "read"
    BY DEF ReadImage
  <1>2. Tidy(here) /\ IsWhole(here.main)
    BY <1>0, <1>1, ImageKinds DEF Shape, Fits, ReadImage, ImagesGood, GoodFiles, here
  <1> DEFINE reg == IF work.path = 0 THEN here.main.image ELSE work.registry
             rest == {s \in reg : s > work.path}
  <1>3. /\ reg \subseteq Spaces /\ Tidy(images[0]) /\ images[0].main = WholeFile(reg)
        /\ \A s \in reg : s <= work.path => Recovered(s)
    <2>1. CASE work.path = 0
      <3>1. IsWhole(images[0].main) /\ Tidy(images[0]) /\ images[0].main = WholeFile(reg)
        BY <1>2, <2>1 DEF here, IsWhole
      <3>2. Listed = reg
        BY <3>1, ImageKinds DEF Listed, Held, Tidy
      <3>3. \A s \in reg : s \in Nat /\ s # 0
        BY <1>0, <3>2 DEF ImagesGood
      <3>4. \A s \in reg : ~(s <= 0)
        BY <3>3
      <3> QED
        BY <1>0, <2>1, <3>1, <3>2, <3>4 DEF ImagesGood
    <2>2. CASE work.path # 0
      <3>1. /\ reg \subseteq Spaces /\ Tidy(images[0]) /\ images[0].main = WholeFile(reg)
            /\ \A s \in reg : s < work.path => Recovered(s)
        BY <1>0, <2>2 DEF OpenStands
      <3>2. Recovered(work.path)
        BY <1>2 DEF Recovered, here
      <3> HIDE DEF reg
      <3>3. ASSUME NEW s \in reg, s <= work.path
            PROVE  s < work.path \/ s = work.path
        <4>1. s \in Nat /\ work.path \in Nat
          BY <1>0, <3>1
        <4> QED
          BY <3>3, <4>1
      <3> QED
        BY <3>1, <3>2, <3>3
    <2> QED
      BY <2>1, <2>2
  <1>4. work' = IF rest = {} THEN [work EXCEPT !.registry = reg, !.at = "verify"]
                ELSE [work EXCEPT !.registry = reg, !.path = Min(rest), !.at = "recover"]
    BY <1>0 DEF ReadImage, NextImage
  <1>5. reg = Listed
    BY <1>3, ImageKinds DEF Listed, Held, Tidy
  <1> HIDE DEF reg
  <1>6. work = [call |-> "open", path |-> work.path, at |-> work.at, saved |-> work.saved,
                registry |-> work.registry]
    BY <1>0 DEF OpenStands
  <1>7. ASSUME NEW p, NEW a, Reads(work, work', p, a, reg), p \in reg \cup {0},
               a \in {"verify", "recover"},
               \A s \in reg : s < p => Recovered(s),
               a = "verify" => \A s \in reg : s <= p /\ Recovered(s)
        PROVE  VectorInv'
    <2>1. /\ work'.call = "open" /\ work'.path = p /\ work'.at = a /\ work'.registry = reg
          /\ work'.saved = work.saved /\ work' # NoWork
          /\ work' = [call |-> "open", path |-> work'.path, at |-> work'.at,
                      saved |-> work'.saved, registry |-> work'.registry]
      BY <1>7 DEF Reads
    <2>2. \A s : Recovered(s)' = Recovered(s)
      BY <1>1 DEF Recovered
    <2>3. OpenStands'
      BY <1>0, <1>1, <1>3, <1>7, <2>1, <2>2 DEF OpenStands
    <2>4. Shape'
      BY <1>0, <1>3, <1>7, <2>1 DEF Shape, Fits, Swapping
    <2>5. Listed' = Listed /\ ImagesGood' /\ Registered' = Registered
      BY <1>0, <1>1 DEF Listed, ImagesGood, Registered
    <2>6. \A s : ~Making(s) /\ ~Making(s)'
      BY <1>0, <2>1 DEF Making
    <2>7. CutsKnown'
      <3>1. /\ \A q \in Paths : images[q].journal = TornFile => "journal" \in cuts
            /\ "create" \notin cuts => Held(images[0]) # NoFile
            /\ "space" \notin cuts =>
                  \A s \in Spaces : IF s \in Listed THEN Held(images[s]) # NoFile
                                    ELSE images[s] = NoFiles
        BY <1>0, <1>1, <2>6 DEF CutsKnown
      <3>2. ~store.open
        BY <1>0 DEF OpenStands
      <3> QED
        BY <1>1, <2>1, <2>5, <3>1, <3>2 DEF CutsKnown
    <2>8. StoreStands' /\ SwornHeld' /\ VectorsKept' /\ RefusedOnlyUnfinished'
      BY <1>0, <1>1, <2>5 DEF StoreStands, SwornHeld, VectorsKept, RefusedOnlyUnfinished
    <2> QED
      BY <1>0, <1>1, <2>1, <2>3, <2>4, <2>5, <2>7, <2>8 DEF VectorInv, CallStands
  <1>8. CASE rest = {}
    <2>1. Reads(work, work', work.path, "verify", reg)
      BY <1>4, <1>6, <1>8, ReadsOn
    <2>2. \A s \in reg : s <= work.path
      BY <1>0, <1>3, <1>8
    <2>3. work.path \in reg \cup {0}
      BY <1>0 DEF OpenStands, reg
    <2> QED
      BY <1>3, <1>7, <2>1, <2>2, <2>3
  <1>9. CASE rest # {}
    <2>1. rest \in SUBSET Nat
      BY <1>0, <1>3
    <2>2. Min(rest) \in rest /\ \A y \in rest : Min(rest) <= y
      BY <1>9, <2>1, MinIsLeast
    <2>3. Reads(work, work', Min(rest), "recover", reg)
      BY <1>4, <1>6, <1>9, ReadsOn
    <2>4. \A s \in reg : s < Min(rest) => Recovered(s)
      <3>1. ASSUME NEW s \in reg, s < Min(rest) PROVE s <= work.path
        <4>1. s \notin rest
          BY <1>0, <1>3, <2>1, <2>2, <3>1
        <4>2. s \in Nat
          BY <1>0, <1>3
        <4> QED
          BY <1>0, <4>1, <4>2
      <3> QED
        BY <1>3, <3>1
    <2>5. Min(rest) \in reg
      BY <2>2
    <2> QED
      BY <1>7, <2>3, <2>4, <2>5
  <1> QED
    BY <1>8, <1>9

\* open answers with what it has read: the columns that were promised.
LEMMA OpenedStep ==
    ASSUME VectorInv, Opened
    PROVE  VectorInv'
  <1>0. /\ ImagesGood /\ StoreStands /\ SwornHeld /\ CutsKnown /\ VectorsKept
        /\ RefusedOnlyUnfinished /\ OpenStands /\ vectorsDir /\ work.at = "verify"
        /\ Spaces \subseteq Paths /\ 0 \in Paths
        /\ work # NoWork /\ work.call = "open"
    BY VectorConstants DEF VectorInv, Paths, RegistryPath, Opened, CallStands, OpenStands, PersistStands
  <1> DEFINE columns == [s \in work.registry |-> images[s].main.image]
  <1>1. /\ images' = images /\ cuts' = cuts /\ refusal' = refusal /\ vectorsDir' = vectorsDir
        /\ work' = NoWork /\ store' = Store(columns)
        /\ sworn' = [s \in Spaces |->
                       IF s \in work.registry /\ (sworn[s] = {} \/ columns[s] \in sworn[s])
                       THEN {columns[s]} ELSE sworn[s]]
    BY DEF Opened
  <1>2. /\ work.registry \subseteq Spaces /\ Tidy(images[0])
        /\ images[0].main = WholeFile(work.registry)
        /\ \A s \in work.registry : Recovered(s)
    BY <1>0 DEF OpenStands
  <1>3. Listed = work.registry
    BY <1>2, ImageKinds DEF Listed, Held, Tidy
  <1>4. /\ \A s \in work.registry : columns[s] = images[s].main.image
        /\ columns = [s \in work.registry |-> columns[s]]
    OBVIOUS
  <1> HIDE DEF columns
  <1>5. /\ store'.open /\ store' = Store(store'.columns) /\ store'.columns = columns
        /\ Registered' = work.registry
    BY <1>1, <1>4 DEF Store, Registered
  <1>6. Listed' = Listed /\ ImagesGood'
    BY <1>0, <1>1 DEF Listed, ImagesGood
  <1>7. \A s \in work.registry : IsWhole(Held(images[s])) /\ Held(images[s]).image = columns[s]
    BY <1>2, <1>4, ImageKinds DEF Recovered, Held, Tidy
  <1>8. \A s \in Spaces : sworn[s] # {} => s \in work.registry /\ columns[s] \in sworn[s]
    BY <1>0, <1>3, <1>7 DEF SwornHeld
  <1>9. /\ sworn' = [s \in Spaces |-> sworn'[s]]
        /\ \A s \in Spaces : sworn'[s] = IF s \in work.registry THEN {columns[s]} ELSE {}
    BY <1>1, <1>8
  <1>10. SwornHeld' /\ VectorsKept'
    BY <1>1, <1>3, <1>5, <1>6, <1>7, <1>9 DEF SwornHeld, VectorsKept
  <1>11. StoreStands'
    BY <1>0, <1>1, <1>2, <1>4, <1>5, <1>9 DEF StoreStands
  <1>12. RefusedOnlyUnfinished'
    BY <1>0, <1>1 DEF RefusedOnlyUnfinished
  <1>13. CutsKnown'
    <2>1. \A s : ~Making(s)
      BY <1>0 DEF Making
    <2>2. /\ \A q \in Paths : images[q].journal = TornFile => "journal" \in cuts
          /\ "create" \notin cuts => Held(images[0]) # NoFile
          /\ "space" \notin cuts =>
                \A s \in Spaces : IF s \in Listed THEN Held(images[s]) # NoFile
                                  ELSE images[s] = NoFiles
      BY <1>0, <2>1 DEF CutsKnown
    <2> QED
      BY <1>1, <1>3, <1>5, <1>6, <2>2 DEF CutsKnown
  <1> QED
    BY <1>1, <1>6, <1>10, <1>11, <1>12, <1>13 DEF VectorInv, CallStands

\* Each refusal of open is of an unfinished call.
LEMMA RefusedStep ==
    ASSUME VectorInv, OpenRefused
    PROVE  VectorInv'
  <1>0. /\ ImagesGood /\ StoreStands /\ SwornHeld /\ CutsKnown /\ VectorsKept
        /\ Shape /\ OpenStands /\ vectorsDir /\ work # NoWork
        /\ 0 \in Paths /\ Spaces \subseteq Paths /\ 0 \notin Spaces /\ Paths \subseteq Spaces \cup {0}
        /\ work.path \in Paths /\ RegistryPath = 0 /\ work.call = "open" /\ GoodFiles(here)
        /\ work.at \notin {"journal", "journalling", "done"} /\ ~store.open
    BY VectorConstants
       DEF VectorInv, Paths, RegistryPath, OpenRefused, CallStands, OpenStands, Shape, PersistStands,
           ImagesGood, here
  <1>1. /\ images' = images /\ cuts' = cuts /\ refusal' = Refusal /\ vectorsDir' = vectorsDir
        /\ store' = store /\ sworn' = sworn /\ work' = NoWork /\ work'.call = "none"
    BY DEF OpenRefused, NoWork
  <1>2. \A s : ~Making(s)
    BY <1>0 DEF Making
  <1>3. /\ \A q \in Paths : images[q].journal = TornFile => "journal" \in cuts
        /\ "create" \notin cuts => Held(images[0]) # NoFile
        /\ "space" \notin cuts =>
              \A s \in Spaces : IF s \in Listed THEN Held(images[s]) # NoFile
                                ELSE images[s] = NoFiles
    BY <1>0, <1>2 DEF CutsKnown
  <1>4. Listed' = Listed /\ ImagesGood' /\ Registered' = Registered
    BY <1>0, <1>1 DEF Listed, ImagesGood, Registered
  <1>5. work.path # 0 \/ work.at = "verify" =>
            work.registry = Listed /\ work.path \in Listed \cup {0}
    BY <1>0, ImageKinds DEF OpenStands, Listed, Held, Tidy
  <1>6. here.main.is # "torn"
    BY <1>0, ImageKinds, WholeIs DEF GoodFiles
  <1>7. here.journal.is = "torn" => here.journal = TornFile
    BY <1>0, ImageKinds, WholeIs DEF GoodFiles
  <1>8. work.at = "read" => Held(here) = here.main
    BY <1>0, ImageKinds DEF Shape, Fits, Held, Tidy
  <1>9. RefusedOnlyUnfinished'
    <2>1. CASE work.at = "replay" /\ here.journal.is = "torn"
      <3>1. Refusal = "journal"
        BY <2>1 DEF Refusal
      <3>2. "journal" \in cuts
        BY <1>0, <1>3, <1>7, <2>1 DEF here
      <3> QED
        BY <1>1, <3>1, <3>2 DEF RefusedOnlyUnfinished
    <2>2. CASE work.at = "read" /\ here.main = NoFile
      <3>1. Refusal = IF work.path = 0 THEN "registry" ELSE "column"
        BY <1>0, <1>6, <2>2 DEF Refusal
      <3>2. work.path = 0 => "create" \in cuts
        BY <1>3, <1>8, <2>2 DEF here
      <3>3. work.path # 0 => "space" \in cuts
        BY <1>0, <1>3, <1>5, <1>8, <2>2 DEF here
      <3> QED
        BY <1>1, <3>1, <3>2, <3>3 DEF RefusedOnlyUnfinished
    <2>3. CASE work.at = "verify" /\ Orphans # {}
      <3>1. Refusal = "orphan"
        BY <2>3 DEF Refusal
      <3>2. "space" \in cuts
        BY <1>0, <1>3, <1>5, <2>3 DEF Orphans
      <3> QED
        BY <1>1, <3>1, <3>2 DEF RefusedOnlyUnfinished
    <2>4. CASE /\ ~(work.at = "replay" /\ here.journal.is = "torn")
               /\ ~(work.at = "read" /\ here.main = NoFile)
               /\ ~(work.at = "verify" /\ Orphans # {})
      <3>1. Refusal = "none"
        BY <1>6, <2>4 DEF Refusal
      <3> QED
        BY <3>1 DEF OpenRefused
    <2> QED
      BY <2>1, <2>2, <2>3, <2>4
  <1>10. CutsKnown'
    BY <1>0, <1>1, <1>3, <1>4 DEF CutsKnown
  <1>11. StoreStands' /\ SwornHeld' /\ VectorsKept'
    BY <1>0, <1>1, <1>4 DEF StoreStands, SwornHeld, VectorsKept
  <1> QED
    BY <1>1, <1>4, <1>9, <1>10, <1>11 DEF VectorInv, CallStands

\* Before vectors/ there is nothing to keep.
LEMMA VectorStart == VectorInit => VectorInv
  <1> SUFFICES ASSUME VectorInit PROVE VectorInv
    OBVIOUS
  <1>1. /\ vectorsDir = FALSE /\ images = [p \in Paths |-> NoFiles] /\ store = NoStore
        /\ work = NoWork /\ sworn = [s \in Spaces |-> {}] /\ refusal = "none" /\ cuts = {}
        /\ 0 \in Paths /\ Spaces \subseteq Paths /\ ~store.open
    BY DEF VectorInit, Paths, RegistryPath, NoStore
  <1>2. GoodFiles(NoFiles) /\ NoFiles.journal = NoFile /\ Held(NoFiles) = NoFile
    BY ImageKinds DEF GoodFiles, NoFiles, Held
  <1>3. Listed = {} /\ Held(images[0]) = NoFile
    BY <1>1, <1>2, ImageKinds DEF Listed
  <1>4. ImagesGood /\ CallStands /\ StoreStands
    BY <1>1, <1>2, <1>3 DEF ImagesGood, CallStands, StoreStands
  <1>5. SwornHeld /\ VectorsKept /\ RefusedOnlyUnfinished
    BY <1>1 DEF SwornHeld, VectorsKept, RefusedOnlyUnfinished
  <1>6. CutsKnown
    BY <1>1, <1>2, <1>3, ImageKinds DEF CutsKnown
  <1> QED
    BY <1>4, <1>5, <1>6 DEF VectorInv

\* Every step of the store keeps the invariant.
LEMMA VectorStep == VectorInv /\ [VectorNext]_vectorVars => VectorInv'
  <1> SUFFICES ASSUME VectorInv, [VectorNext]_vectorVars PROVE VectorInv'
    OBVIOUS
  <1>1. CASE Recover \/ Replay \/ Swap \/ Sweep \/ (WriteJournal /\ work.at = "journal")
    <2>1. /\ ImagesGood /\ work # NoWork /\ Shape /\ (OpenStands \/ PersistStands) /\ Idle
      BY <1>1 DEF VectorInv, CallStands, Recover, Replay, Swap, Sweep, WriteJournal, Idle
    <2>2. \E f, x : Quiet(f, x)
      BY <1>1, <2>1, FileStep
    <2> QED
      BY <2>1, <2>2, QuietStep
  <1>2. CASE WriteJournal
    <2>1. work.at = "journal" \/ work.at = "journalling"
      BY <1>2 DEF WriteJournal
    <2> QED
      BY <1>1, <1>2, <2>1, JournalStep
  <1>3. CASE CreateStore \/ OpenStore
             \/ \E s \in Spaces : CreateSpace(s) \/ \E i \in Inputs : Write(s, i)
    BY <1>3, StartStep
  <1>4. CASE CloseStore
    BY <1>4, CloseStep
  <1>5. CASE Done
    BY <1>5, DoneStep
  <1>6. CASE ReadImage
    BY <1>6, ReadStep
  <1>7. CASE Opened
    BY <1>7, OpenedStep
  <1>8. CASE OpenRefused
    BY <1>8, RefusedStep
  <1>9. CASE OperationFails \/ JournalRefused \/ StoreKilled
    BY <1>9, CutShort
  <1>10. CASE UNCHANGED vectorVars
    <2>1. /\ images' = images /\ cuts' = cuts /\ refusal' = refusal /\ vectorsDir' = vectorsDir
          /\ store' = store /\ sworn' = sworn /\ work' = work
      BY <1>10 DEF vectorVars
    <2>2. Listed' = Listed /\ Registered' = Registered /\ here' = here
      BY <2>1 DEF Listed, Registered, here
    <2>3. /\ \A s : Making(s)' <=> Making(s)
          /\ \A s : Registering(s)' <=> Registering(s)
          /\ \A s : Recovered(s)' <=> Recovered(s)
      BY <2>1, <2>2 DEF Registering, Making, Recovered
    <2>4. ImagesGood'
      BY <2>1, <2>2, <2>3 DEF VectorInv, ImagesGood
    <2>5. Shape' <=> Shape
      BY <2>1, <2>2 DEF Shape
    <2>6. OpenStands' <=> OpenStands
      BY <2>1, <2>2, <2>3 DEF OpenStands
    <2>7. PersistStands' <=> PersistStands
      BY <2>1, <2>2, <2>3 DEF PersistStands
    <2>8. CallStands'
      BY <2>1, <2>5, <2>6, <2>7 DEF VectorInv, CallStands
    <2>9. StoreStands'
      BY <2>1, <2>2, <2>3 DEF VectorInv, StoreStands
    <2>10. SwornHeld' /\ CutsKnown' /\ RefusedOnlyUnfinished'
      BY <2>1, <2>2, <2>3 DEF VectorInv, SwornHeld, CutsKnown, RefusedOnlyUnfinished
    <2>11. VectorsKept'
      BY <2>1, <2>2, <2>3 DEF VectorInv, VectorsKept
    <2> QED
      BY <2>4, <2>8, <2>9, <2>10, <2>11 DEF VectorInv
  <1> QED
    BY <1>1, <1>2, <1>3, <1>4, <1>5, <1>6, <1>7, <1>8, <1>9, <1>10 DEF VectorNext

\* An opened store holds every space create_space answered for, with the column of
\* the last put_vector or import_vectors that was answered or was cut short since:
\* for any spaces, batches, kills and failing file operations of persist_image,
\* recover_image and replay_journal.
THEOREM VectorsStay == VectorSpec => []VectorsKept
  <1>1. VectorInv => VectorsKept
    BY DEF VectorInv
  <1> QED
    BY VectorStart, VectorStep, <1>1, PTL DEF VectorSpec

\* open refuses only what an interrupted create, create_space or journal write has
\* left: replay_journal can be interrupted anywhere, and again while it recovers.
THEOREM OpensUnlessUnfinished == VectorSpec => []RefusedOnlyUnfinished
  <1>1. VectorInv => RefusedOnlyUnfinished
    BY DEF VectorInv
  <1> QED
    BY VectorStart, VectorStep, <1>1, PTL DEF VectorSpec

-----------------------------------------------------------------------------
(* The inventory of derived artifacts, for any number of commits, kills and *)
(* failing file operations.                                                *)

ArtifactRecord ==
    [kind : {"HotSnapshot", "VectorColumn"}, generation : Int, snapshot : Int,
     state : {"Complete", "Invalidated"}]

\* Every record that is called complete is of the file that was registered.
Good(records) ==
    /\ records \subseteq ArtifactRecord
    /\ \A r \in records : r.state = "Complete" => Matches(r)

\* A file of the inventory: what can be read from it is good, at any moment.
FileOk(f) ==
    \/ f = Missing
    \/ f = Partial
    \/ f.is = "whole" /\ f = Complete(f.records) /\ Good(f.records)

\* Every answered registration of the current snapshot is there.
Owes(records) == \A r \in owed : r.snapshot = commits => r \in records

DerivedTypes ==
    /\ commits \in Nat
    /\ native \in [generation : Int, snapshot : Int]
    /\ \A r \in owed : r.snapshot \in Int /\ r.snapshot <= commits
    /\ DOMAIN inventory = {"main", "tmp", "bak"}
    /\ FileOk(inventory.main) /\ FileOk(inventory.tmp) /\ FileOk(inventory.bak)
    /\ DOMAIN catalog = {"open", "records"} /\ catalog.open \in BOOLEAN
    /\ ~catalog.open => catalog.records = {}
    /\ Good(catalog.records)

\* The file that recover_inventory_files settles on, wherever a persist was cut
\* off, has what is owed: the main file or, while that is aside, its backup.
DiskKeeps ==
    founded \/ owed # {} \/ catalog.open =>
        \/ inventory.main.is = "whole" /\ Owes(inventory.main.records)
        \/ /\ inventory.main = Missing
           /\ inventory.bak.is = "whole" /\ Owes(inventory.bak.records)

MemoryKeeps == catalog.open => Owes(catalog.records)

BrokenStops == broken => task = NoTask /\ ~catalog.open /\ ~founded

Synced ==
    /\ inventory.main = Complete(catalog.records)
    /\ inventory.tmp = Missing /\ inventory.bak = Missing

Persisting == {"clear", "writing", "aside", "promote", "dropBackup"}

\* What the call does next, once the inventory is persisted.
Goal == IF task.at \in Persisting THEN task.after ELSE task.at

\* How far persist is.
PersistedSoFar ==
    /\ task.at = "clear" => inventory.tmp = Missing
    /\ task.at \in {"clear", "writing", "aside"} => inventory.bak = Missing
    /\ task.at \in {"aside", "promote"} => inventory.tmp = Complete(catalog.records)
    /\ task.at = "promote" => inventory.main = Missing
    /\ task.at = "dropBackup" =>
          inventory.main = Complete(catalog.records) /\ inventory.tmp = Missing
    /\ task.at \notin Persisting => Synced

\* The native column is rewritten only when no record of an older snapshot is
\* called complete any more, in memory or in the file.
WorkStands ==
    /\ task.call \in {"create", "invalidate"} => Goal = "answer"
    /\ Goal = "import" => task.call = "native" /\ Stale(catalog.records) = {}
    /\ Goal = "layout" => task.call = "materialize"
    /\ Goal = "register" =>
          IF task.call = "native" THEN native.snapshot = commits ELSE commits \in graphs
    /\ Goal = "answer" /\ task.call \in {"native", "materialize"} =>
          ToRegister \in catalog.records

Opening ==
    /\ DOMAIN task = {"call", "at"}
    /\ task.call = "open" /\ task.at \in {"recover", "read"}
    /\ ~catalog.open
    /\ task.at = "read" => inventory.tmp = Missing /\ inventory.bak = Missing

Working ==
    /\ DOMAIN task = {"call", "at", "after"}
    /\ task.call \in {"create", "materialize", "native", "invalidate"}
    /\ task.call = "create" => ~catalog.open /\ ~founded /\ owed = {}
    /\ task.call # "create" => catalog.open
    /\ task.after \in {"layout", "import", "answer"}
    /\ task.at \in Persisting \cup {"layout", "import", "register", "answer"}
    /\ WorkStands
    /\ PersistedSoFar

NoTaskStands == task = NoTask /\ (catalog.open => Synced)

DerivedInv ==
    /\ DerivedTypes /\ DiskKeeps /\ MemoryKeeps /\ BrokenStops
    /\ NoTaskStands \/ Opening \/ Working

-----------------------------------------------------------------------------

LEMMA FileKinds ==
    /\ Missing.is = "absent" /\ Partial.is = "torn"
    /\ \A S : Complete(S).is = "whole" /\ Complete(S).records = S
    /\ Missing # Partial
    /\ \A S : Complete(S) # Missing /\ Complete(S) # Partial
    /\ \A S : Good(S) => FileOk(Complete(S))
    /\ \A f : FileOk(f) /\ f.is = "whole" => f = Complete(f.records) /\ Good(f.records)
    /\ FileOk(Missing) /\ FileOk(Partial)
  <1>1. Missing.is = "absent" /\ Partial.is = "torn"
    BY DEF Missing, Partial
  <1>2. \A S : Complete(S).is = "whole" /\ Complete(S).records = S
    BY DEF Complete
  <1>3. Missing # Partial /\ \A S : Complete(S) # Missing /\ Complete(S) # Partial
    BY <1>1, <1>2
  <1>4. \A S : Good(S) => FileOk(Complete(S))
    BY <1>2 DEF FileOk
  <1>5. FileOk(Missing) /\ FileOk(Partial)
    BY DEF FileOk
  <1>6. \A f : FileOk(f) /\ f.is = "whole" => f = Complete(f.records) /\ Good(f.records)
    BY <1>1 DEF FileOk
  <1> QED
    BY <1>1, <1>2, <1>3, <1>4, <1>5, <1>6

\* The task that is at a place is of the kind that goes there.
LEMMA TaskKinds ==
    ASSUME DerivedInv
    PROVE  /\ NoTask.call = "none"
           /\ task.call = "open" => Opening
           /\ task # NoTask /\ task.at \notin {"recover", "read"} => Working
           /\ task # NoTask => ~broken
  <1>1. NoTask.call = "none"
    BY DEF NoTask
  <1>2. task.call = "open" => Opening
    BY <1>1 DEF DerivedInv, NoTaskStands, Working
  <1>3. task # NoTask /\ task.at \notin {"recover", "read"} => Working
    BY DEF DerivedInv, NoTaskStands, Opening
  <1> QED
    BY <1>1, <1>2, <1>3 DEF DerivedInv, BrokenStops

\* The world of a step that writes no artifact and answers nothing.
LEMMA SameWorld ==
    ASSUME UNCHANGED <<commits, graphs, native, owed>>
    PROVE  /\ \A S : Good(S)' <=> Good(S)
           /\ \A f : FileOk(f)' <=> FileOk(f)
           /\ \A S : Owes(S)' <=> Owes(S)
           /\ \A S : Stale(S)' = Stale(S)
  BY DEF Good, Matches, FileOk, Owes, Stale

\* The three files, each replaced.
LEMMA InventoryFields ==
    ASSUME DOMAIN inventory = {"main", "tmp", "bak"}, NEW x, NEW y
    PROVE  /\ LET i == [inventory EXCEPT !.main = x] IN
                 DOMAIN i = DOMAIN inventory /\ i.main = x /\ i.tmp = inventory.tmp
                 /\ i.bak = inventory.bak
           /\ LET i == [inventory EXCEPT !.tmp = x] IN
                 DOMAIN i = DOMAIN inventory /\ i.tmp = x /\ i.main = inventory.main
                 /\ i.bak = inventory.bak
           /\ LET i == [inventory EXCEPT !.bak = x] IN
                 DOMAIN i = DOMAIN inventory /\ i.bak = x /\ i.main = inventory.main
                 /\ i.tmp = inventory.tmp
           /\ LET i == [inventory EXCEPT !.main = x, !.tmp = y] IN
                 DOMAIN i = DOMAIN inventory /\ i.main = x /\ i.tmp = y
                 /\ i.bak = inventory.bak
           /\ LET i == [inventory EXCEPT !.main = x, !.bak = y] IN
                 DOMAIN i = DOMAIN inventory /\ i.main = x /\ i.bak = y
                 /\ i.tmp = inventory.tmp
  OBVIOUS

LEMMA DerivedInitInv == DerivedInit => DerivedInv
  <1> SUFFICES ASSUME DerivedInit PROVE DerivedInv
    OBVIOUS
  <1>1. inventory.main = Missing /\ inventory.tmp = Missing /\ inventory.bak = Missing
        /\ DOMAIN inventory = {"main", "tmp", "bak"}
    BY DEF DerivedInit
  <1>2. catalog.open = FALSE /\ catalog.records = {} /\ DOMAIN catalog = {"open", "records"}
    BY DEF DerivedInit, NoCatalog
  <1>3. Good({})
    BY DEF Good
  <1>4. native \in [generation : Int, snapshot : Int]
    BY DEF DerivedInit
  <1>5. DerivedTypes
    BY <1>1, <1>2, <1>3, <1>4, FileKinds DEF DerivedTypes, DerivedInit
  <1>6. DiskKeeps /\ MemoryKeeps /\ BrokenStops /\ NoTaskStands
    BY <1>2 DEF DiskKeeps, MemoryKeeps, BrokenStops, NoTaskStands, DerivedInit
  <1> QED
    BY <1>5, <1>6 DEF DerivedInv

-----------------------------------------------------------------------------

LEMMA OpenInventoryInv ==
    ASSUME DerivedInv, OpenInventory
    PROVE  DerivedInv'
  <1>1. ~catalog.open /\ task = NoTask /\ ~broken
        /\ UNCHANGED <<commits, inventory, graphs, native, owed, founded, broken>>
    BY DEF OpenInventory
  <1>2. DerivedTypes /\ DiskKeeps
    BY DEF DerivedInv
  <1>3. CASE \A name \in DOMAIN inventory : inventory[name] = Missing
    <2>1. inventory.main = Missing /\ inventory.tmp = Missing /\ inventory.bak = Missing
      BY <1>2, <1>3 DEF DerivedTypes
    <2>2. catalog' = [catalog EXCEPT !.records = {}]
          /\ task' = [call |-> "create", at |-> "clear", after |-> "answer"]
      BY <1>3 DEF OpenInventory
    <2>3. DOMAIN catalog' = {"open", "records"} /\ catalog'.open = catalog.open
          /\ catalog'.records = {}
      BY <1>2, <2>2 DEF DerivedTypes
    <2>4. ~founded /\ owed = {}
      BY <1>2, <2>1, FileKinds DEF DiskKeeps
    <2>5. DerivedTypes'
      <3>1. Good({})'
        BY DEF Good
      <3> QED
        BY <1>1, <1>2, <2>3, <3>1, SameWorld DEF DerivedTypes
    <2>6. DiskKeeps' /\ MemoryKeeps' /\ BrokenStops'
      BY <1>1, <2>3, <2>4 DEF DiskKeeps, MemoryKeeps, BrokenStops
    <2>7. Working'
      BY <1>1, <2>1, <2>2, <2>3, <2>4
         DEF Working, WorkStands, PersistedSoFar, Goal, Persisting
    <2> QED
      BY <2>5, <2>6, <2>7 DEF DerivedInv
  <1>4. CASE ~\A name \in DOMAIN inventory : inventory[name] = Missing
    <2>1. task' = [call |-> "open", at |-> "recover"] /\ catalog' = catalog
      BY <1>4 DEF OpenInventory
    <2>2. DerivedTypes'
      BY <1>1, <1>2, <2>1, SameWorld DEF DerivedTypes
    <2>3. DiskKeeps' /\ MemoryKeeps' /\ BrokenStops'
      BY <1>1, <1>2, <2>1, SameWorld DEF DiskKeeps, MemoryKeeps, BrokenStops
    <2>4. Opening'
      BY <1>1, <2>1 DEF Opening
    <2> QED
      BY <2>2, <2>3, <2>4 DEF DerivedInv
  <1> QED
    BY <1>3, <1>4

\* Recovery moves whole files only, and never past what is owed.
LEMMA RecoverInventoryInv ==
    ASSUME DerivedInv, RecoverInventory
    PROVE  DerivedInv'
  <1>1. task.call = "open" /\ task.at = "recover"
        /\ UNCHANGED <<commits, catalog, graphs, native, owed, founded, broken>>
    BY DEF RecoverInventory
  <1>2. DerivedTypes /\ DiskKeeps /\ BrokenStops /\ Opening /\ ~catalog.open /\ ~broken
    <2>1. Opening
      BY <1>1, TaskKinds
    <2>2. DerivedTypes /\ DiskKeeps /\ BrokenStops
      BY DEF DerivedInv
    <2>3. task # NoTask
      BY <1>1 DEF NoTask
    <2> QED
      BY <2>1, <2>2, <2>3 DEF Opening, BrokenStops
  <1> DEFINE f == inventory
             g == Settled(inventory)
  <1>3. \/ f.main = Missing /\ f.bak # Missing /\ g = [f EXCEPT !.main = f.bak, !.bak = Missing]
        \/ /\ f.main = Missing /\ f.bak = Missing /\ f.tmp # Missing
           /\ g = [f EXCEPT !.main = f.tmp, !.tmp = Missing]
        \/ f.main # Missing /\ f.bak # Missing /\ g = [f EXCEPT !.bak = Missing]
        \/ /\ f.bak = Missing /\ (f.main # Missing \/ f.tmp = Missing)
           /\ g = [f EXCEPT !.tmp = Missing]
    BY Zenon DEF Settled
  <1>4. DOMAIN f = {"main", "tmp", "bak"}
    BY <1>2 DEF DerivedTypes
  <1> HIDE DEF g
  <1>5. CASE g # f
    <2>1. inventory' = g /\ task' = task
      BY <1>5 DEF RecoverInventory, g
    <2>2. /\ DOMAIN g = DOMAIN f /\ FileOk(g.main) /\ FileOk(g.tmp) /\ FileOk(g.bak)
          /\ (founded \/ owed # {}) => (g.main.is = "whole" /\ Owes(g.main.records))
             \/ (g.main = Missing /\ g.bak.is = "whole" /\ Owes(g.bak.records))
      <3>1. CASE f.main = Missing /\ f.bak # Missing
                 /\ g = [f EXCEPT !.main = f.bak, !.bak = Missing]
        BY <1>2, <1>4, <3>1, InventoryFields, FileKinds DEF DerivedTypes, DiskKeeps
      <3>2. CASE /\ f.main = Missing /\ f.bak = Missing /\ f.tmp # Missing
                 /\ g = [f EXCEPT !.main = f.tmp, !.tmp = Missing]
        BY <1>2, <1>4, <3>2, InventoryFields, FileKinds DEF DerivedTypes, DiskKeeps
      <3>3. CASE f.main # Missing /\ f.bak # Missing /\ g = [f EXCEPT !.bak = Missing]
        BY <1>2, <1>4, <3>3, InventoryFields, FileKinds DEF DerivedTypes, DiskKeeps
      <3>4. CASE /\ f.bak = Missing /\ (f.main # Missing \/ f.tmp = Missing)
                 /\ g = [f EXCEPT !.tmp = Missing]
        BY <1>2, <1>4, <3>4, InventoryFields, FileKinds DEF DerivedTypes, DiskKeeps
      <3> QED
        BY <1>3, <3>1, <3>2, <3>3, <3>4
    <2>3. DerivedTypes'
      BY <1>1, <1>2, <2>1, <2>2, SameWorld DEF DerivedTypes
    <2>4. DiskKeeps' /\ MemoryKeeps' /\ BrokenStops'
      BY <1>1, <1>2, <2>1, <2>2, SameWorld DEF DiskKeeps, MemoryKeeps, BrokenStops
    <2>5. Opening'
      BY <1>1, <1>2, <2>1 DEF Opening
    <2> QED
      BY <2>3, <2>4, <2>5 DEF DerivedInv
  <1>6. CASE g = f
    <2>1. inventory' = inventory /\ task' = [task EXCEPT !.at = "read"]
      BY <1>6 DEF RecoverInventory, Continue, g
    <2>2. f.tmp = Missing /\ f.bak = Missing
      BY <1>3, <1>4, <1>6, InventoryFields
    <2>3. DOMAIN task' = {"call", "at"} /\ task'.call = "open" /\ task'.at = "read"
      BY <1>1, <1>2, <2>1 DEF Opening
    <2>4. DerivedTypes'
      BY <1>1, <1>2, <2>1, SameWorld DEF DerivedTypes
    <2>5. DiskKeeps' /\ MemoryKeeps' /\ BrokenStops'
      BY <1>1, <1>2, <2>1, SameWorld DEF DiskKeeps, MemoryKeeps, BrokenStops
    <2>6. Opening'
      BY <1>1, <1>2, <2>1, <2>2, <2>3 DEF Opening
    <2> QED
      BY <2>4, <2>5, <2>6 DEF DerivedInv
  <1> QED
    BY <1>5, <1>6

LEMMA ReadInventoryInv ==
    ASSUME DerivedInv, ReadInventory
    PROVE  DerivedInv'
  <1>1. task.call = "open" /\ task.at = "read" /\ task' = NoTask
        /\ UNCHANGED <<commits, inventory, graphs, native, owed, founded>>
    BY DEF ReadInventory
  <1>2. DerivedTypes /\ DiskKeeps /\ ~catalog.open /\ ~broken
        /\ inventory.tmp = Missing /\ inventory.bak = Missing
    <2>1. Opening
      BY <1>1, TaskKinds
    <2>2. DerivedTypes /\ DiskKeeps /\ BrokenStops
      BY DEF DerivedInv
    <2>3. task # NoTask
      BY <1>1 DEF NoTask
    <2> QED
      BY <1>1, <2>1, <2>2, <2>3 DEF Opening, BrokenStops
  <1>3. (founded \/ owed # {}) => inventory.main.is = "whole" /\ Owes(inventory.main.records)
    BY <1>2, FileKinds DEF DiskKeeps
  <1>4. CASE inventory.main.is = "whole"
    <2> DEFINE m == inventory.main.records
    <2>1. catalog' = [open |-> TRUE, records |-> m] /\ broken' = broken
      BY <1>4 DEF ReadInventory
    <2>2. inventory.main = Complete(m) /\ Good(m)
      BY <1>2, <1>4, FileKinds DEF DerivedTypes
    <2>3. Owes(m)
      BY <1>3 DEF Owes
    <2>4. DOMAIN catalog' = {"open", "records"} /\ catalog'.open = TRUE /\ catalog'.records = m
      BY <2>1
    <2>5. DerivedTypes'
      BY <1>1, <1>2, <2>2, <2>4, SameWorld DEF DerivedTypes
    <2>6. DiskKeeps' /\ MemoryKeeps' /\ BrokenStops'
      BY <1>1, <1>2, <1>4, <2>1, <2>3, <2>4, SameWorld DEF DiskKeeps, MemoryKeeps, BrokenStops
    <2>7. NoTaskStands'
      BY <1>1, <1>2, <2>2, <2>4 DEF NoTaskStands, Synced, Complete
    <2> QED
      BY <2>5, <2>6, <2>7 DEF DerivedInv
  <1>5. CASE inventory.main.is # "whole"
    <2>1. catalog' = catalog /\ broken' = TRUE /\ ~founded
      BY <1>3, <1>5 DEF ReadInventory
    <2>2. DerivedTypes'
      BY <1>1, <1>2, <2>1, SameWorld DEF DerivedTypes
    <2>3. DiskKeeps' /\ MemoryKeeps' /\ BrokenStops' /\ NoTaskStands'
      BY <1>1, <1>2, <1>3, <1>5, <2>1 DEF DiskKeeps, MemoryKeeps, BrokenStops, NoTaskStands
    <2> QED
      BY <2>2, <2>3 DEF DerivedInv
  <1> QED
    BY <1>4, <1>5

-----------------------------------------------------------------------------

\* A call goes to its next place and keeps its name and what follows.
LEMMA TaskMoves ==
    ASSUME Working, NEW at, Continue(at)
    PROVE  /\ DOMAIN task' = {"call", "at", "after"}
           /\ task'.call = task.call /\ task'.after = task.after /\ task'.at = at
  BY DEF Working, Continue

\* No residue is left to clear where a call persists: recovery has been before it.
LEMMA ClearResidueInv ==
    ASSUME DerivedInv, ClearResidue
    PROVE  DerivedInv'
  <1>1. task # NoTask /\ task.at = "clear"
        /\ UNCHANGED <<commits, catalog, graphs, native, owed, founded, broken>>
    BY DEF ClearResidue
  <1>2. DerivedTypes /\ DiskKeeps /\ MemoryKeeps /\ Working /\ ~broken
    BY <1>1, TaskKinds DEF DerivedInv
  <1>3. inventory.tmp = Missing /\ inventory.bak = Missing
    BY <1>1, <1>2 DEF Working, PersistedSoFar
  <1>4. inventory' = [inventory EXCEPT !.tmp = Partial] /\ Continue("writing")
    BY <1>3 DEF ClearResidue
  <1>5. DOMAIN inventory' = DOMAIN inventory /\ inventory'.main = inventory.main
        /\ inventory'.tmp = Partial /\ inventory'.bak = inventory.bak
    BY <1>2, <1>4, InventoryFields DEF DerivedTypes
  <1>6. DerivedTypes'
    BY <1>1, <1>2, <1>5, SameWorld, FileKinds DEF DerivedTypes
  <1>7. DiskKeeps' /\ MemoryKeeps' /\ BrokenStops'
    BY <1>1, <1>2, <1>5, SameWorld DEF DiskKeeps, MemoryKeeps, BrokenStops
  <1>8. Working'
    <2>1. /\ DOMAIN task' = {"call", "at", "after"} /\ task'.call = task.call
          /\ task'.after = task.after /\ task'.at = "writing"
      BY <1>2, <1>4, TaskMoves
    <2>2. Goal' = Goal
      BY <1>1, <2>1 DEF Goal, Persisting
    <2>3. WorkStands'
      BY <1>1, <1>2, <2>1, <2>2, SameWorld DEF Working, WorkStands, ToRegister
    <2>4. PersistedSoFar'
      BY <1>3, <1>5, <2>1 DEF PersistedSoFar, Persisting
    <2> QED
      BY <1>1, <1>2, <2>1, <2>3, <2>4 DEF Working, Persisting
  <1> QED
    BY <1>6, <1>7, <1>8 DEF DerivedInv

\* A call that goes on persisting, or is done with it, stands as it did.
LEMMA WorkGoesOn ==
    ASSUME Working, UNCHANGED <<commits, catalog, graphs, native, owed, founded>>,
           NEW at, Continue(at), task.at \in Persisting,
           at \in Persisting \/ at = task.after, PersistedSoFar'
    PROVE  Working'
  <1>1. /\ DOMAIN task' = {"call", "at", "after"} /\ task'.call = task.call
        /\ task'.after = task.after /\ task'.at = at
    BY TaskMoves
  <1>2. task.after \in {"layout", "import", "answer"}
    BY DEF Working
  <1>3. Goal' = Goal
    BY <1>1, <1>2 DEF Goal, Persisting
  <1>4. WorkStands'
    BY <1>1, <1>3, SameWorld DEF Working, WorkStands, ToRegister
  <1> QED
    BY <1>1, <1>2, <1>4 DEF Working

LEMMA ReplaceFileInv ==
    ASSUME DerivedInv, ReplaceFile
    PROVE  DerivedInv'
  <1> DEFINE c == Complete(catalog.records)
  <1>1. task # NoTask /\ task.at \in {"writing", "aside", "promote", "dropBackup"}
        /\ UNCHANGED <<commits, catalog, graphs, native, owed, founded, broken>>
    BY DEF ReplaceFile
  <1>2. DerivedTypes /\ DiskKeeps /\ MemoryKeeps /\ Working /\ PersistedSoFar /\ ~broken
    BY <1>1, TaskKinds DEF DerivedInv, Working
  <1>3. FileOk(c) /\ DOMAIN inventory = {"main", "tmp", "bak"}
        /\ c.is = "whole" /\ c.records = catalog.records
    BY <1>2, FileKinds DEF DerivedTypes
  <1>4. catalog.open \/ (~founded /\ owed = {} /\ ~catalog.open)
    BY <1>2 DEF Working
  <1>5. \E at :
          /\ Continue(at) /\ (at \in Persisting \/ at = task.after)
          /\ DOMAIN inventory' = DOMAIN inventory
          /\ FileOk(inventory'.main) /\ FileOk(inventory'.tmp) /\ FileOk(inventory'.bak)
          /\ catalog.open =>
                \/ inventory'.main.is = "whole" /\ Owes(inventory'.main.records)
                \/ /\ inventory'.main = Missing
                   /\ inventory'.bak.is = "whole" /\ Owes(inventory'.bak.records)
          /\ PersistedSoFar'
    <2>1. CASE task.at = "writing"
      <3>1. inventory' = [inventory EXCEPT !.tmp = c] /\ Continue("aside")
        BY <2>1 DEF ReplaceFile
      <3>2. DOMAIN inventory' = DOMAIN inventory /\ inventory'.tmp = c
            /\ inventory'.main = inventory.main /\ inventory'.bak = inventory.bak
        BY <1>3, <3>1, InventoryFields
      <3>3. PersistedSoFar'
        BY <1>1, <1>2, <2>1, <3>1, <3>2, TaskMoves DEF PersistedSoFar, Persisting
      <3> QED
        BY <1>2, <1>3, <3>1, <3>2, <3>3 DEF DerivedTypes, DiskKeeps, Persisting
    <2>2. CASE task.at = "aside"
      <3>1. inventory' = [inventory EXCEPT !.main = Missing, !.bak = inventory.main]
            /\ Continue("promote")
        BY <2>2 DEF ReplaceFile
      <3>2. DOMAIN inventory' = DOMAIN inventory /\ inventory'.tmp = inventory.tmp
            /\ inventory'.main = Missing /\ inventory'.bak = inventory.main
        BY <1>3, <3>1, InventoryFields
      <3>3. PersistedSoFar'
        BY <1>1, <1>2, <2>2, <3>1, <3>2, TaskMoves DEF PersistedSoFar, Persisting
      <3>4. catalog.open => inventory.main.is = "whole" /\ Owes(inventory.main.records)
        BY <1>2, <2>2, FileKinds DEF DiskKeeps, PersistedSoFar
      <3> QED
        BY <1>2, <1>3, <3>1, <3>2, <3>3, <3>4, FileKinds DEF DerivedTypes, Persisting
    <2>3. CASE task.at = "promote"
      <3>1. inventory' = [inventory EXCEPT !.main = inventory.tmp, !.tmp = Missing]
            /\ Continue("dropBackup")
        BY <2>3 DEF ReplaceFile
      <3>2. DOMAIN inventory' = DOMAIN inventory /\ inventory'.tmp = Missing
            /\ inventory'.main = inventory.tmp /\ inventory'.bak = inventory.bak
        BY <1>3, <3>1, InventoryFields
      <3>3. inventory.tmp = c
        BY <1>2, <2>3 DEF PersistedSoFar
      <3>4. PersistedSoFar'
        BY <1>1, <1>2, <3>1, <3>2, <3>3, TaskMoves DEF PersistedSoFar, Persisting
      <3> QED
        BY <1>2, <1>3, <3>1, <3>2, <3>3, <3>4, FileKinds
           DEF DerivedTypes, MemoryKeeps, Persisting
    <2>4. CASE task.at = "dropBackup"
      <3>1. inventory' = [inventory EXCEPT !.bak = Missing] /\ Continue(task.after)
        BY <2>4 DEF ReplaceFile
      <3>2. DOMAIN inventory' = DOMAIN inventory /\ inventory'.tmp = inventory.tmp
            /\ inventory'.main = inventory.main /\ inventory'.bak = Missing
        BY <1>3, <3>1, InventoryFields
      <3>3. inventory.main = c /\ inventory.tmp = Missing
        BY <1>2, <2>4 DEF PersistedSoFar
      <3>4. task.after \in {"layout", "import", "answer"}
        BY <1>2 DEF Working
      <3>5. PersistedSoFar'
        BY <1>1, <1>2, <3>1, <3>2, <3>3, <3>4, TaskMoves
           DEF PersistedSoFar, Persisting, Synced
      <3> QED
        BY <1>2, <1>3, <3>1, <3>2, <3>3, <3>5, FileKinds DEF DerivedTypes, MemoryKeeps
    <2> QED
      BY <1>1, <2>1, <2>2, <2>3, <2>4
  <1> HIDE DEF c
  <1>6. Working'
    BY <1>1, <1>2, <1>5, WorkGoesOn DEF Persisting
  <1>7. DerivedTypes'
    BY <1>1, <1>2, <1>5, SameWorld DEF DerivedTypes
  <1>8. DiskKeeps' /\ MemoryKeeps' /\ BrokenStops'
    BY <1>1, <1>2, <1>4, <1>5, SameWorld DEF DiskKeeps, MemoryKeeps, BrokenStops
  <1> QED
    BY <1>6, <1>7, <1>8 DEF DerivedInv

-----------------------------------------------------------------------------

\* Records are invalidated: the others stay, and no invalidated one is complete.
LEMMA InvalidateSome ==
    ASSUME NEW records, Good(records), NEW some \in SUBSET records,
           NEW now, now = (records \ some) \cup Invalidated(some)
    PROVE  /\ Good(now)
           /\ \A r \in now : r.state = "Complete" => r \in records \ some
           /\ records \ some \subseteq now
           /\ some = {} => now = records
  <1>1. \A r \in Invalidated(some) : r \in ArtifactRecord /\ r.state = "Invalidated"
    BY DEF Invalidated, Good, ArtifactRecord
  <1>2. \A r \in now : r.state = "Complete" => r \in records \ some
    BY <1>1
  <1>3. Good(now)
    BY <1>1, <1>2 DEF Good
  <1>4. some = {} => now = records
    BY DEF Invalidated
  <1> QED
    BY <1>2, <1>3, <1>4

LEMMA BuildInv ==
    ASSUME DerivedInv, NEW call \in {"materialize", "native"}, Build(call)
    PROVE  DerivedInv'
  <1> DEFINE stale == Stale(catalog.records)
             now == (catalog.records \ stale) \cup Invalidated(stale)
             make == IF call = "native" THEN "import" ELSE "layout"
  <1>1. /\ catalog.open /\ task = NoTask
        /\ task' = [call |-> call, at |-> IF stale = {} THEN make ELSE "clear", after |-> make]
        /\ catalog' = [catalog EXCEPT !.records = now]
        /\ UNCHANGED <<commits, inventory, graphs, native, owed, founded, broken>>
    BY DEF Build
  <1>2. DerivedTypes /\ DiskKeeps /\ MemoryKeeps /\ BrokenStops
    BY DEF DerivedInv
  <1>3. Synced
    BY <1>1 DEF DerivedInv, NoTaskStands, Opening, Working, NoTask
  <1>4. /\ Good(now) /\ catalog.records \ stale \subseteq now
        /\ \A r \in now : r.state = "Complete" => r \in catalog.records \ stale
        /\ stale = {} => now = catalog.records
    <2>1. Good(catalog.records) /\ stale \in SUBSET catalog.records
      BY <1>2 DEF DerivedTypes, Stale
    <2> HIDE DEF stale
    <2> QED
      BY <2>1, InvalidateSome
  <1>5. Owes(now) /\ Stale(now) = {}
    BY <1>1, <1>2, <1>4 DEF Owes, MemoryKeeps, Stale
  <1> HIDE DEF now
  <1>6. DOMAIN catalog' = {"open", "records"} /\ catalog'.open = TRUE /\ catalog'.records = now
    BY <1>1, <1>2 DEF DerivedTypes
  <1>7. DerivedTypes'
    BY <1>1, <1>2, <1>4, <1>6, SameWorld DEF DerivedTypes
  <1>8. DiskKeeps' /\ MemoryKeeps' /\ BrokenStops'
    BY <1>1, <1>2, <1>5, <1>6, SameWorld DEF DiskKeeps, MemoryKeeps, BrokenStops
  <1>9. Working'
    <2> HIDE DEF stale
    <2>1. /\ DOMAIN task' = {"call", "at", "after"} /\ task'.call = call /\ task'.after = make
          /\ task'.at = IF stale = {} THEN make ELSE "clear"
      BY <1>1
    <2>2. Goal' = make
      BY <2>1 DEF Goal, Persisting
    <2>3. Stale(catalog.records)' = {}
      BY <1>1, <1>5, <1>6, SameWorld
    <2>4. WorkStands'
      BY <2>1, <2>2, <2>3 DEF WorkStands
    <2>5. PersistedSoFar'
      BY <1>1, <1>3, <1>4, <1>6, <2>1 DEF PersistedSoFar, Persisting, Synced
    <2> QED
      BY <1>6, <2>1, <2>4, <2>5 DEF Working, Persisting
  <1> QED
    BY <1>7, <1>8, <1>9 DEF DerivedInv

LEMMA InvalidateOneInv ==
    ASSUME DerivedInv, NEW r \in catalog.records, InvalidateOne(r)
    PROVE  DerivedInv'
  <1> DEFINE now == (catalog.records \ {r}) \cup Invalidated({r})
  <1>1. /\ catalog.open /\ task = NoTask
        /\ catalog' = [catalog EXCEPT !.records = now]
        /\ task' = [call |-> "invalidate", at |-> "clear", after |-> "answer"]
        /\ owed' = owed \ {r}
        /\ UNCHANGED <<commits, inventory, graphs, native, founded, broken>>
    BY DEF InvalidateOne
  <1>2. DerivedTypes /\ DiskKeeps /\ MemoryKeeps /\ BrokenStops
    BY DEF DerivedInv
  <1>3. Synced
    BY <1>1 DEF DerivedInv, NoTaskStands, Opening, Working, NoTask
  <1>4. Good(now) /\ catalog.records \ {r} \subseteq now
    <2>1. Good(catalog.records) /\ {r} \in SUBSET catalog.records
      BY <1>2 DEF DerivedTypes
    <2> QED
      BY <2>1, InvalidateSome
  <1>5. \A S : Owes(S) => Owes(S)'
    BY <1>1 DEF Owes
  <1>6. \A q \in owed' : q.snapshot = commits => q \in now
    BY <1>1, <1>2, <1>4 DEF Owes, MemoryKeeps
  <1>7. \A S : Good(S)' <=> Good(S)
    BY <1>1 DEF Good, Matches
  <1>8. \A f : FileOk(f)' <=> FileOk(f)
    BY <1>7 DEF FileOk
  <1> HIDE DEF now
  <1>9. DOMAIN catalog' = {"open", "records"} /\ catalog'.open = TRUE /\ catalog'.records = now
    BY <1>1, <1>2 DEF DerivedTypes
  <1>10. DerivedTypes'
    BY <1>1, <1>2, <1>4, <1>7, <1>8, <1>9 DEF DerivedTypes
  <1>11. DiskKeeps' /\ MemoryKeeps' /\ BrokenStops'
    <2>1. DiskKeeps'
      BY <1>1, <1>2, <1>5 DEF DiskKeeps
    <2>2. MemoryKeeps'
      BY <1>1, <1>6, <1>9 DEF MemoryKeeps, Owes
    <2>3. BrokenStops'
      BY <1>1, <1>2 DEF BrokenStops
    <2> QED
      BY <2>1, <2>2, <2>3
  <1>12. Working'
    BY <1>1, <1>3, <1>9 DEF Working, WorkStands, Goal, PersistedSoFar, Persisting, Synced
  <1> QED
    BY <1>10, <1>11, <1>12 DEF DerivedInv

LEMMA MakeLayoutInv ==
    ASSUME DerivedInv, MakeLayout
    PROVE  DerivedInv'
  <1>1. /\ task # NoTask /\ task.at = "layout"
        /\ graphs' = graphs \cup {commits} /\ Continue("register")
        /\ UNCHANGED <<commits, inventory, catalog, native, owed, founded, broken>>
    BY DEF MakeLayout
  <1>2. DerivedTypes /\ DiskKeeps /\ MemoryKeeps /\ Working /\ WorkStands /\ Synced /\ ~broken
    BY <1>1, TaskKinds DEF DerivedInv, Working, PersistedSoFar, Persisting
  <1>3. \A S : Good(S) => Good(S)'
    BY <1>1 DEF Good, Matches
  <1>4. \A f : FileOk(f) => FileOk(f)'
    BY <1>3 DEF FileOk
  <1>5. \A S : Owes(S)' <=> Owes(S)
    BY <1>1 DEF Owes
  <1>6. DerivedTypes'
    BY <1>1, <1>2, <1>3, <1>4 DEF DerivedTypes
  <1>7. DiskKeeps' /\ MemoryKeeps' /\ BrokenStops'
    BY <1>1, <1>2, <1>5 DEF DiskKeeps, MemoryKeeps, BrokenStops
  <1>8. Working'
    <2>1. /\ DOMAIN task' = {"call", "at", "after"} /\ task'.call = task.call
          /\ task'.after = task.after /\ task'.at = "register" /\ Goal' = "register"
      BY <1>1, <1>2, TaskMoves DEF Goal, Persisting
    <2>2. task.call = "materialize"
      BY <1>1, <1>2 DEF WorkStands, Goal, Persisting
    <2>3. WorkStands' /\ PersistedSoFar'
      BY <1>1, <1>2, <2>1, <2>2 DEF WorkStands, PersistedSoFar, Persisting, Synced
    <2> QED
      BY <1>1, <1>2, <2>1, <2>2, <2>3 DEF Working
  <1> QED
    BY <1>6, <1>7, <1>8 DEF DerivedInv

\* The one native column is rewritten: every complete record of it in the inventory
\* is of this snapshot, so that there is none where the column changes.
LEMMA ImportNativeInv ==
    ASSUME DerivedInv, ImportNative
    PROVE  DerivedInv'
  <1>1. /\ task # NoTask /\ task.at = "import" /\ Continue("register")
        /\ native' = IF native.snapshot = commits THEN native
                     ELSE [generation |-> native.generation + 1, snapshot |-> commits]
        /\ UNCHANGED <<commits, inventory, catalog, graphs, owed, founded, broken>>
    BY DEF ImportNative
  <1>2. DerivedTypes /\ DiskKeeps /\ MemoryKeeps /\ Working /\ WorkStands /\ Synced /\ ~broken
    BY <1>1, TaskKinds DEF DerivedInv, Working, PersistedSoFar, Persisting
  <1>3. task.call = "native" /\ Stale(catalog.records) = {}
    BY <1>1, <1>2 DEF WorkStands, Goal, Persisting
  <1>4. native' \in [generation : Int, snapshot : Int] /\ native'.snapshot = commits
    BY <1>1, <1>2 DEF DerivedTypes
  <1>5. Good(catalog.records)'
    <2>1. ASSUME NEW r \in catalog.records, r.state = "Complete" PROVE Matches(r)'
      <3>1. r.snapshot = commits /\ Matches(r)
        BY <1>2, <1>3, <2>1 DEF Stale, DerivedTypes, Good
      <3>2. CASE r.kind = "HotSnapshot"
        BY <1>1, <3>1, <3>2 DEF Matches
      <3>3. CASE r.kind # "HotSnapshot"
        <4>1. native = [generation |-> r.generation, snapshot |-> commits]
          BY <3>1, <3>3 DEF Matches
        <4>2. native' = native
          BY <1>1, <4>1
        <4> QED
          BY <1>1, <3>1, <4>2 DEF Matches
      <3> QED
        BY <3>2, <3>3
    <2> QED
      BY <1>1, <1>2, <2>1 DEF Good, DerivedTypes
  <1>6. FileOk(inventory.main)' /\ FileOk(inventory.tmp)' /\ FileOk(inventory.bak)'
    <2>1. FileOk(Missing)'
      BY DEF FileOk
    <2>2. FileOk(Complete(catalog.records))'
      BY <1>5 DEF FileOk, Complete
    <2> QED
      BY <1>1, <1>2, <2>1, <2>2 DEF Synced
  <1>7. \A S : Owes(S)' <=> Owes(S)
    BY <1>1 DEF Owes
  <1>8. DerivedTypes'
    BY <1>1, <1>2, <1>4, <1>5, <1>6 DEF DerivedTypes
  <1>9. DiskKeeps' /\ MemoryKeeps' /\ BrokenStops'
    BY <1>1, <1>2, <1>7 DEF DiskKeeps, MemoryKeeps, BrokenStops
  <1>10. Working'
    <2>1. /\ DOMAIN task' = {"call", "at", "after"} /\ task'.call = task.call
          /\ task'.after = task.after /\ task'.at = "register" /\ Goal' = "register"
      BY <1>1, <1>2, TaskMoves DEF Goal, Persisting
    <2>2. WorkStands' /\ PersistedSoFar'
      BY <1>1, <1>2, <1>3, <1>4, <2>1 DEF WorkStands, PersistedSoFar, Persisting, Synced
    <2> QED
      BY <1>1, <1>2, <1>3, <2>1, <2>2 DEF Working
  <1> QED
    BY <1>8, <1>9, <1>10 DEF DerivedInv

LEMMA RegisterInv ==
    ASSUME DerivedInv, Register
    PROVE  DerivedInv'
  <1>1. /\ task # NoTask /\ task.at = "register"
        /\ UNCHANGED <<commits, inventory, graphs, native, owed, founded, broken>>
    BY DEF Register
  <1>2. DerivedTypes /\ DiskKeeps /\ MemoryKeeps /\ Working /\ WorkStands /\ Synced /\ ~broken
    BY <1>1, TaskKinds DEF DerivedInv, Working, PersistedSoFar, Persisting
  <1>3. /\ task.call \in {"native", "materialize"}
        /\ IF task.call = "native" THEN native.snapshot = commits ELSE commits \in graphs
        /\ catalog.open
    BY <1>1, <1>2 DEF Working, WorkStands, Goal, Persisting
  <1>4. ToRegister \in ArtifactRecord /\ Matches(ToRegister)
    <2>1. CASE task.call = "native"
      <3>1. ToRegister = [kind |-> "VectorColumn", generation |-> native.generation,
                          snapshot |-> commits, state |-> "Complete"]
        BY <2>1 DEF ToRegister, Artifact
      <3>2. native = [generation |-> native.generation, snapshot |-> commits]
        BY <1>2, <1>3, <2>1 DEF DerivedTypes
      <3> QED
        BY <1>2, <3>1, <3>2 DEF DerivedTypes, ArtifactRecord, Matches
    <2>2. CASE task.call # "native"
      <3>1. ToRegister = [kind |-> "HotSnapshot", generation |-> commits,
                          snapshot |-> commits, state |-> "Complete"]
        BY <2>2 DEF ToRegister, Artifact
      <3> QED
        BY <1>2, <1>3, <2>2, <3>1 DEF DerivedTypes, ArtifactRecord, Matches
    <2> QED
      BY <2>1, <2>2
  <1>5. CASE ToRegister \in catalog.records /\ Continue("answer") /\ UNCHANGED catalog
    <2>1. /\ DOMAIN task' = {"call", "at", "after"} /\ task'.call = task.call
          /\ task'.after = task.after /\ task'.at = "answer" /\ Goal' = "answer"
      BY <1>2, <1>5, TaskMoves DEF Goal, Persisting
    <2>2. ToRegister' = ToRegister
      BY <1>1, <2>1 DEF ToRegister
    <2>3. WorkStands' /\ PersistedSoFar'
      BY <1>1, <1>2, <1>5, <2>1, <2>2 DEF WorkStands, PersistedSoFar, Persisting, Synced
    <2>4. Working'
      BY <1>1, <1>2, <1>3, <1>5, <2>1, <2>3 DEF Working
    <2>5. DerivedTypes' /\ DiskKeeps' /\ MemoryKeeps' /\ BrokenStops'
      BY <1>1, <1>2, <1>5, SameWorld DEF DerivedTypes, DiskKeeps, MemoryKeeps, BrokenStops
    <2> QED
      BY <2>4, <2>5 DEF DerivedInv
  <1>6. CASE task' = NoTask /\ UNCHANGED catalog
    <2>1. DerivedTypes' /\ DiskKeeps' /\ MemoryKeeps' /\ BrokenStops'
      BY <1>1, <1>2, <1>6, SameWorld DEF DerivedTypes, DiskKeeps, MemoryKeeps, BrokenStops
    <2>2. NoTaskStands'
      BY <1>1, <1>2, <1>6 DEF NoTaskStands, Synced
    <2> QED
      BY <2>1, <2>2 DEF DerivedInv
  <1>7. CASE /\ catalog' = [catalog EXCEPT !.records = @ \cup {ToRegister}]
             /\ task' = [task EXCEPT !.at = "clear", !.after = "answer"]
    <2> DEFINE now == catalog.records \cup {ToRegister}
    <2>1. DOMAIN catalog' = {"open", "records"} /\ catalog'.open = TRUE /\ catalog'.records = now
      BY <1>2, <1>3, <1>7 DEF DerivedTypes
    <2>2. Good(now) /\ Owes(now)
      BY <1>2, <1>3, <1>4 DEF Good, DerivedTypes, Owes, MemoryKeeps
    <2>3. /\ DOMAIN task' = {"call", "at", "after"} /\ task'.call = task.call
          /\ task'.after = "answer" /\ task'.at = "clear" /\ Goal' = "answer"
      <3>1. DOMAIN task = {"call", "at", "after"}
        BY <1>2 DEF Working
      <3> QED
        BY <1>7, <3>1 DEF Goal, Persisting
    <2>4. ToRegister' = ToRegister
      BY <1>1, <2>3 DEF ToRegister
    <2>5. ToRegister' \in catalog'.records
      BY <2>1, <2>4
    <2>6. WorkStands' /\ PersistedSoFar'
      BY <1>1, <1>2, <2>3, <2>5 DEF WorkStands, PersistedSoFar, Persisting, Synced
    <2>7. Working'
      BY <1>1, <1>2, <1>3, <2>1, <2>3, <2>6 DEF Working, Persisting
    <2> HIDE DEF now
    <2>8. DerivedTypes'
      BY <1>1, <1>2, <2>1, <2>2, SameWorld DEF DerivedTypes
    <2>9. DiskKeeps' /\ MemoryKeeps' /\ BrokenStops'
      BY <1>1, <1>2, <1>3, <2>1, <2>2, SameWorld DEF DiskKeeps, MemoryKeeps, BrokenStops
    <2> QED
      BY <2>7, <2>8, <2>9 DEF DerivedInv
  <1> QED
    BY <1>5, <1>6, <1>7 DEF Register

LEMMA AnswerInv ==
    ASSUME DerivedInv, Answer
    PROVE  DerivedInv'
  <1>1. /\ task # NoTask /\ task.at = "answer" /\ task' = NoTask
        /\ UNCHANGED <<commits, inventory, graphs, native, broken>>
    BY DEF Answer
  <1>2. DerivedTypes /\ DiskKeeps /\ MemoryKeeps /\ Working /\ WorkStands /\ Synced /\ ~broken
    BY <1>1, TaskKinds DEF DerivedInv, Working, PersistedSoFar, Persisting
  <1>3. \A S : Good(S)' <=> Good(S)
    BY <1>1 DEF Good, Matches
  <1>4. \A f : FileOk(f)' <=> FileOk(f)
    BY <1>3 DEF FileOk
  <1>5. inventory.main.is = "whole" /\ inventory.main.records = catalog.records
    BY <1>2, FileKinds DEF Synced
  <1>6. CASE task.call = "create"
    <2>1. founded' = TRUE /\ catalog' = [catalog EXCEPT !.open = TRUE] /\ owed' = owed
      BY <1>6 DEF Answer
    <2>2. DOMAIN catalog' = {"open", "records"} /\ catalog'.open = TRUE
          /\ catalog'.records = catalog.records /\ owed = {}
      BY <1>2, <1>6, <2>1 DEF DerivedTypes, Working
    <2>3. DerivedTypes'
      BY <1>1, <1>2, <1>3, <1>4, <2>1, <2>2 DEF DerivedTypes
    <2>4. DiskKeeps' /\ MemoryKeeps' /\ BrokenStops' /\ NoTaskStands'
      BY <1>1, <1>2, <1>5, <2>1, <2>2
         DEF DiskKeeps, MemoryKeeps, BrokenStops, NoTaskStands, Synced, Owes
    <2> QED
      BY <2>3, <2>4 DEF DerivedInv
  <1>7. CASE task.call = "invalidate"
    <2>1. UNCHANGED <<founded, catalog, owed>>
      BY <1>7 DEF Answer
    <2>2. DerivedTypes'
      BY <1>1, <1>2, <1>3, <1>4, <2>1 DEF DerivedTypes
    <2>3. DiskKeeps' /\ MemoryKeeps' /\ BrokenStops' /\ NoTaskStands'
      BY <1>1, <1>2, <2>1, SameWorld
         DEF DiskKeeps, MemoryKeeps, BrokenStops, NoTaskStands, Synced
    <2> QED
      BY <2>2, <2>3 DEF DerivedInv
  <1>8. CASE task.call \in {"native", "materialize"}
    <2>1. owed' = owed \cup {ToRegister} /\ UNCHANGED <<founded, catalog>>
      BY <1>8 DEF Answer
    <2>2. ToRegister \in catalog.records /\ catalog.open
      BY <1>1, <1>2, <1>8 DEF Working, WorkStands, Goal, Persisting
    <2>3. ToRegister.snapshot = commits
      BY DEF ToRegister, Artifact
    <2>4. \A r \in owed' : r.snapshot = commits => r \in catalog.records
      BY <1>2, <2>1, <2>2 DEF MemoryKeeps, Owes
    <2>5. DerivedTypes'
      <3>1. \A r \in owed' : r.snapshot \in Int /\ r.snapshot <= commits
        BY <1>2, <2>1, <2>3 DEF DerivedTypes
      <3> QED
        BY <1>1, <1>2, <1>3, <1>4, <2>1, <3>1 DEF DerivedTypes
    <2>6. DiskKeeps' /\ MemoryKeeps' /\ BrokenStops' /\ NoTaskStands'
      BY <1>1, <1>2, <1>5, <2>1, <2>2, <2>4
         DEF DiskKeeps, MemoryKeeps, BrokenStops, NoTaskStands, Synced, Owes
    <2> QED
      BY <2>5, <2>6 DEF DerivedInv
  <1> QED
    BY <1>2, <1>6, <1>7, <1>8 DEF Working

LEMMA CommitTransactionInv ==
    ASSUME DerivedInv, CommitTransaction
    PROVE  DerivedInv'
  <1>1. /\ task = NoTask /\ commits' = commits + 1
        /\ UNCHANGED <<inventory, catalog, task, graphs, native, owed, founded, broken>>
    BY DEF CommitTransaction
  <1>2. DerivedTypes /\ DiskKeeps /\ MemoryKeeps /\ BrokenStops /\ NoTaskStands
    BY <1>1 DEF DerivedInv, Opening, Working, NoTask
  <1>3. \A S : Good(S)' <=> Good(S)
    BY <1>1 DEF Good, Matches
  <1>4. \A f : FileOk(f)' <=> FileOk(f)
    BY <1>3 DEF FileOk
  <1>5. \A S : Owes(S)'
    BY <1>1, <1>2 DEF Owes, DerivedTypes
  <1>6. DerivedTypes'
    <2>1. commits' \in Nat /\ \A r \in owed' : r.snapshot \in Int /\ r.snapshot <= commits'
      BY <1>1, <1>2 DEF DerivedTypes
    <2> QED
      BY <1>1, <1>2, <1>3, <1>4, <2>1 DEF DerivedTypes
  <1>7. DiskKeeps' /\ MemoryKeeps' /\ BrokenStops' /\ NoTaskStands'
    BY <1>1, <1>2, <1>5 DEF DiskKeeps, MemoryKeeps, BrokenStops, NoTaskStands, Synced
  <1> QED
    BY <1>6, <1>7 DEF DerivedInv

\* The process ends, or drops what it had in memory, anywhere in a call.
LEMMA MemoryDropped ==
    ASSUME DerivedInv, catalog' = NoCatalog, task' = NoTask,
           UNCHANGED <<commits, graphs, native, owed, founded, broken>>,
           \/ UNCHANGED inventory
           \/ /\ inventory.main = Missing /\ inventory.bak # Missing
              /\ inventory' = [inventory EXCEPT !.main = inventory.bak, !.bak = Missing]
    PROVE  DerivedInv'
  <1>1. DerivedTypes /\ DiskKeeps /\ BrokenStops
    BY DEF DerivedInv
  <1>2. DOMAIN catalog' = {"open", "records"} /\ catalog'.open = FALSE /\ catalog'.records = {}
    BY DEF NoCatalog
  <1>3. /\ DOMAIN inventory' = {"main", "tmp", "bak"}
        /\ FileOk(inventory'.main) /\ FileOk(inventory'.tmp) /\ FileOk(inventory'.bak)
        /\ founded \/ owed # {} =>
              \/ inventory'.main.is = "whole" /\ Owes(inventory'.main.records)
              \/ /\ inventory'.main = Missing
                 /\ inventory'.bak.is = "whole" /\ Owes(inventory'.bak.records)
    <2>1. CASE UNCHANGED inventory
      BY <1>1, <2>1 DEF DerivedTypes, DiskKeeps
    <2>2. CASE /\ inventory.main = Missing
               /\ inventory' = [inventory EXCEPT !.main = inventory.bak, !.bak = Missing]
      <3>1. DOMAIN inventory' = DOMAIN inventory /\ inventory'.tmp = inventory.tmp
            /\ inventory'.main = inventory.bak /\ inventory'.bak = Missing
        BY <1>1, <2>2, InventoryFields DEF DerivedTypes
      <3> QED
        BY <1>1, <2>2, <3>1, FileKinds DEF DerivedTypes, DiskKeeps
    <2> QED
      BY <2>1, <2>2
  <1>4. Good({})
    BY DEF Good
  <1>5. DerivedTypes'
    BY <1>1, <1>2, <1>3, <1>4, SameWorld DEF DerivedTypes
  <1>6. DiskKeeps' /\ MemoryKeeps' /\ BrokenStops' /\ NoTaskStands'
    BY <1>1, <1>2, <1>3, SameWorld DEF DiskKeeps, MemoryKeeps, BrokenStops, NoTaskStands
  <1> QED
    BY <1>5, <1>6 DEF DerivedInv

LEMMA DerivedNextInv == DerivedInv /\ [DerivedNext]_derivedVars => DerivedInv'
  <1> SUFFICES ASSUME DerivedInv, [DerivedNext]_derivedVars PROVE DerivedInv'
    OBVIOUS
  <1>1. CASE BuildFails
    <2>1. task.at = "promote" /\ task # NoTask => inventory.main = Missing
      BY TaskKinds DEF Working, PersistedSoFar
    <2> QED
      BY <1>1, <2>1, MemoryDropped DEF BuildFails
  <1>2. CASE BuilderKilled
    BY <1>2, MemoryDropped DEF BuilderKilled
  <1>3. CASE UNCHANGED derivedVars
    BY <1>3 DEF derivedVars, DerivedInv, DerivedTypes, DiskKeeps, MemoryKeeps, BrokenStops,
                NoTaskStands, Opening, Working, WorkStands, PersistedSoFar, Goal, Synced, Owes,
                FileOk, Good, Matches, Stale, ToRegister
  <1> QED
    BY <1>1, <1>2, <1>3, OpenInventoryInv, RecoverInventoryInv, ReadInventoryInv,
       ClearResidueInv, ReplaceFileInv, BuildInv, InvalidateOneInv, MakeLayoutInv,
       ImportNativeInv, RegisterInv, AnswerInv, CommitTransactionInv DEF DerivedNext

-----------------------------------------------------------------------------

\* However often the one builder is killed or fails between two operations on the
\* inventory's files, an inventory whose creation was answered opens again, has the
\* registrations that were answered for the current snapshot, and calls complete
\* only artifacts that still are the files register_complete_file was given.
THEOREM ArtifactsStayAsRegistered == DerivedSpec => []ArtifactsAsRegistered
  <1>1. DerivedInv => ArtifactsAsRegistered
    <2> SUFFICES ASSUME DerivedInv PROVE ArtifactsAsRegistered
      OBVIOUS
    <2>1. broken => ~founded
      BY DEF DerivedInv, BrokenStops
    <2>2. \A r \in catalog.records : r.state = "Complete" => Matches(r)
      BY DEF DerivedInv, DerivedTypes, Good
    <2>3. catalog.open => \A r \in owed : r.snapshot = commits => r \in catalog.records
      BY DEF DerivedInv, MemoryKeeps, Owes
    <2> QED
      BY <2>1, <2>2, <2>3 DEF ArtifactsAsRegistered
  <1> QED
    BY <1>1, DerivedInitInv, DerivedNextInv, PTL DEF DerivedSpec

-----------------------------------------------------------------------------
(* The GPU router, for any number of threads and dimensions.               *)

CalibrationRecord == [crossover : Nat, largest : Nat]

Router ==
    [engine : Nat, disabled : BOOLEAN, certified : BOOLEAN,
     calibrations : [Dimensions -> CalibrationRecord]]

Catches == [engine : Nat, by : {"certification", "query"}]

\* A query on its way, and the two receipts.
Running ==
    [at : {"cache", "engine", "pack", "calibrate", "decide", "score", "failed"},
     dimension : Dimensions, count : Counts]
CpuReceipt == [at : {"answered"}, backend : {"CpuExact"}, fallback : BOOLEAN]
GpuReceipt ==
    [at : {"answered"}, backend : {"OpenClFp64"}, fallback : BOOLEAN,
     certified : BOOLEAN, crossover : Nat, count : Counts, grounds : SUBSET Catches]

RouterTypes ==
    /\ mode \in {"auto", "cpu", "gpu"}
    /\ router \in Router
    /\ made \in Nat /\ caught \in SUBSET Catches
    /\ queries \in [Thread -> {Resting} \cup Running \cup CpuReceipt \cup GpuReceipt]

\* Where a query keeps the mutex.
Holding(t) == queries[t].at \in {"calibrate", "decide", "score"}

\* The mutex excludes: one query at a time is behind its last lock.
LastLock(t) == Holding(t) => holder = {t}

\* What the query found when it took the lock, or measured, still stands when it
\* decides, and what it decided still stands when it scores.
DecisionStands(t) ==
    /\ queries[t].at \in {"decide", "score"} =>
          ~NeedsCalibration(Calibration(t), queries[t].count)
    /\ queries[t].at = "score" =>
          mode # "auto" \/ ~CachedCpuPolicy(Calibration(t), queries[t].count)
    /\ queries[t] \in Running => mode # "cpu"

\* DeviceTrusted, of one query.
AnswerTrusted(t) ==
    queries[t].at = "answered" =>
        /\ ExactBackendValid(queries[t])
        /\ queries[t].backend = "OpenClFp64" =>
              /\ queries[t].grounds = {}
              /\ mode = "gpu" \/ queries[t].crossover \in 1..queries[t].count

QueryStands(t) == LastLock(t) /\ DecisionStands(t) /\ AnswerTrusted(t)

\* A device that was caught at work is gone and stays gone; an engine that is there
\* is certified and was never caught.  Engines have numbers up to made.
CaughtIsGone ==
    /\ \A f \in caught : f.engine <= made /\ (f.by = "query" => router.disabled)
    /\ router.engine <= made
    /\ router.disabled => router.engine = NoEngine
    /\ router.engine # NoEngine =>
          router.certified /\ \A f \in caught : f.engine # router.engine

RouterInv ==
    /\ RouterTypes
    /\ CaughtIsGone
    /\ \A t \in Thread : QueryStands(t)

\* Every record of a query has its shape, and the shapes are told apart by at and
\* backend.
LEMMA QueryShape ==
    ASSUME RouterTypes, NEW t \in Thread
    PROVE  /\ queries[t].at \in {"cache", "engine", "pack", "calibrate", "decide",
                                 "score", "failed"} => queries[t] \in Running
           /\ queries[t] \in Running =>
                 queries[t].dimension \in Dimensions /\ queries[t].count \in Counts
           /\ queries[t] \in Running => queries[t].at # "answered"
  BY DEF RouterTypes, Running, CpuReceipt, GpuReceipt, Resting

LEMMA RouterInitInv == RouterInit => RouterInv
  <1> SUFFICES ASSUME RouterInit PROVE RouterInv
    OBVIOUS
  <1>1. RouterTypes
    BY DEF RouterInit, RouterTypes, Router, CalibrationRecord, Uncalibrated, NoEngine
  <1>2. \A t \in Thread : queries[t].at = "idle"
    BY DEF RouterInit, Resting
  <1>3. \A t \in Thread : queries[t] \notin Running
    BY <1>2 DEF Running
  <1>4. \A t \in Thread : QueryStands(t)
    BY <1>2, <1>3 DEF QueryStands, LastLock, Holding, DecisionStands, AnswerTrusted
  <1>5. CaughtIsGone
    BY DEF CaughtIsGone, RouterInit, NoEngine
  <1> QED
    BY <1>1, <1>4, <1>5 DEF RouterInv

\* A step of t leaves the other queries alone, and holder and router, where
\* another query holds the mutex: what is known of that query is kept.
LEMMA OthersKept ==
    ASSUME RouterInv, mode' = mode, NEW u \in Thread, queries'[u] = queries[u],
           holder = {u} => holder' = holder /\ router' = router
    PROVE  QueryStands(u)'
  <1>1. QueryStands(u)
    BY DEF RouterInv
  <1>2. Holding(u) => holder = {u} /\ holder' = {u} /\ router' = router
    BY <1>1 DEF QueryStands, LastLock
  <1>3. Holding(u)' <=> Holding(u)
    BY DEF Holding
  <1>4. queries[u].at \in {"decide", "score"} => Holding(u)
    BY DEF Holding
  <1>5. Holding(u) => Calibration(u)' = Calibration(u)
    BY <1>2 DEF Calibration
  <1>6. AnswerTrusted(u)'
    BY <1>1 DEF QueryStands, AnswerTrusted
  <1>7. DecisionStands(u)'
    BY <1>1, <1>2, <1>4, <1>5 DEF QueryStands, DecisionStands
  <1> QED
    BY <1>2, <1>3, <1>6, <1>7 DEF QueryStands, LastLock

\* So only what the step does to its own query and to the router is left to show.
LEMMA StepKept ==
    ASSUME RouterInv, mode' = mode, NEW t \in Thread,
           \A u \in Thread \ {t} :
              /\ queries'[u] = queries[u]
              /\ holder = {u} => holder' = holder /\ router' = router,
           RouterTypes', CaughtIsGone', QueryStands(t)'
    PROVE  RouterInv'
  <1>1. ASSUME NEW u \in Thread PROVE QueryStands(u)'
    BY OthersKept
  <1> QED
    BY <1>1 DEF RouterInv

\* An answer from the CPU needs nothing of the device.
LEMMA CpuAnswer ==
    ASSUME RouterTypes, NEW t \in Thread, NEW f \in BOOLEAN, OnCpu(t, f)
    PROVE  /\ queries' \in [Thread -> {Resting} \cup Running \cup CpuReceipt \cup GpuReceipt]
           /\ \A u \in Thread \ {t} : queries'[u] = queries[u]
           /\ QueryStands(t)'
  <1>1. queries' = [queries EXCEPT ![t] = queries'[t]]
    BY DEF OnCpu, RouterTypes
  <1>2. queries'[t] = [at |-> "answered", backend |-> "CpuExact", fallback |-> f]
    BY DEF OnCpu, RouterTypes
  <1>3. queries'[t] \in CpuReceipt /\ queries'[t] \notin Running
    BY <1>2 DEF CpuReceipt, Running
  <1>4. QueryStands(t)'
    BY <1>2, <1>3 DEF QueryStands, LastLock, Holding, DecisionStands, AnswerTrusted,
                      ExactBackendValid
  <1> QED
    BY <1>1, <1>3, <1>4 DEF RouterTypes

\* A query that moves on keeps its dimension and count.
LEMMA Moved ==
    ASSUME RouterTypes, NEW t \in Thread, queries[t] \in Running,
           NEW at \in {"engine", "pack", "calibrate", "decide", "score", "failed"},
           Move(t, at)
    PROVE  /\ queries' \in [Thread -> {Resting} \cup Running \cup CpuReceipt \cup GpuReceipt]
           /\ \A u \in Thread \ {t} : queries'[u] = queries[u]
           /\ queries'[t] \in Running
           /\ queries'[t].at = at
           /\ queries'[t].dimension = queries[t].dimension
           /\ queries'[t].count = queries[t].count
  <1>1. queries' = [queries EXCEPT ![t] = [queries[t] EXCEPT !.at = at]]
    BY DEF Move
  <1>2. queries'[t] = [queries[t] EXCEPT !.at = at]
    BY <1>1 DEF RouterTypes
  <1>3. queries'[t] \in Running /\ queries'[t].at = at
        /\ queries'[t].dimension = queries[t].dimension
        /\ queries'[t].count = queries[t].count
    BY <1>2 DEF Running
  <1> QED
    BY <1>1, <1>3 DEF RouterTypes

-----------------------------------------------------------------------------

LEMMA QueryInv ==
    ASSUME RouterInv, NEW t \in Thread, NEW d \in Dimensions, NEW n \in Counts,
           Query(t, d, n)
    PROVE  RouterInv'
  <1> DEFINE q == [at |-> "cache", dimension |-> d, count |-> n]
  <1>1. RouterTypes /\ CaughtIsGone
    BY DEF RouterInv
  <1>2. CaughtIsGone'
    BY <1>1 DEF Query, CaughtIsGone
  <1>3. CASE CpuByPolicy(q)
    <2>1. OnCpu(t, FALSE)
      BY <1>3 DEF Query
    <2> QED
      BY <1>1, <1>2, <2>1, CpuAnswer, StepKept DEF Query, RouterTypes
  <1>4. CASE ~CpuByPolicy(q)
    <2>1. queries' = [queries EXCEPT ![t] = q] /\ mode # "cpu"
      BY <1>4 DEF Query, CpuByPolicy
    <2>2. q \in Running
      BY DEF Running
    <2>3. queries'[t] = q
      BY <1>1, <2>1 DEF RouterTypes
    <2>4. QueryStands(t)'
      BY <2>1, <2>3 DEF Query, QueryStands, LastLock, Holding, DecisionStands,
                        AnswerTrusted
    <2> QED
      BY <1>1, <1>2, <2>1, <2>2, <2>4, StepKept DEF Query, RouterTypes
  <1> QED
    BY <1>3, <1>4

LEMMA LookInCacheInv ==
    ASSUME RouterInv, NEW t \in Thread, LookInCache(t)
    PROVE  RouterInv'
  <1>1. RouterTypes /\ CaughtIsGone /\ QueryStands(t) /\ queries[t] \in Running
    BY QueryShape DEF RouterInv, LookInCache
  <1>2. CaughtIsGone'
    BY <1>1 DEF LookInCache, CaughtIsGone
  <1>3. CASE OnCpu(t, FALSE)
    BY <1>1, <1>2, <1>3, CpuAnswer, StepKept DEF LookInCache, RouterTypes
  <1>4. CASE Move(t, "engine")
    <2>1. QueryStands(t)'
      BY <1>1, <1>4, Moved
         DEF LookInCache, QueryStands, LastLock, Holding, DecisionStands, AnswerTrusted
    <2> QED
      BY <1>1, <1>2, <1>4, <2>1, Moved, StepKept DEF LookInCache, RouterTypes
  <1> QED
    BY <1>3, <1>4 DEF LookInCache

\* What ensure_engine makes of the router and of its history.
LEMMA MakeEngineInv ==
    ASSUME RouterTypes, CaughtIsGone, NEW t, MakeEngine(t),
           ~router.disabled, router.engine = NoEngine
    PROVE  router' \in Router /\ made' \in Nat /\ caught' \in SUBSET Catches /\ CaughtIsGone'
  <1>1. /\ router \in Router /\ made \in Nat /\ caught \in SUBSET Catches
        /\ \A f \in caught : f.engine \in Nat /\ f.engine <= made /\ f.by # "query"
    BY DEF RouterTypes, CaughtIsGone, Catches
  <1>2. CASE UNCHANGED <<router, made, caught>>
    BY <1>1, <1>2 DEF CaughtIsGone
  <1> DEFINE c == Catch(made + 1, "certification")
  <1>3. CASE made' = made + 1 /\ caught' = caught \cup {c} /\ UNCHANGED router
    <2>1. c \in Catches /\ c.engine = made + 1 /\ c.by # "query"
      BY <1>1 DEF Catch, Catches
    <2> HIDE DEF c
    <2>2. \A f \in caught' : f.engine <= made' /\ f.by # "query"
      BY <1>1, <1>3, <2>1
    <2>3. router'.engine <= made'
      BY <1>1, <1>3 DEF CaughtIsGone, Router
    <2> QED
      BY <1>1, <1>3, <2>1, <2>2, <2>3 DEF CaughtIsGone
  <1>4. CASE /\ made' = made + 1 /\ UNCHANGED caught
             /\ router' = [router EXCEPT !.engine = made + 1, !.certified = TRUE]
    <2>1. made + 1 \in Nat
      BY <1>1
    <2>2. router' \in Router
      BY <1>1, <1>4, <2>1 DEF Router
    <2>4. ~router'.disabled /\ router'.certified /\ router'.engine = made + 1
      BY <1>1, <1>4 DEF Router
    <2>3. \A f \in caught' : f.engine <= made' /\ f.by # "query" /\ f.engine # router'.engine
      BY <1>1, <1>4, <2>4
    <2> QED
      BY <1>1, <1>4, <2>1, <2>2, <2>3, <2>4 DEF CaughtIsGone
  <1> QED
    BY <1>2, <1>3, <1>4 DEF MakeEngine

LEMMA EnsureEngineInv ==
    ASSUME RouterInv, NEW t \in Thread, EnsureEngine(t)
    PROVE  RouterInv'
  <1>1. RouterTypes /\ CaughtIsGone /\ QueryStands(t) /\ queries[t] \in Running
    BY QueryShape DEF RouterInv, EnsureEngine
  <1>2. holder = {} /\ UNCHANGED <<mode, holder>>
    BY DEF EnsureEngine
  <1>3. router' \in Router /\ made' \in Nat /\ caught' \in SUBSET Catches /\ CaughtIsGone'
    <2>1. CASE UNCHANGED <<router, made, caught>>
      BY <1>1, <2>1 DEF CaughtIsGone, RouterTypes
    <2>2. CASE ~router.disabled /\ router.engine = NoEngine /\ MakeEngine(t)
      BY <1>1, <2>2, MakeEngineInv
    <2> QED
      BY <2>1, <2>2 DEF EnsureEngine
  <1>4. CASE OnCpu(t, TRUE)
    BY <1>1, <1>2, <1>3, <1>4, CpuAnswer, StepKept DEF RouterTypes
  <1>5. CASE Move(t, "pack")
    <2>1. QueryStands(t)'
      BY <1>1, <1>2, <1>5, Moved
         DEF QueryStands, LastLock, Holding, DecisionStands, AnswerTrusted
    <2> QED
      BY <1>1, <1>2, <1>3, <1>5, <2>1, Moved, StepKept DEF RouterTypes
  <1> QED
    BY <1>4, <1>5 DEF EnsureEngine, MakeEngine

LEMMA RelockInv ==
    ASSUME RouterInv, NEW t \in Thread, Relock(t)
    PROVE  RouterInv'
  <1>1. RouterTypes /\ CaughtIsGone /\ QueryStands(t) /\ queries[t] \in Running
    BY QueryShape DEF RouterInv, Relock
  <1>2. holder = {} /\ holder' = {t} /\ UNCHANGED <<mode, router, made, caught>>
    BY DEF Relock
  <1>3. PICK at \in {"calibrate", "decide"} :
           /\ Move(t, at)
           /\ at = "decide" => ~NeedsCalibration(Calibration(t), queries[t].count)
    BY DEF Relock
  <1>4. /\ queries' \in [Thread -> {Resting} \cup Running \cup CpuReceipt \cup GpuReceipt]
        /\ \A u \in Thread \ {t} : queries'[u] = queries[u]
        /\ queries'[t].at = at
        /\ queries'[t].dimension = queries[t].dimension
        /\ queries'[t].count = queries[t].count
    BY <1>1, <1>3, Moved
  <1>5. Calibration(t)' = Calibration(t)
    BY <1>2, <1>4 DEF Calibration
  <1>6. QueryStands(t)'
    BY <1>1, <1>2, <1>3, <1>4, <1>5
       DEF QueryStands, LastLock, Holding, DecisionStands, AnswerTrusted
  <1>7. RouterTypes' /\ CaughtIsGone'
    BY <1>1, <1>2, <1>4 DEF RouterTypes, CaughtIsGone
  <1> QED
    BY <1>2, <1>4, <1>6, <1>7, StepKept

\* An engine caught at work: the router has no engine and stays disabled.
LEMMA DisabledRouter ==
    ASSUME RouterTypes, CaughtIsGone, router' = Disabled, made' = made,
           caught' = caught \cup {Catch(router.engine, "query")}
    PROVE  router' \in Router /\ caught' \in SUBSET Catches /\ CaughtIsGone'
  <1>1. router \in Router /\ made \in Nat /\ caught \in SUBSET Catches /\ router.engine <= made
    BY DEF RouterTypes, CaughtIsGone
  <1>2. router' \in Router /\ router'.disabled /\ router'.engine = NoEngine
    BY <1>1 DEF Router, Disabled, NoEngine
  <1> DEFINE c == Catch(router.engine, "query")
  <1>3. c \in Catches /\ c.engine = router.engine
    BY <1>1 DEF Catch, Catches, Router
  <1> HIDE DEF c
  <1>4. \A f \in caught' : f.engine <= made'
    BY <1>1, <1>3 DEF CaughtIsGone, c
  <1>5. router'.engine <= made'
    BY <1>1, <1>2 DEF NoEngine
  <1> QED
    BY <1>1, <1>2, <1>3, <1>4, <1>5 DEF CaughtIsGone, c

LEMMA CalibrateInv ==
    ASSUME RouterInv, NEW t \in Thread, Calibrate(t)
    PROVE  RouterInv'
  <1>1. RouterTypes /\ CaughtIsGone /\ QueryStands(t) /\ queries[t] \in Running
    BY QueryShape DEF RouterInv, Calibrate
  <1>2. holder = {t} /\ UNCHANGED <<mode, made>>
    BY <1>1 DEF Calibrate, QueryStands, LastLock, Holding
  <1>3. CASE OnCpu(t, TRUE) /\ holder' = {} /\ UNCHANGED <<router, caught>>
    <2>1. CaughtIsGone'
      BY <1>1, <1>2, <1>3 DEF CaughtIsGone
    <2> QED
      BY <1>1, <1>2, <1>3, <2>1, CpuAnswer, StepKept DEF RouterTypes
  <1>4. CASE /\ router' = Disabled /\ caught' = caught \cup {Catch(router.engine, "query")}
             /\ OnCpu(t, TRUE) /\ holder' = {}
    <2>1. CaughtIsGone' /\ router' \in Router /\ caught' \in SUBSET Catches
      BY <1>1, <1>2, <1>4, DisabledRouter
    <2> QED
      BY <1>1, <1>2, <1>4, <2>1, CpuAnswer, StepKept DEF RouterTypes
  <1>5. CASE /\ \E crossover \in {0, queries[t].count} :
                  router' = [router EXCEPT !.calibrations[queries[t].dimension] =
                               [crossover |-> crossover, largest |-> queries[t].count]]
             /\ Move(t, "decide") /\ UNCHANGED <<holder, caught>>
    <2>1. /\ queries' \in [Thread -> {Resting} \cup Running \cup CpuReceipt \cup GpuReceipt]
          /\ \A u \in Thread \ {t} : queries'[u] = queries[u]
          /\ queries'[t].at = "decide"
          /\ queries'[t].dimension = queries[t].dimension
          /\ queries'[t].count = queries[t].count
      BY <1>1, <1>5, Moved
    <2> DEFINE d == queries[t].dimension
               n == queries[t].count
    <2>2. d \in Dimensions /\ n \in Nat
      BY <1>1, QueryShape, RouterConstants
    <2>3. PICK crossover \in {0, n} :
             router' = [router EXCEPT !.calibrations[d] =
                           [crossover |-> crossover, largest |-> n]]
      BY <1>5
    <2>4. router' = [router EXCEPT !.calibrations =
                        [router.calibrations EXCEPT ![d] =
                            [crossover |-> crossover, largest |-> n]]]
      BY <2>3
    <2>5. /\ router' \in Router
          /\ router'.calibrations[d] = [crossover |-> crossover, largest |-> n]
      BY <1>1, <2>2, <2>4 DEF RouterTypes, Router, CalibrationRecord
    <2>6. /\ router'.disabled = router.disabled
          /\ router'.engine = router.engine
          /\ router'.certified = router.certified
      BY <1>1, <2>4 DEF RouterTypes, Router
    <2>7. ~NeedsCalibration([crossover |-> crossover, largest |-> n], n)
      BY <2>2 DEF NeedsCalibration
    <2>8. QueryStands(t)'
      <3>1. Calibration(t)' = [crossover |-> crossover, largest |-> n]
        BY <2>1, <2>5 DEF Calibration
      <3> QED
        BY <1>1, <1>2, <1>5, <2>1, <2>7, <3>1
           DEF QueryStands, LastLock, Holding, DecisionStands, AnswerTrusted
    <2>9. CaughtIsGone' /\ RouterTypes'
      BY <1>1, <1>2, <1>5, <2>1, <2>5, <2>6 DEF CaughtIsGone, RouterTypes
    <2> QED
      BY <1>2, <2>1, <2>8, <2>9, StepKept
  <1> QED
    BY <1>3, <1>4, <1>5 DEF Calibrate

LEMMA DecideInv ==
    ASSUME RouterInv, NEW t \in Thread, Decide(t)
    PROVE  RouterInv'
  <1>1. RouterTypes /\ CaughtIsGone /\ QueryStands(t) /\ queries[t] \in Running
    BY QueryShape DEF RouterInv, Decide
  <1>2. holder = {t} /\ UNCHANGED <<mode, router, made, caught>>
    BY <1>1 DEF Decide, QueryStands, LastLock, Holding
  <1>3. CaughtIsGone'
    BY <1>1, <1>2 DEF CaughtIsGone
  <1>4. CASE OnCpu(t, FALSE)
    BY <1>1, <1>2, <1>3, <1>4, CpuAnswer, StepKept DEF RouterTypes
  <1>5. CASE ~(mode = "auto" /\ CachedCpuPolicy(Calibration(t), queries[t].count))
    <2>1. Move(t, "score") /\ holder' = holder
      BY <1>5 DEF Decide
    <2>2. /\ queries' \in [Thread -> {Resting} \cup Running \cup CpuReceipt \cup GpuReceipt]
          /\ \A u \in Thread \ {t} : queries'[u] = queries[u]
          /\ queries'[t].at = "score"
          /\ queries'[t].dimension = queries[t].dimension
          /\ queries'[t].count = queries[t].count
      BY <1>1, <2>1, Moved
    <2>3. Calibration(t)' = Calibration(t)
      BY <1>2, <2>2 DEF Calibration
    <2>4. ~NeedsCalibration(Calibration(t), queries[t].count) /\ mode # "cpu"
      BY <1>1 DEF Decide, QueryStands, DecisionStands
    <2>5. QueryStands(t)'
      BY <1>2, <1>5, <2>1, <2>2, <2>3, <2>4
         DEF QueryStands, LastLock, Holding, DecisionStands, AnswerTrusted
    <2> QED
      BY <1>1, <1>2, <1>3, <2>1, <2>2, <2>5, StepKept DEF RouterTypes
  <1> QED
    BY <1>4, <1>5 DEF Decide

LEMMA ScoreInv ==
    ASSUME RouterInv, NEW t \in Thread, Score(t)
    PROVE  RouterInv'
  <1>1. RouterTypes /\ CaughtIsGone /\ QueryStands(t) /\ queries[t] \in Running
    BY QueryShape DEF RouterInv, Score
  <1>2. holder = {t} /\ UNCHANGED <<mode, made>> /\ holder' = {}
    BY <1>1 DEF Score, QueryStands, LastLock, Holding
  <1>3. CASE Move(t, "failed") /\ UNCHANGED <<router, caught>>
    <2>1. CaughtIsGone'
      BY <1>1, <1>2, <1>3 DEF CaughtIsGone
    <2>2. QueryStands(t)'
      BY <1>1, <1>2, <1>3, Moved
         DEF QueryStands, LastLock, Holding, DecisionStands, AnswerTrusted
    <2> QED
      BY <1>1, <1>2, <1>3, <2>1, <2>2, Moved, StepKept DEF RouterTypes
  <1>4. CASE /\ router' = Disabled /\ caught' = caught \cup {Catch(router.engine, "query")}
             /\ OnCpu(t, TRUE)
    <2>1. CaughtIsGone' /\ router' \in Router /\ caught' \in SUBSET Catches
      BY <1>1, <1>2, <1>4, DisabledRouter
    <2> QED
      BY <1>1, <1>2, <1>4, <2>1, CpuAnswer, StepKept DEF RouterTypes
  <1>5. CASE router.engine # NoEngine /\ OnGpu(t) /\ UNCHANGED <<router, caught>>
    <2> DEFINE n == queries[t].count
               c == Calibration(t).crossover
               a == [at |-> "answered", backend |-> "OpenClFp64", fallback |-> FALSE,
                     certified |-> router.certified, crossover |-> c,
                     count |-> n, grounds |-> Grounds]
    <2>1. n \in Counts /\ n \in Nat /\ queries[t].dimension \in Dimensions
      BY <1>1, QueryShape, RouterConstants
    <2>2. Calibration(t) \in CalibrationRecord /\ c \in Nat
      BY <1>1, <2>1 DEF Calibration, RouterTypes, Router, CalibrationRecord
    <2>3. mode = "gpu" \/ c \in 1..n
      <3>1. mode = "auto" => ~NeedsCalibration(Calibration(t), n)
                             /\ ~CachedCpuPolicy(Calibration(t), n)
        BY <1>1 DEF Score, QueryStands, DecisionStands
      <3>2. mode \in {"auto", "gpu"}
        BY <1>1 DEF QueryStands, DecisionStands, RouterTypes
      <3> QED
        BY <2>1, <2>2, <3>1, <3>2
           DEF NeedsCalibration, CachedCpuPolicy, CalibrationRecord
    <2>4. router.certified /\ Grounds = {}
      BY <1>1, <1>5 DEF CaughtIsGone, Grounds
    <2>5. queries' = [queries EXCEPT ![t] = a] /\ queries'[t] = a
      BY <1>1, <1>5 DEF OnGpu, RouterTypes
    <2>6. a \in GpuReceipt /\ a \notin Running
      <3>1. router.certified \in BOOLEAN /\ Grounds \in SUBSET Catches
        BY <1>1, <2>4 DEF RouterTypes, Router
      <3> QED
        BY <2>1, <2>2, <3>1 DEF GpuReceipt, Running
    <2>7. AnswerTrusted(t)'
      BY <1>2, <2>3, <2>4, <2>5 DEF AnswerTrusted, ExactBackendValid
    <2>8. QueryStands(t)'
      BY <2>5, <2>6, <2>7 DEF QueryStands, LastLock, Holding, DecisionStands
    <2>9. CaughtIsGone' /\ RouterTypes'
      BY <1>1, <1>2, <1>5, <2>5, <2>6 DEF CaughtIsGone, RouterTypes
    <2> QED
      BY <1>2, <1>5, <2>5, <2>8, <2>9, StepKept
  <1> QED
    BY <1>3, <1>4, <1>5 DEF Score

LEMMA AnsweredInv ==
    ASSUME RouterInv, NEW t \in Thread, Answered(t)
    PROVE  RouterInv'
  <1>1. RouterTypes /\ CaughtIsGone
    BY DEF RouterInv
  <1>2. queries' = [queries EXCEPT ![t] = Resting] /\ queries'[t] = Resting
    BY <1>1 DEF Answered, RouterTypes
  <1>3. Resting \notin Running
    BY DEF Running, Resting
  <1>4. QueryStands(t)'
    BY <1>2, <1>3
       DEF QueryStands, LastLock, Holding, DecisionStands, AnswerTrusted, Resting
  <1>5. CaughtIsGone' /\ RouterTypes'
    BY <1>1, <1>2 DEF Answered, CaughtIsGone, RouterTypes
  <1> QED
    BY <1>2, <1>4, <1>5, StepKept DEF Answered

LEMMA RouterNextInv == RouterInv /\ [RouterNext]_routerVars => RouterInv'
  <1> SUFFICES ASSUME RouterInv, [RouterNext]_routerVars PROVE RouterInv'
    OBVIOUS
  <1>1. CASE RouterNext
    BY <1>1, QueryInv, LookInCacheInv, EnsureEngineInv, RelockInv, CalibrateInv,
       DecideInv, ScoreInv, AnsweredInv DEF RouterNext
  <1>2. CASE UNCHANGED routerVars
    BY <1>2 DEF routerVars, RouterInv, RouterTypes, CaughtIsGone, QueryStands, LastLock,
                Holding, DecisionStands, AnswerTrusted, Calibration
  <1> QED
    BY <1>1, <1>2

-----------------------------------------------------------------------------

\* DeviceTrusted, for any number of querying threads, dimensions and batch limits: a
\* receipt of find_exact_routed_with_receipt names the device only where the engine
\* was certified, measured to win for that many candidates (diagnostic mode aside)
\* and not caught failing or differing, and only while no calibration or scoring of
\* any thread has caught an engine.  A failed certification drops its engine alone.
THEOREM DeviceIsTrusted == RouterSpec => []DeviceTrusted
  <1>1. RouterInv => DeviceTrusted
    BY DEF RouterInv, QueryStands, AnswerTrusted, DeviceTrusted
  <1> QED
    BY <1>1, RouterInitInv, RouterNextInv, PTL DEF RouterSpec

=============================================================================
