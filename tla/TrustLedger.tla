----------------------------- MODULE TrustLedger -----------------------------
(***************************************************************************)
(* The append-only trust ledger file of ultraballoondb-trust and the       *)
(* handles processes hold on it.  TrustLedger::open_strict reads the whole *)
(* file once; TrustLedger::apply checks an intent against what the handle  *)
(* read or wrote, appends one frame and fsyncs.  Nothing locks the file.   *)
(***************************************************************************)
EXTENDS TrustRules

CONSTANTS
    Proc,             \* handles on the ledger file, one per process
    Intents,          \* what callers ask for
    MaxFrames,        \* bound: frames and torn ends the file may hold
    MaxFaults,        \* bound: kills, power losses and I/O errors together
    ReuseAfterError   \* may a caller go on with a handle whose apply failed?

ASSUME LedgerAssumption ==
    /\ Intents \subseteq Intent
    /\ MaxFrames \in Nat
    /\ MaxFaults \in Nat
    /\ ReuseAfterError \in BOOLEAN

VARIABLES
    file,     \* what the file holds, frame by frame
    synced,   \* file[1..synced] is covered by an fsync
    pc,       \* where each process stands
    mem,      \* self.transitions of each handle
    at,       \* where the frame being written by each handle went
    acked,    \* <<position, frame>> of every apply that returned Ok
    faults

vars == <<file, synced, pc, mem, at, acked, faults>>

\* Bytes of an incomplete frame.
Torn == [seq |-> 0, was |-> Untracked, next |-> RawActive,
         intent |-> [record |-> NoRecord]]

FileFrame == Frame \cup {Torn}

Complete == \A i \in 1..Len(file) : file[i] # Torn

\* replay_bytes accepts the whole file.
Replays == Complete /\ \A i \in 1..Len(file) : FrameReplays(file, i)

Init ==
    /\ file = <<>>
    /\ synced = 0
    /\ pc = [p \in Proc |-> "closed"]
    /\ mem = [p \in Proc |-> <<>>]
    /\ at = [p \in Proc |-> 0]
    /\ acked = {}
    /\ faults = 0

-----------------------------------------------------------------------------

Open(p) ==
    /\ pc[p] = "closed"
    /\ Replays
    /\ pc' = [pc EXCEPT ![p] = "open"]
    /\ mem' = [mem EXCEPT ![p] = file]
    /\ UNCHANGED <<file, synced, at, acked, faults>>

\* A torn end, or a frame that does not follow from those before it.  There
\* is no repair.
OpenRefused(p) ==
    /\ pc[p] = "closed"
    /\ ~Replays
    /\ pc' = [pc EXCEPT ![p] = "refused"]
    /\ UNCHANGED <<file, synced, mem, at, acked, faults>>

\* apply up to write_all.  A rejected intent changes nothing.
Write(p) == \E x \in Intents :
    /\ pc[p] = "open"
    /\ Len(file) < MaxFrames
    /\ Accepts(mem[p], x)
    /\ file' = Append(file, FrameOf(mem[p], x))
    /\ at' = [at EXCEPT ![p] = Len(file) + 1]
    /\ pc' = [pc EXCEPT ![p] = "written"]
    /\ UNCHANGED <<synced, mem, acked, faults>>

\* Mutant: the handle does not learn of the frame it wrote.
SyncForgets(p) ==
    /\ pc[p] = "written"
    /\ synced' = Len(file)
    /\ acked' = acked \cup {<<at[p], file[at[p]]>>}
    /\ pc' = [pc EXCEPT ![p] = "open"]
    /\ UNCHANGED <<file, mem, at, faults>>

\* Mutant: apply returns without sync_all.
SyncOmitted(p) ==
    /\ pc[p] = "written"
    /\ mem' = [mem EXCEPT ![p] = Append(@, file[at[p]])]
    /\ acked' = acked \cup {<<at[p], file[at[p]]>>}
    /\ pc' = [pc EXCEPT ![p] = "open"]
    /\ UNCHANGED <<file, synced, at, faults>>

\* apply from sync_all to its return.
Sync(p) ==
    /\ pc[p] = "written"
    /\ synced' = Len(file)
    /\ mem' = [mem EXCEPT ![p] = Append(@, file[at[p]])]
    /\ acked' = acked \cup {<<at[p], file[at[p]]>>}
    /\ pc' = [pc EXCEPT ![p] = "open"]
    /\ UNCHANGED <<file, at, faults>>

\* write_all returns an error, with or without bytes in the file.
WriteFails(p) ==
    /\ pc[p] = "open"
    /\ faults < MaxFaults
    /\ \/ file' = file
       \/ Len(file) < MaxFrames /\ file' = Append(file, Torn)
    /\ pc' = [pc EXCEPT ![p] = "failed"]
    /\ faults' = faults + 1
    /\ UNCHANGED <<synced, mem, at, acked>>

\* sync_all returns an error; the frame is in the file.
SyncFails(p) ==
    /\ pc[p] = "written"
    /\ faults < MaxFaults
    /\ pc' = [pc EXCEPT ![p] = "failed"]
    /\ faults' = faults + 1
    /\ UNCHANGED <<file, synced, mem, at, acked>>

\* Mutant: callers always go on with the handle.
KeepHandleAlways(p) ==
    /\ pc[p] = "failed"
    /\ pc' = [pc EXCEPT ![p] = "open"]
    /\ UNCHANGED <<file, synced, mem, at, acked, faults>>

\* The error leaves the handle as it was before apply.
KeepHandle(p) ==
    /\ ReuseAfterError
    /\ pc[p] = "failed"
    /\ pc' = [pc EXCEPT ![p] = "open"]
    /\ UNCHANGED <<file, synced, mem, at, acked, faults>>

\* The process ends: its command is done or reported an error.
Close(p) ==
    /\ pc[p] \in {"open", "failed", "refused"}
    /\ pc' = [pc EXCEPT ![p] = "closed"]
    /\ mem' = [mem EXCEPT ![p] = <<>>]
    /\ UNCHANGED <<file, synced, at, acked, faults>>

\* Killed between two calls of the operating system, or inside write_all.
Kill(p) ==
    /\ pc[p] \in {"open", "written"}
    /\ faults < MaxFaults
    /\ \/ file' = file
       \/ /\ pc[p] = "open" /\ Len(file) < MaxFrames
          /\ file' = Append(file, Torn)
    /\ pc' = [pc EXCEPT ![p] = "closed"]
    /\ mem' = [mem EXCEPT ![p] = <<>>]
    /\ faults' = faults + 1
    /\ UNCHANGED <<synced, at, acked>>

\* What no fsync covers is lost from some point on; the cut may be inside a
\* frame.
PowerLoss == \E n \in synced..Len(file) :
    /\ faults < MaxFaults
    /\ \/ file' = SubSeq(file, 1, n)
       \/ n < Len(file) /\ file' = Append(SubSeq(file, 1, n), Torn)
    /\ synced' = Len(file')
    /\ pc' = [p \in Proc |-> "closed"]
    /\ mem' = [p \in Proc |-> <<>>]
    /\ faults' = faults + 1
    /\ UNCHANGED <<at, acked>>

Next ==
    \/ \E p \in Proc :
         \/ Open(p) \/ OpenRefused(p)
         \/ Write(p) \/ Sync(p)
         \/ WriteFails(p) \/ SyncFails(p)
         \/ KeepHandle(p) \/ Close(p) \/ Kill(p)
    \/ PowerLoss

Spec == Init /\ [][Next]_vars

-----------------------------------------------------------------------------
(* Properties.                                                             *)

\* Every variable has its type: frames are complete or torn, an fsync covers
\* a part of the file.
TypeOK ==
    /\ file \in Seq(FileFrame)
    /\ synced \in 0..Len(file)
    /\ pc \in [Proc -> {"closed", "open", "written", "failed", "refused"}]
    /\ mem \in [Proc -> Seq(Frame)]
    /\ at \in [Proc -> Nat]
    /\ acked \subseteq (Nat \X Frame)
    /\ faults \in Nat

\* A transition whose apply returned Ok stays where it was written, whatever
\* crashes and whatever other processes do: accepted frames are fsynced and
\* the file is only appended to.
AckedKept ==
    \A a \in acked : a[1] \in 1..synced /\ file[a[1]] = a[2]

\* Every open handle knows every acknowledged transition, at its place: what
\* apply answered is part of what later processes decide from.
AckedServed ==
    \A p \in Proc : pc[p] \in {"open", "written"} =>
        \A a \in acked : a[1] \in 1..Len(mem[p]) /\ mem[p][a[1]] = a[2]

\* open_strict refuses only a file that ends in an incomplete frame, the end
\* a crash or a failed write leaves: replay accepts all that apply wrote.
RefusedOnlyTorn ==
    \A p \in Proc : pc[p] = "refused" => file[Len(file)] = Torn

Same(l, i, j) == l[i].intent.record = l[j].intent.record

\* A record that was revoked or superseded is final, a record is proposed
\* once, and all its transitions are about the content PROPOSE bound.
FinalIn(l) ==
    \A i, j \in 1..Len(l) :
        (i < j /\ Same(l, i, j)) =>
            /\ ~Terminal(l[i].next)
            /\ l[j].intent.op # "propose"
            /\ l[j].intent.digest = l[i].intent.digest

\* Frame j promoted a record to the maturity frame i shows, with evidence.
Promotes(l, j, i) ==
    /\ Same(l, j, i)
    /\ l[j].intent.op = "promote"
    /\ l[j].intent.auth = "evidence"
    /\ l[j].next.maturity = l[i].next.maturity

\* Frame k left the record active and one step below what frame i shows.
OneBelow(l, k, i) ==
    /\ Same(l, k, i)
    /\ l[k].next.validity = "active"
    /\ l[k].next.maturity = l[i].next.maturity - 1

EarnedIn(l) ==
    \A i \in 1..Len(l) : l[i].next.maturity > 1 =>
        \E j \in 1..i : Promotes(l, j, i) /\ \E k \in 1..(j - 1) : OneBelow(l, k, i)

ForwardIn(l) ==
    \A i, j \in 1..Len(l) :
        ( /\ l[i].intent.op = "supersede"
          /\ l[j].intent.record = l[i].intent.by
          /\ Terminal(l[j].next) )
        => i < j

\* What a handle decides from and reports never has a transition behind a
\* terminal one, a second proposal or a changed digest, even where several
\* processes wrote into the file.
HistoryFinal == \A p \in Proc : FinalIn(mem[p])

\* A record above RAW was promoted to its maturity by an evidence authority
\* from one step below, while active: maturity is never gained otherwise.
MaturityEarned == \A p \in Proc : EarnedIn(mem[p])

\* Supersession leads forward: the record that supersedes another becomes
\* terminal only later in the ledger, so following superseding_record_id
\* never comes back and always ends.
SupersessionForward == \A p \in Proc : ForwardIn(mem[p])
=============================================================================
