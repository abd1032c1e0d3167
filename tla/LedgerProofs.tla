---------------------------- MODULE LedgerProofs ----------------------------
(* Theorems about TrustLedger for every value of its constants: any number *)
(* of processes, records, frames and faults.                               *)
EXTENDS TrustLedger, SequenceTheorems, TLAPS

-----------------------------------------------------------------------------
(* The rules: a legal history stays legal with every frame that is         *)
(* accepted behind it.                                                     *)

\* Every record with frames has a last one.
LastIn(l) ==
    \A r \in Record : Tracked(l, r) =>
        \E i \in Of(l, r) : \A j \in Of(l, r) : j <= i

Legal(l) == LastIn(l) /\ FinalIn(l) /\ EarnedIn(l) /\ ForwardIn(l)

\* The snapshot of a tracked record is its last frame.
LEMMA SnapshotIsLast ==
    ASSUME NEW l \in Seq(Frame), LastIn(l),
           NEW r \in Record, Tracked(l, r)
    PROVE  \E i \in 1..Len(l) :
              /\ Snapshot(l, r) = l[i]
              /\ l[i].intent.record = r
              /\ \A j \in 1..Len(l) : l[j].intent.record = r => j <= i
              /\ StateOf(l, r) = l[i].next
              /\ l[i].next \in TrustState
  <1> DEFINE i == CHOOSE i \in Of(l, r) : \A j \in Of(l, r) : j <= i
  <1>1. i \in Of(l, r) /\ \A j \in Of(l, r) : j <= i
    BY DEF LastIn
  <1>2. l[i] \in Frame
    BY <1>1 DEF Of
  <1>3. Snapshot(l, r) = l[i] /\ StateOf(l, r) = l[i].next
    BY DEF Snapshot, StateOf
  <1> HIDE DEF i
  <1>4. \A j \in 1..Len(l) : l[j].intent.record = r => j <= i
    BY <1>1 DEF Of
  <1>5. l[i].next \in TrustState
    BY <1>2 DEF Frame
  <1> QED
    BY <1>1, <1>3, <1>4, <1>5 DEF Of

\* A tracked record is not Untracked: previous_state.is_some().
LEMMA TrackedState ==
    ASSUME NEW l \in Seq(Frame), LastIn(l), NEW r \in Record
    PROVE  /\ Tracked(l, r) => StateOf(l, r) \in TrustState
           /\ Tracked(l, r) <=> StateOf(l, r) # Untracked
  <1>1. Untracked \notin TrustState
    BY TrustAssumption DEF TrustState, Maturity, Validity
  <1>2. Tracked(l, r) => StateOf(l, r) \in TrustState
    BY SnapshotIsLast
  <1>3. ~Tracked(l, r) => StateOf(l, r) = Untracked
    BY DEF StateOf
  <1> QED
    BY <1>1, <1>2, <1>3

\* What apply makes of an accepted intent is a frame.
LEMMA FrameOfType ==
    ASSUME NEW l \in Seq(Frame), LastIn(l), NEW x \in Intent, Accepts(l, x)
    PROVE  FrameOf(l, x) \in Frame
  <1> DEFINE s == StateOf(l, x.record)
  <1>1. x.record \in Record /\ x.op \in Operation
    BY DEF Intent
  <1>2. s \in TrustState \cup {Untracked}
    BY <1>1, TrackedState
  <1>3. x.op = "propose" \/ s \in TrustState
    BY <1>1, <1>2, TrackedState DEF Accepts, OperationLegal
  <1>4. x.op = "promote" => s.maturity < 4
    BY DEF Accepts, OperationLegal
  <1> HIDE DEF s
  <1>5. NextState(s, x.op) \in TrustState
    BY <1>1, <1>3, <1>4
       DEF NextState, TrustState, RawActive, Maturity, Validity, Operation
  <1>6. Len(l) + 1 \in Nat
    OBVIOUS
  <1> QED
    BY <1>2, <1>5, <1>6 DEF FrameOf, Frame, s

\* What an accepted intent knows of the frames before it: the record's last
\* frame is not terminal, carries the same digest, and its state is what the
\* operation changes.
LEMMA AcceptedAfter ==
    ASSUME NEW l \in Seq(Frame), LastIn(l), FinalIn(l),
           NEW x \in Intent, Accepts(l, x), NEW i \in 1..Len(l),
           l[i].intent.record = x.record
    PROVE  /\ x.op # "propose"
           /\ x.digest = l[i].intent.digest
           /\ ~Terminal(l[i].next)
  <1>1. x.record \in Record /\ x.op \in Operation
    BY DEF Intent
  <1>2. Tracked(l, x.record)
    BY DEF Tracked, Of
  <1>3. PICK k \in 1..Len(l) :
              /\ Snapshot(l, x.record) = l[k]
              /\ l[k].intent.record = x.record
              /\ \A j \in 1..Len(l) : l[j].intent.record = x.record => j <= k
              /\ StateOf(l, x.record) = l[k].next
              /\ l[k].next \in TrustState
    BY <1>1, <1>2, SnapshotIsLast
  <1>4. x.op # "propose"
    BY <1>1, <1>2, TrackedState DEF Accepts, OperationLegal
  <1>5. x.digest = l[k].intent.digest
    BY <1>2, <1>3 DEF Accepts, DigestBinds
  <1>6. ~Terminal(l[k].next)
    BY <1>1, <1>3, <1>4
       DEF Accepts, OperationLegal, Terminal, Operation
  <1>7. i <= k
    BY <1>3
  <1>8. i < k => ~Terminal(l[i].next) /\ l[k].intent.digest = l[i].intent.digest
    BY <1>3 DEF FinalIn, Same
  <1> QED
    BY <1>4, <1>5, <1>6, <1>7, <1>8

LEMMA AppendLast ==
    ASSUME NEW l \in Seq(Frame), NEW f \in Frame, LastIn(l)
    PROVE  LastIn(Append(l, f))
  <1> DEFINE m == Append(l, f)
  <1>1. /\ Len(m) = Len(l) + 1
        /\ \A i \in 1..Len(l) : m[i] = l[i]
        /\ m[Len(l) + 1] = f
    OBVIOUS
  <1> SUFFICES ASSUME NEW r \in Record, Tracked(m, r)
               PROVE  \E i \in Of(m, r) : \A j \in Of(m, r) : j <= i
    BY DEF LastIn
  <1> HIDE DEF m
  <1>2. CASE f.intent.record = r
    <2>1. Len(l) + 1 \in Of(m, r)
      BY <1>1, <1>2 DEF Of
    <2>2. \A j \in Of(m, r) : j <= Len(l) + 1
      BY <1>1 DEF Of
    <2> QED
      BY <2>1, <2>2
  <1>3. CASE f.intent.record # r
    <2>1. Of(m, r) = Of(l, r)
      BY <1>1, <1>3 DEF Of
    <2> QED
      BY <2>1 DEF LastIn, Tracked
  <1> QED
    BY <1>2, <1>3

LEMMA AppendFinal ==
    ASSUME NEW l \in Seq(Frame), LastIn(l), FinalIn(l),
           NEW x \in Intent, Accepts(l, x)
    PROVE  FinalIn(Append(l, FrameOf(l, x)))
  <1> DEFINE m == Append(l, FrameOf(l, x))
  <1>1. /\ Len(m) = Len(l) + 1
        /\ \A i \in 1..Len(l) : m[i] = l[i]
        /\ m[Len(l) + 1] = FrameOf(l, x)
    BY FrameOfType
  <1>2. m[Len(l) + 1].intent = x
    BY <1>1 DEF FrameOf
  <1> HIDE DEF m
  <1> SUFFICES ASSUME NEW i \in 1..Len(m), NEW j \in 1..Len(m),
                      i < j, Same(m, i, j)
               PROVE  /\ ~Terminal(m[i].next)
                      /\ m[j].intent.op # "propose"
                      /\ m[j].intent.digest = m[i].intent.digest
    BY DEF FinalIn, m
  <1>3. CASE j \in 1..Len(l)
    BY <1>1, <1>3 DEF FinalIn, Same
  <1>4. CASE j = Len(l) + 1
    <2>1. i \in 1..Len(l) /\ l[i].intent.record = x.record /\ m[i] = l[i]
      BY <1>1, <1>2, <1>4 DEF Same
    <2> QED
      BY <2>1, <1>2, <1>4, AcceptedAfter
  <1> QED
    BY <1>1, <1>3, <1>4

LEMMA AppendEarned ==
    ASSUME NEW l \in Seq(Frame), Legal(l), NEW x \in Intent, Accepts(l, x)
    PROVE  EarnedIn(Append(l, FrameOf(l, x)))
  <1> USE DEF Legal
  <1> DEFINE m == Append(l, FrameOf(l, x))
             n == Len(l) + 1
  <1>1. /\ Len(m) = n
        /\ \A i \in 1..Len(l) : m[i] = l[i]
        /\ m[n] = FrameOf(l, x)
    BY FrameOfType
  <1>2. m[n].intent = x /\ m[n].next = NextState(StateOf(l, x.record), x.op)
    BY <1>1 DEF FrameOf
  <1>3. x.record \in Record /\ x.op \in Operation
    BY DEF Intent
  <1> HIDE DEF m
  <1> SUFFICES ASSUME NEW i \in 1..Len(m), m[i].next.maturity > 1
               PROVE  \E j \in 1..i : Promotes(m, j, i)
                          /\ \E k \in 1..(j - 1) : OneBelow(m, k, i)
    BY DEF EarnedIn, m
  <1>4. CASE i \in 1..Len(l)
    <2>1. PICK j \in 1..i : Promotes(l, j, i)
                          /\ \E k \in 1..(j - 1) : OneBelow(l, k, i)
      BY <1>1, <1>4 DEF EarnedIn
    <2>2. PICK k \in 1..(j - 1) : OneBelow(l, k, i)
      BY <2>1
    <2>3. m[i] = l[i] /\ m[j] = l[j] /\ m[k] = l[k]
      BY <1>1, <1>4
    <2> QED
      BY <2>1, <2>2, <2>3 DEF Promotes, OneBelow, Same
  <1>5. CASE i = n
    <2>1. x.op # "propose"
      BY <1>2, <1>5 DEF NextState, RawActive
    <2>2. Tracked(l, x.record)
      BY <2>1, <1>3, TrackedState DEF Accepts, OperationLegal
    <2>3. PICK k \in 1..Len(l) :
              /\ l[k].intent.record = x.record
              /\ StateOf(l, x.record) = l[k].next
              /\ l[k].next \in TrustState
      BY <1>3, <2>2, SnapshotIsLast
    <2>4. m[k] = l[k]
      BY <1>1
    <2>5. CASE x.op = "promote"
      <3>1. l[k].next.validity = "active"
        BY <2>3, <2>5 DEF Accepts, OperationLegal
      <3>2. /\ m[n].next.maturity = l[k].next.maturity + 1
            /\ l[k].next.maturity \in Nat
        BY <1>2, <2>3, <2>5 DEF NextState, TrustState, Maturity
      <3>3. x.auth = "evidence"
        BY <2>5 DEF Accepts, Authorized
      <3>4. Promotes(m, n, i)
        BY <1>2, <1>5, <2>5, <3>3 DEF Promotes, Same
      <3>5. OneBelow(m, k, i)
        BY <1>2, <1>5, <2>3, <2>4, <3>1, <3>2 DEF OneBelow, Same
      <3> QED
        BY <3>4, <3>5, <1>5
    <2>6. CASE x.op # "promote"
      <3>1. m[n].next.maturity = l[k].next.maturity
        BY <1>2, <1>3, <2>1, <2>3, <2>6
           DEF NextState, TrustState, Operation
      <3>2. PICK j \in 1..k : Promotes(l, j, k)
                          /\ \E h \in 1..(j - 1) : OneBelow(l, h, k)
        BY <3>1, <1>5, <2>3 DEF EarnedIn
      <3>3. PICK h \in 1..(j - 1) : OneBelow(l, h, k)
        BY <3>2
      <3>4. m[j] = l[j] /\ m[h] = l[h]
        BY <1>1
      <3>5. Promotes(m, j, i) /\ OneBelow(m, h, i)
        BY <1>2, <1>5, <2>3, <3>1, <3>2, <3>3, <3>4
           DEF Promotes, OneBelow, Same
      <3> QED
        BY <3>5, <1>5
    <2> QED
      BY <2>5, <2>6
  <1> QED
    BY <1>1, <1>4, <1>5

LEMMA AppendForward ==
    ASSUME NEW l \in Seq(Frame), Legal(l), NEW x \in Intent, Accepts(l, x)
    PROVE  ForwardIn(Append(l, FrameOf(l, x)))
  <1> USE DEF Legal
  <1> DEFINE m == Append(l, FrameOf(l, x))
             n == Len(l) + 1
  <1>1. /\ Len(m) = n
        /\ \A i \in 1..Len(l) : m[i] = l[i]
        /\ m[n] = FrameOf(l, x)
    BY FrameOfType
  <1>2. m[n].intent = x
    BY <1>1 DEF FrameOf
  <1> HIDE DEF m
  <1> SUFFICES ASSUME NEW i \in 1..Len(m), NEW j \in 1..Len(m),
                      m[i].intent.op = "supersede",
                      m[j].intent.record = m[i].intent.by,
                      Terminal(m[j].next)
               PROVE  i < j
    BY DEF ForwardIn, m
  <1>3. CASE i \in 1..Len(l) /\ j \in 1..Len(l)
    BY <1>1, <1>3 DEF ForwardIn
  <1>4. CASE i \in 1..Len(l) /\ j = n
    BY <1>4
  <1>5. CASE i = n
    <2>1. /\ x.by \in Record /\ x.by # x.record
          /\ Tracked(l, x.by) /\ ~Terminal(StateOf(l, x.by))
      BY <1>2, <1>5 DEF Accepts, OperationLegal, Supersedable
    <2>2. j \in 1..Len(l) /\ m[j] = l[j]
      BY <1>1, <1>2, <1>5, <2>1
    <2>3. PICK k \in 1..Len(l) :
              /\ l[k].intent.record = x.by
              /\ \A h \in 1..Len(l) : l[h].intent.record = x.by => h <= k
              /\ StateOf(l, x.by) = l[k].next
      BY <2>1, SnapshotIsLast
    <2>4. j < k
      BY <1>2, <1>5, <2>1, <2>2, <2>3
    <2>5. ~Terminal(l[j].next)
      BY <1>2, <1>5, <2>2, <2>3, <2>4 DEF FinalIn, Same
    <2> QED
      BY <2>2, <2>5
  <1> QED
    BY <1>1, <1>3, <1>4, <1>5

LEMMA AppendLegal ==
    ASSUME NEW l \in Seq(Frame), Legal(l), NEW x \in Intent, Accepts(l, x)
    PROVE  /\ FrameOf(l, x) \in Frame
           /\ Legal(Append(l, FrameOf(l, x)))
  BY FrameOfType, AppendLast, AppendFinal, AppendEarned, AppendForward
     DEF Legal

-----------------------------------------------------------------------------
(* The file and its handles.                                               *)

\* The frame between write_all and sync_all is what the handle made of an
\* intent it accepted.
WritingExact ==
    \A p \in Proc : pc[p] = "written" =>
        /\ at[p] \in 1..Len(file)
        /\ file[at[p]] \in Frame
        /\ Accepts(mem[p], file[at[p]].intent)
        /\ file[at[p]] = FrameOf(mem[p], file[at[p]].intent)

\* replay_bytes accepts the first n frames of f.
PrefixReplays(f, n) == \A i \in 1..n : f[i] # Torn /\ FrameReplays(f, i)

\* What replay accepts is a legal history, however it came into the file.
PrefixLegal ==
    \A n \in 0..Len(file) :
        PrefixReplays(file, n) => Legal(SubSeq(file, 1, n))

LedgerInv ==
    /\ TypeOK
    /\ \A p \in Proc : Legal(mem[p])
    /\ WritingExact
    /\ PrefixLegal
    /\ AckedKept

LEMMA EmptyLegal == Legal(<<>>) /\ <<>> \in Seq(Frame)
  BY DEF Legal, LastIn, FinalIn, EarnedIn, ForwardIn, Tracked, Of

LEMMA TornFacts == Torn \notin Frame /\ Torn \in FileFrame
  BY TrustAssumption DEF Torn, Frame, Intent, FileFrame

\* Two files with the same first n frames replay alike up to there.
LEMMA SamePrefix ==
    ASSUME NEW f \in Seq(FileFrame), NEW g \in Seq(FileFrame), NEW n \in Nat,
           n <= Len(f), n <= Len(g), \A i \in 1..n : f[i] = g[i]
    PROVE  /\ \A k \in 0..n : SubSeq(f, 1, k) = SubSeq(g, 1, k)
           /\ \A k \in 0..n : PrefixReplays(f, k) <=> PrefixReplays(g, k)
  <1>1. ASSUME NEW k \in 0..n PROVE SubSeq(f, 1, k) = SubSeq(g, 1, k)
    OBVIOUS
  <1>2. ASSUME NEW i \in 1..n PROVE FrameReplays(f, i) <=> FrameReplays(g, i)
    <2>1. SubSeq(f, 1, i - 1) = SubSeq(g, 1, i - 1)
      BY <1>1
    <2> QED
      BY <2>1 DEF FrameReplays
  <1> QED
    BY <1>1, <1>2 DEF PrefixReplays

\* A file that shares its first n frames with a good one, and has at most one
\* frame more, is good.
LEMMA PrefixKept ==
    ASSUME TypeOK, PrefixLegal, NEW g \in Seq(FileFrame), NEW n \in 0..Len(file),
           n <= Len(g), Len(g) <= n + 1, \A i \in 1..n : g[i] = file[i]
    PROVE  \A k \in 0..Len(g) : PrefixReplays(g, k) => Legal(SubSeq(g, 1, k))
  <1> SUFFICES ASSUME NEW k \in 0..Len(g), PrefixReplays(g, k)
               PROVE  Legal(SubSeq(g, 1, k))
    OBVIOUS
  <1>1. file \in Seq(FileFrame)
    BY DEF TypeOK
  <1>2. CASE k <= n
    <2>1. PrefixReplays(file, k) /\ SubSeq(g, 1, k) = SubSeq(file, 1, k)
      BY <1>1, <1>2, SamePrefix
    <2>2. k \in 0..Len(file)
      BY <1>1, <1>2
    <2> QED
      BY <2>1, <2>2 DEF PrefixLegal
  <1>3. CASE k = n + 1
    <2> DEFINE l == SubSeq(g, 1, n)
               x == g[k].intent
    <2>1. Len(g) = n + 1
      BY <1>3
    <2>2. PrefixReplays(g, n) /\ g[k] # Torn /\ FrameReplays(g, k)
      BY <1>3 DEF PrefixReplays
    <2>3. PrefixReplays(file, n) /\ l = SubSeq(file, 1, n)
      BY <1>1, <2>2, SamePrefix
    <2>4. Legal(l)
      BY <2>3 DEF PrefixLegal
    <2>5. \A i \in 1..k : g[i] \in Frame
      BY <1>3, <2>1, <2>2 DEF PrefixReplays, FileFrame
    <2>6. l \in Seq(Frame)
      BY <2>5, <1>3, SubSeqProperties
    <2>7. x \in Intent
      BY <2>5, <1>3 DEF Frame
    <2>8. Accepts(l, x) /\ g[k] = FrameOf(l, x)
      BY <2>2, <1>3 DEF FrameReplays
    <2>9. Legal(Append(l, g[k]))
      BY <2>4, <2>6, <2>7, <2>8, AppendLegal
    <2>10. SubSeq(g, 1, k) = Append(l, g[k])
      BY <1>3, <2>1
    <2> QED
      BY <2>9, <2>10
  <1> QED
    BY <1>2, <1>3

\* A file that only grows keeps what was acknowledged in it.
LEMMA AckedGrows ==
    ASSUME TypeOK, AckedKept, NEW g \in Seq(FileFrame), NEW n \in synced..Len(g),
           \A i \in 1..synced : g[i] = file[i]
    PROVE  \A a \in acked : a[1] \in 1..n /\ g[a[1]] = a[2]
  <1> SUFFICES ASSUME NEW a \in acked
               PROVE  a[1] \in 1..n /\ g[a[1]] = a[2]
    OBVIOUS
  <1>1. a[1] \in 1..synced /\ file[a[1]] = a[2] /\ synced \in Nat
    BY DEF AckedKept, TypeOK
  <1> QED
    BY <1>1

\* One more frame, complete or torn, behind the file.
LEMMA FileGrows ==
    ASSUME LedgerInv, NEW f \in FileFrame, file' = Append(file, f),
           synced' = synced, acked' = acked
    PROVE  /\ file' \in Seq(FileFrame)
           /\ synced' \in 0..Len(file')
           /\ PrefixLegal'
           /\ AckedKept'
           /\ Len(file') = Len(file) + 1
           /\ file'[Len(file) + 1] = f
           /\ \A i \in 1..Len(file) : file'[i] = file[i]
  <1>1. file \in Seq(FileFrame) /\ synced \in 0..Len(file)
    BY DEF LedgerInv, TypeOK
  <1>2. /\ file' \in Seq(FileFrame)
        /\ Len(file') = Len(file) + 1
        /\ file'[Len(file) + 1] = f
        /\ \A i \in 1..Len(file) : file'[i] = file[i]
    BY <1>1
  <1>3. \A k \in 0..Len(file') :
            PrefixReplays(file', k) => Legal(SubSeq(file', 1, k))
    <2>1. TypeOK /\ PrefixLegal
      BY DEF LedgerInv
    <2>2. /\ Len(file) \in 0..Len(file)
          /\ Len(file) <= Len(file') /\ Len(file') <= Len(file) + 1
      BY <1>1, <1>2
    <2> QED
      BY <1>2, <2>1, <2>2, PrefixKept
  <1>4. \A a \in acked : a[1] \in 1..synced /\ file'[a[1]] = a[2]
    BY <1>1, <1>2, AckedGrows DEF LedgerInv
  <1> QED
    BY <1>1, <1>2, <1>3, <1>4 DEF PrefixLegal, AckedKept

LEMMA InitLedger == Init => LedgerInv
  <1> SUFFICES ASSUME Init PROVE LedgerInv
    OBVIOUS
  <1>1. TypeOK
    BY EmptyLegal DEF Init, TypeOK
  <1>2. SubSeq(file, 1, 0) = <<>> /\ Len(file) = 0
    BY SubSeqEmpty DEF Init
  <1>3. PrefixLegal
    <2> SUFFICES ASSUME NEW n \in 0..Len(file)
                 PROVE  Legal(SubSeq(file, 1, n))
      BY DEF PrefixLegal
    <2>1. n = 0
      BY <1>2
    <2>2. SubSeq(file, 1, n) = <<>>
      BY <1>2, <2>1
    <2> QED
      BY <2>2, EmptyLegal
  <1>4. (\A p \in Proc : Legal(mem[p])) /\ WritingExact /\ AckedKept
    BY EmptyLegal DEF Init, WritingExact, AckedKept
  <1> QED
    BY <1>1, <1>3, <1>4 DEF LedgerInv

\* open_strict: the handle's history is legal because replay accepted it.
LEMMA OpenLedger ==
    ASSUME LedgerInv, NEW p \in Proc, Open(p)
    PROVE  LedgerInv'
  <1> USE DEF LedgerInv
  <1>1. file \in Seq(FileFrame) /\ Len(file) \in Nat
    BY DEF TypeOK
  <1>2. PrefixReplays(file, Len(file))
    BY DEF Open, Replays, Complete, PrefixReplays
  <1>3. SubSeq(file, 1, Len(file)) = file
    BY <1>1, SubSeqFull
  <1>4. Legal(file)
    <2>1. Len(file) \in 0..Len(file)
      BY <1>1
    <2>2. Legal(SubSeq(file, 1, Len(file)))
      BY <1>2, <2>1 DEF PrefixLegal
    <2> QED
      BY <1>3, <2>2
  <1>5. \A i \in 1..Len(file) : file[i] \in Frame
    BY <1>1, <1>2 DEF PrefixReplays, FileFrame
  <1>6. file \in Seq(Frame)
    BY <1>1, <1>3, <1>5, SubSeqProperties
  <1>7. TypeOK'
    BY <1>6 DEF TypeOK, Open
  <1>8. \A q \in Proc : Legal(mem'[q])
    BY <1>4 DEF TypeOK, Open
  <1>9. WritingExact'
    BY DEF TypeOK, Open, WritingExact
  <1>10. PrefixLegal' /\ AckedKept'
    BY DEF Open, PrefixLegal, AckedKept
  <1> QED
    BY <1>7, <1>8, <1>9, <1>10

LEMMA WriteLedger ==
    ASSUME LedgerInv, NEW p \in Proc, Write(p)
    PROVE  LedgerInv'
  <1>1. PICK x \in Intents :
            /\ pc[p] = "open"
            /\ Accepts(mem[p], x)
            /\ file' = Append(file, FrameOf(mem[p], x))
            /\ at' = [at EXCEPT ![p] = Len(file) + 1]
            /\ pc' = [pc EXCEPT ![p] = "written"]
            /\ UNCHANGED <<synced, mem, acked, faults>>
    BY DEF Write
  <1> DEFINE f == FrameOf(mem[p], x)
  <1>2. x \in Intent /\ mem[p] \in Seq(Frame) /\ Legal(mem[p])
    BY LedgerAssumption DEF LedgerInv, TypeOK
  <1>3. f \in Frame /\ f.intent = x
    BY <1>1, <1>2, AppendLegal DEF FrameOf
  <1>4. f \in FileFrame
    BY <1>3 DEF FileFrame
  <1> HIDE DEF f
  <1>5. /\ file' \in Seq(FileFrame)
        /\ synced' \in 0..Len(file')
        /\ PrefixLegal'
        /\ AckedKept'
        /\ Len(file') = Len(file) + 1
        /\ file'[Len(file) + 1] = f
        /\ \A i \in 1..Len(file) : file'[i] = file[i]
    BY <1>1, <1>4, FileGrows DEF f
  <1>6. Len(file) \in Nat
    BY DEF LedgerInv, TypeOK
  <1>7. TypeOK'
    BY <1>1, <1>5, <1>6 DEF LedgerInv, TypeOK
  <1>8. \A q \in Proc : Legal(mem'[q])
    BY <1>1 DEF LedgerInv
  <1>9. WritingExact'
    <2> SUFFICES ASSUME NEW q \in Proc, pc'[q] = "written"
                 PROVE  /\ at'[q] \in 1..Len(file')
                        /\ file'[at'[q]] \in Frame
                        /\ Accepts(mem'[q], file'[at'[q]].intent)
                        /\ file'[at'[q]] = FrameOf(mem'[q], file'[at'[q]].intent)
      BY DEF WritingExact
    <2>1. CASE q = p
      <3>1. at'[q] = Len(file) + 1
        BY <1>1, <2>1 DEF LedgerInv, TypeOK
      <3>2. file'[at'[q]] = f
        BY <3>1, <1>5
      <3> QED
        BY <3>1, <3>2, <1>1, <1>3, <1>5, <1>6, <2>1 DEF f
    <2>2. CASE q # p
      <3>1. at'[q] = at[q] /\ pc[q] = "written"
        BY <1>1, <2>2 DEF LedgerInv, TypeOK
      <3>2. at[q] \in 1..Len(file)
        BY <3>1 DEF LedgerInv, WritingExact
      <3>3. file'[at'[q]] = file[at[q]] /\ mem'[q] = mem[q]
        BY <3>1, <3>2, <1>1, <1>5
      <3> QED
        BY <3>1, <3>2, <3>3, <1>5, <1>6 DEF LedgerInv, WritingExact
    <2> QED
      BY <2>1, <2>2
  <1> QED
    BY <1>5, <1>7, <1>8, <1>9 DEF LedgerInv

LEMMA SyncLedger ==
    ASSUME LedgerInv, NEW p \in Proc, Sync(p)
    PROVE  LedgerInv'
  <1> DEFINE f == file[at[p]]
  <1>1. /\ at[p] \in 1..Len(file)
        /\ f \in Frame
        /\ Accepts(mem[p], f.intent)
        /\ f = FrameOf(mem[p], f.intent)
    BY DEF Sync, LedgerInv, WritingExact
  <1>2. /\ mem[p] \in Seq(Frame) /\ Legal(mem[p]) /\ f.intent \in Intent
        /\ file \in Seq(FileFrame) /\ Len(file) \in Nat /\ synced \in 0..Len(file)
    <2>1. f.intent \in Intent
      BY <1>1 DEF Frame
    <2> HIDE DEF f
    <2> QED
      BY <2>1 DEF LedgerInv, TypeOK
  <1>3. Legal(Append(mem[p], f)) /\ Append(mem[p], f) \in Seq(Frame)
    BY <1>1, <1>2, AppendLegal
  <1>4. /\ file' = file /\ at' = at /\ faults' = faults
        /\ synced' = Len(file)
        /\ mem' = [mem EXCEPT ![p] = Append(@, f)]
        /\ acked' = acked \cup {<<at[p], f>>}
        /\ pc' = [pc EXCEPT ![p] = "open"]
    BY DEF Sync
  <1> HIDE DEF f
  <1>5. TypeOK'
    BY <1>1, <1>2, <1>3, <1>4 DEF LedgerInv, TypeOK
  <1>6. \A q \in Proc : Legal(mem'[q])
    BY <1>3, <1>4 DEF LedgerInv, TypeOK
  <1>7. WritingExact'
    BY <1>4 DEF LedgerInv, TypeOK, WritingExact
  <1>8. PrefixLegal'
    BY <1>4 DEF LedgerInv, PrefixLegal
  <1>9. AckedKept'
    <2>1. \A a \in acked : a[1] \in 1..Len(file) /\ file[a[1]] = a[2]
      BY <1>2 DEF LedgerInv, AckedKept
    <2> QED
      BY <1>1, <1>4, <2>1 DEF AckedKept, f
  <1> QED
    BY <1>5, <1>6, <1>7, <1>8, <1>9 DEF LedgerInv

\* Steps of p that leave the file or put a torn end behind it, write nothing
\* else to disk, and leave every handle but p's alone.
LEMMA HandleStep ==
    ASSUME LedgerInv, NEW p \in Proc,
           \/ file' = file
           \/ file' = Append(file, Torn),
           UNCHANGED <<synced, at, acked>>,
           faults' \in Nat,
           pc' \in [Proc -> {"closed", "open", "written", "failed", "refused"}],
           pc'[p] # "written",
           \A q \in Proc \ {p} : pc'[q] = pc[q] /\ mem'[q] = mem[q],
           mem' \in [Proc -> Seq(Frame)],
           mem'[p] \in {mem[p], <<>>}
    PROVE  LedgerInv'
  <1>1. file \in Seq(FileFrame) /\ synced \in 0..Len(file) /\ Len(file) \in Nat
    BY DEF LedgerInv, TypeOK
  <1>2. /\ file' \in Seq(FileFrame)
        /\ synced' \in 0..Len(file')
        /\ PrefixLegal'
        /\ AckedKept'
        /\ Len(file') \in Nat /\ Len(file) <= Len(file')
        /\ \A i \in 1..Len(file) : file'[i] = file[i]
    <2>1. CASE file' = file
      BY <1>1, <2>1 DEF LedgerInv, PrefixLegal, AckedKept
    <2>2. CASE file' = Append(file, Torn)
      BY <1>1, <2>2, TornFacts, FileGrows
    <2> QED
      BY <2>1, <2>2
  <1>3. TypeOK'
    BY <1>2 DEF LedgerInv, TypeOK
  <1>4. \A q \in Proc : Legal(mem'[q])
    BY EmptyLegal DEF LedgerInv
  <1>5. WritingExact'
    <2> SUFFICES ASSUME NEW q \in Proc, pc'[q] = "written"
                 PROVE  /\ at'[q] \in 1..Len(file')
                        /\ file'[at'[q]] \in Frame
                        /\ Accepts(mem'[q], file'[at'[q]].intent)
                        /\ file'[at'[q]] = FrameOf(mem'[q], file'[at'[q]].intent)
      BY DEF WritingExact
    <2>1. q # p /\ pc[q] = "written" /\ mem'[q] = mem[q] /\ at'[q] = at[q]
      OBVIOUS
    <2>2. at[q] \in 1..Len(file)
      BY <2>1 DEF LedgerInv, WritingExact
    <2>3. file'[at[q]] = file[at[q]] /\ at[q] \in 1..Len(file')
      BY <1>1, <1>2, <2>2
    <2> QED
      BY <2>1, <2>3 DEF LedgerInv, WritingExact
  <1> QED
    BY <1>2, <1>3, <1>4, <1>5 DEF LedgerInv

LEMMA EnvironmentLedger ==
    ASSUME LedgerInv, NEW p \in Proc,
           \/ OpenRefused(p) \/ WriteFails(p) \/ SyncFails(p)
           \/ KeepHandle(p) \/ Close(p) \/ Kill(p)
    PROVE  LedgerInv'
  <1>1. /\ pc \in [Proc -> {"closed", "open", "written", "failed", "refused"}]
        /\ mem \in [Proc -> Seq(Frame)] /\ faults \in Nat
        /\ <<>> \in Seq(Frame)
    BY EmptyLegal DEF LedgerInv, TypeOK
  <1>2. CASE OpenRefused(p)
    BY <1>1, <1>2, HandleStep DEF OpenRefused
  <1>3. CASE WriteFails(p)
    BY <1>1, <1>3, HandleStep DEF WriteFails
  <1>4. CASE SyncFails(p)
    BY <1>1, <1>4, HandleStep DEF SyncFails
  <1>5. CASE KeepHandle(p)
    BY <1>1, <1>5, HandleStep DEF KeepHandle
  <1>6. CASE Close(p)
    BY <1>1, <1>6, HandleStep DEF Close
  <1>7. CASE Kill(p)
    BY <1>1, <1>7, HandleStep DEF Kill
  <1> QED
    BY <1>2, <1>3, <1>4, <1>5, <1>6, <1>7

\* Power loss keeps what an fsync covers, and every handle is gone.
LEMMA PowerLossLedger ==
    ASSUME LedgerInv, PowerLoss
    PROVE  LedgerInv'
  <1>1. PICK n \in synced..Len(file) :
            /\ \/ file' = SubSeq(file, 1, n)
               \/ n < Len(file) /\ file' = Append(SubSeq(file, 1, n), Torn)
            /\ synced' = Len(file')
            /\ pc' = [p \in Proc |-> "closed"]
            /\ mem' = [p \in Proc |-> <<>>]
            /\ faults' = faults + 1
            /\ UNCHANGED <<at, acked>>
    BY DEF PowerLoss
  <1>2. file \in Seq(FileFrame) /\ synced \in 0..Len(file) /\ Len(file) \in Nat
    BY DEF LedgerInv, TypeOK
  <1>3. n \in 0..Len(file) /\ \A i \in 1..n : file[i] \in FileFrame
    BY <1>2
  <1> DEFINE c == SubSeq(file, 1, n)
  <1>4. c \in Seq(FileFrame) /\ Len(c) = n /\ \A i \in 1..n : c[i] = file[i]
    BY <1>3, SubSeqProperties
  <1> HIDE DEF c
  <1>5. /\ file' \in Seq(FileFrame)
        /\ n <= Len(file') /\ Len(file') <= n + 1 /\ Len(file') \in Nat
        /\ \A i \in 1..n : file'[i] = file[i]
    <2>1. CASE file' = c
      BY <1>3, <1>4, <2>1
    <2>2. CASE file' = Append(c, Torn)
      BY <1>3, <1>4, <2>2, TornFacts
    <2> QED
      BY <1>1, <2>1, <2>2 DEF c
  <1>6. PrefixLegal'
    <2>1. TypeOK /\ PrefixLegal
      BY DEF LedgerInv
    <2> QED
      BY <1>3, <1>5, <2>1, PrefixKept DEF PrefixLegal
  <1>7. AckedKept'
    <2>1. TypeOK /\ AckedKept
      BY DEF LedgerInv
    <2>2. Len(file') \in synced..Len(file') /\ \A i \in 1..synced : file'[i] = file[i]
      BY <1>2, <1>5
    <2>3. \A a \in acked : a[1] \in 1..Len(file') /\ file'[a[1]] = a[2]
      BY <1>5, <2>1, <2>2, AckedGrows
    <2> QED
      BY <1>1, <2>3 DEF AckedKept
  <1>8. TypeOK'
    BY <1>1, <1>5, EmptyLegal DEF LedgerInv, TypeOK
  <1>9. (\A p \in Proc : Legal(mem'[p])) /\ WritingExact'
    BY <1>1, EmptyLegal DEF WritingExact
  <1> QED
    BY <1>6, <1>7, <1>8, <1>9 DEF LedgerInv

LEMMA NextLedger == LedgerInv /\ [Next]_vars => LedgerInv'
  <1> SUFFICES ASSUME LedgerInv, [Next]_vars PROVE LedgerInv'
    OBVIOUS
  <1>1. CASE \E p \in Proc : Open(p)
    BY <1>1, OpenLedger
  <1>2. CASE \E p \in Proc : Write(p)
    BY <1>2, WriteLedger
  <1>3. CASE \E p \in Proc : Sync(p)
    BY <1>3, SyncLedger
  <1>4. CASE \E p \in Proc :
            \/ OpenRefused(p) \/ WriteFails(p) \/ SyncFails(p)
            \/ KeepHandle(p) \/ Close(p) \/ Kill(p)
    BY <1>4, EnvironmentLedger
  <1>5. CASE PowerLoss
    BY <1>5, PowerLossLedger
  <1>6. CASE UNCHANGED vars
    BY <1>6
       DEF vars, LedgerInv, TypeOK, WritingExact, PrefixLegal, AckedKept
  <1> QED
    BY <1>1, <1>2, <1>3, <1>4, <1>5, <1>6 DEF Next

\* The inductive invariant of the ledger holds in every behaviour.
THEOREM LedgerInvariant == Spec => []LedgerInv
  BY InitLedger, NextLedger, PTL DEF Spec

\* Every variable has its type.
THEOREM LedgerTypeCorrect == Spec => []TypeOK
  <1>1. LedgerInv => TypeOK
    BY DEF LedgerInv
  <1> QED
    BY <1>1, LedgerInvariant, PTL

\* An acknowledged transition keeps its place in the file, whatever the other
\* processes do and whatever fails: TrustLedger::apply answers after sync_all.
THEOREM AckedStaysInLedger == Spec => []AckedKept
  <1>1. LedgerInv => AckedKept
    BY DEF LedgerInv
  <1> QED
    BY <1>1, LedgerInvariant, PTL

\* No handle ever works from a history that goes on behind a terminal state:
\* validate_semantic_transition, applied when writing and when replaying.
THEOREM HistoryIsFinal == Spec => []HistoryFinal
  <1>1. LedgerInv => HistoryFinal
    BY DEF LedgerInv, Legal, HistoryFinal
  <1> QED
    BY <1>1, LedgerInvariant, PTL

\* Maturity is gained by promotions with evidence, step by step.
THEOREM MaturityIsEarned == Spec => []MaturityEarned
  <1>1. LedgerInv => MaturityEarned
    BY DEF LedgerInv, Legal, MaturityEarned
  <1> QED
    BY <1>1, LedgerInvariant, PTL

\* Supersession has no cycles: it leads forward in the ledger.
THEOREM SupersessionGoesForward == Spec => []SupersessionForward
  <1>1. LedgerInv => SupersessionForward
    BY DEF LedgerInv, Legal, SupersessionForward
  <1> QED
    BY <1>1, LedgerInvariant, PTL

-----------------------------------------------------------------------------
(* One process that drops a handle whose apply failed.                     *)

OneWriter == (\A p, q \in Proc : p = q) /\ ~ReuseAfterError

\* Only the end of the file may be torn, and every frame before it replays.
FileExact ==
    /\ \A i \in 1..Len(file) : file[i] = Torn => i = Len(file)
    /\ \A i \in 1..Len(file) : file[i] # Torn => FrameReplays(file, i)

\* The handle is the file, but for the frame being written.
MemExact ==
    \A p \in Proc :
        /\ pc[p] = "open" => mem[p] = file
        /\ pc[p] = "written" => /\ file = Append(mem[p], file[at[p]])
                                /\ synced <= Len(mem[p])

WriterInv == FileExact /\ MemExact /\ RefusedOnlyTorn

\* A cut of the file, or the file and one torn end, is still exact.
LEMMA FileExactKept ==
    ASSUME LedgerInv, FileExact, NEW n \in 0..Len(file),
           \/ file' = SubSeq(file, 1, n)
           \/ /\ file' = Append(SubSeq(file, 1, n), Torn)
              /\ \A i \in 1..n : file[i] # Torn
    PROVE  FileExact'
  <1>1. file \in Seq(FileFrame) /\ Len(file) \in Nat
    BY DEF LedgerInv, TypeOK
  <1> DEFINE c == SubSeq(file, 1, n)
  <1>2. c \in Seq(FileFrame) /\ Len(c) = n /\ \A i \in 1..n : c[i] = file[i]
    BY <1>1, SubSeqProperties
  <1> HIDE DEF c
  <1>3. /\ file' \in Seq(FileFrame) /\ n <= Len(file') /\ Len(file') \in Nat
        /\ \A i \in 1..n : file'[i] = file[i]
        /\ \A i \in 1..Len(file') : i \in 1..n \/ (file'[i] = Torn /\ i = Len(file'))
    <2>1. CASE file' = c
      BY <1>2, <2>1
    <2>2. CASE file' = Append(c, Torn)
      BY <1>2, <2>2, TornFacts
    <2> QED
      BY <2>1, <2>2 DEF c
  <1>4. \A i \in 1..n : SubSeq(file', 1, i - 1) = SubSeq(file, 1, i - 1)
    BY <1>1, <1>3, SamePrefix
  <1>5. \A i \in 1..n : FrameReplays(file, i) => FrameReplays(file', i)
    BY <1>3, <1>4 DEF FrameReplays
  <1>6. \A i \in 1..Len(file') : file'[i] # Torn => FrameReplays(file', i)
    BY <1>1, <1>3, <1>5 DEF FileExact
  <1>7. \A i \in 1..Len(file') : file'[i] = Torn => i = Len(file')
    <2> SUFFICES ASSUME NEW i \in 1..Len(file'), file'[i] = Torn, i \in 1..n
                 PROVE  i = Len(file')
      BY <1>3
    <2>1. file[i] = Torn /\ i = Len(file)
      BY <1>1, <1>3 DEF FileExact
    <2>2. n = Len(file) /\ file' = c
      BY <1>1, <2>1 DEF c
    <2> QED
      BY <1>2, <2>1, <2>2
  <1> QED
    BY <1>6, <1>7 DEF FileExact

LEMMA InitWriter == Init => WriterInv
  BY DEF Init, WriterInv, FileExact, MemExact, RefusedOnlyTorn

LEMMA WriteWriter ==
    ASSUME OneWriter, LedgerInv, WriterInv, NEW p \in Proc, Write(p)
    PROVE  WriterInv'
  <1>1. PICK x \in Intents :
            /\ pc[p] = "open"
            /\ Accepts(mem[p], x)
            /\ file' = Append(file, FrameOf(mem[p], x))
            /\ at' = [at EXCEPT ![p] = Len(file) + 1]
            /\ pc' = [pc EXCEPT ![p] = "written"]
            /\ UNCHANGED <<synced, mem, acked, faults>>
    BY DEF Write
  <1>2. mem[p] = file
    BY <1>1 DEF WriterInv, MemExact
  <1>3. x \in Intent /\ file \in Seq(Frame) /\ Legal(file) /\ Len(file) \in Nat
    BY <1>2, LedgerAssumption DEF LedgerInv, TypeOK
  <1> DEFINE f == FrameOf(file, x)
  <1>4. f \in Frame /\ f.intent = x /\ f # Torn
    BY <1>1, <1>2, <1>3, AppendLegal, TornFacts DEF FrameOf
  <1> HIDE DEF f
  <1>5. /\ file' = Append(file, f) /\ Len(file') = Len(file) + 1
        /\ file' \in Seq(Frame)
        /\ file'[Len(file) + 1] = f
        /\ \A i \in 1..Len(file) : file'[i] = file[i]
    BY <1>1, <1>2, <1>3, <1>4 DEF f
  <1>6. \A i \in 1..Len(file') : SubSeq(file', 1, i - 1) = SubSeq(file, 1, i - 1)
    BY <1>3, <1>5
  <1>7. FrameReplays(file', Len(file) + 1)
    <2>1. SubSeq(file', 1, Len(file)) = file
      BY <1>3, <1>5
    <2>2. (Len(file) + 1) - 1 = Len(file)
      BY <1>3
    <2> QED
      BY <1>1, <1>2, <1>4, <1>5, <2>1, <2>2 DEF FrameReplays, f
  <1>8. ASSUME NEW i \in 1..Len(file), FrameReplays(file, i)
        PROVE  FrameReplays(file', i)
    <2>1. SubSeq(file', 1, i - 1) = SubSeq(file, 1, i - 1) /\ file'[i] = file[i]
      BY <1>3, <1>5, <1>6
    <2> QED
      BY <1>8, <2>1 DEF FrameReplays
  <1>9. \A i \in 1..Len(file') : file'[i] # Torn /\ FrameReplays(file', i)
    <2>1. \A i \in 1..Len(file) : file[i] # Torn /\ FrameReplays(file, i)
      BY <1>3, TornFacts DEF WriterInv, FileExact
    <2> QED
      BY <1>3, <1>4, <1>5, <1>7, <1>8, <2>1
  <1>10. FileExact'
    BY <1>9 DEF FileExact
  <1>11. at'[p] = Len(file) + 1 /\ pc'[p] = "written" /\ synced <= Len(file)
    BY <1>1 DEF LedgerInv, TypeOK
  <1>12. MemExact'
    BY <1>1, <1>2, <1>5, <1>11 DEF MemExact, OneWriter
  <1>13. RefusedOnlyTorn'
    BY <1>11 DEF RefusedOnlyTorn, OneWriter
  <1> QED
    BY <1>10, <1>12, <1>13 DEF WriterInv

LEMMA NextWriter ==
    ASSUME OneWriter
    PROVE  LedgerInv /\ WriterInv /\ [Next]_vars => WriterInv'
  <1> SUFFICES ASSUME LedgerInv, WriterInv, [Next]_vars PROVE WriterInv'
    OBVIOUS
  <1>0. /\ file \in Seq(FileFrame) /\ Len(file) \in Nat /\ synced \in 0..Len(file)
        /\ pc \in [Proc -> {"closed", "open", "written", "failed", "refused"}]
        /\ mem \in [Proc -> Seq(Frame)]
        /\ SubSeq(file, 1, Len(file)) = file
    BY SubSeqFull DEF LedgerInv, TypeOK
  <1>1. ASSUME NEW p \in Proc, Open(p) PROVE WriterInv'
    BY <1>0, <1>1 DEF Open, WriterInv, FileExact, MemExact, RefusedOnlyTorn, OneWriter
  <1>2. ASSUME NEW p \in Proc, OpenRefused(p) PROVE WriterInv'
    <2>1. ~Replays /\ FileExact /\ file' = file /\ pc'[p] = "refused"
      BY <1>0, <1>2 DEF OpenRefused, WriterInv
    <2>2. \E i \in 1..Len(file) : file[i] = Torn
      BY <2>1 DEF Replays, Complete, FileExact
    <2>3. file[Len(file)] = Torn
      BY <2>1, <2>2 DEF FileExact
    <2> QED
      BY <1>2, <2>1, <2>3
         DEF OpenRefused, WriterInv, FileExact, MemExact, RefusedOnlyTorn, OneWriter
  <1>3. ASSUME NEW p \in Proc, Write(p) PROVE WriterInv'
    BY <1>3, WriteWriter
  <1>4. ASSUME NEW p \in Proc, Sync(p) PROVE WriterInv'
    BY <1>0, <1>4 DEF Sync, WriterInv, FileExact, MemExact, RefusedOnlyTorn, OneWriter
  <1>5. ASSUME NEW p \in Proc, WriteFails(p) \/ Kill(p) PROVE WriterInv'
    <2>1. pc'[p] \in {"failed", "closed"}
      BY <1>0, <1>5 DEF WriteFails, Kill
    <2>2. \/ file' = file
          \/ file' = Append(file, Torn) /\ pc[p] = "open"
      BY <1>5 DEF WriteFails, Kill
    <2>3. FileExact'
      <3>1. CASE file' = file
        BY <3>1 DEF WriterInv, FileExact
      <3>2. CASE file' = Append(file, Torn) /\ pc[p] = "open"
        <4>1. file \in Seq(Frame)
          BY <1>0, <3>2 DEF WriterInv, MemExact
        <4>2. \A i \in 1..Len(file) : file[i] # Torn
          BY <4>1, TornFacts
        <4>3. Len(file) \in 0..Len(file)
          BY <1>0
        <4> QED
          BY <1>0, <3>2, <4>2, <4>3, FileExactKept DEF WriterInv
      <3> QED
        BY <2>2, <3>1, <3>2
    <2> QED
      BY <2>1, <2>3 DEF WriterInv, MemExact, RefusedOnlyTorn, OneWriter
  <1>6. ASSUME NEW p \in Proc, SyncFails(p) \/ Close(p) PROVE WriterInv'
    <2>1. pc'[p] \in {"failed", "closed"} /\ file' = file
      BY <1>0, <1>6 DEF SyncFails, Close
    <2> QED
      BY <2>1 DEF WriterInv, FileExact, MemExact, RefusedOnlyTorn, OneWriter
  <1>7. ASSUME NEW p \in Proc, KeepHandle(p) PROVE WriterInv'
    BY <1>7 DEF KeepHandle, OneWriter
  <1>8. ASSUME PowerLoss PROVE WriterInv'
    <2>1. PICK n \in synced..Len(file) :
            /\ \/ file' = SubSeq(file, 1, n)
               \/ n < Len(file) /\ file' = Append(SubSeq(file, 1, n), Torn)
            /\ pc' = [p \in Proc |-> "closed"]
      BY <1>8 DEF PowerLoss
    <2>2. n \in 0..Len(file)
      BY <1>0
    <2>3. ASSUME n < Len(file), NEW i \in 1..n PROVE file[i] # Torn
      <3>1. i \in 1..Len(file) /\ i # Len(file)
        <4>1. Len(file) \in Nat
          BY <1>0
        <4>2. n \in Nat /\ n < Len(file)
          BY <2>2, <2>3, <4>1
        <4>3. i \in Nat /\ 1 <= i /\ i <= n
          BY <4>2
        <4> QED
          BY <4>1, <4>2, <4>3
      <3> QED
        BY <3>1 DEF WriterInv, FileExact
    <2>4. FileExact'
      BY <2>1, <2>2, <2>3, FileExactKept DEF WriterInv
    <2> QED
      BY <2>1, <2>4 DEF WriterInv, MemExact, RefusedOnlyTorn
  <1>9. CASE UNCHANGED vars
    BY <1>9 DEF vars, WriterInv, FileExact, MemExact, RefusedOnlyTorn
  <1> QED
    BY <1>1, <1>2, <1>3, <1>4, <1>5, <1>6, <1>7, <1>8, <1>9 DEF Next

\* With one careful writer, open_strict accepts whatever apply wrote: it
\* refuses only an incomplete end.
THEOREM RefusesOnlyTornEnds ==
    ASSUME OneWriter
    PROVE  Spec => []RefusedOnlyTorn
  <1>1. WriterInv => RefusedOnlyTorn
    BY DEF WriterInv
  <1> QED
    BY <1>1, InitWriter, NextWriter, LedgerInvariant, PTL DEF Spec

\* With one careful writer, every open handle has every acknowledged
\* transition at its place.
THEOREM AckedIsServed ==
    ASSUME OneWriter
    PROVE  Spec => []AckedServed
  <1>1. LedgerInv /\ WriterInv => AckedServed
    <2> SUFFICES ASSUME LedgerInv, WriterInv, NEW p \in Proc,
                        pc[p] \in {"open", "written"}, NEW a \in acked
                 PROVE  a[1] \in 1..Len(mem[p]) /\ mem[p][a[1]] = a[2]
      BY DEF AckedServed
    <2>1. a[1] \in 1..synced /\ file[a[1]] = a[2] /\ synced \in 0..Len(file)
          /\ mem[p] \in Seq(Frame)
      BY DEF LedgerInv, AckedKept, TypeOK
    <2>2. CASE pc[p] = "open"
      BY <2>1, <2>2 DEF WriterInv, MemExact
    <2>3. CASE pc[p] = "written"
      <3>1. file = Append(mem[p], file[at[p]]) /\ synced <= Len(mem[p])
        BY <2>3 DEF WriterInv, MemExact
      <3>2. a[1] \in 1..Len(mem[p])
        BY <2>1, <3>1
      <3> QED
        BY <2>1, <3>1, <3>2
    <2> QED
      BY <2>2, <2>3
  <1> QED
    BY <1>1, InitWriter, NextWriter, LedgerInvariant, PTL DEF Spec
=============================================================================
