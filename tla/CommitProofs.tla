---------------------------- MODULE CommitProofs ----------------------------
(***************************************************************************)
(* Proofs about the commit across journal, database and trust ledger,      *)
(* module TrustCommit: any number of requests, records, commands, changes  *)
(* and faults of one kind, killed processes or power losses.               *)
(***************************************************************************)
EXTENDS TrustCommit, FileLemmas, FiniteSetTheorems

-----------------------------------------------------------------------------
(* The trust ledger: what apply appends replays. *)

LEMMA TrackedState ==
    ASSUME NEW l \in Seq(Frame), NEW r \in Record
    PROVE  /\ Tracked(l, r) => StateOf(l, r) \in TrustState
           /\ Tracked(l, r) <=> StateOf(l, r) # Untracked
  <1>1. Untracked \notin TrustState
    BY TrustAssumption DEF TrustState, Maturity, Validity
  <1>2. ASSUME Tracked(l, r) PROVE StateOf(l, r) \in TrustState
    <2> DEFINE i == CHOOSE i \in Of(l, r) : \A j \in Of(l, r) : j <= i
    <2>1. Of(l, r) \in SUBSET (1..Len(l)) /\ Of(l, r) # {} /\ Len(l) \in Nat
      BY <1>2 DEF Tracked, Of
    <2>2. \E k \in Of(l, r) : \A j \in Of(l, r) : j <= k
      BY <2>1, Greatest
    <2>3. i \in Of(l, r)
      BY <2>2
    <2>4. StateOf(l, r) = l[i].next
      BY <1>2 DEF StateOf, Snapshot
    <2> HIDE DEF i
    <2>5. l[i] \in Frame
      BY <2>1, <2>3
    <2> QED
      BY <2>4, <2>5 DEF Frame
  <1>3. ~Tracked(l, r) => StateOf(l, r) = Untracked
    BY DEF StateOf
  <1> QED
    BY <1>1, <1>2, <1>3

LEMMA FrameOfType ==
    ASSUME NEW l \in Seq(Frame), NEW x \in Intent, Accepts(l, x)
    PROVE  FrameOf(l, x) \in Frame
  <1> DEFINE s == StateOf(l, x.record)
  <1>1. x.record \in Record /\ x.op \in Operation
    BY DEF Intent
  <1>2. s \in TrustState \cup {Untracked}
    BY <1>1, TrackedState
  <1>3. x.op = "propose" \/ s \in TrustState
    BY <1>1, <1>2, TrackedState DEF Accepts, OperationLegal
  <1>4. x.op = "promote" => s.maturity < 4
    BY DEF Accepts, OperationLegal
  <1> HIDE DEF s
  <1>5. NextState(s, x.op) \in TrustState
    BY <1>1, <1>3, <1>4
       DEF NextState, TrustState, RawActive, Maturity, Validity, Operation
  <1>6. Len(l) + 1 \in Nat
    OBVIOUS
  <1> QED
    BY <1>2, <1>5, <1>6 DEF FrameOf, Frame, s

\* The ledger after an accepted transition: the frames before it are kept,
\* and a strict open accepts all of them.
\* m is ledger l with a frame of intent x behind it.
LedgerGrown(l, x, m) ==
    /\ m \in Seq(Frame) /\ Len(m) = Len(l) + 1
    /\ m[Len(l) + 1].intent = x
    /\ \A i \in 1..Len(l) : m[i] = l[i]
    /\ \A n \in 0..Len(l) : SubSeq(m, 1, n) = SubSeq(l, 1, n)
    /\ SubSeq(m, 1, Len(l)) = l
    /\ \A i \in 1..Len(m) : FrameReplays(m, i)

LEMMA LedgerGrows ==
    ASSUME NEW l \in Seq(Frame), NEW x \in Intent, Accepts(l, x),
           \A i \in 1..Len(l) : FrameReplays(l, i),
           NEW m, m = Append(l, FrameOf(l, x))
    PROVE  LedgerGrown(l, x, m)
  <1>1. FrameOf(l, x) \in Frame /\ List(l)
    BY FrameOfType DEF List
  <1>2. /\ Len(m) = Len(l) + 1 /\ m[Len(l) + 1] = FrameOf(l, x)
        /\ \A i \in 1..Len(l) : m[i] = l[i]
        /\ SubSeq(m, 1, Len(l)) = l
        /\ \A n \in 0..Len(l) : SubSeq(m, 1, n) = SubSeq(l, 1, n)
    BY <1>1, FileAppended
  <1>3. m \in Seq(Frame) /\ Len(l) \in Nat
    BY <1>1
  <1>4. FrameOf(l, x).intent = x
    BY DEF FrameOf
  <1>5. ASSUME NEW i \in 1..Len(m) PROVE FrameReplays(m, i)
    <2>1. CASE i \in 1..Len(l)
      <3>1. i - 1 \in 0..Len(l)
        BY <1>3, <2>1
      <3>2. SubSeq(m, 1, i - 1) = SubSeq(l, 1, i - 1) /\ m[i] = l[i]
        BY <1>2, <2>1, <3>1, Zenon
      <3> QED
        BY <2>1, <3>2, Zenon DEF FrameReplays
    <2>2. CASE i = Len(l) + 1
      <3>1. SubSeq(m, 1, i - 1) = l /\ m[i] = FrameOf(l, x)
        BY <1>2, <1>3, <2>2
      <3> QED
        BY <1>4, <3>1, Zenon DEF FrameReplays
    <2> QED
      BY <1>2, <1>3, <2>1, <2>2
  <1> QED
    BY <1>2, <1>3, <1>4, <1>5 DEF LedgerGrown

LEMMA IntentTyped ==
    ASSUME NEW q \in Requests, NEW d \in Digest
    PROVE  IntentOf(q, d) \in Intent
  BY CommitAssumption DEF IntentOf, Intent

-----------------------------------------------------------------------------
(* The journal: one more entry. *)

LEMMA StageKnown ==
    ASSUME NEW j, List(j), NEW t \in TransactionsIn(j)
    PROVE  \E i \in 1..Len(j) : /\ j[i][1] = t /\ StageIn(j, t) = j[i][2]
                                /\ \A k \in 1..Len(j) : j[k][1] = t => k <= i
  <1> DEFINE own == {i \in 1..Len(j) : j[i][1] = t}
             i == CHOOSE i \in own : \A k \in own : k <= i
  <1>1. own \in SUBSET (1..Len(j)) /\ own # {} /\ Len(j) \in Nat
    BY ListLength DEF TransactionsIn
  <1>2. \E k \in own : \A n \in own : n <= k
    <2> HIDE DEF own
    <2> QED
      BY <1>1, Greatest
  <1>3. i \in own /\ \A k \in own : k <= i
    BY <1>2
  <1>4. StageIn(j, t) = j[i][2]
    BY DEF StageIn
  <1> QED
    BY <1>3, <1>4

LEMMA StageUnique ==
    ASSUME NEW j, List(j), NEW t, NEW i \in 1..Len(j), j[i][1] = t,
           \A k \in 1..Len(j) : j[k][1] = t => k <= i
    PROVE  StageIn(j, t) = j[i][2]
  <1>1. t \in TransactionsIn(j) /\ Len(j) \in Nat
    BY ListLength DEF TransactionsIn
  <1>2. PICK n \in 1..Len(j) : /\ j[n][1] = t /\ StageIn(j, t) = j[n][2]
                               /\ \A k \in 1..Len(j) : j[k][1] = t => k <= n
    BY <1>1, StageKnown
  <1>3. n = i
    BY <1>1, <1>2
  <1> QED
    BY <1>2, <1>3

\* m is journal j with entry <<t, s>> behind it.
JournalGrown(j, t, s, m) ==
    /\ List(m) /\ Len(m) = Len(j) + 1
    /\ \A i \in 1..Len(j) : m[i] = j[i]
    /\ m[Len(j) + 1][1] = t /\ m[Len(j) + 1][2] = s
    /\ TransactionsIn(m) = TransactionsIn(j) \cup {t}
    /\ StageIn(m, t) = s
    /\ \A u \in TransactionsIn(j) : u # t => StageIn(m, u) = StageIn(j, u)

LEMMA JournalGrows ==
    ASSUME NEW j, List(j), NEW t, NEW s, NEW m, m = Append(j, <<t, s>>)
    PROVE  JournalGrown(j, t, s, m)
  <1>1. /\ List(m) /\ Len(m) = Len(j) + 1 /\ Len(j) \in Nat
        /\ m[Len(j) + 1] = <<t, s>>
        /\ \A i \in 1..Len(j) : m[i] = j[i]
    BY FileAppended, ListLength
  <1>2. m[Len(j) + 1][1] = t /\ m[Len(j) + 1][2] = s
    BY <1>1
  <1>3. TransactionsIn(m) = TransactionsIn(j) \cup {t}
    BY <1>1, <1>2 DEF TransactionsIn
  <1>4. StageIn(m, t) = s
    <2>1. Len(j) + 1 \in 1..Len(m) /\ \A k \in 1..Len(m) : k <= Len(j) + 1
      BY <1>1
    <2> QED
      BY <1>1, <1>2, <2>1, StageUnique
  <1>5. ASSUME NEW u \in TransactionsIn(j), u # t
        PROVE  StageIn(m, u) = StageIn(j, u)
    <2>1. PICK i \in 1..Len(j) : /\ j[i][1] = u /\ StageIn(j, u) = j[i][2]
                                 /\ \A k \in 1..Len(j) : j[k][1] = u => k <= i
      BY StageKnown
    <2>2. i \in 1..Len(m) /\ m[i] = j[i]
      BY <1>1
    <2>3. ASSUME NEW k \in 1..Len(m), m[k][1] = u PROVE k <= i
      <3>1. k # Len(j) + 1
        BY <1>2, <1>5, <2>3
      <3>2. k \in 1..Len(j) /\ m[k] = j[k]
        BY <1>1, <3>1
      <3> QED
        BY <2>1, <2>3, <3>2
    <2>4. StageIn(m, u) = m[i][2]
      BY <1>1, <2>1, <2>2, <2>3, StageUnique
    <2> QED
      BY <2>1, <2>2, <2>4
  <1> QED
    BY <1>1, <1>2, <1>3, <1>4, <1>5 DEF JournalGrown

\* What append accepts, replay accepts.
LEMMA JournalReplaysOn ==
    ASSUME NEW j, List(j), NEW t, NEW s, NEW m, m = Append(j, <<t, s>>),
           StageFollows(j, t, s),
           \A i \in 1..Len(j) : StageFollows(SubSeq(j, 1, i - 1), j[i][1], j[i][2])
    PROVE  \A i \in 1..Len(m) : StageFollows(SubSeq(m, 1, i - 1), m[i][1], m[i][2])
  <1>1. /\ Len(m) = Len(j) + 1 /\ Len(j) \in Nat
        /\ m[Len(j) + 1][1] = t /\ m[Len(j) + 1][2] = s
        /\ \A i \in 1..Len(j) : m[i] = j[i]
        /\ SubSeq(m, 1, Len(j)) = j
        /\ \A n \in 0..Len(j) : SubSeq(m, 1, n) = SubSeq(j, 1, n)
    <2>1. Len(j) \in Nat
      BY ListLength
    <2>2. m[Len(j) + 1] = <<t, s>> /\ Len(m) = Len(j) + 1 /\ SubSeq(m, 1, Len(j)) = j
      BY FileAppended
    <2>3. /\ \A i \in 1..Len(j) : m[i] = j[i]
          /\ \A n \in 0..Len(j) : SubSeq(m, 1, n) = SubSeq(j, 1, n)
      BY FileAppended
    <2> QED
      BY <2>1, <2>2, <2>3
  <1> SUFFICES ASSUME NEW i \in 1..Len(m)
               PROVE  StageFollows(SubSeq(m, 1, i - 1), m[i][1], m[i][2])
    OBVIOUS
  <1>2. CASE i \in 1..Len(j)
    <2>1. i - 1 \in 0..Len(j)
      BY <1>1, <1>2
    <2> QED
      BY <1>1, <1>2, <2>1, Zenon
  <1>3. CASE i = Len(j) + 1
    <2>1. i - 1 = Len(j)
      BY <1>1, <1>3
    <2> QED
      BY <1>1, <1>3, <2>1, Zenon
  <1> QED
    BY <1>1, <1>2, <1>3

-----------------------------------------------------------------------------
(* What the three files say together.  The parts are stated of any three   *)
(* sequences: they hold of the files as they are and of what a power loss   *)
(* would leave of them.                                                     *)

\* The binding records in a database d.
BoundIn(d) == {d[i].tx : i \in {k \in 1..Len(d) : d[k].kind = "bind"}}

\* The transition of t is in ledger l, at its place.
MatchesIn(l, t) ==
    /\ Len(l) >= Place(t)
    /\ SubSeq(l, 1, Place(t) - 1) = t.head
    /\ l[Place(t)].intent = IntentOf(t.request, t.digest)

PendingIn(j) ==
    {t \in TransactionsIn(j) : StageIn(j, t) \notin {"finalized", "aborted"}}

FinalizedIn(j, q) ==
    \E i \in 1..Len(j) : j[i][2] = "finalized" /\ j[i][1].request = q

Transaction(t) ==
    t.head \in Seq(Frame) /\ t.request \in Requests /\ t.digest \in Digest

Shaped(j, l, d) ==
    /\ List(j) /\ l \in Seq(Frame) /\ List(d)
    /\ \A i \in 1..Len(j) : j[i][2] \in Stage /\ Transaction(j[i][1])
    /\ \A i \in 1..Len(d) :
          d[i].kind = "put" => d[i].digest \in Digest \cup {Missing}

\* The strict opens accept the journal and the ledger.
ReplaysIn(j, l) ==
    /\ \A i \in 1..Len(j) :
          StageFollows(SubSeq(j, 1, i - 1), j[i][1], j[i][2])
    /\ \A i \in 1..Len(l) : FrameReplays(l, i)

\* StagesAgree, and a finalized transaction stays finalized.
StagesIn(j, l, d) ==
    /\ \A t \in TransactionsIn(j) :
          /\ StageIn(j, t) \in {"database", "trust", "finalized"} =>
                t \in BoundIn(d)
          /\ StageIn(j, t) \in {"trust", "finalized"} => MatchesIn(l, t)
          /\ StageIn(j, t) = "aborted" => t \notin BoundIn(d)
    /\ \A i \in 1..Len(j) :
          j[i][2] = "finalized" => StageIn(j, j[i][1]) = "finalized"

\* One transaction is under way at most, and the ledger is where it found it
\* until its own transition is applied.
OnePending(j, l) ==
    /\ \A t, u \in PendingIn(j) : t = u
    /\ \A t \in PendingIn(j) :
          /\ StageIn(j, t) = "prepared" => t.head = l
          /\ StageIn(j, t) = "database" => t.head = l \/ MatchesIn(l, t)

\* OncePerTransaction, and no binding without a journal entry.
OnceIn(j, l, d) ==
    /\ BoundIn(d) \subseteq TransactionsIn(j)
    /\ \A i \in 1..Len(l) : \E t \in BoundIn(d) :
          /\ Place(t) = i /\ MatchesIn(l, t)
          /\ \A u \in BoundIn(d) : Place(u) = i /\ MatchesIn(l, u) => u = t

Agree(j, l, d) ==
    /\ Shaped(j, l, d) /\ ReplaysIn(j, l) /\ StagesIn(j, l, d)
    /\ OnePending(j, l) /\ OnceIn(j, l, d)

-----------------------------------------------------------------------------
(* The inductive invariant. *)

\* What no power loss can take: every byte when there are none, and what an
\* fsync covers otherwise.
KeptOf(s, n) == IF MaxPower = 0 THEN s ELSE SubSeq(s, 1, n)

KeptJournal == KeptOf(journal, synced["journal"])
KeptLedger  == KeptOf(ledger, synced["ledger"])
KeptDb      == KeptOf(db, synced["db"])

Counted ==
    /\ synced \in [File -> Nat]
    /\ \A f \in File : synced[f] <= FileLen(f)
    /\ dirty \in File \cup {"none"}

\* Where power may be lost, every append is fsynced before the next one.
Covered ==
    MaxPower # 0 =>
        \A f \in File :
            synced[f] = IF dirty = f THEN FileLen(f) - 1 ELSE FileLen(f)

DiskInv ==
    /\ Counted /\ Covered
    /\ Agree(journal, ledger, db)
    /\ Agree(KeptJournal, KeptLedger, KeptDb)

Idle == {"closed", "refused", "stuck"}

Busy == {"prepared", "bound", "database", "applied", "trust", "finalized"}

\* The stage a command has journalled for its transaction.
StageAt(p) ==
    CASE p \in {"prepared", "bound"} -> "prepared"
      [] p \in {"database", "applied"} -> "database"
      [] p = "trust" -> "trust"
      [] p = "finalized" -> "finalized"

CommandInv ==
    /\ pc \in Idle \cup {"recovering"} \cup Busy
    /\ pc \in Idle => dirty = "none"
    /\ pc \notin Idle => request \in Requests
    /\ pc \in Busy =>
          /\ job \in TransactionsIn(journal)
          /\ job.request = request
          /\ StageIn(journal, job) = StageAt(pc)
    /\ pc = "bound" => job \in BoundIn(db)
    /\ pc = "database" => job.head = ledger
    /\ pc = "applied" => MatchesIn(ledger, job)
    /\ pc = "refused" => torn # {}

OutcomeInv ==
    /\ torn \subseteq File
    /\ policies \subseteq Policy
    /\ changes \in Nat /\ kills \in Nat /\ power \in Nat
    /\ acked \subseteq Requests
    /\ \A q \in acked : FinalizedIn(KeptJournal, q)

CommitInv == DiskInv /\ CommandInv /\ OutcomeInv

-----------------------------------------------------------------------------
(* Each of the five appends keeps the files in agreement. *)

LEMMA Stages ==
    ASSUME NEW j, NEW l, NEW d, Shaped(j, l, d)
    PROVE  /\ List(j) /\ Len(j) \in Nat /\ l \in Seq(Frame) /\ Len(l) \in Nat
           /\ List(d) /\ Len(d) \in Nat
           /\ \A t \in TransactionsIn(j) :
                 /\ StageIn(j, t) \in Stage /\ Transaction(t)
                 /\ Place(t) \in Nat /\ Place(t) = Len(t.head) + 1
  <1>1. List(j) /\ Len(j) \in Nat /\ l \in Seq(Frame) /\ Len(l) \in Nat
        /\ List(d) /\ Len(d) \in Nat
    BY ListLength DEF Shaped
  <1>2. ASSUME NEW t \in TransactionsIn(j)
        PROVE  /\ StageIn(j, t) \in Stage /\ Transaction(t)
               /\ Place(t) \in Nat /\ Place(t) = Len(t.head) + 1
    <2>1. PICK i \in 1..Len(j) : j[i][1] = t /\ StageIn(j, t) = j[i][2]
      BY <1>1, StageKnown
    <2>2. StageIn(j, t) \in Stage /\ Transaction(t)
      BY <2>1 DEF Shaped
    <2>3. t.head \in Seq(Frame)
      BY <2>2 DEF Transaction
    <2> QED
      BY <2>2, <2>3 DEF Place
  <1> QED
    BY <1>1, <1>2

\* journal.append(PREPARED): nothing else is pending.
LEMMA PreparedAgrees ==
    ASSUME NEW j, NEW l, NEW d, Agree(j, l, d), PendingIn(j) = {},
           NEW t, Transaction(t), t.head = l, t \notin BoundIn(d),
           StageFollows(j, t, "prepared"),
           NEW m, m = Append(j, <<t, "prepared">>)
    PROVE  Agree(m, l, d)
  <1>1. /\ Shaped(j, l, d) /\ ReplaysIn(j, l) /\ StagesIn(j, l, d)
        /\ OnePending(j, l) /\ OnceIn(j, l, d)
    BY DEF Agree
  <1>2. List(j) /\ Len(j) \in Nat
    BY <1>1, Stages
  <1>3. JournalGrown(j, t, "prepared", m)
    BY <1>2, JournalGrows
  <1> USE DEF JournalGrown
  <1>4. t \notin TransactionsIn(j)
    BY DEF StageFollows
  <1>5. \A i \in 1..Len(m) : i \in 1..Len(j) \/ i = Len(j) + 1
    BY <1>2, <1>3
  <1>6. Shaped(m, l, d)
    BY <1>1, <1>3, <1>5 DEF Shaped, Stage
  <1>7. ReplaysIn(m, l)
    BY <1>1, <1>2, JournalReplaysOn DEF ReplaysIn
  <1>8. StagesIn(m, l, d)
    <2>1. ASSUME NEW i \in 1..Len(m), m[i][2] = "finalized"
          PROVE  StageIn(m, m[i][1]) = "finalized"
      <3>1. i \in 1..Len(j) /\ m[i] = j[i]
        BY <1>3, <1>5, <2>1
      <3>2. j[i][1] \in TransactionsIn(j)
        BY <3>1 DEF TransactionsIn
      <3> QED
        BY <1>1, <1>3, <1>4, <2>1, <3>1, <3>2 DEF StagesIn
    <2> QED
      BY <1>1, <1>3, <1>4, <2>1 DEF StagesIn
  <1>9. PendingIn(m) = {t}
    BY <1>3, <1>4 DEF PendingIn
  <1>10. OnePending(m, l)
    BY <1>3, <1>9 DEF OnePending
  <1>11. OnceIn(m, l, d)
    BY <1>1, <1>3 DEF OnceIn
  <1> QED
    BY <1>6, <1>7, <1>8, <1>10, <1>11 DEF Agree

\* journal.append of a later stage of the pending transaction.
LEMMA StageAgrees ==
    ASSUME NEW j, NEW l, NEW d, Agree(j, l, d), NEW t \in PendingIn(j),
           NEW s \in Stage, StageFollows(j, t, s),
           s = "database" => t \in BoundIn(d),
           s = "trust" => MatchesIn(l, t),
           s = "aborted" => t \notin BoundIn(d),
           NEW m, m = Append(j, <<t, s>>)
    PROVE  Agree(m, l, d)
  <1>1. /\ Shaped(j, l, d) /\ ReplaysIn(j, l) /\ StagesIn(j, l, d)
        /\ OnePending(j, l) /\ OnceIn(j, l, d)
    BY DEF Agree
  <1>2. List(j) /\ Len(j) \in Nat
    BY <1>1, Stages
  <1>3. JournalGrown(j, t, s, m)
    BY <1>2, JournalGrows
  <1> USE DEF JournalGrown
  <1>4. t \in TransactionsIn(j) /\ StageIn(j, t) # "finalized"
        /\ Transaction(t)
    BY <1>1, Stages DEF PendingIn
  <1>5. \A i \in 1..Len(m) : i \in 1..Len(j) \/ i = Len(j) + 1
    BY <1>2, <1>3
  <1>6. <<StageIn(j, t), s>> \in
           {<<"prepared", "database">>, <<"prepared", "aborted">>,
            <<"database", "trust">>, <<"trust", "finalized">>}
    BY <1>4 DEF StageFollows
  <1>7. Shaped(m, l, d)
    BY <1>1, <1>3, <1>4, <1>5 DEF Shaped
  <1>8. ReplaysIn(m, l)
    BY <1>1, <1>2, JournalReplaysOn DEF ReplaysIn
  <1>9. /\ s \in {"database", "trust", "finalized"} => t \in BoundIn(d)
        /\ s \in {"trust", "finalized"} => MatchesIn(l, t)
        /\ s = "aborted" => t \notin BoundIn(d)
    BY <1>1, <1>4, <1>6 DEF StagesIn
  <1>10. StagesIn(m, l, d)
    <2>1. ASSUME NEW i \in 1..Len(m), m[i][2] = "finalized"
          PROVE  StageIn(m, m[i][1]) = "finalized"
      <3>1. CASE i = Len(j) + 1
        BY <1>3, <2>1, <3>1
      <3>2. CASE i \in 1..Len(j)
        <4>1. m[i] = j[i] /\ j[i][1] \in TransactionsIn(j)
              /\ StageIn(j, j[i][1]) = "finalized"
          BY <1>1, <1>3, <2>1, <3>2 DEF TransactionsIn, StagesIn
        <4> QED
          BY <1>3, <1>4, <4>1
      <3> QED
        BY <1>5, <3>1, <3>2
    <2>2. ASSUME NEW u \in TransactionsIn(m)
          PROVE  /\ StageIn(m, u) \in {"database", "trust", "finalized"} =>
                        u \in BoundIn(d)
                 /\ StageIn(m, u) \in {"trust", "finalized"} => MatchesIn(l, u)
                 /\ StageIn(m, u) = "aborted" => u \notin BoundIn(d)
      <3>1. CASE u = t
        BY <1>3, <1>9, <3>1
      <3>2. CASE u # t
        <4>1. u \in TransactionsIn(j) /\ StageIn(m, u) = StageIn(j, u)
          BY <1>3, <3>2
        <4> QED
          BY <1>1, <4>1 DEF StagesIn
      <3> QED
        BY <3>1, <3>2
    <2> QED
      BY <2>1, <2>2 DEF StagesIn
  <1>11. \A u \in PendingIn(m) : u = t
    BY <1>1, <1>3 DEF PendingIn, OnePending
  <1>12. s = "database" => t.head = l
    BY <1>1, <1>6 DEF OnePending
  <1>13. OnePending(m, l)
    BY <1>3, <1>6, <1>11, <1>12 DEF OnePending
  <1>14. OnceIn(m, l, d)
    BY <1>1, <1>3 DEF OnceIn
  <1> QED
    BY <1>7, <1>8, <1>10, <1>13, <1>14 DEF Agree

\* e is database d with commit c behind it.
DatabaseGrown(d, c, e) ==
    /\ List(e) /\ Len(e) = Len(d) + 1 /\ Len(d) \in Nat
    /\ \A i \in 1..Len(d) : e[i] = d[i]
    /\ e[Len(d) + 1] = c
    /\ c.kind = "bind" => BoundIn(e) = BoundIn(d) \cup {c.tx}
    /\ c.kind # "bind" => BoundIn(e) = BoundIn(d)

LEMMA DatabaseGrows ==
    ASSUME NEW d, List(d), NEW c, NEW e, e = Append(d, c)
    PROVE  DatabaseGrown(d, c, e)
  <1>1. /\ List(e) /\ Len(e) = Len(d) + 1 /\ Len(d) \in Nat
        /\ \A i \in 1..Len(d) : e[i] = d[i]
        /\ e[Len(d) + 1] = c
    BY FileAppended, ListLength
  <1>2. \A i \in 1..Len(e) : i \in 1..Len(d) \/ i = Len(d) + 1
    BY <1>1
  <1>3. \A i \in 1..Len(d) : i \in 1..Len(e)
    BY <1>1
  <1>4. Len(d) + 1 \in 1..Len(e)
    BY <1>1
  <1>5. c.kind = "bind" => BoundIn(e) = BoundIn(d) \cup {c.tx}
    BY <1>1, <1>2, <1>3, <1>4 DEF BoundIn
  <1>6. c.kind # "bind" => BoundIn(e) = BoundIn(d)
    BY <1>1, <1>2, <1>3, <1>4 DEF BoundIn
  <1> QED
    BY <1>1, <1>5, <1>6 DEF DatabaseGrown

\* put or delete of another command.
LEMMA PutAgrees ==
    ASSUME NEW j, NEW l, NEW d, Agree(j, l, d),
           NEW r, NEW v \in Digest \cup {Missing},
           NEW e, e = Append(d, [kind |-> "put", record |-> r, digest |-> v])
    PROVE  Agree(j, l, e)
  <1> DEFINE c == [kind |-> "put", record |-> r, digest |-> v]
  <1>1. c.kind = "put" /\ c.digest = v
    OBVIOUS
  <1> HIDE DEF c
  <1>2. e = Append(d, c)
    BY DEF c
  <1>3. List(d)
    BY DEF Agree, Shaped
  <1>4. /\ List(e) /\ Len(e) = Len(d) + 1 /\ Len(d) \in Nat
        /\ \A i \in 1..Len(d) : e[i] = d[i]
        /\ e[Len(d) + 1] = c
        /\ BoundIn(e) = BoundIn(d)
    <2>1. DatabaseGrown(d, c, e)
      BY <1>2, <1>3, DatabaseGrows
    <2> QED
      BY <1>1, <2>1 DEF DatabaseGrown
  <1>5. \A i \in 1..Len(e) : i \in 1..Len(d) \/ i = Len(d) + 1
    BY <1>4
  <1>6. Shaped(j, l, e)
    BY <1>1, <1>4, <1>5 DEF Agree, Shaped
  <1> QED
    BY <1>4, <1>6 DEF Agree, StagesIn, OnceIn

\* commit_binding_record of the transaction that was prepared.
LEMMA BindingAgrees ==
    ASSUME NEW j, NEW l, NEW d, Agree(j, l, d),
           NEW t \in PendingIn(j), StageIn(j, t) = "prepared",
           NEW e, e = Append(d, [kind |-> "bind", tx |-> t])
    PROVE  Agree(j, l, e) /\ t \in BoundIn(e)
  <1> DEFINE c == [kind |-> "bind", tx |-> t]
  <1>1. c.kind = "bind" /\ c.tx = t
    OBVIOUS
  <1> HIDE DEF c
  <1>2. e = Append(d, c)
    BY DEF c
  <1>3. /\ Shaped(j, l, d) /\ ReplaysIn(j, l) /\ StagesIn(j, l, d)
        /\ OnePending(j, l) /\ OnceIn(j, l, d)
    BY DEF Agree
  <1>4. List(d) /\ Len(l) \in Nat
    BY <1>3, Stages
  <1>5. /\ List(e) /\ Len(e) = Len(d) + 1 /\ Len(d) \in Nat
        /\ \A i \in 1..Len(d) : e[i] = d[i]
        /\ e[Len(d) + 1] = c
        /\ BoundIn(e) = BoundIn(d) \cup {t}
    <2>1. DatabaseGrown(d, c, e)
      BY <1>2, <1>4, DatabaseGrows
    <2> QED
      BY <1>1, <2>1 DEF DatabaseGrown
  <1>6. t \in TransactionsIn(j) /\ t.head = l
    BY <1>3 DEF PendingIn, OnePending
  <1>7. Place(t) = Len(l) + 1
    BY <1>6 DEF Place
  <1>8. \A i \in 1..Len(e) : i \in 1..Len(d) \/ i = Len(d) + 1
    BY <1>5
  <1>9. Shaped(j, l, e)
    BY <1>1, <1>3, <1>5, <1>8 DEF Shaped
  <1>10. StagesIn(j, l, e)
    BY <1>3, <1>5, <1>6 DEF StagesIn
  <1>11. \A i \in 1..Len(l) : i # Place(t)
    BY <1>4, <1>7
  <1>12. OnceIn(j, l, e)
    <2>1. BoundIn(e) \subseteq TransactionsIn(j)
      BY <1>3, <1>5, <1>6 DEF OnceIn
    <2>2. ASSUME NEW i \in 1..Len(l)
          PROVE  \E v \in BoundIn(e) :
                    /\ Place(v) = i /\ MatchesIn(l, v)
                    /\ \A u \in BoundIn(e) :
                          Place(u) = i /\ MatchesIn(l, u) => u = v
      <3>1. PICK v \in BoundIn(d) :
                    /\ Place(v) = i /\ MatchesIn(l, v)
                    /\ \A u \in BoundIn(d) :
                          Place(u) = i /\ MatchesIn(l, u) => u = v
        BY <1>3 DEF OnceIn
      <3> QED
        BY <1>5, <1>11, <3>1
    <2> QED
      BY <2>1, <2>2 DEF OnceIn
  <1> QED
    BY <1>3, <1>5, <1>9, <1>10, <1>12 DEF Agree

\* TrustLedger::apply of the transition of the pending transaction.
LEMMA TransitionAgrees ==
    ASSUME NEW j, NEW l, NEW d, Agree(j, l, d),
           NEW t \in PendingIn(j), StageIn(j, t) = "database", t.head = l,
           Accepts(l, IntentOf(t.request, t.digest)),
           NEW m, m = Append(l, FrameOf(l, IntentOf(t.request, t.digest)))
    PROVE  Agree(j, m, d) /\ MatchesIn(m, t)
  <1> DEFINE x == IntentOf(t.request, t.digest)
             n == Len(l) + 1
  <1>1. /\ Shaped(j, l, d) /\ ReplaysIn(j, l) /\ StagesIn(j, l, d)
        /\ OnePending(j, l) /\ OnceIn(j, l, d)
    BY DEF Agree
  <1>2. /\ Len(l) \in Nat /\ l \in Seq(Frame)
        /\ \A u \in TransactionsIn(j) :
              /\ StageIn(j, u) \in Stage
              /\ Place(u) \in Nat /\ Place(u) = Len(u.head) + 1
    BY <1>1, Stages
  <1>3. t \in TransactionsIn(j) /\ Transaction(t)
    BY <1>1, Stages DEF PendingIn
  <1>4. x \in Intent
    BY <1>3, IntentTyped DEF Transaction
  <1>5. t \in BoundIn(d)
    BY <1>1, <1>3 DEF StagesIn
  <1>6. /\ m \in Seq(Frame) /\ Len(m) = n
        /\ m[n].intent = x
        /\ \A i \in 1..Len(l) : m[i] = l[i]
        /\ \A i \in 0..Len(l) : SubSeq(m, 1, i) = SubSeq(l, 1, i)
        /\ SubSeq(m, 1, Len(l)) = l
        /\ \A i \in 1..Len(m) : FrameReplays(m, i)
    <2>1. \A i \in 1..Len(l) : FrameReplays(l, i)
      BY <1>1 DEF ReplaysIn
    <2>2. LedgerGrown(l, x, m)
      BY <1>2, <1>4, <2>1, LedgerGrows
    <2> QED
      BY <2>2 DEF LedgerGrown
  <1>7. Place(t) = n
    BY DEF Place
  <1> HIDE DEF x
  <1>8. MatchesIn(m, t)
    <2>1. Place(t) - 1 = Len(l) /\ Len(m) >= Place(t)
      BY <1>2, <1>6, <1>7
    <2>2. m[Place(t)].intent = IntentOf(t.request, t.digest)
      BY <1>6, <1>7 DEF x
    <2> QED
      BY <1>6, <2>1, <2>2 DEF MatchesIn
  <1>9. ASSUME NEW u \in TransactionsIn(j), Place(u) <= Len(l)
        PROVE  MatchesIn(m, u) <=> MatchesIn(l, u)
    <2>0. Len(u.head) \in Nat
      BY <1>1, Stages DEF Transaction
    <2>1. Place(u) - 1 \in 0..Len(l) /\ Place(u) \in 1..Len(l)
      BY <1>2, <1>9, <2>0
    <2>2. Len(m) >= Place(u)
      BY <1>2, <1>6, <1>9
    <2>3. SubSeq(m, 1, Place(u) - 1) = SubSeq(l, 1, Place(u) - 1)
          /\ m[Place(u)] = l[Place(u)]
      BY <1>6, <2>1, Zenon
    <2> QED
      BY <1>2, <1>9, <2>2, <2>3 DEF MatchesIn
  <1>10. ASSUME NEW u \in TransactionsIn(j), MatchesIn(l, u)
         PROVE  MatchesIn(m, u)
    <2>1. Place(u) <= Len(l)
      BY <1>2, <1>10 DEF MatchesIn
    <2> QED
      BY <1>9, <1>10, <2>1
  <1>11. ASSUME NEW u \in BoundIn(d), Place(u) = n
         PROVE  u = t
    <2>1. u \in TransactionsIn(j)
      BY <1>1 DEF OnceIn
    <2>2. ~MatchesIn(l, u)
      BY <1>2, <1>11 DEF MatchesIn
    <2>3. StageIn(j, u) \notin {"trust", "finalized", "aborted"}
      BY <1>1, <2>1, <2>2 DEF StagesIn
    <2>4. u \in PendingIn(j)
      BY <2>1, <2>3 DEF PendingIn
    <2> QED
      BY <1>1, <2>4 DEF OnePending
  <1>12. Shaped(j, m, d)
    BY <1>1, <1>6 DEF Shaped
  <1>13. ReplaysIn(j, m)
    BY <1>1, <1>6 DEF ReplaysIn
  <1>14. StagesIn(j, m, d)
    BY <1>1, <1>10 DEF StagesIn
  <1>15. OnePending(j, m)
    BY <1>1, <1>8 DEF OnePending
  <1>16. OnceIn(j, m, d)
    <2>1. ASSUME NEW i \in 1..Len(m)
          PROVE  \E v \in BoundIn(d) :
                    /\ Place(v) = i /\ MatchesIn(m, v)
                    /\ \A u \in BoundIn(d) :
                          Place(u) = i /\ MatchesIn(m, u) => u = v
      <3>1. CASE i = n
        BY <1>5, <1>7, <1>8, <1>11, <3>1
      <3>2. CASE i \in 1..Len(l)
        <4>1. PICK v \in BoundIn(d) :
                    /\ Place(v) = i /\ MatchesIn(l, v)
                    /\ \A u \in BoundIn(d) :
                          Place(u) = i /\ MatchesIn(l, u) => u = v
          BY <1>1, <3>2 DEF OnceIn
        <4>2. \A u \in BoundIn(d) : u \in TransactionsIn(j)
          BY <1>1 DEF OnceIn
        <4>3. i <= Len(l)
          BY <1>2, <3>2
        <4>4. MatchesIn(m, v)
          BY <1>10, <4>1, <4>2
        <4>5. ASSUME NEW u \in BoundIn(d), Place(u) = i, MatchesIn(m, u)
              PROVE  u = v
          <5>1. MatchesIn(l, u)
            BY <1>9, <4>2, <4>3, <4>5
          <5> QED
            BY <4>1, <4>5, <5>1
        <4> QED
          BY <4>1, <4>4, <4>5
      <3> QED
        BY <1>2, <1>6, <3>1, <3>2
    <2> QED
      BY <1>1, <2>1 DEF OnceIn
  <1> QED
    BY <1>8, <1>12, <1>13, <1>14, <1>15, <1>16 DEF Agree

-----------------------------------------------------------------------------
(* The files on disk, step by step. *)

\* m has the entries of j, and perhaps more.
Longer(j, m) == Len(j) <= Len(m) /\ \A i \in 1..Len(j) : m[i] = j[i]

LEMMA FinalizedStays ==
    ASSUME NEW j, NEW m, List(j), List(m), Longer(j, m), NEW q, FinalizedIn(j, q)
    PROVE  FinalizedIn(m, q)
  <1>1. PICK i \in 1..Len(j) : j[i][2] = "finalized" /\ j[i][1].request = q
    BY DEF FinalizedIn
  <1>2. i \in 1..Len(m) /\ m[i] = j[i]
    BY <1>1, ListLength DEF Longer
  <1> QED
    BY <1>1, <1>2 DEF FinalizedIn

LEMMA FileLengths ==
    /\ FileLen("journal") = Len(journal)
    /\ FileLen("ledger") = Len(ledger)
    /\ FileLen("db") = Len(db)
  BY DEF FileLen

LEMMA DiskFacts ==
    ASSUME Agree(journal, ledger, db)
    PROVE  /\ List(journal) /\ List(ledger) /\ List(db)
           /\ Len(journal) \in Nat /\ Len(ledger) \in Nat /\ Len(db) \in Nat
  BY ListLength DEF Agree, Shaped, List

\* Of a file that is fsynced to its end, all is kept.
LEMMA KeptWhole ==
    ASSUME NEW s, List(s), NEW n, n = Len(s) \/ MaxPower = 0
    PROVE  KeptOf(s, n) = s
  BY Prefix, ListLength DEF KeptOf

LEMMA KeptAll ==
    ASSUME DiskInv, dirty = "none"
    PROVE  KeptJournal = journal /\ KeptLedger = ledger /\ KeptDb = db
  <1>1. MaxPower # 0 => /\ synced["journal"] = Len(journal)
                        /\ synced["ledger"] = Len(ledger)
                        /\ synced["db"] = Len(db)
    BY FileLengths DEF DiskInv, Covered, File
  <1>2. List(journal) /\ List(ledger) /\ List(db)
    BY DiskFacts DEF DiskInv
  <1> QED
    BY <1>1, <1>2, KeptWhole DEF KeptJournal, KeptLedger, KeptDb

LEMMA LongerItself ==
    ASSUME NEW j, List(j)
    PROVE  Longer(j, j)
  BY ListLength DEF Longer

LEMMA KeptIsList ==
    ASSUME DiskInv
    PROVE  List(KeptJournal)
  BY DEF DiskInv, Agree, Shaped

\* No file is touched.
LEMMA QuietStep ==
    ASSUME DiskInv, UNCHANGED <<files, synced, dirty>>
    PROVE  DiskInv' /\ Longer(KeptJournal, KeptJournal')
  <1>1. /\ journal' = journal /\ ledger' = ledger /\ db' = db
        /\ synced' = synced /\ dirty' = dirty
    BY DEF files
  <1>2. KeptJournal' = KeptJournal /\ KeptLedger' = KeptLedger /\ KeptDb' = KeptDb
    BY <1>1 DEF KeptJournal, KeptLedger, KeptDb
  <1>3. \A f \in File : FileLen(f)' = FileLen(f)
    BY <1>1 DEF FileLen
  <1>4. Counted' /\ Covered'
    BY <1>1, <1>3 DEF DiskInv, Counted, Covered
  <1>5. Longer(KeptJournal, KeptJournal)
    BY KeptIsList, LongerItself
  <1> QED
    BY <1>1, <1>2, <1>4, <1>5 DEF DiskInv

\* A file whose append is not fsynced loses it and nothing else.
LEMMA KeptAppend ==
    ASSUME NEW s, List(s), NEW e, NEW m, m = Append(s, e), NEW n,
           MaxPower # 0 => n = Len(s)
    PROVE  KeptOf(m, n) = IF MaxPower = 0 THEN m ELSE s
  BY FileAppended DEF KeptOf

\* An append, before its fsync.
LEMMA AppendStep ==
    ASSUME DiskInv, dirty = "none", UNCHANGED synced,
           \/ /\ dirty' = "journal" /\ UNCHANGED <<ledger, db>>
              /\ \E e : journal' = Append(journal, e)
           \/ /\ dirty' = "ledger" /\ UNCHANGED <<journal, db>>
              /\ \E e : ledger' = Append(ledger, e)
           \/ /\ dirty' = "db" /\ UNCHANGED <<journal, ledger>>
              /\ \E e : db' = Append(db, e),
           Agree(journal', ledger', db')
    PROVE  DiskInv' /\ Longer(KeptJournal, KeptJournal')
  <1>1. /\ List(journal) /\ List(ledger) /\ List(db)
        /\ Len(journal) \in Nat /\ Len(ledger) \in Nat /\ Len(db) \in Nat
    BY DiskFacts DEF DiskInv
  <1>2. KeptJournal = journal /\ KeptLedger = ledger /\ KeptDb = db
    BY KeptAll
  <1>3. /\ synced' = synced /\ synced \in [File -> Nat]
        /\ synced["journal"] <= Len(journal)
        /\ synced["ledger"] <= Len(ledger)
        /\ synced["db"] <= Len(db)
    BY FileLengths DEF DiskInv, Counted, File
  <1>4. MaxPower # 0 => /\ synced["journal"] = Len(journal)
                        /\ synced["ledger"] = Len(ledger)
                        /\ synced["db"] = Len(db)
    BY FileLengths DEF DiskInv, Covered, File
  <1>5. /\ FileLen("journal")' = Len(journal')
        /\ FileLen("ledger")' = Len(ledger')
        /\ FileLen("db")' = Len(db')
    BY DEF FileLen
  <1>6. Agree(journal, ledger, db)
    BY DEF DiskInv
  <1> SUFFICES Counted' /\ Covered' /\ Agree(KeptJournal', KeptLedger', KeptDb')
               /\ Longer(KeptJournal, KeptJournal')
    BY DEF DiskInv
  <1>7. CASE dirty' = "journal" /\ UNCHANGED <<ledger, db>>
             /\ \E e : journal' = Append(journal, e)
    <2>1. PICK e : journal' = Append(journal, e)
      BY <1>7
    <2>2. Len(journal') = Len(journal) + 1 /\ List(journal')
          /\ \A i \in 1..Len(journal) : journal'[i] = journal[i]
      BY <1>1, <2>1, FileAppended
    <2>3. Counted' /\ Covered'
      BY <1>1, <1>3, <1>4, <1>5, <1>7, <2>2 DEF Counted, Covered, File
    <2>4. KeptJournal' = IF MaxPower = 0 THEN journal' ELSE journal
      BY <1>1, <1>3, <1>4, <2>1, KeptAppend DEF KeptJournal
    <2>5. KeptLedger' = ledger /\ KeptDb' = db
      BY <1>1, <1>3, <1>4, <1>7, KeptWhole DEF KeptLedger, KeptDb
    <2>6. Longer(journal, journal')
      BY <1>1, <2>2 DEF Longer
    <2>7. Longer(journal, journal)
      BY <1>1, LongerItself
    <2> QED
      BY <1>2, <1>6, <1>7, <2>3, <2>4, <2>5, <2>6, <2>7
  <1>8. CASE dirty' = "ledger" /\ UNCHANGED <<journal, db>>
             /\ \E e : ledger' = Append(ledger, e)
    <2>1. PICK e : ledger' = Append(ledger, e)
      BY <1>8
    <2>2. Len(ledger') = Len(ledger) + 1 /\ List(ledger')
      BY <1>1, <2>1, FileAppended
    <2>3. Counted' /\ Covered'
      BY <1>1, <1>3, <1>4, <1>5, <1>8, <2>2 DEF Counted, Covered, File
    <2>4. KeptLedger' = IF MaxPower = 0 THEN ledger' ELSE ledger
      BY <1>1, <1>3, <1>4, <2>1, KeptAppend DEF KeptLedger
    <2>5. KeptJournal' = journal /\ KeptDb' = db
      BY <1>1, <1>3, <1>4, <1>8, KeptWhole DEF KeptJournal, KeptDb
    <2>6. Longer(journal, journal)
      BY <1>1, LongerItself
    <2> QED
      BY <1>2, <1>6, <1>8, <2>3, <2>4, <2>5, <2>6
  <1>9. CASE dirty' = "db" /\ UNCHANGED <<journal, ledger>>
             /\ \E e : db' = Append(db, e)
    <2>1. PICK e : db' = Append(db, e)
      BY <1>9
    <2>2. Len(db') = Len(db) + 1 /\ List(db')
      BY <1>1, <2>1, FileAppended
    <2>3. Counted' /\ Covered'
      BY <1>1, <1>3, <1>4, <1>5, <1>9, <2>2 DEF Counted, Covered, File
    <2>4. KeptDb' = IF MaxPower = 0 THEN db' ELSE db
      BY <1>1, <1>3, <1>4, <2>1, KeptAppend DEF KeptDb
    <2>5. KeptJournal' = journal /\ KeptLedger' = ledger
      BY <1>1, <1>3, <1>4, <1>9, KeptWhole DEF KeptJournal, KeptLedger
    <2>6. Longer(journal, journal)
      BY <1>1, LongerItself
    <2> QED
      BY <1>2, <1>6, <1>9, <2>3, <2>4, <2>5, <2>6
  <1> QED
    BY <1>7, <1>8, <1>9

\* What is kept is the beginning of the journal.
LEMMA JournalLonger ==
    ASSUME DiskInv
    PROVE  Longer(KeptJournal, journal)
  <1>1. List(journal) /\ Len(journal) \in Nat
    BY DiskFacts DEF DiskInv
  <1>2. synced["journal"] \in 0..Len(journal)
    BY <1>1, FileLengths DEF DiskInv, Counted, File
  <1>3. CASE MaxPower = 0
    BY <1>1, <1>3, LongerItself DEF KeptJournal, KeptOf
  <1>4. CASE MaxPower # 0
    <2>1. KeptJournal = SubSeq(journal, 1, synced["journal"])
      BY <1>4 DEF KeptJournal, KeptOf
    <2> QED
      BY <1>1, <1>2, <2>1, Prefix DEF Longer
  <1> QED
    BY <1>3, <1>4

\* The fsync of the last append.
LEMMA SyncStep ==
    ASSUME DiskInv, Sync
    PROVE  DiskInv' /\ Longer(KeptJournal, KeptJournal')
  <1>1. /\ List(journal) /\ List(ledger) /\ List(db)
        /\ Len(journal) \in Nat /\ Len(ledger) \in Nat /\ Len(db) \in Nat
    BY DiskFacts DEF DiskInv
  <1>2. /\ dirty \in File /\ dirty' = "none"
        /\ synced' = [synced EXCEPT ![dirty] = FileLen(dirty)]
        /\ journal' = journal /\ ledger' = ledger /\ db' = db
    BY DEF Sync, DiskInv, Counted, files
  <1>3. \A f \in File : FileLen(f)' = FileLen(f) /\ FileLen(f) \in Nat
    BY <1>1, <1>2, FileLengths DEF FileLen, File
  <1>4. \A f \in File : synced'[f] = IF f = dirty THEN FileLen(f) ELSE synced[f]
    BY <1>2 DEF DiskInv, Counted
  <1>5. Counted' /\ Covered'
    <2>1. synced' \in [File -> Nat]
      BY <1>2, <1>3 DEF DiskInv, Counted
    <2>2. \A f \in File : synced'[f] <= FileLen(f)
      BY <1>3, <1>4 DEF DiskInv, Counted
    <2>3. Counted'
      BY <1>2, <1>3, <2>1, <2>2 DEF Counted
    <2>4. MaxPower # 0 => \A f \in File : synced'[f] = FileLen(f)
      BY <1>4 DEF DiskInv, Covered
    <2>5. "none" \notin File
      BY DEF File
    <2>6. Covered'
      BY <1>2, <1>3, <2>4, <2>5 DEF Covered
    <2> QED
      BY <2>3, <2>6
  <1>6. MaxPower # 0 => \A f \in File : synced'[f] = FileLen(f)
    BY <1>3, <1>4 DEF DiskInv, Covered
  <1>7. KeptJournal' = journal /\ KeptLedger' = ledger /\ KeptDb' = db
    BY <1>1, <1>2, <1>6, KeptWhole, FileLengths
       DEF KeptJournal, KeptLedger, KeptDb, File
  <1> QED
    BY <1>2, <1>5, <1>7, JournalLonger DEF DiskInv

\* put or delete of the command line, with its own fsync.
LEMMA PutStep ==
    ASSUME DiskInv, dirty = "none", dirty' = dirty,
           UNCHANGED <<journal, ledger>>, NEW e, db' = Append(db, e),
           synced' = [synced EXCEPT !["db"] = Len(db) + 1],
           Agree(journal', ledger', db')
    PROVE  DiskInv' /\ Longer(KeptJournal, KeptJournal')
  <1>1. /\ List(journal) /\ List(ledger) /\ List(db)
        /\ Len(journal) \in Nat /\ Len(ledger) \in Nat /\ Len(db) \in Nat
    BY DiskFacts DEF DiskInv
  <1>2. KeptJournal = journal
    BY KeptAll
  <1>3. Len(db') = Len(db) + 1 /\ List(db')
    BY <1>1, FileAppended
  <1>4. /\ FileLen("journal")' = Len(journal)
        /\ FileLen("ledger")' = Len(ledger)
        /\ FileLen("db")' = Len(db) + 1
    BY <1>3 DEF FileLen
  <1>5. Counted' /\ Covered'
    BY <1>1, <1>4, FileLengths DEF DiskInv, Counted, Covered, File
  <1>6. MaxPower # 0 => /\ synced'["journal"] = Len(journal)
                        /\ synced'["ledger"] = Len(ledger)
                        /\ synced'["db"] = Len(db')
    BY <1>3, FileLengths DEF DiskInv, Counted, Covered, File
  <1>7. KeptJournal' = journal' /\ KeptLedger' = ledger' /\ KeptDb' = db'
    BY <1>1, <1>3, <1>6, KeptWhole DEF KeptJournal, KeptLedger, KeptDb
  <1> QED
    BY <1>1, <1>2, <1>5, <1>7, LongerItself DEF DiskInv

\* A killed process, where no power is lost.
LEMMA KillStep ==
    ASSUME DiskInv, MaxPower = 0, UNCHANGED <<files, synced>>, dirty' = "none"
    PROVE  DiskInv' /\ Longer(KeptJournal, KeptJournal')
  <1>1. journal' = journal /\ ledger' = ledger /\ db' = db /\ synced' = synced
    BY DEF files
  <1>2. \A f \in File : FileLen(f)' = FileLen(f)
    BY <1>1 DEF FileLen
  <1>3. Counted' /\ Covered'
    BY <1>1, <1>2 DEF DiskInv, Counted, Covered
  <1>4. /\ KeptJournal' = journal /\ KeptLedger' = ledger /\ KeptDb' = db
        /\ KeptJournal = journal
    BY <1>1 DEF KeptJournal, KeptLedger, KeptDb, KeptOf
  <1>5. Longer(journal, journal)
    BY DiskFacts, LongerItself DEF DiskInv
  <1> QED
    BY <1>1, <1>3, <1>4, <1>5 DEF DiskInv

\* A power loss cuts the file of the last append back to its fsync, or
\* leaves everything.
LEMMA PowerStep ==
    ASSUME DiskInv, PowerLoss, MaxPower # 0
    PROVE  DiskInv' /\ Longer(KeptJournal, KeptJournal')
  <1>1. /\ List(journal) /\ List(ledger) /\ List(db)
        /\ Len(journal) \in Nat /\ Len(ledger) \in Nat /\ Len(db) \in Nat
    BY DiskFacts DEF DiskInv
  <1>2. PICK j \in synced["journal"]..Len(journal),
             l \in synced["ledger"]..Len(ledger),
             d \in synced["db"]..Len(db) :
          /\ journal' = SubSeq(journal, 1, j)
          /\ ledger' = SubSeq(ledger, 1, l)
          /\ db' = SubSeq(db, 1, d)
          /\ synced' = [f \in File |-> CASE f = "journal" -> j
                                         [] f = "ledger" -> l
                                         [] f = "db" -> d]
          /\ dirty' = "none"
    BY DEF PowerLoss
  <1>3. /\ synced["journal"] \in Nat /\ synced["journal"] <= Len(journal)
        /\ synced["ledger"] \in Nat /\ synced["ledger"] <= Len(ledger)
        /\ synced["db"] \in Nat /\ synced["db"] <= Len(db)
    BY FileLengths DEF DiskInv, Counted, File
  <1>4. j \in 0..Len(journal) /\ l \in 0..Len(ledger) /\ d \in 0..Len(db)
    BY <1>1, <1>3
  <1>5. /\ List(journal') /\ Len(journal') = j
        /\ List(ledger') /\ Len(ledger') = l
        /\ List(db') /\ Len(db') = d
    BY <1>1, <1>2, <1>4, Prefix
  <1>6. synced'["journal"] = j /\ synced'["ledger"] = l /\ synced'["db"] = d
        /\ synced' \in [File -> Nat]
    BY <1>2, <1>4 DEF File
  <1>7. /\ FileLen("journal")' = j /\ FileLen("ledger")' = l
        /\ FileLen("db")' = d
    BY <1>5 DEF FileLen
  <1>8. Counted' /\ Covered'
    BY <1>2, <1>4, <1>6, <1>7 DEF Counted, Covered, File
  <1>9. KeptJournal' = journal' /\ KeptLedger' = ledger' /\ KeptDb' = db'
    BY <1>5, <1>6, KeptWhole DEF KeptJournal, KeptLedger, KeptDb
  <1>10. /\ synced["journal"] = IF dirty = "journal" THEN Len(journal) - 1
                                                     ELSE Len(journal)
         /\ synced["ledger"] = IF dirty = "ledger" THEN Len(ledger) - 1
                                                   ELSE Len(ledger)
         /\ synced["db"] = IF dirty = "db" THEN Len(db) - 1 ELSE Len(db)
    BY FileLengths DEF DiskInv, Covered, File
  <1>11. \/ j = Len(journal) /\ l = Len(ledger) /\ d = Len(db)
         \/ j = synced["journal"] /\ l = synced["ledger"] /\ d = synced["db"]
    BY <1>1, <1>3, <1>4, <1>10
  <1>12. \/ journal' = journal /\ ledger' = ledger /\ db' = db
         \/ journal' = KeptJournal /\ ledger' = KeptLedger /\ db' = KeptDb
    <2>1. CASE j = Len(journal) /\ l = Len(ledger) /\ d = Len(db)
      BY <1>1, <1>2, <1>4, <2>1, Prefix
    <2>2. CASE j = synced["journal"] /\ l = synced["ledger"] /\ d = synced["db"]
      BY <1>2, <2>2 DEF KeptJournal, KeptLedger, KeptDb, KeptOf
    <2> QED
      BY <1>11, <2>1, <2>2
  <1>13. Agree(journal', ledger', db')
    BY <1>12 DEF DiskInv
  <1>14. Longer(KeptJournal, journal')
    BY <1>12, JournalLonger, KeptIsList, LongerItself
  <1> QED
    BY <1>8, <1>9, <1>13, <1>14 DEF DiskInv

-----------------------------------------------------------------------------
(* The actions. *)

\* The model's terms are those of the three files.
LEMMA Terms ==
    /\ Bound = BoundIn(db)
    /\ Pending = PendingIn(journal)
    /\ \A t : LatestStage(t) = StageIn(journal, t)
    /\ \A t : TransitionMatches(t) <=> MatchesIn(ledger, t)
    /\ \A q : FinalizedBefore(q) <=> FinalizedIn(journal, q)
    /\ JournalReplays /\ LedgerReplays <=> ReplaysIn(journal, ledger)
  <1>1. Bound = BoundIn(db)
    BY DEF Bound, BoundIn
  <1>2. Pending = PendingIn(journal)
    BY DEF Pending, PendingIn, LatestStage
  <1>3. \A t : TransitionMatches(t) <=> MatchesIn(ledger, t)
    BY DEF TransitionMatches, PlaceTaken, MatchesIn
  <1> QED
    BY <1>1, <1>2, <1>3
       DEF LatestStage, FinalizedBefore, FinalizedIn, JournalReplays,
           LedgerReplays, ReplaysIn

LEMMA ContentTyped ==
    ASSUME Agree(journal, ledger, db), NEW r
    PROVE  Content(r) \in Digest \cup {Missing}
  <1>1. CASE Changed(r) = {}
    BY <1>1, CommitAssumption DEF Content
  <1>2. CASE Changed(r) # {}
    <2> DEFINE i == CHOOSE i \in Changed(r) : \A j \in Changed(r) : j <= i
    <2>1. Changed(r) \in SUBSET (1..Len(db)) /\ Len(db) \in Nat
      BY DiskFacts DEF Changed
    <2>2. \E k \in Changed(r) : \A j \in Changed(r) : j <= k
      BY <1>2, <2>1, Greatest
    <2>3. i \in Changed(r)
      BY <2>2
    <2>4. Content(r) = db[i].digest
      BY <1>2 DEF Content
    <2> HIDE DEF i
    <2> QED
      BY <2>3, <2>4 DEF Changed, Agree, Shaped
  <1> QED
    BY <1>1, <1>2

\* What is acknowledged stays so.
LEMMA OutcomeStays ==
    ASSUME DiskInv, OutcomeInv, DiskInv', Longer(KeptJournal, KeptJournal'),
           UNCHANGED <<policies, acked>>, torn' \subseteq File,
           changes' \in Nat, kills' \in Nat, power' \in Nat
    PROVE  OutcomeInv'
  <1>1. List(KeptJournal) /\ List(KeptJournal')
    BY DEF DiskInv, Agree, Shaped
  <1>2. \A q \in acked' : FinalizedIn(KeptJournal', q)
    BY <1>1, FinalizedStays DEF OutcomeInv
  <1> QED
    BY <1>2 DEF OutcomeInv

\* The transaction of a command that has not journalled FINALIZED.
LEMMA JobPending ==
    ASSUME CommitInv, pc \in Busy \ {"finalized"}
    PROVE  /\ job \in PendingIn(journal)
           /\ StageIn(journal, job) = StageAt(pc)
  BY DEF CommitInv, CommandInv, PendingIn, StageAt, Busy

\* recover_transaction, each of its stages.
LEMMA RecoverSteps ==
    ASSUME CommitInv, NEW t \in TransactionsIn(journal),
           \/ RecoverAborts(t) \/ RecoverDatabase(t) \/ RecoverApplies(t)
           \/ RecoverTrust(t) \/ RecoverFinal(t)
    PROVE  CommitInv'
  <1>1. DiskInv /\ Agree(journal, ledger, db)
    BY DEF CommitInv, DiskInv
  <1>2. /\ pc = "recovering" /\ dirty = "none" /\ t \in PendingIn(journal)
        /\ pc' = pc /\ request' = request
        /\ UNCHANGED <<synced, torn, policies, acked, changes, kills, power>>
    BY Terms DEF RecoverAborts, RecoverDatabase, RecoverApplies, RecoverTrust,
                 RecoverFinal, Recovering, Synchronized, rest, budget
  <1>3. ASSUME NEW s \in Stage, AppendJournal(t, s),
               s = "database" => t \in BoundIn(db),
               s = "trust" => MatchesIn(ledger, t),
               s = "aborted" => t \notin BoundIn(db)
        PROVE  DiskInv' /\ Longer(KeptJournal, KeptJournal')
    <2>1. /\ StageFollows(journal, t, s)
          /\ journal' = Append(journal, <<t, s>>)
          /\ dirty' = "journal" /\ ledger' = ledger /\ db' = db
      BY <1>3 DEF AppendJournal
    <2>2. Agree(journal', ledger, db)
      BY <1>1, <1>2, <1>3, <2>1, StageAgrees
    <2> QED
      BY <1>1, <1>2, <2>1, <2>2, AppendStep
  <1>4. ASSUME RecoverAborts(t)
        PROVE  DiskInv' /\ Longer(KeptJournal, KeptJournal')
    BY <1>3, <1>4, Terms DEF RecoverAborts, Stage
  <1>5. ASSUME RecoverDatabase(t)
        PROVE  DiskInv' /\ Longer(KeptJournal, KeptJournal')
    BY <1>3, <1>5, Terms DEF RecoverDatabase, Stage
  <1>6. ASSUME RecoverTrust(t)
        PROVE  DiskInv' /\ Longer(KeptJournal, KeptJournal')
    BY <1>3, <1>6, Terms DEF RecoverTrust, Stage
  <1>7. ASSUME RecoverFinal(t)
        PROVE  DiskInv' /\ Longer(KeptJournal, KeptJournal')
    BY <1>3, <1>7, Terms DEF RecoverFinal, Stage
  <1>8. ASSUME RecoverApplies(t)
        PROVE  DiskInv' /\ Longer(KeptJournal, KeptJournal')
    <2>1. /\ StageIn(journal, t) = "database" /\ t.head = ledger
          /\ Accepts(ledger, IntentOf(t.request, t.digest))
          /\ ledger' = Append(ledger, FrameOf(ledger, IntentOf(t.request, t.digest)))
          /\ dirty' = "ledger" /\ journal' = journal /\ db' = db
      BY <1>8, Terms DEF RecoverApplies, AppendLedger
    <2>2. Agree(journal, ledger', db)
      BY <1>1, <1>2, <2>1, TransitionAgrees
    <2> QED
      BY <1>1, <1>2, <2>1, <2>2, AppendStep
  <1>9. DiskInv' /\ Longer(KeptJournal, KeptJournal')
    BY <1>4, <1>5, <1>6, <1>7, <1>8
  <1>10. OutcomeInv'
    BY <1>1, <1>2, <1>9, OutcomeStays DEF CommitInv, OutcomeInv
  <1>11. CommandInv'
    BY <1>2 DEF CommitInv, CommandInv, Idle, Busy
  <1> QED
    BY <1>9, <1>10, <1>11 DEF CommitInv

\* Steps that touch no file and leave the transaction alone.
LEMMA QuietCommand ==
    ASSUME CommitInv, UNCHANGED <<files, synced, dirty, policies, acked>>,
           torn' = torn, changes' \in Nat, kills' \in Nat, power' \in Nat,
           CommandInv'
    PROVE  CommitInv'
  <1>1. DiskInv' /\ Longer(KeptJournal, KeptJournal')
    BY QuietStep DEF CommitInv
  <1>2. OutcomeInv'
    BY <1>1, OutcomeStays DEF CommitInv, OutcomeInv
  <1> QED
    BY <1>1, <1>2 DEF CommitInv

\* Opening, and the ends of a command without a receipt.
LEMMA OpenSteps ==
    ASSUME CommitInv,
           \/ \E q \in Requests : Start(q)
           \/ StartRefused \/ Exit \/ PrepareRejected \/ CheckpointFails
           \/ ApplyRejected \/ \E t \in TransactionsIn(journal) : RecoverFails(t)
    PROVE  CommitInv'
  <1>1. /\ UNCHANGED <<files, synced, dirty, policies, acked>>
        /\ torn' = torn
    BY DEF Start, StartRefused, Exit, PrepareRejected, CheckpointFails,
           ApplyRejected, RecoverFails, rest, files
  <1>2. changes' \in Nat /\ kills' \in Nat /\ power' \in Nat
    BY DEF Start, StartRefused, Exit, PrepareRejected, CheckpointFails,
           ApplyRejected, RecoverFails, rest, budget, CommitInv, OutcomeInv
  <1>3. ASSUME pc' \in {"closed", "stuck"}, dirty' = "none"
        PROVE  CommandInv'
    BY <1>3 DEF CommandInv, Idle, Busy
  <1>4. ASSUME \E q \in Requests : Start(q) PROVE CommandInv'
    BY <1>4 DEF Start, CommandInv, Idle, Busy
  <1>5. ASSUME StartRefused PROVE CommandInv'
    <2>1. ReplaysIn(journal, ledger)
      BY DEF CommitInv, DiskInv, Agree
    <2>2. torn # {}
      BY <1>5, <2>1, Terms DEF StartRefused, Opens
    <2> QED
      BY <1>1, <1>5, <2>2
         DEF StartRefused, CommitInv, CommandInv, Idle, Busy
  <1>6. ASSUME Exit PROVE CommandInv'
    BY <1>3, <1>6 DEF Exit, CommitInv, CommandInv, Idle
  <1>7. ASSUME PrepareRejected \/ CheckpointFails \/ ApplyRejected
               \/ \E t \in TransactionsIn(journal) : RecoverFails(t)
        PROVE  CommandInv'
    BY <1>3, <1>7
       DEF PrepareRejected, CheckpointFails, ApplyRejected, RecoverFails,
           Synchronized
  <1>8. CommandInv'
    BY <1>4, <1>5, <1>6, <1>7
  <1> QED
    BY <1>1, <1>2, <1>8, QuietCommand

\* Ok is returned for a request with a FINALIZED entry in what is kept.
LEMMA ReceiptSteps ==
    ASSUME CommitInv, Repeated \/ Return
    PROVE  CommitInv'
  <1>1. /\ UNCHANGED <<files, synced, dirty, torn, policies>>
        /\ changes' = changes /\ kills' = kills /\ power' = power
        /\ acked' = acked \cup {request} /\ pc' = "closed" /\ dirty = "none"
        /\ pc \in {"recovering", "finalized"}
    BY DEF Repeated, Return, budget, Synchronized
  <1>2. DiskInv' /\ KeptJournal' = KeptJournal
    <2>1. DiskInv'
      BY <1>1, QuietStep DEF CommitInv
    <2> QED
      BY <1>1, <2>1 DEF KeptJournal, files
  <1>3. KeptJournal = journal
    BY <1>1, KeptAll DEF CommitInv
  <1>4. request \in Requests
    BY <1>1 DEF CommitInv, CommandInv, Idle
  <1>5. FinalizedIn(journal, request)
    <2>1. CASE Repeated
      BY <2>1, Terms DEF Repeated
    <2>2. CASE Return
      <3>1. /\ job \in TransactionsIn(journal) /\ job.request = request
            /\ StageIn(journal, job) = "finalized"
        BY <2>2 DEF Return, CommitInv, CommandInv, Busy, StageAt
      <3>2. List(journal)
        BY DiskFacts DEF CommitInv, DiskInv
      <3> QED
        BY <3>1, <3>2, StageKnown DEF FinalizedIn
    <2> QED
      BY <2>1, <2>2
  <1>6. OutcomeInv'
    BY <1>1, <1>2, <1>3, <1>4, <1>5 DEF CommitInv, OutcomeInv
  <1>7. CommandInv'
    BY <1>1 DEF CommandInv, Idle, Busy
  <1> QED
    BY <1>2, <1>6, <1>7 DEF CommitInv


\* commit: prepare_context and the PREPARED entry.
LEMMA PrepareStep ==
    ASSUME CommitInv, Prepare
    PROVE  CommitInv'
  <1> DEFINE t == TransactionOf(request)
  <1>1. DiskInv /\ Agree(journal, ledger, db) /\ request \in Requests
    BY DEF CommitInv, DiskInv, Prepare, CommandInv, Idle
  <1>2. /\ dirty = "none" /\ PendingIn(journal) = {}
        /\ StageFollows(journal, t, "prepared") /\ t \notin BoundIn(db)
        /\ journal' = Append(journal, <<t, "prepared">>)
        /\ dirty' = "journal" /\ ledger' = ledger /\ db' = db
        /\ job' = t /\ pc' = "prepared" /\ request' = request
        /\ UNCHANGED <<synced, torn, policies, acked, changes, kills, power>>
    BY Terms DEF Prepare, Preparable, AppendJournal, Synchronized, rest, budget
  <1>3. t.head = ledger /\ t.request = request /\ t.digest = Content(request.record)
    BY DEF TransactionOf
  <1>4. Content(request.record) # Missing
    BY DEF Prepare, Preparable
  <1> HIDE DEF t
  <1>5. Transaction(t)
    BY <1>1, <1>3, <1>4, ContentTyped DEF Transaction, Agree, Shaped
  <1>6. Agree(journal', ledger, db)
    BY <1>1, <1>2, <1>3, <1>5, PreparedAgrees
  <1>7. DiskInv' /\ Longer(KeptJournal, KeptJournal')
    BY <1>1, <1>2, <1>6, AppendStep
  <1>8. OutcomeInv'
    BY <1>1, <1>2, <1>7, OutcomeStays DEF CommitInv, OutcomeInv
  <1>9. JournalGrown(journal, t, "prepared", journal')
    BY <1>1, <1>2, DiskFacts, JournalGrows
  <1>10. t \in TransactionsIn(journal') /\ StageIn(journal', t) = "prepared"
    BY <1>9 DEF JournalGrown
  <1>11. CommandInv'
    BY <1>1, <1>2, <1>3, <1>10 DEF CommandInv, Idle, Busy, StageAt
  <1> QED
    BY <1>7, <1>8, <1>11 DEF CommitInv

\* commit: the later stages of its own transaction.
LEMMA StageStep ==
    ASSUME CommitInv, DatabaseCommitted \/ TrustCommitted \/ Finalize
    PROVE  CommitInv'
  <1>1. DiskInv /\ Agree(journal, ledger, db)
    BY DEF CommitInv, DiskInv
  <1>2. /\ job \in PendingIn(journal) /\ job.request = request
        /\ request \in Requests
    BY JobPending DEF DatabaseCommitted, TrustCommitted, Finalize, CommitInv,
                      CommandInv, Busy, Idle
  <1>3. \E s \in Stage :
          /\ AppendJournal(job, s) /\ pc' \in Busy
          /\ s = StageAt(pc') /\ s \in {"database", "trust", "finalized"}
          /\ s = "database" => job \in BoundIn(db) /\ pc' = "database"
                               /\ StageIn(journal, job) = "prepared"
          /\ s = "trust" => MatchesIn(ledger, job) /\ pc' = "trust"
          /\ s = "finalized" => pc' = "finalized"
    <2>1. CASE DatabaseCommitted
      BY <2>1 DEF DatabaseCommitted, Stage, StageAt, Busy, CommitInv, CommandInv
    <2>2. CASE TrustCommitted
      BY <2>2, Terms DEF TrustCommitted, Stage, StageAt, Busy
    <2>3. CASE Finalize
      BY <2>3 DEF Finalize, Stage, StageAt, Busy
    <2> QED
      BY <2>1, <2>2, <2>3
  <1>4. PICK s \in Stage :
          /\ AppendJournal(job, s) /\ pc' \in Busy
          /\ s = StageAt(pc') /\ s \in {"database", "trust", "finalized"}
          /\ s = "database" => job \in BoundIn(db) /\ pc' = "database"
                               /\ StageIn(journal, job) = "prepared"
          /\ s = "trust" => MatchesIn(ledger, job) /\ pc' = "trust"
          /\ s = "finalized" => pc' = "finalized"
    BY <1>3
  <1>5. /\ dirty = "none" /\ request' = request /\ job' = job
        /\ UNCHANGED <<synced, torn, policies, acked, changes, kills, power>>
    BY DEF DatabaseCommitted, TrustCommitted, Finalize, Synchronized, rest, budget
  <1>6. /\ StageFollows(journal, job, s)
        /\ journal' = Append(journal, <<job, s>>)
        /\ dirty' = "journal" /\ ledger' = ledger /\ db' = db
    BY <1>4 DEF AppendJournal
  <1>7. Agree(journal', ledger, db)
    BY <1>1, <1>2, <1>4, <1>6, StageAgrees
  <1>8. DiskInv' /\ Longer(KeptJournal, KeptJournal')
    BY <1>1, <1>5, <1>6, <1>7, AppendStep
  <1>9. OutcomeInv'
    BY <1>1, <1>5, <1>8, OutcomeStays DEF CommitInv, OutcomeInv
  <1>10. JournalGrown(journal, job, s, journal')
    BY <1>1, <1>6, DiskFacts, JournalGrows
  <1>11. job' \in TransactionsIn(journal') /\ StageIn(journal', job') = s
    BY <1>5, <1>10 DEF JournalGrown
  <1>12. pc' = "database" => job.head = ledger
    <2>1. pc' = "database" => s = "database"
      BY <1>4 DEF StageAt
    <2>2. s = "database" => StageIn(journal, job) = "prepared"
      BY <1>4
    <2> QED
      BY <1>1, <1>2, <2>1, <2>2 DEF Agree, OnePending
  <1>13. pc' \in {"database", "trust", "finalized"}
    BY <1>4
  <1>14. CommandInv'
    BY <1>2, <1>4, <1>5, <1>6, <1>11, <1>12, <1>13 DEF CommandInv, Idle, Busy
  <1> QED
    BY <1>8, <1>9, <1>14 DEF CommitInv

\* commit: the binding record.
LEMMA BindingStep ==
    ASSUME CommitInv, CommitBinding
    PROVE  CommitInv'
  <1>1. DiskInv /\ Agree(journal, ledger, db)
    BY DEF CommitInv, DiskInv
  <1>2. /\ job \in PendingIn(journal) /\ StageIn(journal, job) = "prepared"
        /\ job \in TransactionsIn(journal)
        /\ job.request = request /\ request \in Requests
    BY JobPending
       DEF CommitBinding, CommitInv, CommandInv, Busy, Idle, StageAt
  <1>3. /\ dirty = "none" /\ request' = request /\ job' = job /\ pc' = "bound"
        /\ db' = Append(db, [kind |-> "bind", tx |-> job])
        /\ dirty' = "db" /\ journal' = journal /\ ledger' = ledger
        /\ UNCHANGED <<synced, torn, policies, acked, changes, kills, power>>
    BY DEF CommitBinding, AppendBinding, Synchronized, rest, budget
  <1>4. Agree(journal, ledger, db') /\ job \in BoundIn(db')
    BY <1>1, <1>2, <1>3, BindingAgrees
  <1>5. DiskInv' /\ Longer(KeptJournal, KeptJournal')
    BY <1>1, <1>3, <1>4, AppendStep
  <1>6. OutcomeInv'
    BY <1>1, <1>3, <1>5, OutcomeStays DEF CommitInv, OutcomeInv
  <1>7. CommandInv'
    BY <1>2, <1>3, <1>4 DEF CommandInv, Idle, Busy, StageAt
  <1> QED
    BY <1>5, <1>6, <1>7 DEF CommitInv

\* commit: the transition.
LEMMA TransitionStep ==
    ASSUME CommitInv, ApplyTransition
    PROVE  CommitInv'
  <1>1. DiskInv /\ Agree(journal, ledger, db)
    BY DEF CommitInv, DiskInv
  <1>2. /\ job \in PendingIn(journal) /\ StageIn(journal, job) = "database"
        /\ job \in TransactionsIn(journal) /\ job.head = ledger
        /\ job.request = request /\ request \in Requests
    BY JobPending
       DEF ApplyTransition, CommitInv, CommandInv, Busy, Idle, StageAt
  <1>3. /\ dirty = "none" /\ request' = request /\ job' = job /\ pc' = "applied"
        /\ Accepts(ledger, IntentOf(job.request, job.digest))
        /\ ledger' = Append(ledger, FrameOf(ledger, IntentOf(job.request, job.digest)))
        /\ dirty' = "ledger" /\ journal' = journal /\ db' = db
        /\ UNCHANGED <<synced, torn, policies, acked, changes, kills, power>>
    BY DEF ApplyTransition, AppendLedger, Synchronized, rest, budget
  <1>4. Agree(journal, ledger', db) /\ MatchesIn(ledger', job)
    BY <1>1, <1>2, <1>3, TransitionAgrees
  <1>5. DiskInv' /\ Longer(KeptJournal, KeptJournal')
    BY <1>1, <1>3, <1>4, AppendStep
  <1>6. OutcomeInv'
    BY <1>1, <1>3, <1>5, OutcomeStays DEF CommitInv, OutcomeInv
  <1>7. CommandInv'
    BY <1>2, <1>3, <1>4 DEF CommandInv, Idle, Busy, StageAt
  <1> QED
    BY <1>5, <1>6, <1>7 DEF CommitInv

\* The fsync inside a command.
LEMMA FsyncStep ==
    ASSUME CommitInv, Sync
    PROVE  CommitInv'
  <1>1. DiskInv' /\ Longer(KeptJournal, KeptJournal')
    BY SyncStep DEF CommitInv
  <1>2. /\ UNCHANGED <<journal, ledger, db, torn, policies, pc, request, job, acked>>
        /\ dirty' = "none" /\ changes' = changes /\ kills' = kills /\ power' = power
    BY DEF Sync, files, budget
  <1>3. OutcomeInv'
    BY <1>1, <1>2, OutcomeStays DEF CommitInv, OutcomeInv
  <1>4. CommandInv'
    BY <1>2 DEF CommitInv, CommandInv
  <1> QED
    BY <1>1, <1>3, <1>4 DEF CommitInv

\* policy register.
LEMMA RegisterStep ==
    ASSUME CommitInv, NEW p \in Policy, Register(p)
    PROVE  CommitInv'
  <1>1. /\ UNCHANGED <<files, synced, torn, pc, request, job, dirty, acked>>
        /\ changes' = changes /\ kills' = kills /\ power' = power
        /\ policies' = policies \cup {p}
    BY DEF Register, command, budget
  <1>2. DiskInv' /\ KeptJournal' = KeptJournal
    <2>1. DiskInv'
      BY <1>1, QuietStep DEF CommitInv
    <2> QED
      BY <1>1, <2>1 DEF KeptJournal, files
  <1>3. OutcomeInv'
    BY <1>1, <1>2 DEF CommitInv, OutcomeInv
  <1>4. CommandInv'
    BY <1>1 DEF CommitInv, CommandInv, files
  <1> QED
    BY <1>2, <1>3, <1>4 DEF CommitInv

\* put or delete.
LEMMA ChangeStep ==
    ASSUME CommitInv, NEW r \in Record, NEW v \in Digest \cup {Missing},
           ChangeRecord(r, v)
    PROVE  CommitInv'
  <1>1. DiskInv /\ Agree(journal, ledger, db)
    BY DEF CommitInv, DiskInv
  <1>2. /\ pc = "closed" /\ pc' = pc /\ dirty = "none" /\ dirty' = dirty
        /\ db' = Append(db, [kind |-> "put", record |-> r, digest |-> v])
        /\ synced' = [synced EXCEPT !["db"] = Len(db) + 1]
        /\ UNCHANGED <<journal, ledger, torn, policies, acked, kills, power>>
        /\ changes' = changes + 1
    BY DEF ChangeRecord, command, CommitInv, CommandInv, Idle
  <1>3. Agree(journal, ledger, db')
    BY <1>1, <1>2, PutAgrees
  <1>4. DiskInv' /\ Longer(KeptJournal, KeptJournal')
    BY <1>1, <1>2, <1>3, PutStep
  <1>5. OutcomeInv'
    BY <1>1, <1>2, <1>4, OutcomeStays DEF CommitInv, OutcomeInv
  <1>6. CommandInv'
    BY <1>2 DEF CommandInv, Idle, Busy
  <1> QED
    BY <1>4, <1>5, <1>6 DEF CommitInv

\* The runs' faults: processes are killed or power is lost, not both.
OneFault == MaxKills = 0 \/ MaxPower = 0

LEMMA FaultSteps ==
    ASSUME CommitInv, OneFault, Kill \/ PowerLoss
    PROVE  CommitInv'
  <1>1. /\ pc' = "closed" /\ dirty' = "none"
        /\ UNCHANGED <<policies, acked>> /\ changes' = changes
    BY DEF Kill, PowerLoss
  <1>2. CASE Kill
    <2>1. MaxPower = 0
      BY <1>2, CommitAssumption DEF Kill, OneFault, CommitInv, OutcomeInv
    <2>2. DiskInv' /\ Longer(KeptJournal, KeptJournal')
      BY <1>1, <1>2, <2>1, KillStep DEF Kill, CommitInv
    <2>3. torn' \subseteq File
      BY <1>2 DEF Kill, NextFile, File, CommitInv, OutcomeInv
    <2>4. kills' \in Nat /\ power' = power
      BY <1>2 DEF Kill, CommitInv, OutcomeInv
    <2>5. OutcomeInv'
      BY <1>1, <2>2, <2>3, <2>4, OutcomeStays DEF CommitInv, OutcomeInv
    <2>6. CommandInv'
      BY <1>1 DEF CommandInv, Idle, Busy
    <2> QED
      BY <2>2, <2>5, <2>6 DEF CommitInv
  <1>3. CASE PowerLoss
    <2>1. MaxPower # 0
      BY <1>3, CommitAssumption DEF PowerLoss, CommitInv, OutcomeInv
    <2>2. DiskInv' /\ Longer(KeptJournal, KeptJournal')
      BY <1>3, <2>1, PowerStep DEF CommitInv
    <2>3. torn' \subseteq File
      BY <1>3 DEF PowerLoss, CommitInv, OutcomeInv
    <2>4. power' \in Nat /\ kills' = kills
      BY <1>3 DEF PowerLoss, CommitInv, OutcomeInv
    <2>5. OutcomeInv'
      BY <1>1, <2>2, <2>3, <2>4, OutcomeStays DEF CommitInv, OutcomeInv
    <2>6. CommandInv'
      BY <1>1 DEF CommandInv, Idle, Busy
    <2> QED
      BY <2>2, <2>5, <2>6 DEF CommitInv
  <1> QED
    BY <1>2, <1>3

-----------------------------------------------------------------------------
(* The theorems. *)

LEMMA CommitStarts == Init => CommitInv
  <1> SUFFICES ASSUME Init PROVE CommitInv
    OBVIOUS
  <1> USE DEF Init
  <1>1. List(<<>>) /\ Len(<<>>) = 0 /\ <<>> \in Seq(Frame)
    <2>1. <<>> \in Seq(Frame)
      OBVIOUS
    <2> QED
      BY <2>1 DEF List
  <1>2. TransactionsIn(<<>>) = {} /\ BoundIn(<<>>) = {} /\ PendingIn(<<>>) = {}
    BY <1>1 DEF TransactionsIn, BoundIn, PendingIn
  <1>3. Agree(<<>>, <<>>, <<>>)
    BY <1>1, <1>2
       DEF Agree, Shaped, ReplaysIn, StagesIn, OnePending, OnceIn
  <1>4. \A f \in File : FileLen(f) = 0
    BY <1>1, FileLengths DEF File
  <1>5. Counted /\ Covered
    BY <1>4 DEF Counted, Covered, File
  <1>6. KeptJournal = <<>> /\ KeptLedger = <<>> /\ KeptDb = <<>>
    BY <1>1, KeptWhole DEF KeptJournal, KeptLedger, KeptDb, File
  <1>7. DiskInv
    BY <1>3, <1>5, <1>6 DEF DiskInv
  <1>8. CommandInv /\ OutcomeInv
    BY DEF CommandInv, OutcomeInv, Idle, Busy
  <1> QED
    BY <1>7, <1>8 DEF CommitInv

LEMMA CommitSteps ==
    ASSUME OneFault, CommitInv, [Next]_vars
    PROVE  CommitInv'
  <1>1. CASE UNCHANGED vars
    <2>1. /\ UNCHANGED <<files, synced, dirty, policies, acked>>
          /\ torn' = torn /\ pc' = pc /\ request' = request /\ job' = job
          /\ changes' = changes /\ kills' = kills /\ power' = power
      BY <1>1 DEF vars, command, budget
    <2>2. CommandInv'
      BY <2>1 DEF CommitInv, CommandInv, files
    <2> QED
      BY <2>1, <2>2, QuietCommand DEF CommitInv, OutcomeInv
  <1>2. CASE Recover
    BY <1>2, RecoverSteps, OpenSteps DEF Recover
  <1>3. CASE Commit
    BY <1>3, ReceiptSteps, PrepareStep, OpenSteps, BindingStep, StageStep,
       TransitionStep DEF Commit
  <1>4. CASE \/ \E q \in Requests : Start(q)
             \/ StartRefused \/ Exit \/ Sync
             \/ \E p \in Policy : Register(p)
             \/ \E r \in Record, d \in Digest \cup {Missing} : ChangeRecord(r, d)
             \/ Kill \/ PowerLoss
    BY <1>4, OpenSteps, FsyncStep, RegisterStep, ChangeStep, FaultSteps
  <1> QED
    BY <1>1, <1>2, <1>3, <1>4 DEF Next

LEMMA CommitInvariant == ASSUME OneFault PROVE Spec => []CommitInv
  <1>1. Init => CommitInv
    BY CommitStarts
  <1>2. CommitInv /\ [Next]_vars => CommitInv'
    BY CommitSteps
  <1> QED
    BY <1>1, <1>2, PTL DEF Spec

\* Every variable keeps its type, and no fsync is counted beyond its file.
THEOREM CommitTyped == ASSUME OneFault PROVE Spec => []TypeOK
  <1>1. ASSUME CommitInv PROVE TypeOK
    <2>1. \A i \in 1..Len(journal) : journal[i][2] \in Stage
      BY <1>1 DEF CommitInv, DiskInv, Agree, Shaped
    <2>2. ledger \in Seq(Frame)
      BY <1>1 DEF CommitInv, DiskInv, Agree, Shaped
    <2>3. \A f \in File : FileLen(f) \in Nat
      BY <1>1, DiskFacts, FileLengths DEF CommitInv, DiskInv, File
    <2>4. \A f \in File : synced[f] \in 0..FileLen(f)
      BY <1>1, <2>3 DEF CommitInv, DiskInv, Counted
    <2> QED
      BY <1>1, <2>1, <2>2, <2>4
         DEF TypeOK, CommitInv, DiskInv, Counted, CommandInv, OutcomeInv, Idle, Busy
  <1> QED
    BY <1>1, CommitInvariant, PTL

\* Whatever is killed or lost between two writes, the stage the journal shows
\* is true: past DATABASE_COMMITTED the binding record is in the database,
\* past TRUST_COMMITTED the transition is in the ledger at its place, and
\* nothing aborted is bound.
THEOREM StagesHold == ASSUME OneFault PROVE Spec => []StagesAgree
  <1>1. ASSUME CommitInv PROVE StagesAgree
    BY <1>1, Terms DEF CommitInv, DiskInv, Agree, StagesIn, StagesAgree
  <1> QED
    BY <1>1, CommitInvariant, PTL

\* Recovery neither repeats a transition nor makes one up: every transition
\* in the ledger belongs to exactly one bound transaction.
THEOREM TransitionsOnce == ASSUME OneFault PROVE Spec => []OncePerTransaction
  <1>1. ASSUME CommitInv PROVE OncePerTransaction
    <2>1. ASSUME NEW i \in 1..Len(ledger)
          PROVE  Cardinality({t \in Bound : Place(t) = i /\ TransitionMatches(t)}) = 1
      <3>1. PICK t \in Bound :
              /\ Place(t) = i /\ TransitionMatches(t)
              /\ \A u \in Bound : Place(u) = i /\ TransitionMatches(u) => u = t
        BY <1>1, Terms DEF CommitInv, DiskInv, Agree, OnceIn
      <3>2. {u \in Bound : Place(u) = i /\ TransitionMatches(u)} = {t}
        BY <3>1
      <3> QED
        BY <3>2, FS_Singleton
    <2> QED
      BY <2>1 DEF OncePerTransaction
  <1> QED
    BY <1>1, CommitInvariant, PTL

\* A request answered with Ok has its transition in the ledger, whatever
\* happens afterwards.
THEOREM AckedStays == ASSUME OneFault PROVE Spec => []AckedInLedger
  <1>1. ASSUME CommitInv PROVE AckedInLedger
    <2>1. Shaped(journal, ledger, db) /\ StagesIn(journal, ledger, db)
      BY <1>1 DEF CommitInv, DiskInv, Agree
    <2>2. List(journal) /\ List(KeptJournal) /\ Longer(KeptJournal, journal)
      BY <1>1, DiskFacts, KeptIsList, JournalLonger DEF CommitInv, DiskInv
    <2>3. ASSUME NEW q \in acked
          PROVE  \E i \in 1..Len(ledger) :
                    ledger[i].intent = IntentOf(q, ledger[i].intent.digest)
      <3>1. FinalizedIn(journal, q)
        BY <1>1, <2>2, FinalizedStays DEF CommitInv, OutcomeInv
      <3>2. PICK k \in 1..Len(journal) :
              journal[k][2] = "finalized" /\ journal[k][1].request = q
        BY <3>1 DEF FinalizedIn
      <3> DEFINE t == journal[k][1]
      <3>3. t \in TransactionsIn(journal) /\ StageIn(journal, t) = "finalized"
        BY <2>1, <3>2 DEF TransactionsIn, StagesIn
      <3>4. MatchesIn(ledger, t) /\ t.request = q
        BY <2>1, <3>2, <3>3 DEF StagesIn
      <3>5. Place(t) \in Nat /\ Place(t) = Len(t.head) + 1 /\ Len(ledger) \in Nat
            /\ Transaction(t)
        BY <2>1, <3>3, Stages
      <3> HIDE DEF t
      <3>6. Place(t) \in 1..Len(ledger)
        <4>1. Len(t.head) \in Nat
          BY <3>5 DEF Transaction
        <4> QED
          BY <3>4, <3>5, <4>1 DEF MatchesIn
      <3>7. ledger[Place(t)].intent = IntentOf(q, t.digest)
        BY <3>4 DEF MatchesIn
      <3>8. ledger[Place(t)].intent.digest = t.digest
        BY <3>7 DEF IntentOf
      <3> QED
        BY <3>6, <3>7, <3>8
    <2> QED
      BY <2>3 DEF AckedInLedger
  <1> QED
    BY <1>1, CommitInvariant, PTL

\* What the coordinator writes, its strict opens accept: they refuse a file
\* only because of an incomplete end.
THEOREM OpensUnlessTorn == ASSUME OneFault PROVE Spec => []RefusedOnlyTorn
  <1>1. ASSUME CommitInv PROVE RefusedOnlyTorn
    BY <1>1 DEF CommitInv, CommandInv, RefusedOnlyTorn
  <1> QED
    BY <1>1, CommitInvariant, PTL

=============================================================================
