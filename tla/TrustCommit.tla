----------------------------- MODULE TrustCommit -----------------------------
(***************************************************************************)
(* TrustCommitCoordinator of ultraballoondb-trust-commit, as its caller    *)
(* commit_trust_authorized (ultraballoondb-trust-auth) drives it: every    *)
(* command opens the coordinator, which first recovers what the journal    *)
(* shows as pending, and then commits one request in three files: the      *)
(* journal, the database (a binding record) and the trust ledger.          *)
(*                                                                         *)
(* Every append is a write and an fsync; in between the process may be     *)
(* killed or the power may fail.  The database is its sequence of commits, *)
(* as DurableLog promises it.                                              *)
(*                                                                         *)
(* A transaction id is the SHA-256 of the database state, the trust head,  *)
(* the policy, the record digest and the request, and is modelled by       *)
(* these.  The other fields of a journal entry and of a binding record are *)
(* functions of them: validate_same_transaction and                        *)
(* validate_binding_record compare what is equal for equal ids.            *)
(***************************************************************************)
EXTENDS TrustRules, FiniteSets

CONSTANTS
    Policy,       \* policies that may be registered: [id, auth, ops]
    Requests,     \* [record, op, auth, time, by, policy]
    Original,     \* digest of every record at the start
    Missing,      \* the "digest" of a deleted record
    Careful,      \* do callers avoid what recovery cannot undo? see Prudent
    MaxChanges,   \* bound: changes of records by other commands
    MaxKills,     \* bound: killed processes, failing writes and fsyncs
    MaxPower,     \* bound: power losses
    TornWrites    \* may a killed write or a power loss leave part of a frame?

ASSUME CommitAssumption ==
    /\ Original \in Digest
    /\ Missing \notin Digest
    /\ MaxChanges \in Nat /\ MaxKills \in Nat /\ MaxPower \in Nat
    /\ Careful \in BOOLEAN /\ TornWrites \in BOOLEAN
    /\ \A q \in Requests :
          /\ q.record \in Record /\ q.op \in Operation /\ q.auth \in Authority
          /\ q.time \in Nat /\ q.by \in Record \cup {NoRecord}

VARIABLES
    journal,      \* <<transaction, stage>> in file order
    ledger,       \* the trust ledger: frames of TrustRules
    db,           \* commits: a record and its new digest, or a binding record
    synced,       \* per file: how much of it an fsync covers
    torn,         \* files that end in an incomplete frame
    policies,     \* the policy registry
    pc,           \* where the command stands
    request,      \* the request of the command
    job,          \* its transaction, once prepared
    dirty,        \* the file written and not yet fsynced by this command
    acked,        \* requests whose command returned Ok
    changes, kills, power

files   == <<journal, ledger, db>>
command == <<pc, request, job, dirty>>
budget  == <<changes, kills, power>>
vars    == <<files, synced, torn, policies, command, acked, budget>>

File == {"journal", "ledger", "db"}

Stage == {"prepared", "database", "trust", "finalized", "aborted"}

-----------------------------------------------------------------------------
(* The database.                                                           *)

Changed(r) == {i \in 1..Len(db) : db[i].kind = "put" /\ db[i].record = r}

\* canonical_database_record_digest of the record as it is now.
Content(r) ==
    IF Changed(r) = {} THEN Original
    ELSE db[CHOOSE i \in Changed(r) : \A j \in Changed(r) : j <= i].digest

\* The binding records in the database.
Bound == {db[i].tx : i \in {k \in 1..Len(db) : db[k].kind = "bind"}}

-----------------------------------------------------------------------------
(* The journal.                                                            *)

\* The functions take the journal: append applies them to the whole of it,
\* replay to what precedes an entry.
TransactionsIn(j) == {j[i][1] : i \in 1..Len(j)}

\* latest: the stage of a transaction's last entry.
StageIn(j, t) ==
    LET own == {i \in 1..Len(j) : j[i][1] = t}
    IN  j[CHOOSE i \in own : \A k \in own : k <= i][2]

\* validate_stage_transition.
StageFollows(j, t, s) ==
    IF t \notin TransactionsIn(j) THEN s = "prepared"
    ELSE <<StageIn(j, t), s>> \in
           {<<"prepared", "database">>, <<"prepared", "aborted">>,
            <<"database", "trust">>, <<"trust", "finalized">>}

LatestStage(t) == StageIn(journal, t)

Pending ==
    {t \in TransactionsIn(journal) :
        LatestStage(t) \notin {"finalized", "aborted"}}

-----------------------------------------------------------------------------
(* Requests and transactions.                                              *)

\* transition_intent.
IntentOf(q, d) ==
    [record |-> q.record, op |-> q.op, auth |-> q.auth, digest |-> d,
     time |-> q.time, by |-> q.by]

\* PolicyRegistry::authorize.  Evidence counts, verifier and provenance are
\* fields of the request that a policy admits or not, like the operation.
AuthorizedByPolicy(q) ==
    \E p \in policies : p.id = q.policy /\ p.auth = q.auth /\ q.op \in p.ops

\* validate_superseding_binding.
SupersedingBound(q) ==
    q.by # NoRecord =>
        /\ Content(q.by) # Missing
        /\ Tracked(ledger, q.by)
        /\ Snapshot(ledger, q.by).intent.digest = Content(q.by)

\* compute_transaction_id.
TransactionOf(q) ==
    [content |-> [r \in Record |-> Content(r)], bound |-> Bound,
     head |-> ledger, digest |-> Content(q.record), request |-> q]

\* expected_trust_sequence.
Place(t) == Len(t.head) + 1

\* find_matching_transition: there is a transition with the expected
\* sequence; validate_transition_matches must hold of it.
PlaceTaken(t) == Len(ledger) >= Place(t)

TransitionMatches(t) ==
    /\ PlaceTaken(t)
    /\ SubSeq(ledger, 1, Place(t) - 1) = t.head
    /\ ledger[Place(t)].intent = IntentOf(t.request, t.digest)

\* The discipline that keeps recovery possible: ask for legal transitions
\* only, and leave the records alone while the journal has a pending one.
\* The code does not enforce it.
Prudent(q) == Careful => Accepts(ledger, IntentOf(q, Content(q.record)))

-----------------------------------------------------------------------------
(* Appending.                                                              *)

\* One call of append_fsync, TrustLedger::apply or commit_durable up to its
\* write; Sync is the rest.
AppendJournal(t, s) ==
    /\ StageFollows(journal, t, s)
    /\ journal' = Append(journal, <<t, s>>)
    /\ dirty' = "journal"
    /\ UNCHANGED <<ledger, db>>

AppendLedger(t) ==
    /\ ledger' = Append(ledger, FrameOf(ledger, IntentOf(t.request, t.digest)))
    /\ dirty' = "ledger"
    /\ UNCHANGED <<journal, db>>

AppendBinding(t) ==
    /\ db' = Append(db, [kind |-> "bind", tx |-> t])
    /\ dirty' = "db"
    /\ UNCHANGED <<journal, ledger>>

FileLen(f) ==
    CASE f = "journal" -> Len(journal)
      [] f = "ledger"  -> Len(ledger)
      [] f = "db"      -> Len(db)

Synchronized == dirty = "none"

\* Mutant: the database commit and the ledger are not fsynced.
SyncJournalOnly ==
    /\ dirty # "none"
    /\ synced' = [synced EXCEPT !["journal"] = Len(journal)]
    /\ dirty' = "none"
    /\ UNCHANGED <<files, torn, policies, pc, request, job, acked, budget>>

\* sync_all, after which the append returns.
Sync ==
    /\ dirty # "none"
    /\ synced' = [synced EXCEPT ![dirty] = FileLen(dirty)]
    /\ dirty' = "none"
    /\ UNCHANGED <<files, torn, policies, pc, request, job, acked, budget>>

rest == <<synced, torn, policies, acked, budget>>

-----------------------------------------------------------------------------
(* commit_trust_authorized: open, recover, commit.                         *)

NoTx == [request |-> NoRecord]

\* Mutant: replay does not know the stage ABORTED.
JournalReplaysNoAbort ==
    \A i \in 1..Len(journal) :
        /\ journal[i][2] # "aborted"
        /\ StageFollows(SubSeq(journal, 1, i - 1), journal[i][1], journal[i][2])

\* The strict opens: TrustCommitJournal::replay, TrustLedger::replay_bytes.
JournalReplays ==
    \A i \in 1..Len(journal) :
        StageFollows(SubSeq(journal, 1, i - 1), journal[i][1], journal[i][2])

LedgerReplays == \A i \in 1..Len(ledger) : FrameReplays(ledger, i)

Opens == torn = {} /\ JournalReplays /\ LedgerReplays

\* TrustCommitCoordinator::open_strict up to recover_pending.
Start(q) ==
    /\ pc = "closed"
    /\ Opens
    /\ pc' = "recovering"
    /\ request' = q
    /\ UNCHANGED <<files, job, dirty, rest>>

\* Strict opens do not repair.
StartRefused ==
    /\ pc = "closed"
    /\ ~Opens
    /\ pc' = "refused"
    /\ UNCHANGED <<files, request, job, dirty, rest>>

\* recover_transaction: the checks before any stage.
RecoveryAllowed(t) ==
    /\ AuthorizedByPolicy(t.request)
    /\ Content(t.request.record) = t.digest
    /\ SupersedingBound(t.request)

Recovering(t) ==
    /\ pc = "recovering"
    /\ Synchronized
    /\ t \in Pending
    /\ RecoveryAllowed(t)

\* Mutant: a prepared transaction is aborted without a look at the binding.
RecoverAbortsBlindly(t) ==
    /\ Recovering(t)
    /\ LatestStage(t) = "prepared"
    /\ AppendJournal(t, "aborted")
    /\ UNCHANGED <<pc, request, job, rest>>

\* Mutant: the abort is counted in the receipt and not journalled.
RecoverAbortsSilently(t) ==
    /\ Recovering(t)
    /\ LatestStage(t) = "prepared"
    /\ t \notin Bound
    /\ pc' = "closed"
    /\ UNCHANGED <<files, request, job, dirty, rest>>

\* PREPARED without a binding record.
RecoverAborts(t) ==
    /\ Recovering(t)
    /\ LatestStage(t) = "prepared"
    /\ t \notin Bound
    /\ AppendJournal(t, "aborted")
    /\ UNCHANGED <<pc, request, job, rest>>

\* PREPARED with its binding record.
RecoverDatabase(t) ==
    /\ Recovering(t)
    /\ LatestStage(t) = "prepared"
    /\ t \in Bound
    /\ AppendJournal(t, "database")
    /\ UNCHANGED <<pc, request, job, rest>>

\* DATABASE_COMMITTED and the transition is not in the ledger.
RecoverApplies(t) ==
    /\ Recovering(t)
    /\ LatestStage(t) = "database"
    /\ t \in Bound
    /\ ~PlaceTaken(t)
    /\ ledger = t.head
    /\ Accepts(ledger, IntentOf(t.request, t.digest))
    /\ AppendLedger(t)
    /\ UNCHANGED <<pc, request, job, rest>>

\* DATABASE_COMMITTED and the transition is in the ledger.
RecoverTrust(t) ==
    /\ Recovering(t)
    /\ LatestStage(t) = "database"
    /\ t \in Bound
    /\ TransitionMatches(t)
    /\ AppendJournal(t, "trust")
    /\ UNCHANGED <<pc, request, job, rest>>

\* TRUST_COMMITTED.
RecoverFinal(t) ==
    /\ Recovering(t)
    /\ LatestStage(t) = "trust"
    /\ TransitionMatches(t)
    /\ AppendJournal(t, "finalized")
    /\ UNCHANGED <<pc, request, job, rest>>

\* What recover_transaction can go on with.
Resolvable(t) ==
    /\ RecoveryAllowed(t)
    /\ LatestStage(t) = "database" =>
          /\ t \in Bound
          /\ IF PlaceTaken(t)
               THEN TransitionMatches(t)
               ELSE ledger = t.head
                    /\ Accepts(ledger, IntentOf(t.request, t.digest))
    /\ LatestStage(t) = "trust" => TransitionMatches(t)

\* Every other case is an error: the coordinator cannot be opened.
RecoverFails(t) ==
    /\ pc = "recovering"
    /\ Synchronized
    /\ t \in Pending
    /\ ~Resolvable(t)
    /\ pc' = "stuck"
    /\ UNCHANGED <<files, request, job, dirty, rest>>

\* Mutant: any entry of the request counts, whatever its stage.
FoundBefore(q) ==
    \E i \in 1..Len(journal) : journal[i][1].request = q

\* commit_trust_authorized looks for a FINALIZED entry of the same request.
FinalizedBefore(q) ==
    \E i \in 1..Len(journal) :
        journal[i][2] = "finalized" /\ journal[i][1].request = q

\* The request was finalized before, perhaps by this recovery: Ok, with
\* changed = false.
Repeated ==
    /\ pc = "recovering"
    /\ Synchronized
    /\ Pending = {}
    /\ FinalizedBefore(request)
    /\ acked' = acked \cup {request}
    /\ pc' = "closed"
    /\ UNCHANGED <<files, synced, torn, policies, request, job, dirty, budget>>

\* prepare_context, and whether journal.append takes the PREPARED entry.
Preparable(q) ==
    /\ AuthorizedByPolicy(q)
    /\ Content(q.record) # Missing
    /\ DigestBinds(ledger, IntentOf(q, Content(q.record)))
    /\ SupersedingBound(q)
    /\ TransactionOf(q) \notin Bound
    /\ StageFollows(journal, TransactionOf(q), "prepared")

Prepare ==
    /\ pc = "recovering"
    /\ Synchronized
    /\ Pending = {}
    /\ ~FinalizedBefore(request)
    /\ Preparable(request)
    /\ Prudent(request)
    /\ job' = TransactionOf(request)
    /\ AppendJournal(TransactionOf(request), "prepared")
    /\ pc' = "prepared"
    /\ UNCHANGED <<request, rest>>

\* An error before anything is written.
PrepareRejected ==
    /\ pc = "recovering"
    /\ Synchronized
    /\ Pending = {}
    /\ ~FinalizedBefore(request)
    /\ ~(Preparable(request) /\ Prudent(request))
    /\ pc' = "closed"
    /\ UNCHANGED <<files, request, job, dirty, rest>>

\* Mutant: the binding record is not committed.
CommitBindingOmitted ==
    /\ pc = "prepared"
    /\ Synchronized
    /\ pc' = "bound"
    /\ UNCHANGED <<files, dirty, request, job, rest>>

\* commit_binding_record: one durable commit and a checkpoint.
CommitBinding ==
    /\ pc = "prepared"
    /\ Synchronized
    /\ AppendBinding(job)
    /\ pc' = "bound"
    /\ UNCHANGED <<request, job, rest>>

\* The checkpoint after the durable commit reports an error.
CheckpointFails ==
    /\ pc = "bound"
    /\ Synchronized
    /\ kills < MaxKills
    /\ kills' = kills + 1
    /\ pc' = "closed"
    /\ UNCHANGED <<files, request, job, dirty, synced, torn, policies, acked,
                   changes, power>>

DatabaseCommitted ==
    /\ pc = "bound"
    /\ Synchronized
    /\ AppendJournal(job, "database")
    /\ pc' = "database"
    /\ UNCHANGED <<request, job, rest>>

\* self.trust.apply.
ApplyTransition ==
    /\ pc = "database"
    /\ Synchronized
    /\ Accepts(ledger, IntentOf(job.request, job.digest))
    /\ AppendLedger(job)
    /\ pc' = "applied"
    /\ UNCHANGED <<request, job, rest>>

\* apply rejects the intent: the command fails and the transaction stays
\* pending.
ApplyRejected ==
    /\ pc = "database"
    /\ Synchronized
    /\ ~Accepts(ledger, IntentOf(job.request, job.digest))
    /\ pc' = "closed"
    /\ UNCHANGED <<files, request, job, dirty, rest>>

TrustCommitted ==
    /\ pc = "applied"
    /\ Synchronized
    /\ TransitionMatches(job)
    /\ AppendJournal(job, "trust")
    /\ pc' = "trust"
    /\ UNCHANGED <<request, job, rest>>

Finalize ==
    /\ pc = "trust"
    /\ Synchronized
    /\ AppendJournal(job, "finalized")
    /\ pc' = "finalized"
    /\ UNCHANGED <<request, job, rest>>

\* The receipt.
Return ==
    /\ pc = "finalized"
    /\ Synchronized
    /\ acked' = acked \cup {request}
    /\ pc' = "closed"
    /\ UNCHANGED <<files, synced, torn, policies, request, job, dirty, budget>>

\* The process of a refused or stuck command ends with its error.
Exit ==
    /\ pc \in {"refused", "stuck"}
    /\ pc' = "closed"
    /\ UNCHANGED <<files, request, job, dirty, rest>>

-----------------------------------------------------------------------------
(* Other commands and the environment.                                     *)

\* PolicyRegistry::register: a key is written once, a neutral authority
\* never, and an import policy allows PROPOSE only.
Register(p) ==
    /\ pc = "closed"
    /\ \A k \in policies : k.id # p.id
    /\ p.auth \in {"evidence", "import"}
    /\ p.ops # {}
    /\ p.auth = "import" => p.ops = {"propose"}
    /\ policies' = policies \cup {p}
    /\ UNCHANGED <<files, synced, torn, command, acked, budget>>

\* put or delete of the command line; it knows nothing of the journal.
ChangeRecord(r, d) ==
    /\ pc = "closed"
    /\ "db" \notin torn
    /\ changes < MaxChanges
    /\ Careful => Pending = {}
    /\ db' = Append(db, [kind |-> "put", record |-> r, digest |-> d])
    /\ synced' = [synced EXCEPT !["db"] = Len(db) + 1]
    /\ changes' = changes + 1
    /\ UNCHANGED <<journal, ledger, torn, policies, command, acked, kills, power>>

\* The file the next append of the command would go to.
NextFile ==
    CASE pc = "recovering" -> {"journal", "ledger"}
      [] pc = "prepared" -> {"db"}
      [] pc = "database" -> {"ledger"}
      [] pc \in {"bound", "applied", "trust"} -> {"journal"}
      [] OTHER -> {}

\* Killed between two system calls, or inside write_all; a write or fsync
\* that reports an error ends the command in the same states.
Kill ==
    /\ pc \notin {"closed", "refused", "stuck"}
    /\ kills < MaxKills
    /\ kills' = kills + 1
    /\ pc' = "closed"
    /\ dirty' = "none"
    /\ \/ torn' = torn
       \/ /\ TornWrites /\ Synchronized
          /\ \E f \in NextFile : torn' = torn \cup {f}
    /\ UNCHANGED <<files, synced, policies, request, job, acked, changes, power>>

\* Each file loses its own part of what no fsync covers.  The cut may be
\* inside a frame, and an incomplete end may be lost, too.
PowerLoss ==
    \E j \in synced["journal"]..Len(journal),
       l \in synced["ledger"]..Len(ledger),
       d \in synced["db"]..Len(db) :
         LET cut == [f \in File |-> CASE f = "journal" -> j
                                      [] f = "ledger" -> l
                                      [] f = "db" -> d]
         IN  /\ power < MaxPower
             /\ power' = power + 1
             /\ journal' = SubSeq(journal, 1, j)
             /\ ledger' = SubSeq(ledger, 1, l)
             /\ db' = SubSeq(db, 1, d)
             /\ synced' = cut
             /\ torn' \in SUBSET (torn \cup {f \in File : TornWrites
                                              /\ cut[f] < FileLen(f)})
             /\ pc' = "closed"
             /\ dirty' = "none"
             /\ UNCHANGED <<policies, request, job, acked, changes, kills>>

-----------------------------------------------------------------------------

Init ==
    /\ journal = <<>> /\ ledger = <<>> /\ db = <<>>
    /\ synced = [f \in File |-> 0]
    /\ torn = {}
    /\ policies = {}
    /\ pc = "closed"
    /\ request = NoRecord
    /\ job = NoTx
    /\ dirty = "none"
    /\ acked = {}
    /\ changes = 0 /\ kills = 0 /\ power = 0

Recover == \E t \in TransactionsIn(journal) :
    \/ RecoverAborts(t) \/ RecoverDatabase(t) \/ RecoverApplies(t)
    \/ RecoverTrust(t) \/ RecoverFinal(t) \/ RecoverFails(t)

Commit ==
    \/ Repeated \/ Prepare \/ PrepareRejected
    \/ CommitBinding \/ CheckpointFails \/ DatabaseCommitted
    \/ ApplyTransition \/ ApplyRejected
    \/ TrustCommitted \/ Finalize \/ Return

Next ==
    \/ \E q \in Requests : Start(q)
    \/ StartRefused \/ Exit \/ Sync \/ Recover \/ Commit
    \/ \E p \in Policy : Register(p)
    \/ \E r \in Record, d \in Digest \cup {Missing} : ChangeRecord(r, d)
    \/ Kill \/ PowerLoss

Spec == Init /\ [][Next]_vars

\* A command runs to its end, and a command is run again after it.
Fairness ==
    /\ WF_vars(Sync) /\ WF_vars(Recover) /\ WF_vars(Commit) /\ WF_vars(Exit)
    /\ WF_vars(\E q \in Requests : Start(q))

FairSpec == Spec /\ Fairness

-----------------------------------------------------------------------------
(* Properties.                                                             *)

\* Every variable has its type; what is fsynced is there.
TypeOK ==
    /\ \A i \in 1..Len(journal) : journal[i][2] \in Stage
    /\ ledger \in Seq(Frame)
    /\ \A f \in File : synced[f] \in 0..FileLen(f)
    /\ torn \subseteq File
    /\ policies \subseteq Policy
    /\ pc \in {"closed", "recovering", "prepared", "bound", "database",
               "applied", "trust", "finalized", "refused", "stuck"}
    /\ dirty \in File \cup {"none"}
    /\ acked \subseteq Requests

\* The journal, the database and the ledger agree: past DATABASE_COMMITTED
\* the binding record is in the database, past TRUST_COMMITTED the transition
\* is in the ledger at its place, and an aborted transaction is not bound.
StagesAgree ==
    \A t \in TransactionsIn(journal) :
        LET s == LatestStage(t)
        IN  /\ s \in {"database", "trust", "finalized"} => t \in Bound
            /\ s \in {"trust", "finalized"} => TransitionMatches(t)
            /\ s = "aborted" => t \notin Bound

\* Every transition in the ledger is that of exactly one transaction, whose
\* binding record is in the database: recovery neither repeats a transition
\* nor makes one up.
OncePerTransaction ==
    \A i \in 1..Len(ledger) :
        Cardinality({t \in Bound : Place(t) = i /\ TransitionMatches(t)}) = 1

\* A request answered with Ok has its transition in the ledger.
AckedInLedger ==
    \A q \in acked : \E i \in 1..Len(ledger) :
        ledger[i].intent = IntentOf(q, ledger[i].intent.digest)

\* A pending transaction can always be resolved from the journal: no crash
\* and no error leaves a state in which every later command fails.
NeverStuck == pc # "stuck"

\* Opening is refused only because of an incomplete end of one of the files,
\* which the strict opens are meant to refuse.
RefusedOnlyTorn == pc = "refused" => torn # {}

\* A pending transaction is eventually finalized or aborted.
PendingResolved == Pending # {} ~> Pending = {}
=============================================================================
