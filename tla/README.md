# UltraBalloonDB: TLA+ models, model checking and proofs

UltraBalloonDB is a single-writer embedded graph and record database with a
write-ahead log, immutable checkpoints, a family of append-only trust ledgers
beside it, and services (daemon, backup, migration, vector search) around it.
This directory holds TLA+ models of its native Rust crates
(`src/rust_native/ultraballoondb-*`), TLC configurations that check them on
small instances, and TLAPS proofs for instances of every size.

`PROJECT.json` maps every definition to the lines it models and lists the runs,
mutants, findings, hazards and theorems in machine-readable form.

## 1. Inventory

| Component (crate) | State it keeps | Operations | Correct when |
|---|---|---|---|
| Write-ahead log (`wal`) | one append-only file of hashed frames; `next_lsn` | append, fsync, scan, repair of a torn end | LSNs grow; an fsynced frame stays; only an incomplete end is cut |
| Page store (`storage`) | immutable segments and manifests, one replaceable head | write once under a name, atomic head | a name never changes its content; the head leads to files that exist |
| Durable database (`lifecycle/durable.rs`) | state and committed ids in memory; log and files on disk | create, open (load checkpoint, scan, replay), commit_prepared, checkpoint | an acknowledged commit survives; an unfinished one leaves no trace; every open of what the code wrote succeeds |
| Write batch, transaction core (`lifecycle/lib.rs`) | one active transaction and its state | begin, put, delete, prepare, materialize_shadow, commit_durable, abort, release | states follow their order; a batch names a key once; limits hold |
| Command line (`cli`) | nothing between commands | create, verify, put, delete, checkpoint: each opens, commits, checkpoints | a command's answer stays true whatever crashes later |
| Trust ledger (`trust`) | chained transitions, one snapshot per record | apply, replay | replay accepts exactly what apply wrote; terminal maturity is final |
| Trust co-commit (`trust-commit`) | policy registry, five-stage journal | commit, recover_pending | database and trust ledger agree after every crash; one transition per transaction |
| Trust authority (`trust-auth`) | key registry, authorization ledger, policy registry and status | bootstrap, register, rotate, revoke; register and revoke a policy; commit: each authorizes, then acts | an administrator remains; every effect rests on an authentic authorization; the files stay openable; a revoked policy is not used |
| Enterprise approval (`trust-enterprise`) | requests, approvals, finalizations in one file | enable, request, approve, run an approved command and finalize it | a request is finalized by a quorum of auditors other than its author, in time, with a reference to what it did |
| Asymmetric trust (`trust-asymmetric`) | provider keys, key registry, authorization ledger | enrol, rotate, revoke, delete, sign | an active key can sign; a signed authorization replays over the registry it names |
| Federation (`trust-federation`) | namespace policies, weighted authorities, bundles | set policy, enrol and revoke authorities, accept a bundle | a bundle has the votes its policy asks for, of authorities that were enrolled |
| Provenance (`provenance`) | records bound to accepted bundles | append_authorized, replay | a record rests on an authorization and an accepted bundle |
| Snapshot inventory (`lifecycle/snapshot_inventory.rs`) | records of derived artifacts, COMPLETE or INVALIDATED, in one file | create, open with recovery, register, invalidate | a record called complete has its artifact |
| Backup (`backup`) | backup directories with a receipt | create, dry run, restore to a new directory | a backup holds what the source held; a restore is the one that was approved |
| Migration (`migrate`) | plan file, target database | import in batches, checkpoint, count, read back | a receipt means every operation is in the target |
| Observability (`observability-security`) | policy, audit chain and its budget | wrap health and execute, replay the audit | every executed write is audited; the audit replays |
| Daemon, C ABI, Python (`daemon`, `cabi`, `pyo3`) | a session: hello, ids seen, budgets | read a frame, call the backend, answer | an answer says what the backend did, once per identifier |
| Vector store (`semantic/lib.rs`) | registry of spaces, a column file each, journals | create a space, put, open with recovery | an acknowledged vector stays; only an unfinished creation blocks the store |
| Derived artifacts (`semantic/hybrid.rs`) | graph indices, the native column | materialize, build the structural space | see snapshot inventory |
| GPU router (`semantic/gpu_router.rs`) | calibration and engine behind one mutex | score a query on CPU or device | a device that was found wrong is not used; its failure means a CPU answer |
| Hybrid engine (`hybrid-engine`) | - | combines scores; checks the router's receipt | the receipt is one the router can give |
| Wave core (`core`) | CSR graph | activation waves | agrees with the reference algorithm; not modelled |
| Legacy Python runtime (`python_ref`), format compatibility (`compat`) | - | oracle, names | not modelled |

How they interact. The command line, the migrator, the trust coordinator, the
daemon's backends and the bindings all call the transaction core, which hands a
prepared batch to the durable database, which writes a segment through the page
store and frames through the log. Almost nothing is shared in memory; the files
are. Callers take the generation and segment number of a commit from the
receipt of the open (`next_generation`, `next_segment_sequence`). The trust
coordinator drives three files at once: its journal, a database commit, and the
trust ledger. A trust command opens up to five files one after the other,
appends its authorization, then acts, through the coordinator where it commits;
the enterprise commands wrap a trust command between a check and a FINALIZE.

What is hard. Nearly all concurrency is with crashes, with the operating
system's cache and with other processes: no lock keeps processes apart, and the
only threads that share memory are the queries of the GPU router. Hard are the
order of write, fsync and rename; what a crash leaves between two of them; what
an open makes of it; what a caller may do after an error; ids, generations and
registry heads derived from a state that may be stale; and commands that are
killed half way and repeated with the same authorization.

## 2. Modules

### The database

- `DurableLog`: what the database promises. A log of committed transactions
  whose confirmed part only grows, a set of acknowledged transactions, and a
  view that is empty or the state at the end of the log.
- `DurableDatabase`: the code. On disk: `wal` (frames in file order), `synced`
  (how many an fsync covers), `segments`, `checkpoints`, `manifests`, `head`.
  In memory: the fields of `DurableDatabase` and `WalWriter`, and the locals of
  the call that is running (`jobTx`, `jobOps`, `todo` for commit_prepared;
  `rpos`, `begun`, `got` for replay). `pc` says where the call stands.
  - commit_prepared: `WriteSegment`, `AppendBegin`, `AppendOp`, `AppendCommit`,
    `SyncCommit` (fsync, memory, receipt).
  - checkpoint: `AppendCheckpoint`, `SyncCheckpoint`, `WriteCheckpoint` or
    `CheckpointConflict`, `WriteManifest`, `PublishHead`.
  - open: `Open` (load_checkpoint, scan_wal, repair) or `OpenRefused`, one
    `Replay...` step per frame, `ReplayRefused`, `FinishOpen`.
  - environment: `AppendFails`, `SyncFails` and the `ok` argument of the
    publications (a directory fsync fails after the rename), `Kill`,
    `PowerLoss(n)`; callers either drop a handle after an error (`DropHandle`)
    or go on with it (`KeepHandle`, only where `ReuseAfterError`).
- `NativeCli`: the commands over `DurableDatabase`, one at a time. A command
  opens without repair, decides whether there is anything to change, and mutate
  opens again, commits, checkpoints and answers. `told` records for each key
  what the answers said; records and edges are both keys, and get, list, status
  and verify are all "read".
- `MCDurable`, `MCCli`: instances. In `MCCli` a behaviour is one of the command
  line or one of a library caller of the same discipline (a fresh id for every
  attempt, no use of a handle after an error) with batches of several
  operations.
- `DurableProofs`: theorems about the database and the command line.

### Trust

- `TrustRules`: the rules of the trust ledger as operators on a sequence of
  frames: `Accepts` (what apply checks), `FrameOf` (the frame it writes),
  `FrameReplays` (what replay checks of a frame behind those before it).
- `TrustLedger`: the ledger file (`file`, `synced`) and one handle per process
  (`mem`, `pc`). apply is `Write` and `Sync`, or `WriteFails` or `SyncFails`;
  open_strict is `Open` or `OpenRefused`; `KeepHandle` lets a caller go on after
  an error where `ReuseAfterError`.
- `TrustCommit`: the coordinator over three files, `journal`, `db` and `ledger`,
  each with its own fsynced part. `dirty` is the file whose write has not been
  fsynced; the next step of a command waits for `Sync`. A command is `Start`
  (strict opens), one `Recover...` step per append of recover_transaction, then
  `Repeated`, or `Prepare`, `CommitBinding`, `DatabaseCommitted`,
  `ApplyTransition`, `TrustCommitted`, `Finalize`, `Return`. Beside it:
  `Register` (policies), `ChangeRecord` (put and delete of the command line),
  `Kill`, `PowerLoss`. `Careful` restricts callers to requests the ledger
  accepts and to changes of records while nothing is pending; the code enforces
  neither.
- `KeyRegistry`: the key registry as a sequence of events, with the checks of
  append and replay as operators.
- `TrustAuthority`: the trust root. A command of the trust command line is a
  process (`job`) that opens the files it needs, appends its authorization, or
  finds the one an earlier, killed attempt left, and then does what was
  authorized. A commit opens the coordinator, which first recovers whatever
  transaction is `pending`, of this or another request (`RecoverPending`: without
  its binding it is aborted, with it carried out); then it finds its request
  finalized (`AnswerFinalized`), or prepares it (`Prepare`) and takes it from
  stage to stage (`Commit`), or fails at a stage and leaves it pending
  (`CommitFails`). The files in which a stage is recorded are `TrustCommit`'s.
- `EnterpriseApproval`: the approvals file and the approved commands, around
  those of `TrustAuthority`, which still run beside them.
- `AsymmetricTrust`: provider, key registry and authorization ledger. Key
  commands take three steps: the provider key (`Enroll`, `Rotate`), the signatures
  (`SignKeyEvent`), the registry event (`AppendKeyEvent`). key-delete-provider
  takes no lock and runs beside them in two: `ReadBeforeDelete` finds the key
  unused in the registry it reads, `DeleteProviderKey` removes it. An
  authorization is signed over the registry head its process read at start.
- `Federation`: the federation and the provenance ledger, written by a service
  that holds the registry and the authorizations as they were when it opened
  them, while `AsymmetricTrust` goes on.
- `MCTrustLedger`, `MCTrustCommit`, `MCApproval`, `MCFederation`: instances.
- `LedgerProofs`, `CommitProofs`, `AuthorityProofs` (trust root and approval),
  `FederationProofs` (asymmetric trust and federation): theorems.

### Services

- `DaemonService`: session, backend, observed backend and its audit file. A
  handler is split wherever the host can be killed with something done: after
  the health check, the execution, the audit record, and before the answer.
- `BackupRestore`: backup, dry run and restore by several tools, file by file
  and block by block, while the source is written; `Rot` damages a file.
- `Migration`: reading a plan and importing it, with both ways of counting a
  batch: the importer adds up users' payloads, `WriteBatch` encoded entries.
- `VectorStore`: persist_image and recover_image, one file operation at a time
  (journal, temporary file, backup, promotion), for the registry and for the
  columns; any operation may be killed, torn or fail.
- `DerivedArtifacts`: the inventory's file and the two builders that register in
  it: invalidate what is stale, make the file, register it.
- `GpuRouter`: queries as threads over one `RouterState`, whose mutex a query
  takes three times. Engines are numbered as they are made, since one that fails
  its certification is dropped and the next query makes another, while one
  that calibration or scoring catches disables the device.
- `MCServices`: instances of all of them and of the federation. They share no
  state, so a behaviour is one of a single service: their state spaces add up
  instead of multiplying.
- `ServiceProofs` (daemon, backup, migration), `SemanticProofs` (vector store,
  derived artifacts, router): theorems.
- `FileLemmas`: lemmas about files that only grow, for the proof modules.

`TrustLedger` and `TrustCommit` share `TrustRules`; `NativeCli` extends
`DurableDatabase`; `EnterpriseApproval` extends `TrustAuthority`, which extends
`KeyRegistry`; `Federation` extends `AsymmetricTrust`. `TrustCommit`,
`Migration` and the services do not repeat the database: they use what
`DurableLog` promises, commits of which an unconfirmed end may be lost, but may
have been read before.

### Abstractions

Database. SHA-256 is injective, so a hash is what it hashes; a frame is
complete or torn, its bytes are not modelled. A batch is a set of key/content
pairs with one entry per key (WriteBatch guarantees it), and operation frames
of one transaction are written in any order. Replay applies checks in the
code's order, but any failing check leads to the same refusal. A file that was
renamed into place survives power loss even if the directory fsync reported an
error. `publish_immutable` on a manifest cannot meet a different file: the
checkpoint of the same generation, written first, would have conflicted.
ABORT frames are read by replay and never written by the code, so there is no
action for them. The LSN and the generation are natural numbers: their u64
overflow checks are out of reach of any log.

Trust ledger and co-commit. A digest is what it hashes: the head digest of a
ledger is the ledger, and a transaction id is the record of what
compute_transaction_id hashes, so `validate_same_transaction` and
`validate_binding_record` compare what is equal for equal ids. A frame's
previous digest is not kept: frames are appended behind what their writer read
or wrote, so a frame with the expected sequence has the expected predecessor.
Evidence, verifier, reason and provenance are strings the code only requires,
compares or counts; a request has those its policy admits. The six authorities
that may not change trust are one. In `TrustCommit` a failing write or fsync
ends the command like a kill, an incomplete frame is kept as the name of the
file that ends in it (`torn`), and registering a policy is one step. The
journal's and the registry's own digest chains are not modelled.

Authority, approval, keys. A fingerprint stands for its secret, a public key is
the number of its creation, a registry head is a length (the digest chain makes
it identify the prefix), a subject is the tuple its digest covers. In
`AsymmetricTrust` a caller's timestamp and nonce are one flag: whether the
append will find them fresh. The profile file of the enterprise commands is the
constants `Threshold` and `MaxTtl`.

Services. Payloads are sizes. In `BackupRestore` a file is two blocks of version
numbers and versions only grow: the files of the database are appended to or
replaced by a rename. In `Migration` a commit and a checkpoint are one step, as
`DurableDatabase` justifies. In `VectorStore` a file is absent, torn or whole
(the footers tell a torn one). In `DerivedArtifacts` a snapshot is the number of
commits it was taken at. In `GpuRouter` the device fails, differs from the CPU in
the rows compared, or agrees; which side is faster is the clock's choice.

## 3. Runs

| Run | Question | Result |
|---|---|---|
| `durable_cli` | With the command line's discipline, does any crash or I/O error lose an acknowledged commit, make the log unreadable, show an unfinished transaction, publish a wrong or older head, or take back a command's answer? Does all of it implement `DurableLog`? | no; it does |
| `durable_library` | Callers that retry ids and reuse handles after errors: are acknowledged frames still durable if nobody repairs, and does every call end? | yes |
| `durable_wedge` | Can a fresh process always publish a checkpoint? | no |
| `ledger_rules` | One process at a time: does open accept all that apply wrote, and do the trust rules hold of whole histories? | yes |
| `ledger_race` | Two processes without a lock that go on after errors: do acknowledged frames stay? | yes |
| `commit_kill` | Kills, any requests, changed records: do journal, database and ledger agree, is each transition made once? | yes |
| `commit_power` | The same with power losses, and is everything pending resolved, for careful callers? | yes |
| `commit_stuck` | Can recovery always go on for any callers? | no |
| `trust_approval` | Trust and approval commands, killed between and inside their appends and repeated: does authority ever get lost, forged or used after it ended? | no |
| `rotation_twice` | Does every rotation have exactly one FINALIZE? | no |
| `services` | The services around the database, each in behaviours of its own: are their answers, files and evidence what they promise through kills, errors and damage? | yes |
| `router_race` | Does every failure of the device lead to a CPU answer? | no |

The properties:

- `AckedOnDisk`: an acknowledged transaction's COMMIT stays in the fsynced part
  of the log, whatever happens later.
- `NeverRefused`: open never refuses what the code wrote.
- `ServedState`: an idle handle serves exactly the log's committed
  transactions, in order, whichever way it came by them.
- `HeadExact`: the head leads to files that exist and hold what replaying the
  log up to the checkpoint's LSN gives, and that LSN is a durable CHECKPOINT
  frame.
- `HeadAdvances`: a new head has a greater generation and a greater LSN.
- `AnswersStay`: what a command answered is what every later open serves, until
  another command sets out to change it; an answer read from frames that no
  fsync covered is good until the power fails.
- `CallsEnd`, `KeepsPromise`: every call ends; the refinement of `DurableLog`.
- `AckedKept`, `AckedServed`: an acknowledged transition stays in the fsynced
  ledger where it was written; every open handle has it at that place.
- `RefusedOnlyTorn` (ledger and co-commit): strict opens refuse nothing but an
  incomplete end.
- `HistoryFinal`, `MaturityEarned`, `SupersessionForward`: nothing follows a
  terminal transition, the digest bound by PROPOSE never changes; maturity is
  gained by evidence, one step at a time, while active; a superseding record
  turns terminal only after the supersession, so supersession has no circle.
- `StagesAgree`: a stage in the journal is backed by the database and the
  ledger, and an aborted transaction is not bound.
- `OncePerTransaction`: each transition in the ledger belongs to exactly one
  bound transaction.
- `AckedInLedger`: a request answered with Ok has its transition.
- `NeverStuck`, `PendingResolved`: recovery never fails on a pending
  transaction, and resolves it.
- `AdminRemains`: from the bootstrap on some active key holds KEY_ADMIN.
- `EffectsAuthorized`: every policy, revocation and commit rests on an authentic
  authorization of exactly that operation.
- `SurfaceStaysOpen`: what the commands wrote, killed anywhere but inside a
  frame, every later command can open.
- `RevokedBeginsNothing`: no commit is begun under a revoked policy, not even
  one that was authorized before the revocation, killed, and repeated after: every
  transaction, finalized or pending, was prepared under a status ledger that did
  not revoke its policy. (One already prepared may still be finished, section 4.)
  Commands run one at a time here; a status that another process read may be
  stale.
- `FinalizedByQuorum`: a finalized request was approved, while it lived, by
  enough auditors other than the requester, each active when it signed, and the
  operation it names was carried out.
- `AuditComplete`, `AuditReplays`: the audit file has every executed read and
  write in order, except possibly the last, behind which nothing is executed;
  it replays strictly, but for a torn last record.
- `AnswersTrue`: a result means the backend executed the request once; an
  answer of policy or protocol that it never saw it.
- `BackupsHoldTheSource`: every file of a backup that strict open accepts is one
  the source had at one moment. `RestoredAsApproved`: a published restore has
  the files of the plan the operator approved.
- `ReceiptMeansComplete`: a migration receipt means a target that serves every
  operation of the plan, committed once and in order, in batches of at most
  `MaxOperations` operations.
- `VectorsKept`, `RefusedOnlyUnfinished`: a store that opens has every
  acknowledged space and column; open fails only where a journal was being
  written, or the store or a space created, when a call was cut short.
- `ArtifactsAsRegistered`: a founded inventory opens, keeps the complete records
  of the current snapshot, and every artifact it calls complete is the file
  registered.
- `ActiveKeyKept`: a key the registry calls active has its provider key, unless a
  key-delete-provider that had read the registry before the key's enrolment or
  rotation was appended took it away (section 4). Refused and killed commands,
  rotations and deletions that had the event before them do not.
- `EvidenceReplays`: what was verified once verifies at every later open.
- `BundleQuorum`: behind an accepted bundle stands a quorum of authorities in
  office who signed it as the successor of the one before.
- `DeviceTrusted`: an answer from the device is certified and for no fewer
  candidates than it was measured to win with; it is not from an engine caught
  failing or differing, by certification or by a query, and once calibration or
  scoring has caught one at work no query is answered from any engine again. A
  failed certification alone costs that engine only.
- `FreshHandleCheckpoints`, `RotationReferencedOnce`, `FailureFallsBack`: what
  the documents say; see section 4.

Bounds. They are guards of the actions that start a call or a fault, so that
every call started can finish, or constants that list inputs; symmetry is used
in safety runs only.

- Database: two transactions and two keys. The commands have nine frames and
  two faults, the library caller of `durable_cli` eight frames and one fault:
  enough for a commit, a checkpoint, a second commit and a crash inside either,
  followed by a crash in the recovery or in what comes after. `durable_library`
  has five frames and two faults.
- Ledger: two records, two digests, all operations and authorities, five frames
  and times (a promotion to VERIFIED takes four, and so does superseding a
  record in a circle), two faults; for two processes four frames and the
  operations that exclude each other.
- Co-commit: two proposals and a supersession, or a proposal and a promotion,
  which are illegal in the other order; one change of a record by another
  command; two kills or two power losses, so that recovery can be interrupted,
  too. A kill followed by a power loss is different (section 4).
- Trust and approval: three keys, five secrets, five nonces, times up to eight,
  a threshold of two, two policies with a request each, five key events, four
  authorizations (five with both policies), eight approval events and one kill. A behaviour starts without
  keys, for bootstrap, rotation and revocation of two administrators by each
  other, a policy, its revocation and a commit under it, killed at any stage, and
  a commit under a second policy, whose recovery meets the first (where both
  policies are in use the keys stay as they are); or
  with an administrator and two auditors, one of whom may lose its key between
  approval and finalization, after which it takes a rotated key to reach the
  threshold. Commands are one process after the other.
- Daemon: three requests, two audit records, identifiers up to four (repeated
  or next), six hosts, frames of each kind and of sizes on both sides of every
  limit. Backup: two tools, one backup and one restore directory, three files
  (one of which has the receipt's name), two mishaps. Migration: every plan of
  up to four operations of three shapes, limits of two operations and four
  bytes, two attempts. Vectors: two spaces, two generations, two interruptions.
  Artifacts: two commits, two interruptions or errors. Router: two queries, two
  dimensions, four candidate counts around the bootstrap, two engines, so that
  one can be dropped and another made. Federation: a
  controller and a second key, four provider names, three registry events, six
  authorizations, five federation and one provenance entry, one deletion of a
  provider key at a time, one fault.

Deadlock is checked, except where a refused database stays refused
(`durable_library`), and where commands come to an end by their bounds
(`trust_approval`, `services`).

Fairness (`durable_library`): a running call continues, a closed database is
opened again, a handle whose call failed is dropped, unless its caller goes on
with it. Each is a sequential program that runs to its end; nothing obliges a
caller to start a call or a fault to happen, and faults are finitely many. A
database with a torn end, which nobody repairs in this run, counts as an end of
the open: it returns the same error until someone repairs the file, and the
command line documents that it never repairs by itself.

Fairness (`commit_power`): a command that started runs to its end (weak
fairness of `Sync`, `Recover`, `Commit`, `Exit`), and after it another command
is run: recovery is part of every command and nothing else runs it. Power losses
are bounded and leave no incomplete frame in this run, since strict opens refuse
such a file until someone repairs it. `commit_power` has no kill: where a power
loss is the first crash, what a recovery reads is on disk.

## 4. What disagrees with the documents

1. `durable_wedge`. A checkpoint killed between its file and the head leaves
   CHECKPOINT-<gen>; every later checkpoint derives the same generation and
   fails on that file. Commits stay durable (the log is replayed), but each
   command line mutation reports an error after its commit.
2. `commit_stuck`. prepare_context does not ask the ledger whether the
   transition is legal. An illegal request is bound and journalled before
   `trust.apply` rejects it, and recovery, which runs first in every trust-commit
   (the one command that opens the coordinator), fails on it for ever. So it does when a put or delete changes the record of a
   pending transaction.
3. `rotation_twice`. An approved rotation that finds its event already there
   finalizes with it, to finish what a kill cut short, without asking which
   request made it. A second approved request for the same rotation is
   finalized with the first one's event, and the audit then refuses the ledger.
4. `router_race`. A query that made sure of the engine packs its vectors without
   the lock. When another query has disabled the engine meanwhile and the
   dimension is calibrated, the first returns "OpenCL engine missing" instead of
   falling back to the CPU.

Behaviours that follow from the same code, that bound what the runs and theorems
claim, and that have no run of their own:

- A retried transaction id whose first BEGIN is in the log is acknowledged, and
  the next open stops at "duplicate BEGIN" (durable.rs:832): `NeverRefused`
  is stated for `RetryIds = FALSE`. The command line's ids contain the maximum
  LSN, so it is not affected.
- A handle may be used after a failed append or fsync, but what it acknowledges
  next lies behind bytes that open refuses, in the database and in the ledger
  alike. The command line never does so.
- Open reports commits it replayed from the operating system's cache, which are
  not yet safe from a power loss; a "no change" answered from them is taken back
  with them. Recovery of a co-commit takes an unsynced ledger frame as applied
  and finalizes with an fsync of the journal: after a kill and then a power loss
  an acknowledged transition is gone.
- A commit killed behind its segment and before BEGIN leaves a file under the
  name the next process derives: every other mutation fails on it until that
  command is repeated or a checkpoint command adds a frame to the log.
- An aborted co-commit's id is derived again when the request is repeated
  before database or ledger change; PREPARED behind ABORTED is rejected.
- A commit killed behind its binding is pending. If its policy is then revoked,
  the next trust-commit, under another policy, carries it out: recover_transaction
  asks PolicyRegistry::authorize (trust-commit lib.rs:797), which does not know
  the status ledger. `RevokedBeginsNothing` is therefore about what is begun.
- key-delete-provider may read the registry before an enrolment or rotation has
  appended its event and delete the provider key after it was created: the key is
  then active in the registry and cannot sign. The provider refuses no deletion
  and neither command takes a lock. `ActiveKeyKept` says that this is the only way.
- An engine that fails certification is not remembered: every later query makes
  and certifies another (gpu_router.rs:307-308).
- Overlapping mutate commands give one LSN twice and the next scan refuses the
  log; the surface is documented as offline.
- Create killed before the log exists leaves a directory neither create nor open
  accepts.
- Vector store: a torn journal, a column whose space was never registered, or a
  directory without a registry keep it from opening for ever
  (`RefusedOnlyUnfinished` says that nothing else does).
- Inventory: a create killed inside its write leaves a temporary file that open
  promotes and refuses. Registration changes memory before it persists
  (snapshot_inventory.rs:384): repeated on the same handle after a failure it
  answers that there is nothing to do. `DerivedArtifacts` drops the handle after
  an error.
- The native column is not bound to the query's snapshot (hybrid.rs:1077): a
  query over an older snapshot may read the newer column.

## 5. Proofs

Every safety property and action property that a passing run checks is also a
theorem, for every value of the constants (the conditions named below apart).
TLC stays the only evidence for `CallsEnd` and `PendingResolved`, which are
liveness and beyond the prover, and for the four runs that find a violation.

The proofs have one shape: an inductive invariant, a lemma per action or group
of actions that it is preserved, and the property from it. Most state is a file
that only grows and readers that hold a prefix of it; `FileLemmas` says once
what appending leaves alone. Induction over positions is by least
counterexample (`Least`, from the library's well-founded order on the
naturals), the one form of it the provers can use.

### The database (`DurableProofs`)

`TypeCorrect` holds for every value of the constants. The others, but for
`AckedStaysUnrepaired`, assume `ReuseAfterError = FALSE` (a caller drops a handle
whose call failed, as the command line does); section 4 says why the assumption
is needed. They allow retried ids, both repair modes, failing system calls and
any number of faults, keys, batches and transactions.

`DurableInv` is the inductive invariant. `AckedOnDisk` alone is not inductive:
an open that cuts a torn end must be known to cut nothing fsynced, so an
incomplete frame has to be the last one (`TornLast`), which holds because
nobody writes behind it. `ServedState` needs that memory follows the log while
a call runs (`MemoryExact`), that replay has applied exactly the checkpoint and
the frames before `rpos` (`ReplayExact`), and for the checkpoint to stand for a
prefix of the log, that LSNs are positions (`LsnIsPosition`) across repairs, so
that "skip frames up to the checkpoint's LSN" skips what the checkpoint holds.
`CheckpointPending` and `FilesExact` say the same of a checkpoint under way and
of the files. Each group of actions has a lemma (`CommitDurable`,
`CheckpointDurable`, `RecoveryDurable`, `EnvironmentDurable`), resting on lemmas
about log prefixes (`SamePrefix`, `NoCommit`, `OneCommit`, `DiskKept`).

From it: `AckedStaysOnDisk`, `ServedStateCorrect`, `HeadIsExact`.

`HeadOnlyAdvances` (`HeadAdvances`) needs `HeadInv`: a handle knows the published
generation, or has published the next one itself, and while it makes a
checkpoint the published LSN is older. What stops a handle that has published
once from publishing the same generation again is the very conflict on
CHECKPOINT-<gen> that `durable_wedge` reports.

`PromiseKept` is the refinement of `DurableLog`, initial states and steps. The
mapping takes `Log` (the transactions committed in the file, in order), the part
an fsync has confirmed, the acknowledged ones, and `View` (what an idle handle
shows). `JobInv` says that a call under way commits a batch of its caller's,
under an id new to the handle. Every action is one of `Promise`'s steps or a
stutter: `CommitStep`, `ConfirmStep`, `HardenStep`, `CutStep`, `ShowStep`.

`OpenNeverRefuses` (`NeverRefused`) has the further assumption
`RetryIds = FALSE`, without which it is false (section 4). `OrderInv` says that
the frames of a transaction form one run, that no id begins twice and no
checkpoint frame lies inside a run (`LogOrdered`); that the call under way
continues such a run (`JobOrdered`); and that replay's `begun` and `got` are what
that order makes of the frames read (`ReplayOrdered`).

`CliIsACaller` shows that every step of the command line is a step of the
database, so all of the above holds under it; `AnswersStayTrue` (`AnswersStay`)
then needs only `CliInv`: what was told of a key is what the log says, and what
every shorter log says that a power loss can leave (`ToldTrue`); a transaction
under way is the command's and has silenced its key, which has the command's
value once it is committed (`CommandStands`). Both assume that opens may or may
not repair (`RepairModes = BOOLEAN`), as the steps of the command line do.

`AckedStaysUnrepaired` is `AckedOnDisk` for the callers of `durable_library`, who
retry ids and go on with a handle after errors, where nobody repairs. An
incomplete frame need not be the last one here; what carries the proof is that
no step takes back what an fsync covered (`FsyncedStays`).

### The trust ledger (`LedgerProofs`)

`LedgerTypeCorrect`, `AckedStaysInLedger`, `HistoryIsFinal`, `MaturityIsEarned`
and `SupersessionGoesForward` hold for any number of processes without a lock,
records, frames and faults, whether or not handles are used after errors.

The argument is about histories first. `Legal(l)` says that l satisfies the
three rules and that tracked records have a last frame; `AppendLegal` shows
that a legal history with an accepted frame behind it is legal. `EarnedIn` is
inductive because the snapshot's frame already has its promotion in the
history; `ForwardIn` because a superseding record is checked not to be terminal
(`Supersedable`) and a superseded one never changes again (`FinalIn`). With
several writers the file itself need not be legal, and memory comes from the
file; so the inductive invariant `LedgerInv` says that every prefix of the file
that replays is legal (`PrefixLegal`), that every handle's memory is legal, and
that a frame being written is the one accepted behind the handle's memory
(`WritingExact`).

`RefusesOnlyTornEnds` and `AckedIsServed` assume one process that drops its
handle after an error (`OneWriter`). Both halves are needed: a handle used after
a failed fsync repeats a sequence, and two processes can acknowledge
contradictory frames. Their invariant adds that the file replays up to an
incomplete end and that an open handle holds exactly the file.

### The co-commit (`CommitProofs`)

`StagesHold`, `TransitionsOnce`, `AckedStays` and `OpensUnlessTorn` (and the types,
`CommitTyped`) hold for any requests, careful or not, any number of commands
and changes of records, and any number of crashes of one kind: `OneFault` is
`MaxKills = 0 \/ MaxPower = 0`. A kill followed by a power loss really breaks
them (section 4): a kill leaves appends that no fsync covers, which a recovery takes
for done and a power loss takes back. Where power may be lost, every append is
known to be fsynced before the next one (`Covered`), so the power loss comes
before any recovery could rely on it.

`CommitInv` has three parts. `DiskInv` says that journal, database and ledger
agree (`Agree`), of the files and of their fsynced parts, because a power loss
turns the one into the other. `CommandInv` says which stage a running command
has journalled and which of the three files is already ahead of it. `OutcomeInv`
says that what was answered is finalized in the fsynced journal.

### Trust root and approval (`AuthorityProofs`)

`AnAdminRemains`, `EffectsAreAuthorized` and `FinalizedWithQuorum` hold for any
number of processes that interleave without a lock. In `AuthInv` the files only
grow, a process holds a prefix of each, and what it found in the prefix it still
finds in the file: an authorization, a request, an approval by a key active at
that registry head. A registry which two processes spoil no longer replays, and
`AdminRemains` is about one that does.

`SurfaceIsKeptOpen` and `RevokedPoliciesBeginNothing` assume `OneAtATime`, as the
offline surface documents: two processes may append the same sequence number, and
a status read by one may be outdated by the other. `SoloInv` adds that the running
command holds the whole files (`UpToDate`) and that these replay (`Contents`).
A transaction keeps how long the status ledger was when it was prepared, and
stages and recovery hand it on unchanged.

### Asymmetric trust and federation (`FederationProofs`)

`ActiveKeysKept`, `EvidenceStays` and `BundlesHaveQuorum` rest on `FedInv`. The
provider changes before the registry does: a key command under way has its key
in the provider, or a deletion that read the registry before its event has taken
it (`CommandStands`), having found no active key under that name
(`DeletionsStand`). Processes hold parts of what the files have
become (`HandlesStand`). The lemmas behind
`EvidenceStays` say that verification is monotone, level by level: an
authorization refers to the registry head it names, a federation event to
authorizations, a provenance record to a bundle, and what was verified once is
verified by whoever has more of the files (`VerifyKept`, `RefersKept`,
`FedEventKept`, `BindingKept`). `BundlesHaveQuorum` follows from the replay of
the federation ledger; votes are compared as equal sums of equal functions, so
no induction over the sum is needed.

### Services (`ServiceProofs`)

- Daemon: `AnswersAreTrue`, `AuditIsComplete`, `AuditAlwaysReplays`. In
  `DaemonInv` executed identifiers lie below the one being handled (`IdsInv`),
  every step knows whether its request has reached the backend (`StepInv`,
  `PendingInv`), answers tell what was executed (`AnswersInv`), and the audit
  file replays, with the wrapper behind its last record, and has the calls one by
  one, up to the one pending (`AuditInv`, `ToldInv`).
- Backup: `BackupsHold`, `RestoresAsApproved`. Versions only grow, so two
  blocks read one after the other that agree with the digest read before them
  were together in the source at that moment; `BackupInv` carries this through
  copy, seal and publication, and through damage, which digests notice.
- Migration: `ReceiptsMeanComplete`. `MigrationInv` says that the commits are the
  plan's operations up to some point in order (`TargetStands`) and the open batch
  those behind it (`BatchStands`). That none was overwritten by a later one on
  the same record follows from the counts: the map from operations to keys is a
  surjection of sets of one size, hence injective (`CountedOnce`).

### Semantic index (`SemanticProofs`)

- Vector store: `VectorsStay`, `OpensUnlessUnfinished`. `VectorInv` follows an
  image through persist_image and recover_image: `Held` is what the next recovery
  will make of the files of a path, and no operation but the promotion changes
  it. Without a journal recover_image never has residue to tidy.
- Artifacts: `ArtifactsStayAsRegistered`. `DerivedInv` says what disk and memory
  keep (`DiskKeeps`, `MemoryKeeps`) and how far an opening, a builder or a
  persist under way has come (`Opening`, `Working`).
- Router: `DeviceIsTrusted`, for any number of threads and engines. `RouterInv`: a
  device that a query caught is disabled, a disabled one has no engine, an engine
  is certified and was not caught (`CaughtIsGone`); and each query has decided on the state of its last lock
  (`QueryStands`).

### What the proofs changed

A revocation in one namespace ended, in an earlier model of the federation, an
authority's office in every namespace; the code asks for the same policy, and so
does `VoterAt` now. `ActiveKeyKept` gained that an active key has a public key.
`BundleQuorum` is stated over approvals with distinct keys, and
`ReceiptMeansComplete` by batches that follow one another, instead of folds that
no prover here can unfold. Assumptions on the constants are types of the inputs
and, for behaviours that start with files, that these are files the code could
have written.

## 6. Plan

The modules of the plan are written and the safety properties proved. What is
left is to strengthen single results:

1. The co-commit with kills after the last power loss, instead of crashes of one
   kind.
2. That all the services together keep their properties: each is proved for its
   own specification, and they share no state.

## 7. Not modelled

- Wave core, structural vectors, hybrid scores and rankings: floating-point
  arithmetic, whose results no small set of integers stands for. They keep no
  durable state. Of the hybrid engine only its check of the router's receipt is
  modelled.
- materialize_shadow, abort and release of the transaction core: they change
  memory only, and the durable database never sees them.
- Overlapping mutate commands on one database: ruled out by the documented
  offline surface; what they would do is said in section 4.
- Byte layouts, SHA-256, text formats and argument parsing, and the import of
  JSON documents and graphs, which is parsing in front of ordinary batches.
- Audit exports and reports, which read files and change nothing; metrics.
- The Windows CNG provider: external, modelled by the calls made of it.
- Format compatibility (names of scenarios, constants), the Python oracle
  (`python_ref`), benchmarks and release tooling.
