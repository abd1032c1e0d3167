--------------------------- MODULE TrustAuthority ---------------------------
(***************************************************************************)
(* The trust root of ultraballoondb-trust-auth: the key registry, the      *)
(* authorization ledger, the policy registry, the policy status ledger and *)
(* the commits made under their authority.  Every command of the trust     *)
(* command line is a process that opens the files it needs one after the   *)
(* other, appends its authorization and then does what was authorized.     *)
(* Nothing locks the directory.  A commit goes through the coordinator,     *)
(* which first recovers what an earlier one left unfinished.  Its files    *)
(* are the subject of TrustCommit; here a transaction is at the stage a    *)
(* recovery would find it in, and no two coordinators work at once.        *)
(***************************************************************************)
EXTENDS KeyRegistry

CONSTANTS
    Proc,           \* processes that run commands
    Policy,         \* policy ids with their version
    Digest,         \* digests of policy definitions
    Reason,         \* reason codes of policy revocations
    Request,        \* trust commit requests
    PolicyOf,       \* [Request -> Policy]: the policy a request names
    Jobs,           \* the command lines that may be run
    Starts,         \* initial trust roots: their files and key registry
    MaxKeys,        \* bound: frames of the key registry
    MaxAuths,       \* bound: frames of the authorization ledger
    MaxFaults       \* bound: kills

VARIABLES
    files,     \* the files that exist, and "root" for their directory
    keys,      \* key registry
    auths,     \* authorization ledger
    policies,  \* policy registry
    status,    \* policy status ledger
    pending,   \* transactions of the commit journal that are not finished
    commits,   \* transactions that are finalized, in order
    torn,      \* files that end in part of a frame
    pc,        \* where each process stands
    job,       \* what it was asked to do
    seen,      \* how many frames of each file its handles hold
    ref,       \* what it will name as its operation: an authorization or key event
    faults

avars == <<files, keys, auths, policies, status, pending, commits, torn, pc, job,
           seen, ref, faults>>

FileOrder == <<"key_registry", "authorization_ledger", "policy_registry",
               "policy_status", "trust_ledger", "commit_journal">>

FileNames == {FileOrder[i] : i \in 1..Len(FileOrder)}

CoreFiles == FileNames \ {"policy_status"}

None == [cmd |-> "none"]

KeyCommand == {"key-bootstrap", "key-register", "key-rotate", "key-revoke"}

Unseen == [keys |-> 0, auths |-> 0, policies |-> 0, status |-> 0]

(* The command lines: the flags each command requires. *)

BootstrapLine(k, roles, s, t, n) ==
    [cmd |-> "key-bootstrap", key |-> k, roles |-> roles, secret |-> s,
     time |-> t, nonce |-> n]

RegisterLine(k, roles, s, signer, w, t, n) ==
    [cmd |-> "key-register", key |-> k, roles |-> roles, secret |-> s,
     signer |-> signer, with |-> w, time |-> t, nonce |-> n]

\* old is the fingerprint approved-key-rotate is told to expect.
RotateLine(k, old, s, signer, w, t, n) ==
    [cmd |-> "key-rotate", key |-> k, old |-> old, secret |-> s,
     signer |-> signer, with |-> w, time |-> t, nonce |-> n]

RevokeLine(k, signer, w, t, n) ==
    [cmd |-> "key-revoke", key |-> k, signer |-> signer, with |-> w, time |-> t,
     nonce |-> n]

PolicyRegisterLine(q, d, signer, w, t, n) ==
    [cmd |-> "policy-register", policy |-> q, digest |-> d, signer |-> signer,
     with |-> w, time |-> t, nonce |-> n]

PolicyRevokeLine(q, reason, signer, w, t, n) ==
    [cmd |-> "policy-revoke", policy |-> q, reason |-> reason,
     signer |-> signer, with |-> w, time |-> t, nonce |-> n]

CommitLine(r, signer, w, t, n) ==
    [cmd |-> "trust-commit", request |-> r, signer |-> signer, with |-> w,
     time |-> t, nonce |-> n]

ASSUME AuthorityAssumption ==
    /\ \A s \in Starts : s.keys \in Seq(KeyEvent) /\ KeysReplay(s.keys)
    /\ \A j \in Jobs : j.cmd \in KeyCommand => j.key \in KeyId
    /\ PolicyOf \in [Request -> Policy]
    /\ MaxTime \in Nat /\ MaxKeys \in Nat /\ MaxAuths \in Nat /\ MaxFaults \in Nat

-----------------------------------------------------------------------------
(* Reading the files. *)

\* open_strict finds the file and no torn end.
Readable(f) == f \in files /\ f \notin torn

KeysOpen == Readable("key_registry") /\ KeysReplay(keys)

RegisteredIn(ps, q) == \E i \in 1..Len(ps) : ps[i].policy = q

PolicyDigest(ps, q) == ps[CHOOSE i \in 1..Len(ps) : ps[i].policy = q].digest

RevokedIn(st, q) == \E i \in 1..Len(st) : st[i].policy = q

\* PolicyRegistry::replay
PoliciesReplay(ps) ==
    /\ Numbered(ps)
    /\ \A i, j \in 1..Len(ps) : ps[i].policy = ps[j].policy => i = j

RevokeSubject(q, d, reason) == <<"policy-revoke", q, d, reason>>

\* validate_authorization_proof: the role each domain asks for.
RoleOf == [POLICY_REGISTER |-> "POLICY_ADMIN", POLICY_REVOKE |-> "POLICY_ADMIN",
           TRUST_COMMIT |-> "TRUST_OPERATOR"]

\* AuthorizationLedger::replay.  A record is its proof and its number, and its
\* proof is its event id.
AuthsReplay(as) ==
    /\ Numbered(as)
    /\ \A i \in 1..Len(as) :
        /\ as[i].id.role = RoleOf[as[i].id.domain]
        /\ as[i].time > LastTime(SubSeq(as, 1, i - 1))
        /\ ~NonceUsed(SubSeq(as, 1, i - 1), as[i].signer, as[i].nonce)
        /\ \A h \in 1..(i - 1) : as[h].id # as[i].id

\* The status ledger has its own frames, numbered the same way.
StatusFrames(st) == Numbered(st)

\* PolicyStatusLedger::replay, validate_event
StatusReplays(st) ==
    /\ StatusFrames(st)
    /\ \A i \in 1..Len(st) :
        /\ st[i].time > LastTime(SubSeq(st, 1, i - 1))
        /\ ~RevokedIn(SubSeq(st, 1, i - 1), st[i].policy)

\* validate_policy_status_bindings
BindingsHold(st, as, ps) ==
    \A i \in 1..Len(st) :
        /\ RegisteredIn(ps, st[i].policy)
        /\ PolicyDigest(ps, st[i].policy) = st[i].digest
        /\ \E a \in 1..Len(as) :
            /\ as[a].id = st[i].auth
            /\ as[a].id.domain = "POLICY_REVOKE"
            /\ as[a].id.subject =
                RevokeSubject(st[i].policy, st[i].digest, st[i].reason)
            /\ as[a].time = st[i].time

\* What trust-status and every other command must be able to open.
SurfaceOpens ==
    /\ \A f \in {"key_registry", "authorization_ledger", "policy_registry",
                 "policy_status"} : Readable(f)
    /\ KeysReplay(keys) /\ AuthsReplay(auths) /\ PoliciesReplay(policies)
    /\ StatusReplays(status) /\ BindingsHold(status, auths, policies)

-----------------------------------------------------------------------------

Init ==
    /\ \E s \in Starts : files = s.files /\ keys = s.keys
    /\ auths = <<>> /\ policies = <<>> /\ status = <<>> /\ commits = <<>>
    /\ pending = {} /\ torn = {}
    /\ pc = [p \in Proc |-> "idle"]
    /\ job = [p \in Proc |-> None]
    /\ seen = [p \in Proc |-> Unseen]
    /\ ref = [p \in Proc |-> None]
    /\ faults = 0

Idle(p) ==
    /\ pc' = [pc EXCEPT ![p] = "idle"]
    /\ job' = [job EXCEPT ![p] = None]
    /\ seen' = [seen EXCEPT ![p] = Unseen]
    /\ ref' = [ref EXCEPT ![p] = None]

\* trust-init: the root must not exist.
TrustInit ==
    /\ files = {}
    /\ files' = FileNames \cup {"root"}
    /\ UNCHANGED <<keys, auths, policies, status, pending, commits, torn, pc,
                   job, seen, ref, faults>>

\* Killed between two files: what is there stays.
TrustInitKilled == \E n \in 0..(Len(FileOrder) - 1) :
    /\ files = {} /\ faults < MaxFaults
    /\ files' = {"root"} \cup {FileOrder[i] : i \in 1..n}
    /\ faults' = faults + 1
    /\ UNCHANGED <<keys, auths, policies, status, pending, commits, torn, pc,
                   job, seen, ref>>

\* governance-upgrade adds the status ledger to a root made before it existed.
GovernanceUpgrade ==
    /\ "root" \in files /\ \A f \in CoreFiles : Readable(f)
    /\ KeysReplay(keys) /\ AuthsReplay(auths) /\ PoliciesReplay(policies)
    /\ "policy_status" \notin files
    /\ files' = files \cup {"policy_status"}
    /\ UNCHANGED <<keys, auths, policies, status, pending, commits, torn, pc,
                   job, seen, ref, faults>>

-----------------------------------------------------------------------------
(* Opening. *)

\* A command starts by opening the key registry, which a key command needs
\* alone; the others open the authorization ledger next.
Begin(p, j) ==
    /\ job' = [job EXCEPT ![p] = j]
    /\ \/ /\ j.cmd \in KeyCommand
          /\ seen' = [seen EXCEPT ![p] = [Unseen EXCEPT !.keys = Len(keys)]]
          /\ pc' = [pc EXCEPT ![p] = "ready"]
       \/ /\ j.cmd \notin KeyCommand
          /\ Readable("authorization_ledger") /\ AuthsReplay(auths)
          /\ seen' = [seen EXCEPT ![p] = [Unseen EXCEPT !.keys = Len(keys),
                                                        !.auths = Len(auths)]]
          /\ pc' = [pc EXCEPT ![p] = "opening"]
    /\ UNCHANGED <<files, keys, auths, policies, status, pending, commits,
                   torn, ref, faults>>

Start(p) ==
    /\ pc[p] = "idle"
    /\ KeysOpen
    /\ Len(keys) < MaxKeys /\ Len(auths) < MaxAuths

KeysOf(p) == SubSeq(keys, 1, seen[p].keys)
AuthsOf(p) == SubSeq(auths, 1, seen[p].auths)
PoliciesOf(p) == SubSeq(policies, 1, seen[p].policies)
StatusOf(p) == SubSeq(status, 1, seen[p].status)

\* The policy files are opened after the authorization ledger; the bindings
\* are checked over what was read.
OpenPolicies(p) ==
    /\ pc[p] = "opening"
    /\ IF /\ Readable("policy_registry") /\ Readable("policy_status")
          /\ PoliciesReplay(policies) /\ StatusReplays(status)
          /\ BindingsHold(status, AuthsOf(p), policies)
       THEN /\ seen' = [seen EXCEPT ![p].policies = Len(policies),
                                    ![p].status = Len(status)]
            /\ pc' = [pc EXCEPT ![p] = "ready"]
            /\ UNCHANGED <<job, ref>>
       ELSE Idle(p)
    /\ UNCHANGED <<files, keys, auths, policies, status, pending, commits,
                   torn, faults>>

-----------------------------------------------------------------------------
(* Key commands. *)

KeyRefused(p) ==
    /\ pc[p] = "ready" /\ job[p].cmd \in KeyCommand
    /\ KeyAppends(KeysOf(p), job[p]) = {}
    /\ Idle(p)
    /\ UNCHANGED <<files, keys, auths, policies, status, pending, commits,
                   torn, faults>>

AppendKey(p, cmd) ==
    /\ pc[p] = "ready" /\ job[p].cmd = cmd
    /\ \E e \in KeyAppends(KeysOf(p), job[p]) :
        /\ keys' = Append(keys, e)
        /\ ref' = [ref EXCEPT ![p] = e]
    /\ pc' = [pc EXCEPT ![p] = "done"]
    /\ UNCHANGED <<files, auths, policies, status, pending, commits, torn, job,
                   seen, faults>>

KeyBootstrap(p) == AppendKey(p, "key-bootstrap")
KeyRegister(p) == AppendKey(p, "key-register")
KeyRotate(p) == AppendKey(p, "key-rotate")
KeyRevoke(p) == AppendKey(p, "key-revoke")

-----------------------------------------------------------------------------
(* Authorized commands. *)

Domain(j) ==
    CASE j.cmd = "policy-register" -> "POLICY_REGISTER"
      [] j.cmd = "policy-revoke"   -> "POLICY_REVOKE"
      [] j.cmd = "trust-commit"    -> "TRUST_COMMIT"

Subject(j, ps) ==
    CASE j.cmd = "policy-register" -> <<"policy", j.policy, j.digest>>
      [] j.cmd = "policy-revoke"   ->
            RevokeSubject(j.policy, PolicyDigest(ps, j.policy), j.reason)
      [] j.cmd = "trust-commit"    -> <<"commit", j.request>>

\* Mutant: a revoked policy does not stop a command.
PolicyAdmitsAny(j, ps, st) ==
    j.cmd = "policy-revoke" => RegisteredIn(ps, j.policy)

\* What a command asks of the policy before it signs anything.
PolicyAdmits(j, ps, st) ==
    CASE j.cmd = "policy-register" -> ~RevokedIn(st, j.policy)
      [] j.cmd = "policy-revoke"   -> RegisteredIn(ps, j.policy)
      [] j.cmd = "trust-commit"    -> ~RevokedIn(st, PolicyOf[j.request])

\* KeyRegistry::authorize: the proof names the registry head it was made under.
Authorize(ks, j, ps) ==
    [domain |-> Domain(j), role |-> RoleOf[Domain(j)], time |-> j.time,
     subject |-> Subject(j, ps), signer |-> j.signer, fp |-> j.with,
     head |-> Len(ks), nonce |-> j.nonce]

\* Mutant: the secret is checked, the state of the key is not.
SignableByAny(ks, j) ==
    Known(ks, j.signer) /\ KeyState(ks, j.signer).fp = j.with

Signable(ks, j) == VerifySecretRole(ks, j.signer, j.with, RoleOf[Domain(j)])

Recorded(as, proof) == \E i \in 1..Len(as) : as[i].id = proof

\* Mutant: a nonce may be used again.
FreshProofAnyNonce(as, proof) == proof.time > LastTime(as)

\* append_once: a proof that is not yet in the ledger.
FreshProof(as, proof) ==
    /\ ~NonceUsed(as, proof.signer, proof.nonce)
    /\ proof.time > LastTime(as)

AuthorizationRecord(as, proof) ==
    [seq |-> Len(as) + 1, id |-> proof, signer |-> proof.signer,
     nonce |-> proof.nonce, time |-> proof.time]

MayAuthorize(p) ==
    /\ PolicyAdmits(job[p], PoliciesOf(p), StatusOf(p))
    /\ Signable(KeysOf(p), job[p])
    /\ LET proof == Authorize(KeysOf(p), job[p], PoliciesOf(p)) IN
        Recorded(AuthsOf(p), proof) \/ FreshProof(AuthsOf(p), proof)

\* append_once: a repeated command finds its record and goes on.
AppendOnce(p) ==
    /\ pc[p] = "ready" /\ job[p].cmd \notin KeyCommand
    /\ MayAuthorize(p)
    /\ LET proof == Authorize(KeysOf(p), job[p], PoliciesOf(p)) IN
        /\ ref' = [ref EXCEPT ![p] = proof]
        /\ auths' = IF Recorded(AuthsOf(p), proof) THEN auths
                    ELSE Append(auths, AuthorizationRecord(AuthsOf(p), proof))
    /\ pc' = [pc EXCEPT ![p] = "authorized"]
    /\ UNCHANGED <<files, keys, policies, status, pending, commits, torn, job,
                   seen, faults>>

AuthorizationRefused(p) ==
    /\ pc[p] = "ready" /\ job[p].cmd \notin KeyCommand
    /\ ~MayAuthorize(p)
    /\ Idle(p)
    /\ UNCHANGED <<files, keys, auths, policies, status, pending, commits,
                   torn, faults>>

Done(p) ==
    /\ pc' = [pc EXCEPT ![p] = "done"]
    /\ UNCHANGED <<files, keys, auths, torn, job, seen, ref, faults>>

\* The command fails after its authorization was recorded.
Fail(p) ==
    /\ Idle(p)
    /\ UNCHANGED <<files, keys, auths, policies, status, pending, commits,
                   torn, faults>>

\* register_policy_authorized after append_once.
PolicyRegister(p) ==
    /\ pc[p] = "authorized" /\ job[p].cmd = "policy-register"
    /\ LET j == job[p]
           ps == PoliciesOf(p)
       IN \/ /\ ~RegisteredIn(ps, j.policy)
             /\ policies' = Append(policies, [seq |-> Len(ps) + 1,
                    policy |-> j.policy, digest |-> j.digest])
             /\ UNCHANGED <<status, pending, commits>>
             /\ Done(p)
          \/ /\ RegisteredIn(ps, j.policy)
             /\ PolicyDigest(ps, j.policy) = j.digest
             /\ UNCHANGED <<policies, status, pending, commits>>
             /\ Done(p)
          \/ /\ RegisteredIn(ps, j.policy)
             /\ PolicyDigest(ps, j.policy) # j.digest
             /\ Fail(p)

\* What a revocation writes, copied from its authorization.
RevokeEvent(st, j, d, id) ==
    [seq |-> Len(st) + 1, policy |-> j.policy, digest |-> d,
     reason |-> j.reason, auth |-> id, time |-> id.time]

\* PolicyStatusLedger::append_revoke
PolicyRevoke(p) ==
    /\ pc[p] = "authorized" /\ job[p].cmd = "policy-revoke"
    /\ LET j == job[p]
           st == StatusOf(p)
           d == PolicyDigest(PoliciesOf(p), j.policy)
           same == \E i \in 1..Len(st) :
                    /\ st[i].policy = j.policy /\ st[i].digest = d
                    /\ st[i].reason = j.reason /\ st[i].auth = ref[p]
       IN \/ /\ ~RevokedIn(st, j.policy)
             /\ ref[p].time > LastTime(st)
             /\ status' = Append(status, RevokeEvent(st, j, d, ref[p]))
             /\ UNCHANGED <<policies, pending, commits>>
             /\ Done(p)
          \/ /\ same
             /\ UNCHANGED <<policies, status, pending, commits>>
             /\ Done(p)
          \/ /\ IF RevokedIn(st, j.policy) THEN ~same
                ELSE ref[p].time <= LastTime(st)
             /\ Fail(p)

-----------------------------------------------------------------------------
(* commit_trust_authorized after append_once: the coordinator. *)

Finalized(q) == \E i \in 1..Len(commits) : commits[i].request = q

\* A transaction: its request, the authorization of the command that prepared it,
\* how long the status ledger was then, and the stage recovery would find.
Transaction(q, id, n, stage) ==
    [request |-> q, auth |-> id, after |-> n, stage |-> stage]

\* TrustCommitCoordinator::open_strict, up to recovery
CoordinatorOpens ==
    /\ Readable("trust_ledger") /\ Readable("commit_journal")
    /\ Readable("policy_registry") /\ PoliciesReplay(policies)

\* The transaction goes on from stage to stage: PREPARED, then its binding record
\* is in the database, then its transition in the trust ledger, then FINALIZED.
MoveTo(t, stage) ==
    /\ pending' = (pending \ {t})
                  \cup {Transaction(t.request, t.auth, t.after, stage)}
    /\ UNCHANGED commits

FinalizeTransaction(t) ==
    /\ pending' = pending \ {t}
    /\ commits' = Append(commits, t)

Committing(p, at) == pc[p] = at /\ job[p].cmd = "trust-commit"

\* recover_transaction, of whatever request: without its binding it is aborted,
\* with it it is carried out.  Recovery asks PolicyRegistry::authorize and not
\* the status ledger.
RecoverPending(p) ==
    /\ Committing(p, "authorized") /\ CoordinatorOpens
    /\ \E t \in pending :
        /\ RegisteredIn(policies, PolicyOf[t.request])
        /\ \/ /\ t.stage = "prepared"
              /\ pending' = pending \ {t} /\ UNCHANGED commits
           \/ t.stage = "bound" /\ MoveTo(t, "applied")
           \/ t.stage = "applied" /\ FinalizeTransaction(t)
    /\ UNCHANGED <<files, keys, auths, policies, status, torn, pc, job, seen,
                   ref, faults>>

\* A request the coordinator finalized before is answered with its receipt, be
\* it by the recovery that just ran.
AnswerFinalized(p) ==
    /\ Committing(p, "authorized") /\ CoordinatorOpens
    /\ pending = {} /\ Finalized(job[p].request)
    /\ UNCHANGED <<policies, status, pending, commits>>
    /\ Done(p)

\* prepare_context and the PREPARED entry.
Prepare(p) ==
    /\ Committing(p, "authorized") /\ CoordinatorOpens
    /\ pending = {} /\ ~Finalized(job[p].request)
    /\ RegisteredIn(policies, PolicyOf[job[p].request])
    /\ pending' = {Transaction(job[p].request, ref[p], Len(status), "prepared")}
    /\ pc' = [pc EXCEPT ![p] = "committing"]
    /\ UNCHANGED <<files, keys, auths, policies, status, commits, torn, job,
                   seen, ref, faults>>

\* The rest of commit.
Commit(p) ==
    /\ Committing(p, "committing")
    /\ \E t \in pending :
        /\ t.request = job[p].request /\ t.auth = ref[p]
        /\ \/ /\ t.stage = "prepared" /\ MoveTo(t, "bound")
              /\ UNCHANGED <<files, keys, auths, torn, pc, job, seen, ref,
                             faults>>
           \/ /\ t.stage = "bound" /\ MoveTo(t, "applied")
              /\ UNCHANGED <<files, keys, auths, torn, pc, job, seen, ref,
                             faults>>
           \/ /\ t.stage = "applied" /\ FinalizeTransaction(t)
              /\ Done(p)
    /\ UNCHANGED <<policies, status>>

\* The coordinator does not open, a recovery fails, the request is refused, or
\* the database or the trust ledger refuses its transaction, which stays.
CommitFails(p) ==
    /\ \/ /\ Committing(p, "authorized")
          /\ ~CoordinatorOpens \/ pending # {} \/ ~Finalized(job[p].request)
       \/ /\ Committing(p, "committing")
          /\ \A t \in pending : t.stage # "applied"
    /\ Fail(p)

\* The command prints its receipt and ends.
Return(p) ==
    /\ pc[p] = "done"
    /\ Idle(p)
    /\ UNCHANGED <<files, keys, auths, policies, status, pending, commits,
                   torn, faults>>

-----------------------------------------------------------------------------

Kill(p) ==
    /\ pc[p] # "idle" /\ faults < MaxFaults
    /\ faults' = faults + 1
    /\ Idle(p)
    /\ UNCHANGED <<files, keys, auths, policies, status, pending, commits,
                   torn>>

\* The file the next append of p goes to.
NextFile(p) ==
    CASE pc[p] = "ready" /\ job[p].cmd \in KeyCommand -> "key_registry"
      [] pc[p] = "ready" /\ job[p].cmd \notin KeyCommand -> "authorization_ledger"
      [] pc[p] = "authorized" /\ job[p].cmd = "policy-register" -> "policy_registry"
      [] pc[p] = "authorized" /\ job[p].cmd = "policy-revoke" -> "policy_status"
      [] \/ pc[p] = "committing"
         \/ /\ Committing(p, "authorized")
            /\ pending # {} \/ ~Finalized(job[p].request) ->
            IF \E t \in pending : t.stage = "bound" THEN "trust_ledger"
            ELSE "commit_journal"
      [] OTHER -> "none"

\* Killed with part of a frame written; no command repairs the file.
KillInAppend(p) ==
    /\ NextFile(p) # "none" /\ faults < MaxFaults
    /\ torn' = torn \cup {NextFile(p)}
    /\ faults' = faults + 1
    /\ Idle(p)
    /\ UNCHANGED <<files, keys, auths, policies, status, pending, commits>>

\* What a process does once its command has begun.
Work(p) ==
    \/ OpenPolicies(p)
    \/ KeyRefused(p) \/ KeyBootstrap(p) \/ KeyRegister(p) \/ KeyRotate(p)
    \/ KeyRevoke(p)
    \/ AppendOnce(p) \/ AuthorizationRefused(p)
    \/ PolicyRegister(p) \/ PolicyRevoke(p)
    \/ RecoverPending(p) \/ AnswerFinalized(p) \/ Prepare(p) \/ Commit(p)
    \/ CommitFails(p)
    \/ Kill(p) \/ KillInAppend(p)

Next ==
    \/ TrustInit \/ TrustInitKilled \/ GovernanceUpgrade
    \/ \E p \in Proc :
        (Start(p) /\ \E j \in Jobs : Begin(p, j)) \/ Work(p) \/ Return(p)

Spec == Init /\ [][Next]_avars

-----------------------------------------------------------------------------
(* Properties. *)

\* The registry can always be administered again: from the bootstrap on some
\* active key holds KEY_ADMIN, whatever was rotated and revoked in whatever
\* order (revoke_key's count of the remaining administrators).
AdminRemains ==
    \/ keys = <<>>
    \/ \E k \in KeyId : HasRole(keys, k, "KEY_ADMIN")
    \/ ~KeysReplay(keys)

\* An authorization that is in the ledger and was signed by a key that was
\* active with the role, and held that fingerprint, at the registry head it
\* names.
Authentic(id) ==
    /\ Recorded(auths, id)
    /\ VerifySecretRole(SubSeq(keys, 1, id.head), id.signer, id.fp,
                        RoleOf[id.domain])

CommitAuthorized(t) == Authentic(t.auth) /\ t.auth.subject = <<"commit", t.request>>

\* Every policy, every revocation and every commit rests on an authentic
\* authorization of exactly that operation: the three commands record it
\* before they act, also when they were killed and repeated, or when another
\* command's recovery finished what they began.
EffectsAuthorized ==
    /\ \A i \in 1..Len(policies) : \E a \in 1..Len(auths) :
        /\ auths[a].id.subject = <<"policy", policies[i].policy, policies[i].digest>>
        /\ Authentic(auths[a].id)
    /\ \A i \in 1..Len(status) :
        /\ Authentic(status[i].auth)
        /\ status[i].auth.subject =
            RevokeSubject(status[i].policy, status[i].digest, status[i].reason)
    /\ \A t \in pending : CommitAuthorized(t)
    /\ \A i \in 1..Len(commits) : CommitAuthorized(commits[i])

\* What one process after the other wrote, killed between any two steps, every
\* later command can open: the checks of the writers leave nothing that
\* replay or validate_policy_status_bindings would refuse.
SurfaceStaysOpen ==
    torn = {} /\ FileNames \subseteq files => SurfaceOpens

BegunUnrevoked(t) == ~RevokedIn(SubSeq(status, 1, t.after), PolicyOf[t.request])

\* No commit is begun under a policy after its revocation, not even by a command
\* that was authorized before it, killed, and repeated after it: every
\* transaction, finalized or pending, was prepared under a status ledger that
\* did not revoke its policy.  What was pending when the policy was revoked may
\* still be carried out, by the recovery of a commit under another policy.
\* Commands run one at a time here; the status ledger a command read may be
\* stale when another runs beside it.
RevokedBeginsNothing ==
    /\ \A t \in pending : BegunUnrevoked(t)
    /\ \A i \in 1..Len(commits) : BegunUnrevoked(commits[i])
=============================================================================
