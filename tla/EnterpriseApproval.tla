------------------------- MODULE EnterpriseApproval -------------------------
(***************************************************************************)
(* The enterprise profile of ultraballoondb-trust-enterprise on top of the *)
(* trust root: requests, approvals by auditors and one finalization per    *)
(* request, in the approvals file, around the commands of TrustAuthority.  *)
(* An approved command checks that its request is ready, runs the trust    *)
(* command, and finalizes the request with a reference to what it did; the *)
(* plain trust commands still run beside it.                               *)
(***************************************************************************)
EXTENDS TrustAuthority

CONSTANTS
    Threshold,      \* approvals a request needs
    MaxTtl,         \* longest life of a request
    PlainJobs,      \* the jobs also run without an approval
    Calls,          \* approval-request and approval-sign command lines
    MaxApprovals    \* bound: frames of the approvals file

VARIABLES
    profile,        \* activation time of the profile, 0 before it
    ledger,         \* does the approvals file exist?
    approvals,      \* the approvals file
    held,           \* frames of it that the handle of each process holds
    request         \* the request an approved command runs under

evars == <<profile, ledger, approvals, held, request>>
vars == <<avars, evars>>

ASSUME EnterpriseAssumption ==
    /\ Threshold \in Nat /\ MaxTtl \in Nat /\ MaxApprovals \in Nat
    /\ PlainJobs \subseteq Jobs

ProtectedDomain == {"POLICY_REGISTER", "TRUST_COMMIT", "KEY_ROTATE", "POLICY_REVOKE"}

RequesterRole == [POLICY_REGISTER |-> "POLICY_ADMIN", POLICY_REVOKE |-> "POLICY_ADMIN",
                  TRUST_COMMIT |-> "TRUST_OPERATOR", KEY_ROTATE |-> "KEY_ADMIN"]

RotateSubject(k, old, new, roles) == <<"key-rotate", k, old, new, roles>>

EnableLine(signer, w, t) ==
    [cmd |-> "enterprise-enable", signer |-> signer, with |-> w, time |-> t]

RequestLine(domain, subject, signer, w, t, expires, n) ==
    [cmd |-> "approval-request", domain |-> domain, subject |-> subject,
     signer |-> signer, with |-> w, time |-> t, expires |-> expires, nonce |-> n]

SignLine(signer, w, t, n) ==
    [cmd |-> "approval-sign", signer |-> signer, with |-> w, time |-> t,
     nonce |-> n]

\* Nonces of a caller, and the one an approved command derives from its own.
Caller(n) == <<n, "caller">>
FinalizeNonce(n) == <<n, "approval-finalize">>

-----------------------------------------------------------------------------
(* What the events of ap say of a request. *)

EventsOf(ap, kind, id) ==
    {i \in 1..Len(ap) : ap[i].kind = kind /\ ap[i].id = id}

Requested(ap, id) == EventsOf(ap, "REQUEST", id) # {}
Approvers(ap, id) == {ap[i].signer : i \in EventsOf(ap, "APPROVE", id)}
IsFinalized(ap, id) == EventsOf(ap, "FINALIZE", id) # {}

\* ApprovalRequestState::status_at
StatusAt(ap, id, t) ==
    CASE IsFinalized(ap, id) -> "FINALIZED"
      [] ~IsFinalized(ap, id) /\ t > id.expires -> "EXPIRED"
      [] ~IsFinalized(ap, id) /\ t <= id.expires ->
            IF Cardinality(Approvers(ap, id)) >= Threshold THEN "READY"
            ELSE "PENDING"

\* validate_event_against_states
ValidApproval(ap, e) ==
    CASE e.kind = "REQUEST" ->
            /\ ~Requested(ap, e.id)
            /\ e.time = e.id.created /\ e.signer = e.id.requester
      [] e.kind = "APPROVE" ->
            /\ Requested(ap, e.id) /\ ~IsFinalized(ap, e.id)
            /\ e.id.created < e.time /\ e.time <= e.id.expires
            /\ e.signer # e.id.requester
            /\ e.signer \notin Approvers(ap, e.id)
      [] e.kind = "FINALIZE" ->
            /\ Requested(ap, e.id) /\ ~IsFinalized(ap, e.id)
            /\ e.id.created < e.time /\ e.time <= e.id.expires
            /\ e.signer = e.id.requester
            /\ Cardinality(Approvers(ap, e.id)) >= Threshold

\* The checks of ApprovalLedger::append and of replay on one event.
Appendable(ap, e) ==
    /\ e.time > LastTime(ap)
    /\ ~NonceUsed(ap, e.signer, e.nonce)
    /\ ValidApproval(ap, e)

ApprovalFrames(ap) == Numbered(ap)

ApprovalsReplay(ap) ==
    /\ ApprovalFrames(ap)
    /\ \A i \in 1..Len(ap) : Appendable(SubSeq(ap, 1, i - 1), ap[i])

ApprovalsOpen ==
    profile > 0 /\ ledger /\ "approvals" \notin torn /\ ApprovalsReplay(approvals)

Event(ap, kind, id, actor, t, nonce, reference) ==
    [seq |-> Len(ap) + 1, kind |-> kind, id |-> id, signer |-> actor, time |-> t,
     nonce |-> nonce, head |-> Len(keys), reference |-> reference]

-----------------------------------------------------------------------------

EInit ==
    /\ Init
    /\ profile = 0
    /\ ledger = FALSE
    /\ approvals = <<>>
    /\ held = [p \in Proc |-> 0]
    /\ request = [p \in Proc |-> None]

Settled(p) ==
    /\ held' = [held EXCEPT ![p] = 0]
    /\ request' = [request EXCEPT ![p] = None]

\* enterprise-enable: the profile first, then the approvals file.  A profile
\* that exists is kept, so the command may be repeated.
EnterpriseEnable == \E c \in Calls :
    /\ c.cmd = "enterprise-enable"
    /\ ~(ledger /\ profile > 0)
    /\ \/ profile > 0 /\ profile' = profile
       \/ /\ profile = 0
          /\ VerifySecretRole(keys, c.signer, c.with, "KEY_ADMIN")
          /\ profile' = c.time
    /\ KeysOpen
    /\ ledger => ApprovalsReplay(approvals)
    /\ ledger' = TRUE
    /\ UNCHANGED <<approvals, held, request>>
    /\ UNCHANGED avars

\* Killed between the profile and the approvals file.
EnterpriseEnableKilled == \E c \in Calls :
    /\ c.cmd = "enterprise-enable" /\ faults < MaxFaults
    /\ profile = 0 /\ VerifySecretRole(keys, c.signer, c.with, "KEY_ADMIN")
    /\ KeysOpen
    /\ profile' = c.time
    /\ faults' = faults + 1
    /\ UNCHANGED <<ledger, approvals, held, request>>
    /\ UNCHANGED <<files, keys, auths, policies, status, pending, commits,
                   torn, pc, job, seen, ref>>

\* compute_request_id: the id is a digest of these.
RequestId(c) ==
    [domain |-> c.domain, subject |-> c.subject, requester |-> c.signer,
     fp |-> c.with, created |-> c.time, expires |-> c.expires,
     head |-> Len(keys), nonce |-> c.nonce]

\* ApprovalLedger::request
MayRequest(c) ==
    /\ c.domain \in ProtectedDomain
    /\ c.expires > c.time /\ c.expires - c.time <= MaxTtl
    /\ c.time > LastTime(approvals) /\ c.time >= profile
    /\ VerifySecretRole(keys, c.signer, c.with, RequesterRole[c.domain])

ApprovalRequest ==
    /\ Len(approvals) < MaxApprovals
    /\ ApprovalsOpen /\ KeysOpen
    /\ \E c \in Calls :
        /\ c.cmd = "approval-request"
        /\ MayRequest(c)
        /\ LET e == Event(approvals, "REQUEST", RequestId(c), c.signer, c.time,
                          Caller(c.nonce), None)
           IN /\ Appendable(approvals, e)
              /\ approvals' = Append(approvals, e)
    /\ UNCHANGED <<profile, ledger, held, request>>
    /\ UNCHANGED avars

\* Mutant: an auditor may approve after its key was revoked.
MaySignRevoked(c, id) ==
    /\ ~IsFinalized(approvals, id)
    /\ c.time > LastTime(approvals) /\ c.time > id.created /\ c.time <= id.expires
    /\ c.signer # id.requester
    /\ c.signer \notin Approvers(approvals, id)
    /\ "AUDITOR" \in KeyState(keys, c.signer).roles
    /\ KeyState(keys, c.signer).fp = c.with

\* ApprovalLedger::approve
MaySign(c, id) ==
    /\ ~IsFinalized(approvals, id)
    /\ c.time > LastTime(approvals) /\ c.time > id.created /\ c.time <= id.expires
    /\ c.signer # id.requester
    /\ c.signer \notin Approvers(approvals, id)
    /\ VerifySecretRole(keys, c.signer, c.with, "AUDITOR")

ApprovalSign ==
    /\ Len(approvals) < MaxApprovals
    /\ ApprovalsOpen /\ KeysOpen
    /\ \E c \in {d \in Calls : d.cmd = "approval-sign"}, i \in 1..Len(approvals) :
        /\ approvals[i].kind = "REQUEST"
        /\ MaySign(c, approvals[i].id)
        /\ LET e == Event(approvals, "APPROVE", approvals[i].id, c.signer,
                          c.time, Caller(c.nonce), None)
           IN /\ Appendable(approvals, e)
              /\ approvals' = Append(approvals, e)
    /\ UNCHANGED <<profile, ledger, held, request>>
    /\ UNCHANGED avars

-----------------------------------------------------------------------------
(* Approved commands. *)

ValidateReady(ap, id, domain, subject, requester, t) ==
    /\ Requested(ap, id)
    /\ id.domain = domain /\ id.subject = subject /\ id.requester = requester
    /\ ~IsFinalized(ap, id)
    /\ t > LastTime(ap) /\ t <= id.expires /\ t > id.created
    /\ Cardinality(Approvers(ap, id)) >= Threshold

\* The request a process is about to run its job under.
Chosen(p, id) ==
    /\ held' = [held EXCEPT ![p] = Len(approvals)]
    /\ request' = [request EXCEPT ![p] = id]
    /\ UNCHANGED <<profile, ledger, approvals>>

ApprovedRegisterPolicy(p, j, id) ==
    /\ j.cmd = "policy-register" /\ Chosen(p, id)
    /\ ValidateReady(approvals, id, "POLICY_REGISTER", Subject(j, policies),
                     j.signer, j.time)
    /\ Begin(p, j)

ApprovedRevokePolicy(p, j, id) ==
    /\ j.cmd = "policy-revoke" /\ Chosen(p, id)
    /\ RegisteredIn(policies, j.policy)
    /\ ValidateReady(approvals, id, "POLICY_REVOKE", Subject(j, policies),
                     j.signer, j.time)
    /\ Begin(p, j)

ApprovedCommitTrust(p, j, id) ==
    /\ j.cmd = "trust-commit" /\ Chosen(p, id)
    /\ ValidateReady(approvals, id, "TRUST_COMMIT", Subject(j, policies),
                     j.signer, j.time)
    /\ Begin(p, j)

RotationReady(j, id) ==
    /\ Known(keys, j.key)
    /\ ValidateReady(approvals, id, "KEY_ROTATE",
            RotateSubject(j.key, j.old, j.secret, KeyState(keys, j.key).roles),
            j.signer, j.time)

\* approved_rotate_key while the target still has the expected fingerprint.
ApprovedRotateKey(p, j, id) ==
    /\ j.cmd = "key-rotate" /\ Chosen(p, id)
    /\ RotationReady(j, id)
    /\ KeyState(keys, j.key).fp = j.old
    /\ Begin(p, j)

\* The first event that rotated the key as the request says.
RotationFound(j, i) ==
    LET made(x) == /\ keys[x].kind = "ROTATE" /\ keys[x].target = j.key
                   /\ keys[x].old = j.old /\ keys[x].fp = j.secret
    IN made(i) /\ \A h \in 1..(i - 1) : ~made(h)

\* The target already has the new fingerprint: the rotation is not repeated,
\* its event is what will be finalized.
ApprovedRotateRecovered(p, j, id) ==
    /\ j.cmd = "key-rotate" /\ Chosen(p, id)
    /\ RotationReady(j, id)
    /\ KeyState(keys, j.key).fp # j.old /\ KeyState(keys, j.key).fp = j.secret
    /\ \E i \in 1..Len(keys) :
        RotationFound(j, i) /\ ref' = [ref EXCEPT ![p] = keys[i]]
    /\ job' = [job EXCEPT ![p] = j]
    /\ pc' = [pc EXCEPT ![p] = "done"]
    /\ UNCHANGED <<files, keys, auths, policies, status, pending, commits,
                   torn, seen, faults>>

\* The secret finalize is given: a key that rotated itself signs with its new one.
FinalizeSecret(j) ==
    IF j.cmd = "key-rotate" /\ j.signer = j.key THEN j.secret ELSE j.with

HeldOf(p) == SubSeq(approvals, 1, held[p])

FinalizeEvent(p) ==
    Event(HeldOf(p), "FINALIZE", request[p], job[p].signer, job[p].time,
          FinalizeNonce(job[p].nonce), ref[p])

\* ApprovalLedger::finalize with the registry opened again.
MayFinalize(p) ==
    /\ "approvals" \notin torn /\ KeysOpen
    /\ ValidateReady(HeldOf(p), request[p], request[p].domain, request[p].subject,
                     job[p].signer, job[p].time)
    /\ VerifySecretRole(keys, job[p].signer, FinalizeSecret(job[p]),
                        RequesterRole[request[p].domain])
    /\ Appendable(HeldOf(p), FinalizeEvent(p))

Finalize(p) ==
    /\ pc[p] = "done" /\ request[p] # None
    /\ MayFinalize(p)
    /\ approvals' = Append(approvals, FinalizeEvent(p))
    /\ Return(p)
    /\ Settled(p)
    /\ UNCHANGED <<profile, ledger>>

\* The operation is done and the request stays open.
FinalizeRefused(p) ==
    /\ pc[p] = "done" /\ request[p] # None
    /\ ~MayFinalize(p)
    /\ Return(p)
    /\ Settled(p)
    /\ UNCHANGED <<profile, ledger, approvals>>

\* A step of the trust command itself; when the command ends there, so does
\* the approved one.
TrustStep(p) ==
    /\ Work(p)
    /\ IF pc'[p] = "idle" THEN Settled(p) ELSE UNCHANGED <<held, request>>
    /\ UNCHANGED <<profile, ledger, approvals>>

PlainReturn(p) ==
    /\ request[p] = None
    /\ Return(p)
    /\ UNCHANGED evars

Approved(p) ==
    /\ Start(p) /\ ApprovalsOpen /\ Len(approvals) < MaxApprovals
    /\ \E j \in Jobs, id \in {approvals[i].id : i \in 1..Len(approvals)} :
        \/ ApprovedRegisterPolicy(p, j, id)
        \/ ApprovedRevokePolicy(p, j, id)
        \/ ApprovedCommitTrust(p, j, id)
        \/ ApprovedRotateKey(p, j, id)
        \/ ApprovedRotateRecovered(p, j, id)

\* The plain trust commands.
Plain(p) ==
    /\ Start(p)
    /\ \E j \in PlainJobs : Begin(p, j)
    /\ UNCHANGED evars

ENext ==
    \/ (TrustInit \/ TrustInitKilled \/ GovernanceUpgrade) /\ UNCHANGED evars
    \/ EnterpriseEnable \/ EnterpriseEnableKilled
    \/ ApprovalRequest \/ ApprovalSign
    \/ \E p \in Proc :
        Plain(p) \/ Approved(p) \/ TrustStep(p) \/ PlainReturn(p)
        \/ Finalize(p) \/ FinalizeRefused(p)

ESpec == EInit /\ [][ENext]_vars

-----------------------------------------------------------------------------
(* Properties. *)

Finalizations == {i \in 1..Len(approvals) : approvals[i].kind = "FINALIZE"}

\* What a finalization refers to exists and is the operation that was asked for.
ReferenceDone(e) ==
    IF e.id.domain = "KEY_ROTATE"
    THEN \E k \in 1..Len(keys) :
            /\ keys[k] = e.reference
            /\ e.id.subject = RotateSubject(keys[k].target, keys[k].old,
                                           keys[k].fp, keys[k].roles)
    ELSE /\ Authentic(e.reference)
         /\ e.reference.domain = e.id.domain /\ e.reference.subject = e.id.subject

\* A finalized request was approved, while it lived, by Threshold different
\* keys other than the requester's, each an active auditor when it signed, and
\* the operation it names was carried out as requested: through kills between
\* the operation and its finalization, repeated commands and changed keys.
FinalizedByQuorum ==
    \A i \in Finalizations :
        LET e == approvals[i]
            signs == EventsOf(SubSeq(approvals, 1, i - 1), "APPROVE", e.id)
        IN /\ Cardinality({approvals[s].signer : s \in signs}) >= Threshold
           /\ \A s \in signs :
                /\ approvals[s].signer # e.id.requester
                /\ e.id.created < approvals[s].time
                /\ approvals[s].time <= e.id.expires
                /\ HasRole(SubSeq(keys, 1, approvals[s].head),
                           approvals[s].signer, "AUDITOR")
           /\ ReferenceDone(e)

\* The specification's words: "Every post-activation KEY_ROTATE event must be
\* referenced by exactly one valid FINALIZE event."
RotationReferencedOnce ==
    \A i, j \in Finalizations :
        /\ approvals[i].id.domain = "KEY_ROTATE"
        /\ approvals[i].reference = approvals[j].reference
        => i = j
=============================================================================
