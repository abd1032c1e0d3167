----------------------------- MODULE Federation -----------------------------
(***************************************************************************)
(* The enterprise federation ledger of ultraballoondb-trust-federation and *)
(* the provenance ledger of ultraballoondb-provenance.  Both are written   *)
(* by one service, which holds the key registry and the authorization      *)
(* ledger as they were when it opened them; keys are rotated and revoked   *)
(* and authorizations signed meanwhile.  Every entry names authorizations  *)
(* by their number, and every open of the files replays all of it again.   *)
(*                                                                         *)
(* A policy is the record [ns, controller, quorum, require] and stands for *)
(* its digest; a subject is a tuple with what its digest covers.           *)
(***************************************************************************)
EXTENDS AsymmetricTrust

CONSTANTS
    Policies,       \* namespace policies that may be set
    Weights,        \* weights an authority may be enrolled with
    Bundles,        \* digests of policy bundles
    Objects,        \* objects whose provenance is recorded
    MaxFed,         \* bound: frames of the federation ledger
    MaxProv         \* bound: frames of the provenance ledger

\* The zero digest: the parent of a first bundle.
Zero == "ZERO"

ASSUME FederationAssumption ==
    /\ \A pol \in Policies : pol.controller \in KeyId /\ pol.require \in Requirement
    /\ Zero \notin Bundles

VARIABLES
    fed,       \* federation ledger
    prov,      \* provenance ledger
    held       \* the service's handles: lengths of registry and ledger

vars == <<provider, created, reg, auths, keycmd, deleting, lost, signer, torn, faults,
          fed, prov, held>>

Shut == [reg |-> Closed, auths |-> Closed]

\* What a federation frame and a provenance frame decode to.
IsFedEvent(e) ==
    /\ e.kind \in {"POLICY_SET", "ENROLL", "REVOKE", "BUNDLE"}
    /\ e.policy.controller \in KeyId /\ e.policy.require \in Requirement
    /\ e.kind \in {"ENROLL", "REVOKE"} => e.key \in KeyId /\ e.weight \in Weights
    /\ e.kind = "BUNDLE" => e.approvals \subseteq Nat /\ e.bundle # Zero

IsRecord(e) ==
    e.object \in Objects /\ e.actor \in KeyId /\ e.version \in Nat /\ e.parents \subseteq Nat

\* decode_frames of the federation file, replay of the provenance file
FedWhole == "fed" \notin torn
ProvWhole == "prov" \notin torn

PolicySubject(pol) == <<"policy", pol>>
AuthoritySubject(kind, pol, k, w) == <<kind, pol, k, w>>
BundleSubject(pol, version, parent, b) == <<"bundle", pol, version, parent, b>>

-----------------------------------------------------------------------------
(* The federation ledger as a fold of its events. *)

PolicySet(f, ns) == {i \in 1..Len(f) : f[i].kind = "POLICY_SET" /\ f[i].policy.ns = ns}

AuthorityEvents(f, ns, k) ==
    {i \in 1..Len(f) : /\ f[i].kind \in {"ENROLL", "REVOKE"}
                       /\ f[i].policy.ns = ns /\ f[i].key = k}

\* An authority that stays one once it was enrolled.
EverAuthority(f, ns, k) == AuthorityEvents(f, ns, k) # {}

\* authorities: the last event about the pair decides.
ActiveAuthority(f, ns, k) ==
    /\ AuthorityEvents(f, ns, k) # {}
    /\ f[Max(AuthorityEvents(f, ns, k))].kind = "ENROLL"

WeightOf(f, ns, k) == f[Max(AuthorityEvents(f, ns, k))].weight

Accepted(f, ns) == {i \in 1..Len(f) : f[i].kind = "BUNDLE" /\ f[i].policy.ns = ns}

LastVersion(f, ns) == IF Accepted(f, ns) = {} THEN 0 ELSE f[Max(Accepted(f, ns))].version
LastBundle(f, ns) == IF Accepted(f, ns) = {} THEN Zero ELSE f[Max(Accepted(f, ns))].bundle

UsedApprovals(f) == UNION {f[i].approvals : i \in {j \in 1..Len(f) : f[j].kind = "BUNDLE"}}

\* verify_authorization_reference
Refers(r, as, n, domain, role, subject) ==
    /\ n \in 1..Len(as)
    /\ as[n].domain = domain /\ as[n].role = role /\ as[n].subject = subject
    /\ VerifyAuthorization(r, as[n])

ByController(r, as, n, domain, subject, pol) ==
    /\ Refers(r, as, n, domain, "controller", subject)
    /\ as[n].key = pol.controller

\* accept_bundle, validate_event: one approval of the bundle
ValidApproval(r, as, f, e, n) ==
    /\ Refers(r, as, n, "BUNDLE", "authority",
              BundleSubject(e.policy, e.version, e.parent, e.bundle))
    /\ n \notin UsedApprovals(f)
    /\ ActiveAuthority(f, e.policy.ns, as[n].key)
    /\ ProviderAdmits(StateAtHead(r, as[n].head, as[n].key).name, e.policy.require)

Weight(as, f, e) == SumFunction([n \in e.approvals |-> WeightOf(f, e.policy.ns, as[n].key)])

\* EnterpriseFederationLedger::validate_event
ValidPolicySet(r, as, f, e) ==
    /\ PolicySet(f, e.policy.ns) = {}
    /\ e.policy.quorum > 0
    /\ ByController(r, as, e.auth, "POLICY_REGISTER", PolicySubject(e.policy), e.policy)
    /\ ProviderAdmits(StateAtHead(r, as[e.auth].head, e.policy.controller).name,
                         e.policy.require)

UnderPolicy(f, e) == \E i \in PolicySet(f, e.policy.ns) : f[i].policy = e.policy

ValidEnroll(r, as, f, e) ==
    /\ UnderPolicy(f, e)
    /\ e.weight > 0
    /\ ~ActiveAuthority(f, e.policy.ns, e.key)
    /\ ByController(r, as, e.auth, "POLICY_REGISTER",
                    AuthoritySubject("enroll", e.policy, e.key, e.weight), e.policy)
    /\ HasRoleAtHead(r, as[e.auth].head, e.key, "authority")
    /\ ProviderAdmits(StateAtHead(r, as[e.auth].head, e.key).name, e.policy.require)

ValidRevoke(r, as, f, e) ==
    /\ UnderPolicy(f, e)
    /\ ActiveAuthority(f, e.policy.ns, e.key)
    /\ e.weight = WeightOf(f, e.policy.ns, e.key)
    /\ ByController(r, as, e.auth, "POLICY_REVOKE",
                    AuthoritySubject("revoke", e.policy, e.key, e.weight), e.policy)

ValidBundle(r, as, f, e) ==
    /\ UnderPolicy(f, e)
    /\ e.version = LastVersion(f, e.policy.ns) + 1
    /\ e.parent = LastBundle(f, e.policy.ns)
    /\ \A n \in e.approvals : ValidApproval(r, as, f, e, n)
    /\ \A n1, n2 \in e.approvals : as[n1].key = as[n2].key => n1 = n2
    /\ Weight(as, f, e) >= e.policy.quorum

ValidFedEvent(r, as, f, e) ==
    /\ e.kind = "POLICY_SET" => ValidPolicySet(r, as, f, e)
    /\ e.kind = "ENROLL" => ValidEnroll(r, as, f, e)
    /\ e.kind = "REVOKE" => ValidRevoke(r, as, f, e)
    /\ e.kind = "BUNDLE" => ValidBundle(r, as, f, e)

\* EnterpriseFederationLedger::replay
FedReplays(r, as, f) ==
    \A i \in 1..Len(f) :
        IsFedEvent(f[i]) /\ ValidFedEvent(r, as, SubSeq(f, 1, i - 1), f[i])

-----------------------------------------------------------------------------
(* The provenance ledger. *)

RecordSubject(e) ==
    <<"record", e.policy, e.object, e.version, e.actor, e.bundleVersion, e.bundle,
      e.parents>>

\* verify_federation_binding
BoundToBundle(f, e) ==
    \E i \in Accepted(f, e.policy.ns) :
        /\ f[i].policy = e.policy
        /\ f[i].version = e.bundleVersion /\ f[i].bundle = e.bundle

LatestVersion(p, e) ==
    Cardinality({i \in 1..Len(p) : p[i].object = e.object /\ p[i].policy.ns = e.policy.ns})

\* build_event, verify_event_trust
TrustedRecord(r, as, f, e) ==
    /\ Refers(r, as, e.auth, "PROVENANCE", "authority", RecordSubject(e))
    /\ as[e.auth].key = e.actor
    /\ BoundToBundle(f, e)

\* validate_state_transition.  Parents are numbers of earlier records; an
\* observed source has none, a derived object at least one.
ValidTransition(p, e) ==
    /\ \A i \in 1..Len(p) : p[i].auth # e.auth
    /\ e.version = LatestVersion(p, e) + 1
    /\ e.parents \subseteq 1..Len(p)

\* ProvenanceLedger::replay
ProvReplays(r, as, f, p) ==
    \A i \in 1..Len(p) :
        /\ IsRecord(p[i])
        /\ TrustedRecord(r, as, f, p[i])
        /\ ValidTransition(SubSeq(p, 1, i - 1), p[i])

-----------------------------------------------------------------------------
(* The service. *)

Registry == SubSeq(reg, 1, held.reg)
Ledger == SubSeq(auths, 1, held.auths)
ServiceOpen == held.reg # Closed /\ held.auths # Closed

OpenRegistry ==
    /\ held = Shut /\ RegistryOpens
    /\ held' = [held EXCEPT !.reg = Len(reg)]
    /\ UNCHANGED <<kvars, fed, prov>>

\* open_strict of the authorization, federation and provenance ledgers, each
\* over the handles opened before it; an authorization signed under a newer
\* registry than the one held is refused, and with it the open.
OpenLedgers ==
    /\ held.reg # Closed /\ held.auths = Closed
    /\ held' = IF /\ AuthsWhole /\ AuthsReplay(Registry, auths)
                  /\ FedWhole /\ FedReplays(Registry, auths, fed)
                  /\ ProvWhole /\ ProvReplays(Registry, auths, fed, prov)
               THEN [held EXCEPT !.auths = Len(auths)]
               ELSE Shut
    /\ UNCHANGED <<kvars, fed, prov>>

CloseService ==
    /\ ServiceOpen
    /\ held' = Shut
    /\ UNCHANGED <<kvars, fed, prov>>

\* EnterpriseFederationLedger::append
AppendFed(e) ==
    /\ ServiceOpen /\ Len(fed) < MaxFed
    /\ ValidFedEvent(Registry, Ledger, fed, e)
    /\ fed' = Append(fed, e)
    /\ UNCHANGED <<kvars, prov, held>>

SetNamespacePolicy(pol, n) ==
    AppendFed([kind |-> "POLICY_SET", policy |-> pol, auth |-> n])

\* enroll_authority also asks that the key has the role in the registry held
\* now, not only when the controller signed.
EnrollAuthority(pol, k, w, n) ==
    /\ HasRole(Registry, k, "authority")
    /\ ProviderAdmits(KeyState(Registry, k).name, pol.require)
    /\ AppendFed([kind |-> "ENROLL", policy |-> pol, key |-> k, weight |-> w,
                  auth |-> n])

RevokeAuthority(pol, k, n) ==
    /\ ActiveAuthority(fed, pol.ns, k)
    /\ AppendFed([kind |-> "REVOKE", policy |-> pol, key |-> k,
                  weight |-> WeightOf(fed, pol.ns, k), auth |-> n])

AcceptBundle(pol, b, approvals) ==
    /\ approvals # {}
    /\ AppendFed([kind |-> "BUNDLE", policy |-> pol, bundle |-> b,
                  version |-> LastVersion(fed, pol.ns) + 1,
                  parent |-> LastBundle(fed, pol.ns), approvals |-> approvals])

\* ProvenanceLedger::append_authorized
AppendRecord(pol, obj, n, i, parents) ==
    /\ ServiceOpen /\ Len(prov) < MaxProv
    /\ LET e == [policy |-> pol, object |-> obj, actor |-> Ledger[n].key, auth |-> n,
                 bundleVersion |-> fed[i].version, bundle |-> fed[i].bundle,
                 version |-> LatestVersion(prov, [policy |-> pol, object |-> obj]) + 1,
                 parents |-> parents]
       IN  /\ TrustedRecord(Registry, Ledger, fed, e) /\ ValidTransition(prov, e)
           /\ prov' = Append(prov, e)
    /\ UNCHANGED <<kvars, fed, held>>

\* The service dies while it appends to one of its files.
KillService ==
    /\ ServiceOpen /\ faults < MaxFaults
    /\ faults' = faults + 1
    /\ \E f \in {"fed", "prov"} : torn' = torn \cup {f}
    /\ held' = Shut
    /\ UNCHANGED <<provider, created, reg, auths, keycmd, deleting, lost, signer, fed, prov>>

-----------------------------------------------------------------------------
FInit ==
    /\ KInit
    /\ \E s \in Starts : reg = s.reg /\ auths = s.auths /\ fed = s.fed
    /\ prov = <<>> /\ held = Shut

FNext ==
    \/ KNext /\ UNCHANGED <<fed, prov, held>>
    \/ OpenRegistry \/ OpenLedgers \/ CloseService \/ KillService
    \/ \E pol \in Policies :
        \/ \E n \in 1..held.auths :
            \/ SetNamespacePolicy(pol, n)
            \/ \E k \in KeyId, w \in Weights : EnrollAuthority(pol, k, w, n)
            \/ \E k \in KeyId : RevokeAuthority(pol, k, n)
            \/ \E obj \in Objects, i \in Accepted(fed, pol.ns),
                  parents \in SUBSET (1..Len(prov)) : AppendRecord(pol, obj, n, i, parents)
        \/ \E b \in Bundles, approvals \in SUBSET (1..held.auths) :
            AcceptBundle(pol, b, approvals)

FSpec == FInit /\ [][FNext]_vars

ASSUME FedStartsAssumption ==
    \A s \in Starts :
        s.fed \in Seq(Range(s.fed)) /\ FedReplays(s.reg, s.auths, s.fed)

-----------------------------------------------------------------------------
(* Properties. *)

\* Whatever was verified once verifies at every later open: no rotation,
\* revocation or authorization that comes after it, and no handle that was
\* stale when it was written, makes a file that is whole fail to replay
\* (EnterpriseFederationLedger::replay and ProvenanceLedger::replay over the
\* registry and the ledger of the day).
EvidenceReplays ==
    /\ RegistryReplays(reg)
    /\ AuthsReplay(reg, auths)
    /\ FedReplays(reg, auths, fed)
    /\ ProvReplays(reg, auths, fed, prov)

\* Key k was an authority of the namespace when entry i was written, with the
\* weight its controller had signed for.
VoterAt(i, k, w) ==
    \E j \in 1..(i - 1) :
        /\ fed[j].kind = "ENROLL" /\ fed[j].policy = fed[i].policy
        /\ fed[j].key = k /\ fed[j].weight = w
        /\ auths[fed[j].auth].key = fed[i].policy.controller
        /\ \A h \in (j + 1)..(i - 1) :
              ~(fed[h].kind = "REVOKE" /\ fed[h].policy = fed[i].policy /\ fed[h].key = k)

\* Authorization n was made with a key the registry gave k, not revoked at the
\* head it names, and with a hardware key where the policy asks for one.
VotedWith(n, k, require) ==
    \E j \in 1..auths[n].head :
        /\ reg[j].key = k /\ reg[j].pub = auths[n].pub /\ reg[j].kind # "REVOKE"
        /\ require = "HARDWARE" => reg[j].name \in Hardware
        /\ \A h \in j..auths[n].head : ~(reg[h].kind = "REVOKE" /\ reg[h].key = k)

\* Behind every accepted bundle stands a quorum: authorities in office when it
\* was accepted, each counted once with the weight its controller signed, each
\* of whom signed this bundle as the successor of the one accepted before it
\* (accept_bundle, apply_event).
BundleQuorum ==
    \A i \in 1..Len(fed) : fed[i].kind = "BUNDLE" =>
        LET e == fed[i]
            subject == BundleSubject(e.policy, e.version, e.parent, e.bundle)
        IN  /\ \A m, n \in e.approvals : auths[m].key = auths[n].key => m = n
            /\ \E weight \in [e.approvals -> Weights] :
                /\ SumFunction(weight) >= e.policy.quorum
                /\ \A n \in e.approvals :
                    /\ auths[n].subject = subject
                    /\ VoterAt(i, auths[n].key, weight[n])
                    /\ VotedWith(n, auths[n].key, e.policy.require)
=============================================================================
