----------------------------- MODULE MCApproval -----------------------------
(***************************************************************************)
(* Small instances of TrustAuthority and EnterpriseApproval.  A behaviour  *)
(* starts without keys and lives through the plain commands, or starts     *)
(* with an administrator and two auditors and lives through approvals; the *)
(* two use different secrets, and Scenario keeps a process from running    *)
(* the commands of the other, which would all be refused.  Where a second  *)
(* policy is registered it also keeps the keys as they are.                *)
(***************************************************************************)
EXTENDS EnterpriseApproval

CONSTANTS a, x, y, s0, s1, s2, s3, s4, n1, n2, n3, n4, n5, q1, q2, d1, d2, w1, r1, r2,
          Rotations    \* does the instance rotate under approval, or commit?

MCPolicyOf == [r \in Request |-> IF r = r2 THEN q2 ELSE q1]

\* The nonces of the commands, and of the events of a root that is staffed.
MCNonce == {n1, n2, n3, n4, n5} \cup {<<"start", seq>> : seq \in 1..3}

Powers == {"KEY_ADMIN", "POLICY_ADMIN", "TRUST_OPERATOR"}

\* The plain life of a trust root: two administrators, rotation and revocation
\* of either by either, a policy, its revocation and a commit.
PlainLife ==
    {BootstrapLine(a, Powers, s0, 1, n1),
     RegisterLine(x, {"KEY_ADMIN"}, s2, a, s0, 2, n2),
     RotateLine(a, s0, s4, x, s2, 3, n1)}
    \cup {RevokeLine(x, a, s0, 4, n3), RevokeLine(a, x, s2, 3, n1),
          RevokeLine(a, x, s2, 5, n2), RevokeLine(x, x, s2, 5, n2)}
    \cup {PolicyRegisterLine(q1, d, a, s0, 2, n1) : d \in Digest}
    \cup {PolicyRevokeLine(q1, w1, a, s0, 4, n2), PolicyRevokeLine(q1, w1, a, s0, 4, n1)}
    \cup {CommitLine(r1, a, s0, t, n3) : t \in {3, 5}}

\* A second policy is registered first; a commit under the other one may be cut
\* short, that policy revoked, and a commit under the second then meets it.
TwoPolicies ==
    {PolicyRegisterLine(q2, d1, a, s0, 1, n4), PolicyRegisterLine(q1, d1, a, s0, 2, n1),
     CommitLine(r1, a, s0, 3, n3), PolicyRevokeLine(q1, w1, a, s0, 4, n2),
     CommitLine(r2, a, s0, 6, n5)}

FreshJobs == PlainLife \cup TwoPolicies

\* Under approval: a rotation, repeated, or a policy and its use; an
\* auditor may lose its key meanwhile.
ApprovedJobs ==
    IF Rotations
    THEN {RotateLine(x, s2, s4, a, s1, 5, n1), RotateLine(x, s2, s4, a, s1, 8, n2)}
    ELSE {RotateLine(x, s2, s4, a, s1, 5, n1), RotateLine(x, s2, s4, a, s2, 8, n2)}
         \cup {PolicyRegisterLine(q1, d1, a, s1, t, n1) : t \in {5, 8}}
         \cup {PolicyRevokeLine(q1, w1, a, s1, 8, n2), CommitLine(r1, a, s1, 8, n1)}

AuditorRevoked == RevokeLine(y, a, s1, 4, n2)

MCJobs == FreshJobs \cup ApprovedJobs \cup {AuditorRevoked}
MCPlainJobs == FreshJobs \cup {AuditorRevoked}

Enables == {EnableLine(a, s1, 1)}

Asked(domain, subject, t, n) ==
    RequestLine(domain, subject, a, s1, t, 8, n)

RequestCalls ==
    IF Rotations
    THEN {Asked("KEY_ROTATE", RotateSubject(x, s2, s4, {"AUDITOR"}), 1, n1),
          Asked("KEY_ROTATE", RotateSubject(x, s2, s4, {"AUDITOR"}), 2, n2)}
    ELSE {Asked("KEY_ROTATE", RotateSubject(x, s2, s4, {"AUDITOR"}), 2, n2),
          Asked("POLICY_REGISTER", <<"policy", q1, d1>>, 1, n1),
          Asked("POLICY_REGISTER", <<"policy", q1, d1>>, 2, n2),
          Asked("POLICY_REVOKE", RevokeSubject(q1, d1, w1), 2, n2),
          Asked("TRUST_COMMIT", <<"commit", r1>>, 2, n2)}

SignCalls ==
    {SignLine(g[1], g[2], t, IF t < 5 THEN n1 ELSE n2) :
        g \in {<<a, s1>>, <<x, s2>>, <<x, s4>>, <<y, s3>>}, t \in {3, 4, 6, 7}}

MCCalls == Enables \cup RequestCalls \cup SignCalls

Registered(seq, k, s, roles) ==
    [seq |-> seq, kind |-> IF seq = 1 THEN "BOOTSTRAP" ELSE "REGISTER",
     target |-> k, fp |-> s, old |-> s, roles |-> roles, signer |-> a,
     signerFp |-> s1, time |-> seq, nonce |-> <<"start", seq>>]

Staffed == <<Registered(1, a, s1, Powers),
             Registered(2, x, s2, {"AUDITOR"}),
             Registered(3, y, s3, {"AUDITOR"})>>

WholeRoot == FileNames \cup {"root"}
MCStarts == {[files |-> {}, keys |-> <<>>],
             [files |-> CoreFiles \cup {"root"}, keys |-> <<>>],
             [files |-> WholeRoot, keys |-> Staffed]}
StaffedOnly == {[files |-> WholeRoot, keys |-> Staffed]}

Fresh == keys = <<>> \/ keys[1].fp # s1

Scenario ==
    \A p \in Proc : job'[p] # None =>
        /\ job'[p] \in FreshJobs <=> Fresh
        /\ RegisteredIn(policies, q2) => job'[p] \in TwoPolicies
        /\ RegisteredIn(policies, q2) \/ Len(auths) < 4
        /\ job'[p] \notin PlainLife /\ Fresh => Len(keys) = 1
=============================================================================
