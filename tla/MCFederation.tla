---------------------------- MODULE MCFederation ----------------------------
(***************************************************************************)
(* Small instances of AsymmetricTrust and Federation: an empty root, where *)
(* keys are enrolled, rotated, revoked and deleted, and a root with a      *)
(* controller and two authorities, of weight one each, under a policy that *)
(* asks for both.                                                          *)
(***************************************************************************)
EXTENDS Federation

CONSTANTS c, k, n1, n2, n3, n4, b1, o1

Both == {"controller", "authority"}
MCGrants == {Both}

Soft == [ns |-> "ns", controller |-> c, quorum |-> 2, require |-> "SOFTWARE"]
Hard == [ns |-> "ns", controller |-> c, quorum |-> 2, require |-> "HARDWARE"]
MCPolicies == {Soft, Hard}

Line(domain, role, subject, key) ==
    [domain |-> domain, role |-> role, subject |-> subject, key |-> key]

WeightUnder(pol) == IF pol = Soft THEN 1 ELSE 2

PolicyLine(pol) == Line("POLICY_REGISTER", "controller", PolicySubject(pol), c)
EnrollLine(pol, key) ==
    Line("POLICY_REGISTER", "controller", AuthoritySubject("enroll", pol, key, WeightUnder(pol)), c)
RevokeLine(pol, key) ==
    Line("POLICY_REVOKE", "controller", AuthoritySubject("revoke", pol, key, WeightUnder(pol)), c)
VoteLine(pol, version, parent, b, key) ==
    Line("BUNDLE", "authority", BundleSubject(pol, version, parent, b), key)
RecordLine(pol, version, parents, key) ==
    Line("PROVENANCE", "authority",
         <<"record", pol, o1, version, key, 1, b1, parents>>, key)

MCLines ==
    {RevokeLine(Soft, k), VoteLine(Soft, 1, Zero, b1, c),
     RecordLine(Soft, 1, {}, k)}
    \cup {VoteLine(pol, 1, Zero, b1, k) : pol \in MCPolicies}

Event(kind, key, name, pub, gen) ==
    [kind |-> kind, key |-> key, name |-> name, pub |-> pub, roles |-> Both, gen |-> gen]

SignedLine(l, pub) ==
    [domain |-> l.domain, role |-> l.role, subject |-> l.subject, key |-> l.key,
     head |-> 2, pub |-> pub]

Staff == <<Event("ENROLL", c, n1, 1, 1), Event("ENROLL", k, n2, 2, 1)>>

\* In the soft namespace the controller is an authority and has voted; for the
\* hard one the controller has signed its policy and its only authority.
Orders(pol) ==
    <<SignedLine(PolicyLine(pol), 1), SignedLine(EnrollLine(pol, k), 1)>>
    \o IF pol = Soft
       THEN <<SignedLine(EnrollLine(pol, c), 1), SignedLine(VoteLine(pol, 1, Zero, b1, c), 1)>>
       ELSE <<>>

Office(pol) ==
    IF pol = Soft
    THEN <<[kind |-> "POLICY_SET", policy |-> pol, auth |-> 1],
           [kind |-> "ENROLL", policy |-> pol, key |-> c, weight |-> 1, auth |-> 3]>>
    ELSE <<>>

Holding == [n \in Name |-> IF n = n1 THEN 1 ELSE IF n = n2 THEN 2 ELSE 0]

MCStarts ==
    {[provider |-> [n \in Name |-> 0], created |-> 0, reg |-> <<>>, auths |-> <<>>,
      fed |-> <<>>]}
    \cup {[provider |-> Holding, created |-> 2, reg |-> Staff, auths |-> Orders(pol),
           fed |-> Office(pol)] : pol \in MCPolicies}

SetUp(pol) == auths # <<>> /\ auths[1].subject = PolicySubject(pol)

\* Nobody signs the same line twice, and only for the policy that was set.  The
\* empty root sees key commands only; with a namespace they do not fail and
\* delete no provider key, and only in the hard one something is killed.
FederationScenario ==
    /\ auths = <<>> => auths' = <<>> /\ signer' = Closed /\ held' = Shut
    /\ auths # <<>> =>
        /\ \A i \in 1..Len(auths') : auths'[i].subject[2] = auths[1].subject[2]
        /\ \A i, j \in 1..Len(auths') : i # j => auths'[i].subject # auths'[j].subject
                                               \/ auths'[i].key # auths'[j].key
        /\ keycmd' # Idle => keycmd'.fresh
        /\ provider[n1] = provider'[n1] /\ provider[n2] = provider'[n2]
        /\ provider'[n4] = 0 /\ deleting' = {}
        /\ keycmd # Idle /\ keycmd' = Idle => reg' # reg
        /\ SetUp(Soft) => faults' = 0
=============================================================================
