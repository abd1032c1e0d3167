-------------------------- MODULE FederationProofs --------------------------
(***************************************************************************)
(* Proofs about the asymmetric trust root, the federation and provenance,  *)
(* modules AsymmetricTrust and Federation: any keys, names, policies,      *)
(* weights, bundles, objects and number of faults.  The two registries and *)
(* the two ledgers are files that only grow, and a process holds a prefix. *)
(***************************************************************************)
EXTENDS Federation, FileLemmas, FiniteSetTheorems

-----------------------------------------------------------------------------
(* What the events of a registry leave each key in. *)

\* A process holds a part of what the file has grown to.
LEMMA HeldPart ==
    ASSUME NEW s, List(s), NEW n \in 0..Len(s)
    PROVE  List(SubSeq(s, 1, n)) /\ Extends(SubSeq(s, 1, n), s)
  <1> DEFINE p == SubSeq(s, 1, n)
  <1>1. Len(s) \in Nat /\ List(p) /\ Len(p) = n /\ \A i \in 1..n : p[i] = s[i]
    BY Prefix, ListLength
  <1>2. PICK S : s \in Seq(S)
    BY DEF List
  <1>3. PICK P : p \in Seq(P)
    BY <1>1 DEF List
  <1> HIDE DEF p
  <1>4. ASSUME NEW m \in 0..n
        PROVE  SubSeq(s, 1, m) = SubSeq(p, 1, m)
    <2>1. SubSeq(s, 1, m) = [i \in 1..m |-> s[i]]
      BY <1>2
    <2>2. SubSeq(p, 1, m) = [i \in 1..m |-> p[i]]
      BY <1>1, <1>3
    <2>3. \A i \in 1..m : i \in 1..n
      BY <1>1
    <2> QED
      BY <1>1, <2>1, <2>2, <2>3
  <1>5. n <= Len(s)
    BY <1>1
  <1>6. Extends(p, s)
    BY <1>1, <1>4, <1>5 DEF Extends
  <1> QED
    BY <1>1, <1>6 DEF p

\* The last event about a key is there, and nothing about the key follows it.
LEMMA LastIs ==
    ASSUME NEW r, List(r), NEW k, Known(r, k)
    PROVE  /\ Max(About(r, k)) \in 1..Len(r) /\ r[Max(About(r, k))].key = k
           /\ \A i \in 1..Len(r) : r[i].key = k => i <= Max(About(r, k))
  <1>1. Len(r) \in Nat
    BY ListLength
  <1>2. About(r, k) \in SUBSET (1..Len(r)) /\ About(r, k) # {}
    BY DEF About, Known
  <1>3. /\ Max(About(r, k)) \in About(r, k)
        /\ \A i \in About(r, k) : i <= Max(About(r, k))
    BY <1>1, <1>2, MaxIsLast
  <1> HIDE DEF Known
  <1> QED
    BY <1>3 DEF About

\* What an event makes of its key.
StateOf(e) ==
    [active |-> e.kind # "REVOKE", name |-> e.name, pub |-> e.pub, roles |-> e.roles,
     gen |-> e.gen]

\* apply_event: an event decides its own key and no other.
LEMMA KeyAppended ==
    ASSUME NEW r, List(r), NEW e, NEW k
    PROVE  /\ e.key = k => /\ Known(Append(r, e), k)
                           /\ KeyState(Append(r, e), k) = StateOf(e)
           /\ e.key # k => /\ Known(Append(r, e), k) <=> Known(r, k)
                           /\ KeyState(Append(r, e), k) = KeyState(r, k) \/ ~Known(r, k)
  <1> DEFINE t == Append(r, e)
  <1>1. /\ List(t) /\ Len(r) \in Nat /\ Len(t) = Len(r) + 1 /\ t[Len(r) + 1] = e
        /\ \A i \in 1..Len(r) : t[i] = r[i]
    BY FileAppended, ListLength
  <1> HIDE DEF t
  <1>2. About(r, k) \in SUBSET (1..Len(r)) /\ About(t, k) \in SUBSET (1..Len(t))
    BY DEF About
  <1>3. CASE e.key = k
    <2>1. Len(t) \in About(t, k)
      BY <1>1, <1>3 DEF About
    <2>2. Max(About(t, k)) = Len(t)
      <3>1. \A y \in About(t, k) : y <= Len(t)
        BY <1>1, <1>2
      <3>2. Len(t) \in Nat /\ About(t, k) # {}
        BY <1>1, <2>1
      <3> QED
        BY <1>2, <2>1, <3>1, <3>2, MaxIsLast, Zenon
    <2> QED
      BY <1>1, <1>3, <2>1, <2>2 DEF Known, KeyState, LastAbout, StateOf, t
  <1>4. CASE e.key # k
    <2>1. About(t, k) = About(r, k)
      BY <1>1, <1>4 DEF About
    <2>2. Known(r, k) => t[Max(About(r, k))] = r[Max(About(r, k))]
      BY <1>1, LastIs
    <2> QED
      BY <1>4, <2>1, <2>2 DEF Known, KeyState, LastAbout, t
  <1> QED
    BY <1>3, <1>4

\* An event is the last about its key and leaves the others theirs.
LEMMA LastAppended ==
    ASSUME NEW r, List(r), NEW e, NEW k
    PROVE  /\ e.key = k => Max(About(Append(r, e), k)) = Len(r) + 1
           /\ e.key # k => About(Append(r, e), k) = About(r, k)
  <1> DEFINE t == Append(r, e)
  <1>1. /\ Len(r) \in Nat /\ Len(t) = Len(r) + 1 /\ t[Len(r) + 1] = e
        /\ \A i \in 1..Len(r) : t[i] = r[i]
    BY FileAppended, ListLength
  <1> HIDE DEF t
  <1>2. About(t, k) \in SUBSET (1..Len(t)) /\ Len(t) \in Nat
    BY <1>1 DEF About
  <1>3. ASSUME e.key = k PROVE Max(About(t, k)) = Len(t)
    <2>1. Len(t) \in About(t, k)
      BY <1>1, <1>3 DEF About
    <2>2. \A y \in About(t, k) : y <= Len(t)
      BY <1>1, <1>2
    <2>3. About(t, k) # {}
      BY <2>1
    <2> QED
      BY <1>2, <2>1, <2>2, <2>3, MaxIsLast, Zenon
  <1>4. ASSUME e.key # k PROVE About(t, k) = About(r, k)
    BY <1>1, <1>4 DEF About
  <1> QED
    BY <1>1, <1>3, <1>4 DEF t

\* What append accepts, replay accepts.
LEMMA RegistryReplaysOn ==
    ASSUME NEW r \in Seq(KeyEvents), RegistryReplays(r), NEW e \in KeyEvents, ValidKeyEvent(r, e)
    PROVE  /\ RegistryReplays(Append(r, e)) /\ Append(r, e) \in Seq(KeyEvents)
           /\ List(r) /\ List(Append(r, e)) /\ Extends(r, Append(r, e))
  <1> DEFINE t == Append(r, e)
  <1>1. List(r) /\ t \in Seq(KeyEvents)
    BY DEF List
  <1>2. /\ Len(r) \in Nat /\ Len(t) = Len(r) + 1 /\ t[Len(r) + 1] = e
        /\ \A i \in 1..Len(r) : t[i] = r[i]
        /\ \A n \in 0..Len(r) : SubSeq(t, 1, n) = SubSeq(r, 1, n)
        /\ SubSeq(t, 1, Len(r)) = r /\ List(t) /\ Extends(r, t)
    BY <1>1, FileAppended, ListLength
  <1> HIDE DEF t
  <1>3. ASSUME NEW i \in 1..Len(t)
        PROVE  t[i] \in KeyEvents /\ ValidKeyEvent(SubSeq(t, 1, i - 1), t[i])
    <2>1. CASE i \in 1..Len(r)
      <3>1. i - 1 \in 0..Len(r)
        BY <1>2, <2>1
      <3>2. t[i] = r[i] /\ SubSeq(t, 1, i - 1) = SubSeq(r, 1, i - 1)
        BY <1>2, <2>1, <3>1
      <3> QED
        BY <2>1, <3>2 DEF RegistryReplays
    <2>2. CASE i = Len(r) + 1
      <3>1. i - 1 = Len(r)
        BY <1>2, <2>2
      <3>2. t[i] = e /\ SubSeq(t, 1, i - 1) = r
        BY <1>2, <2>2, <3>1
      <3> QED
        BY <3>2
    <2> QED
      BY <1>2, <2>1, <2>2
  <1>4. RegistryReplays(t)
    BY <1>3 DEF RegistryReplays
  <1> QED
    BY <1>1, <1>2, <1>4 DEF t

\* A known key's state is typed, and its roles are not empty.
LEMMA StateTyped ==
    ASSUME NEW r \in Seq(KeyEvents), RegistryReplays(r), NEW k, Known(r, k)
    PROVE  /\ k \in KeyId
           /\ KeyState(r, k).name \in Name /\ KeyState(r, k).pub \in Nat
           /\ KeyState(r, k).roles \in Grants /\ KeyState(r, k).roles # {}
           /\ KeyState(r, k).gen \in Nat
  <1>1. List(r)
    BY DEF List
  <1>2. PICK m \in 1..Len(r) : m = Max(About(r, k)) /\ r[m].key = k
    BY <1>1, LastIs
  <1>3. r[m] \in KeyEvents /\ r[m].roles # {}
    BY DEF RegistryReplays, ValidKeyEvent
  <1>4. KeyState(r, k) = StateOf(r[m])
    BY <1>2 DEF KeyState, LastAbout, StateOf
  <1> QED
    BY <1>2, <1>3, <1>4 DEF StateOf, KeyEvents

\* A reader that has the last event about a key has the key's state.
LEMMA StateSeen ==
    ASSUME NEW r, List(r), NEW n \in 0..Len(r), NEW k, Known(r, k), Max(About(r, k)) <= n
    PROVE  Known(SubSeq(r, 1, n), k) /\ KeyState(SubSeq(r, 1, n), k) = KeyState(r, k)
  <1> DEFINE p == SubSeq(r, 1, n)
  <1>1. Len(r) \in Nat /\ List(p) /\ Len(p) = n /\ \A i \in 1..n : p[i] = r[i]
    BY Prefix, ListLength
  <1> HIDE DEF p
  <1>2. PICK m \in 1..Len(r) : /\ m = Max(About(r, k)) /\ r[m].key = k
                               /\ \A i \in 1..Len(r) : r[i].key = k => i <= m
    BY LastIs
  <1>3. m \in 1..n
    BY <1>1, <1>2
  <1>4. About(p, k) = About(r, k)
    BY <1>1, <1>2, <1>3 DEF About
  <1> QED
    BY <1>1, <1>2, <1>3, <1>4 DEF Known, KeyState, LastAbout, p

-----------------------------------------------------------------------------
(* What was verified once is verified by whoever has more of the files. *)

\* verify_event goes back to the head an authorization names.
LEMMA VerifyKept ==
    ASSUME NEW r, NEW t, List(r), List(t), Extends(r, t), NEW a, VerifyAuthorization(r, a)
    PROVE  /\ VerifyAuthorization(t, a) /\ a.head \in 1..Len(t)
           /\ SubSeq(t, 1, a.head) = SubSeq(r, 1, a.head)
  <1>1. /\ Len(r) \in Nat /\ Len(t) \in Nat /\ Len(r) <= Len(t)
        /\ \A n \in 0..Len(r) : n \in 0..Len(t) /\ SubSeq(t, 1, n) = SubSeq(r, 1, n)
    BY Kept
  <1>2. a.head \in 1..Len(r)
    BY DEF VerifyAuthorization
  <1>3. a.head \in 0..Len(r) /\ a.head \in 1..Len(t)
    BY <1>1, <1>2
  <1>4. SubSeq(t, 1, a.head) = SubSeq(r, 1, a.head)
    BY <1>1, <1>3
  <1>5. /\ HasRoleAtHead(t, a.head, a.key, a.role) <=> HasRoleAtHead(r, a.head, a.key, a.role)
        /\ StateAtHead(t, a.head, a.key) = StateAtHead(r, a.head, a.key)
    BY <1>4 DEF HasRoleAtHead, StateAtHead
  <1> QED
    BY <1>3, <1>4, <1>5 DEF VerifyAuthorization

\* The same of the whole authorization ledger, and of one appended to it.
LEMMA AuthsReplayKept ==
    ASSUME NEW r, NEW t, List(r), List(t), Extends(r, t), NEW ls, AuthsReplay(r, ls)
    PROVE  AuthsReplay(t, ls)
  BY VerifyKept DEF AuthsReplay

LEMMA AuthsReplayOn ==
    ASSUME NEW r, NEW ls, List(ls), AuthsReplay(r, ls), NEW a, IsAuthorization(a),
           VerifyAuthorization(r, a)
    PROVE  AuthsReplay(r, Append(ls, a))
  <1> DEFINE ms == Append(ls, a)
  <1>1. Len(ms) = Len(ls) + 1 /\ ms[Len(ls) + 1] = a /\ \A i \in 1..Len(ls) : ms[i] = ls[i]
    BY FileAppended
  <1>2. Len(ls) \in Nat
    BY ListLength
  <1> HIDE DEF ms
  <1>3. ASSUME NEW i \in 1..Len(ms)
        PROVE  IsAuthorization(ms[i]) /\ VerifyAuthorization(r, ms[i])
    <2>1. i \in 1..Len(ls) \/ i = Len(ls) + 1
      BY <1>1, <1>2
    <2> QED
      BY <1>1, <2>1 DEF AuthsReplay
  <1>4. AuthsReplay(r, ms)
    BY <1>3 DEF AuthsReplay
  <1> QED
    BY <1>4 DEF ms

\* The files of a reader, and the same files later.
Later(r, ls, t, ms) ==
    /\ List(r) /\ List(t) /\ Extends(r, t)
    /\ List(ls) /\ List(ms) /\ Extends(ls, ms)

\* Two registries that are the same up to a head.
SameAt(r, t, n) == SubSeq(t, 1, n) = SubSeq(r, 1, n)

\* verify_authorization_reference
LEMMA RefersKept ==
    ASSUME NEW r, NEW ls, NEW t, NEW ms, Later(r, ls, t, ms),
           NEW n, NEW domain, NEW role, NEW subject, Refers(r, ls, n, domain, role, subject)
    PROVE  /\ Refers(t, ms, n, domain, role, subject)
           /\ ms[n] = ls[n]
           /\ SameAt(r, t, ls[n].head)
  <1>1. n \in 1..Len(ls) /\ VerifyAuthorization(r, ls[n])
    BY DEF Refers
  <1>2. n \in 1..Len(ms) /\ ms[n] = ls[n]
    BY <1>1, Kept DEF Later
  <1>3. VerifyAuthorization(t, ls[n]) /\ SameAt(r, t, ls[n].head)
    BY <1>1, VerifyKept DEF Later, SameAt
  <1> QED
    BY <1>2, <1>3 DEF Refers

\* The controller's evidence for an event of the federation.
LEMMA ControllerKept ==
    ASSUME NEW r, NEW ls, NEW t, NEW ms, Later(r, ls, t, ms),
           NEW n, NEW domain, NEW subject, NEW pol, ByController(r, ls, n, domain, subject, pol)
    PROVE  /\ ByController(t, ms, n, domain, subject, pol)
           /\ ms[n] = ls[n]
           /\ SameAt(r, t, ls[n].head)
  <1>1. Refers(r, ls, n, domain, "controller", subject) /\ ls[n].key = pol.controller
    BY DEF ByController
  <1>2. Refers(t, ms, n, domain, "controller", subject)
    BY <1>1, RefersKept
  <1>3. ms[n] = ls[n]
    BY <1>1, RefersKept
  <1>4. SameAt(r, t, ls[n].head)
    BY <1>1, RefersKept
  <1> QED
    BY <1>1, <1>2, <1>3, <1>4 DEF ByController

\* An authority's approval of a bundle.
LEMMA ApprovalKept ==
    ASSUME NEW r, NEW ls, NEW t, NEW ms, Later(r, ls, t, ms),
           NEW f, NEW e, NEW n, ValidApproval(r, ls, f, e, n)
    PROVE  ValidApproval(t, ms, f, e, n) /\ ms[n] = ls[n]
  <1> DEFINE subject == BundleSubject(e.policy, e.version, e.parent, e.bundle)
  <1>1. Refers(r, ls, n, "BUNDLE", "authority", subject)
    BY DEF ValidApproval
  <1> HIDE DEF subject
  <1>2. Refers(t, ms, n, "BUNDLE", "authority", subject)
    BY <1>1, RefersKept
  <1>3. ms[n] = ls[n]
    BY <1>1, RefersKept
  <1>4. SameAt(r, t, ls[n].head)
    BY <1>1, RefersKept
  <1> QED
    BY <1>2, <1>3, <1>4 DEF ValidApproval, StateAtHead, SameAt, subject

\* validate_event of the federation ledger.
LEMMA FedEventKept ==
    ASSUME NEW r, NEW ls, NEW t, NEW ms, Later(r, ls, t, ms),
           NEW f, NEW e, ValidFedEvent(r, ls, f, e)
    PROVE  ValidFedEvent(t, ms, f, e)
  <1>1. ASSUME ValidPolicySet(r, ls, f, e) PROVE ValidPolicySet(t, ms, f, e)
    <2> DEFINE subject == PolicySubject(e.policy)
    <2>1. ByController(r, ls, e.auth, "POLICY_REGISTER", subject, e.policy)
      BY <1>1 DEF ValidPolicySet
    <2> HIDE DEF subject
    <2>2. ByController(t, ms, e.auth, "POLICY_REGISTER", subject, e.policy)
      BY <2>1, ControllerKept
    <2>3. ms[e.auth] = ls[e.auth]
      BY <2>1, ControllerKept
    <2>4. SameAt(r, t, ls[e.auth].head)
      BY <2>1, ControllerKept
    <2> QED
      BY <1>1, <2>2, <2>3, <2>4 DEF ValidPolicySet, StateAtHead, SameAt, subject
  <1>2. ASSUME ValidEnroll(r, ls, f, e) PROVE ValidEnroll(t, ms, f, e)
    <2> DEFINE subject == AuthoritySubject("enroll", e.policy, e.key, e.weight)
    <2>1. ByController(r, ls, e.auth, "POLICY_REGISTER", subject, e.policy)
      BY <1>2 DEF ValidEnroll
    <2> HIDE DEF subject
    <2>2. ByController(t, ms, e.auth, "POLICY_REGISTER", subject, e.policy)
      BY <2>1, ControllerKept
    <2>3. ms[e.auth] = ls[e.auth]
      BY <2>1, ControllerKept
    <2>4. SameAt(r, t, ls[e.auth].head)
      BY <2>1, ControllerKept
    <2> QED
      BY <1>2, <2>2, <2>3, <2>4 DEF ValidEnroll, StateAtHead, SameAt, HasRoleAtHead, subject
  <1>3. ASSUME ValidRevoke(r, ls, f, e) PROVE ValidRevoke(t, ms, f, e)
    <2> DEFINE subject == AuthoritySubject("revoke", e.policy, e.key, e.weight)
    <2>1. ByController(r, ls, e.auth, "POLICY_REVOKE", subject, e.policy)
      BY <1>3 DEF ValidRevoke
    <2>2. ByController(t, ms, e.auth, "POLICY_REVOKE", subject, e.policy)
      BY <2>1, ControllerKept
    <2> HIDE DEF subject
    <2> QED
      BY <1>3, <2>2 DEF ValidRevoke, subject
  <1>4. ASSUME ValidBundle(r, ls, f, e) PROVE ValidBundle(t, ms, f, e)
    <2>1. \A n \in e.approvals : ValidApproval(r, ls, f, e, n)
      BY <1>4 DEF ValidBundle
    <2>2. \A n \in e.approvals : ValidApproval(t, ms, f, e, n) /\ ms[n] = ls[n]
      BY <2>1, ApprovalKept
    <2>3. [n \in e.approvals |-> WeightOf(f, e.policy.ns, ms[n].key)]
            = [n \in e.approvals |-> WeightOf(f, e.policy.ns, ls[n].key)]
      BY <2>2
    <2>4. Weight(ms, f, e) = Weight(ls, f, e)
      BY <2>3 DEF Weight
    <2> QED
      BY <1>4, <2>2, <2>4 DEF ValidBundle
  <1> QED
    BY <1>1, <1>2, <1>3, <1>4 DEF ValidFedEvent

\* The same of the whole federation ledger, and of one appended to it.
LEMMA FedReplaysKept ==
    ASSUME NEW r, NEW ls, NEW t, NEW ms, Later(r, ls, t, ms), NEW f, FedReplays(r, ls, f)
    PROVE  FedReplays(t, ms, f)
  BY FedEventKept DEF FedReplays

LEMMA FedReplaysOn ==
    ASSUME NEW r, NEW ls, NEW f, List(f), FedReplays(r, ls, f), NEW e, IsFedEvent(e),
           ValidFedEvent(r, ls, f, e)
    PROVE  FedReplays(r, ls, Append(f, e))
  <1> DEFINE g == Append(f, e)
  <1>1. /\ Len(f) \in Nat /\ Len(g) = Len(f) + 1 /\ g[Len(f) + 1] = e
        /\ \A i \in 1..Len(f) : g[i] = f[i]
        /\ \A n \in 0..Len(f) : SubSeq(g, 1, n) = SubSeq(f, 1, n)
        /\ SubSeq(g, 1, Len(f)) = f
    BY FileAppended, ListLength
  <1> HIDE DEF g
  <1>2. ASSUME NEW i \in 1..Len(g)
        PROVE  IsFedEvent(g[i]) /\ ValidFedEvent(r, ls, SubSeq(g, 1, i - 1), g[i])
    <2>1. CASE i \in 1..Len(f)
      <3>1. i - 1 \in 0..Len(f)
        BY <1>1, <2>1
      <3>2. g[i] = f[i] /\ SubSeq(g, 1, i - 1) = SubSeq(f, 1, i - 1)
        BY <1>1, <2>1, <3>1
      <3> QED
        BY <2>1, <3>2 DEF FedReplays
    <2>2. CASE i = Len(f) + 1
      <3>1. i - 1 = Len(f)
        BY <1>1, <2>2
      <3>2. g[i] = e /\ SubSeq(g, 1, i - 1) = f
        BY <1>1, <2>2, <3>1
      <3> QED
        BY <3>2
    <2>3. i \in 1..Len(f) \/ i = Len(f) + 1
      BY <1>1
    <2> QED
      BY <2>1, <2>2, <2>3, Zenon
  <1>3. FedReplays(r, ls, g)
    BY <1>2 DEF FedReplays
  <1> QED
    BY <1>3 DEF g

\* verify_federation_binding: accepted bundles stay accepted.
LEMMA BindingKept ==
    ASSUME NEW f, NEW g, List(f), List(g), Extends(f, g), NEW e, BoundToBundle(f, e)
    PROVE  BoundToBundle(g, e)
  <1>1. PICK i \in Accepted(f, e.policy.ns) :
            /\ f[i].policy = e.policy
            /\ f[i].version = e.bundleVersion /\ f[i].bundle = e.bundle
    BY DEF BoundToBundle
  <1>2. i \in 1..Len(f)
    BY DEF Accepted
  <1>3. i \in 1..Len(g) /\ g[i] = f[i]
    BY <1>2, Kept
  <1>4. i \in Accepted(g, e.policy.ns)
    BY <1>3 DEF Accepted
  <1> QED
    BY <1>1, <1>3, <1>4 DEF BoundToBundle

\* A provenance record rests on an authorization and on a bundle.
LEMMA RecordKept ==
    ASSUME NEW r, NEW ls, NEW t, NEW ms, Later(r, ls, t, ms),
           NEW f, NEW g, List(f), List(g), Extends(f, g), NEW e, TrustedRecord(r, ls, f, e)
    PROVE  TrustedRecord(t, ms, g, e)
  <1>1. Refers(r, ls, e.auth, "PROVENANCE", "authority", RecordSubject(e))
    BY DEF TrustedRecord
  <1>2. /\ Refers(t, ms, e.auth, "PROVENANCE", "authority", RecordSubject(e))
        /\ ms[e.auth] = ls[e.auth]
    BY <1>1, RefersKept
  <1>3. BoundToBundle(g, e)
    BY BindingKept DEF TrustedRecord
  <1> QED
    BY <1>2, <1>3 DEF TrustedRecord

\* The same of the whole provenance ledger, and of one appended to it.
LEMMA ProvReplaysKept ==
    ASSUME NEW r, NEW ls, NEW t, NEW ms, Later(r, ls, t, ms),
           NEW f, NEW g, List(f), List(g), Extends(f, g), NEW p, ProvReplays(r, ls, f, p)
    PROVE  ProvReplays(t, ms, g, p)
  BY RecordKept DEF ProvReplays

LEMMA ProvReplaysOn ==
    ASSUME NEW r, NEW ls, NEW f, NEW p, List(p), ProvReplays(r, ls, f, p),
           NEW e, IsRecord(e), TrustedRecord(r, ls, f, e), ValidTransition(p, e)
    PROVE  ProvReplays(r, ls, f, Append(p, e))
  <1> DEFINE q == Append(p, e)
  <1>1. /\ Len(p) \in Nat /\ Len(q) = Len(p) + 1 /\ q[Len(p) + 1] = e
        /\ \A i \in 1..Len(p) : q[i] = p[i]
        /\ \A n \in 0..Len(p) : SubSeq(q, 1, n) = SubSeq(p, 1, n)
        /\ SubSeq(q, 1, Len(p)) = p
    BY FileAppended, ListLength
  <1> HIDE DEF q
  <1>2. ASSUME NEW i \in 1..Len(q)
        PROVE  /\ IsRecord(q[i]) /\ TrustedRecord(r, ls, f, q[i])
               /\ ValidTransition(SubSeq(q, 1, i - 1), q[i])
    <2>1. CASE i \in 1..Len(p)
      <3>1. i - 1 \in 0..Len(p)
        BY <1>1, <2>1
      <3>2. q[i] = p[i] /\ SubSeq(q, 1, i - 1) = SubSeq(p, 1, i - 1)
        BY <1>1, <2>1, <3>1
      <3> QED
        BY <2>1, <3>2 DEF ProvReplays
    <2>2. CASE i = Len(p) + 1
      <3>1. i - 1 = Len(p)
        BY <1>1, <2>2
      <3>2. q[i] = e /\ SubSeq(q, 1, i - 1) = p
        BY <1>1, <2>2, <3>1
      <3> QED
        BY <3>2
    <2>3. i \in 1..Len(p) \/ i = Len(p) + 1
      BY <1>1
    <2> QED
      BY <2>1, <2>2, <2>3, Zenon
  <1>3. ProvReplays(r, ls, f, q)
    BY <1>2 DEF ProvReplays
  <1> QED
    BY <1>3 DEF q

-----------------------------------------------------------------------------
(* The inductive invariant. *)

\* The event a key command will append.
EventOf(c) ==
    [kind |-> c.kind, key |-> c.key, name |-> c.name, pub |-> c.pub, roles |-> c.roles,
     gen |-> c.gen]

KeyTypes ==
    /\ provider \in [Name -> Nat] /\ created \in Nat
    /\ reg \in Seq(KeyEvents) /\ List(auths) /\ List(fed) /\ List(prov)

\* The provider has a key, or a deletion took it that had read at most n events.
KeptUpTo(p, l, name, pub, n) ==
    p[name] = pub \/ \E d \in l : d.pub = pub /\ d.read \in 0..n

\* A key command has its key in the provider before it appends, unless a deletion
\* has taken it since.
CommandStands ==
    keycmd # Idle =>
        /\ EventOf(keycmd) \in KeyEvents
        /\ keycmd.pub # 0
        /\ KeptUpTo(provider, lost, keycmd.name, keycmd.pub, Len(reg))

\* The name a deletion is about had no active key in what the deletion read.
DeletionsStand ==
    \A d \in deleting :
        /\ d.name \in Name /\ d.read \in 0..Len(reg)
        /\ ~InUse(SubSeq(reg, 1, d.read), d.name)

\* What a process holds is a part of the file.
HandlesStand ==
    /\ signer = Closed \/ signer \in 0..Len(reg)
    /\ held = [reg |-> held.reg, auths |-> held.auths]
    /\ held.reg = Closed \/ held.reg \in 0..Len(reg)
    /\ held.auths = Closed \/ held.auths \in 0..Len(auths)

FedInv ==
    /\ KeyTypes /\ CommandStands /\ DeletionsStand /\ HandlesStand
    /\ ActiveKeyKept /\ EvidenceReplays

\* An event says what becomes of its key.
LEMMA StateOfIs ==
    ASSUME NEW e
    PROVE  /\ StateOf(e).active <=> e.kind # "REVOKE"
           /\ StateOf(e).name = e.name /\ StateOf(e).pub = e.pub
           /\ StateOf(e).roles = e.roles /\ StateOf(e).gen = e.gen
  BY Zenon DEF StateOf

\* The files are as they were.
LEMMA SameFiles ==
    ASSUME EvidenceReplays, UNCHANGED <<reg, auths, fed, prov>>
    PROVE  EvidenceReplays'
  BY DEF EvidenceReplays

LEMMA FederationStart == FInit => FedInv
  <1> SUFFICES ASSUME FInit PROVE FedInv
    OBVIOUS
  <1>1. PICK s \in Starts : provider = s.provider /\ created = s.created /\ reg = s.reg
                            /\ auths = s.auths
    BY DEF FInit, KInit
  <1>2. PICK u \in Starts : reg = u.reg /\ auths = u.auths /\ fed = u.fed
    BY DEF FInit
  <1>3. keycmd = Idle /\ deleting = {} /\ signer = Closed /\ prov = <<>> /\ held = Shut
    BY DEF FInit, KInit
  <1>4. KeyTypes
    <2>1. provider \in [Name -> Nat] /\ created \in Nat /\ reg \in Seq(KeyEvents)
      BY <1>1, StartsAssumption
    <2>2. auths \in Seq(Range(auths)) /\ fed \in Seq(Range(fed))
      BY <1>1, <1>2, StartsAssumption, FedStartsAssumption
    <2>3. prov \in Seq({})
      BY <1>3
    <2> QED
      BY <2>1, <2>2, <2>3 DEF KeyTypes, List
  <1>5. CommandStands /\ DeletionsStand /\ HandlesStand
    BY <1>3 DEF CommandStands, DeletionsStand, HandlesStand, Shut
  <1>6. ActiveKeyKept
    BY <1>1, StartsAssumption DEF ActiveKeyKept, KeysUsable, SignsFor
  <1>7. EvidenceReplays
    <2>1. RegistryReplays(reg) /\ AuthsReplay(reg, auths) /\ FedReplays(reg, auths, fed)
      BY <1>1, <1>2, StartsAssumption, FedStartsAssumption
    <2>2. ProvReplays(reg, auths, fed, prov)
      BY <1>3 DEF ProvReplays
    <2> QED
      BY <2>1, <2>2 DEF EvidenceReplays
  <1> QED
    BY <1>4, <1>5, <1>6, <1>7 DEF FedInv

\* What a deletion read is a part of every later registry.
LEMMA DeletionsRead ==
    ASSUME DeletionsStand, NEW t, List(reg), List(t), Extends(reg, t), NEW d \in deleting
    PROVE  /\ d.name \in Name /\ d.read \in 0..Len(t)
           /\ ~InUse(SubSeq(t, 1, d.read), d.name)
  <1>1. d.name \in Name /\ d.read \in 0..Len(reg) /\ ~InUse(SubSeq(reg, 1, d.read), d.name)
    BY DEF DeletionsStand
  <1>2. d.read \in 0..Len(t) /\ SubSeq(t, 1, d.read) = SubSeq(reg, 1, d.read)
    BY <1>1, Kept
  <1> QED
    BY <1>1, <1>2

\* The registry has grown by an event that append checked, and no process knows.
LEMMA RegistryGrows ==
    ASSUME FedInv, NEW e \in KeyEvents, ValidKeyEvent(reg, e), reg' = Append(reg, e),
           UNCHANGED <<provider, created, auths, deleting, lost, signer, fed, prov, held>>,
           e.kind # "REVOKE" => /\ e.pub # 0
                                /\ KeptUpTo(provider, lost, e.name, e.pub, Len(reg)),
           keycmd' = Idle \/ keycmd' = keycmd
    PROVE  FedInv'
  <1>1. /\ KeyTypes /\ CommandStands /\ DeletionsStand /\ HandlesStand /\ ActiveKeyKept
        /\ EvidenceReplays /\ reg \in Seq(KeyEvents) /\ RegistryReplays(reg)
    BY DEF FedInv, KeyTypes, EvidenceReplays
  <1>2. /\ RegistryReplays(reg') /\ reg' \in Seq(KeyEvents)
        /\ List(reg) /\ List(reg') /\ Extends(reg, reg')
    BY <1>1, RegistryReplaysOn
  <1>a. Len(reg) \in Nat /\ Len(reg') = Len(reg) + 1
    BY <1>2, FileAppended, ListLength
  <1>b. \A n \in 0..Len(reg) : n \in 0..Len(reg')
    BY <1>a
  <1>3. KeyTypes'
    BY <1>1, <1>2 DEF KeyTypes
  <1>4. CommandStands'
    BY <1>1, <1>b DEF CommandStands, KeptUpTo
  <1>c. DeletionsStand'
    <2>1. ASSUME NEW d \in deleting
          PROVE  /\ d.name \in Name /\ d.read \in 0..Len(reg')
                 /\ ~InUse(SubSeq(reg', 1, d.read), d.name)
      BY <1>1, <1>2, DeletionsRead
    <2> QED
      BY <2>1 DEF DeletionsStand
  <1>5. HandlesStand'
    BY <1>1, <1>b DEF HandlesStand
  <1>6. ActiveKeyKept'
    <2> SUFFICES ASSUME NEW k \in KeyId, Known(reg', k), KeyState(reg', k).active
                 PROVE  /\ KeyState(reg', k).pub # 0
                        /\ \/ provider[KeyState(reg', k).name] = KeyState(reg', k).pub
                           \/ \E d \in lost : /\ d.pub = KeyState(reg', k).pub
                                              /\ d.read < Max(About(reg', k))
      BY DEF ActiveKeyKept, SignsFor, DeletedUnseen
    <2>1. CASE e.key = k
      <3>1. KeyState(reg', k) = StateOf(e)
        BY <1>2, <2>1, KeyAppended
      <3>2. e.pub # 0 /\ KeptUpTo(provider, lost, e.name, e.pub, Len(reg))
        BY <3>1, StateOfIs
      <3>3. Max(About(reg', k)) = Len(reg) + 1
        BY <1>2, <1>a, <2>1, LastAppended
      <3>4. \A n \in 0..Len(reg) : n < Len(reg) + 1
        BY <1>a
      <3> QED
        BY <3>1, <3>2, <3>3, <3>4, StateOfIs DEF KeptUpTo
    <2>2. CASE e.key # k
      <3>1. Known(reg, k) /\ KeyState(reg', k) = KeyState(reg, k)
            /\ About(reg', k) = About(reg, k)
        BY <1>2, <2>2, KeyAppended, LastAppended
      <3> QED
        BY <1>1, <3>1 DEF ActiveKeyKept, SignsFor, DeletedUnseen
    <2> QED
      BY <2>1, <2>2
  <1>7. EvidenceReplays'
    <2>1. Later(reg, auths, reg', auths)
      BY <1>1, <1>2, ExtendsItself DEF Later, KeyTypes
    <2>2. List(fed) /\ Extends(fed, fed)
      BY <1>1, ExtendsItself DEF KeyTypes
    <2>3. AuthsReplay(reg', auths)
      BY <1>1, <1>2, AuthsReplayKept DEF EvidenceReplays
    <2>4. FedReplays(reg', auths, fed)
      BY <1>1, <2>1, FedReplaysKept DEF EvidenceReplays
    <2>5. ProvReplays(reg', auths, fed, prov)
      BY <1>1, <2>1, <2>2, ProvReplaysKept DEF EvidenceReplays
    <2> QED
      BY <1>2, <2>3, <2>4, <2>5 DEF EvidenceReplays
  <1> QED
    BY <1>3, <1>4, <1>c, <1>5, <1>6, <1>7 DEF FedInv

\* create_persisted_key takes a name that no active key has.
LEMMA CreateStep ==
    ASSUME FedInv, NEW n \in Name, NEW c, CreateKey(n, c), EventOf(c) \in KeyEvents,
           c.name = n, c.pub = created + 1,
           UNCHANGED <<reg, auths, deleting, lost, signer, torn, faults, fed, prov, held>>
    PROVE  FedInv'
  <1>1. /\ KeyTypes /\ CommandStands /\ DeletionsStand /\ HandlesStand /\ ActiveKeyKept
        /\ EvidenceReplays /\ provider \in [Name -> Nat] /\ created \in Nat
    BY DEF FedInv, KeyTypes
  <1>2. /\ provider[n] = 0 /\ created' = created + 1
        /\ provider' = [provider EXCEPT ![n] = created + 1] /\ keycmd' = c
    BY DEF CreateKey
  <1>3. KeyTypes'
    BY <1>1, <1>2 DEF KeyTypes
  <1>4. CommandStands'
    BY <1>1, <1>2 DEF CommandStands, KeptUpTo
  <1>5. HandlesStand' /\ DeletionsStand'
    BY <1>1 DEF HandlesStand, DeletionsStand
  <1>6. ActiveKeyKept'
    <2>1. reg \in Seq(KeyEvents) /\ RegistryReplays(reg)
      BY <1>1 DEF KeyTypes, EvidenceReplays
    <2> SUFFICES ASSUME NEW k \in KeyId, Known(reg, k), KeyState(reg, k).active
                 PROVE  /\ KeyState(reg, k).pub # 0
                        /\ \/ provider'[KeyState(reg, k).name] = KeyState(reg, k).pub
                           \/ \E d \in lost : /\ d.pub = KeyState(reg, k).pub
                                              /\ d.read < Max(About(reg, k))
      BY DEF ActiveKeyKept, SignsFor, DeletedUnseen
    <2>2. /\ KeyState(reg, k).pub # 0
          /\ \/ provider[KeyState(reg, k).name] = KeyState(reg, k).pub
             \/ \E d \in lost : /\ d.pub = KeyState(reg, k).pub
                                /\ d.read < Max(About(reg, k))
      BY <1>1 DEF ActiveKeyKept, SignsFor, DeletedUnseen
    <2>3. KeyState(reg, k).name \in Name
      BY <2>1, StateTyped
    <2>4. ASSUME provider[KeyState(reg, k).name] = KeyState(reg, k).pub
          PROVE  provider'[KeyState(reg, k).name] = KeyState(reg, k).pub
      <3>1. KeyState(reg, k).name # n
        BY <1>2, <2>2, <2>4
      <3> QED
        BY <1>1, <1>2, <2>3, <2>4, <3>1
    <2> QED
      BY <2>2, <2>4
  <1>7. EvidenceReplays'
    BY <1>1, SameFiles
  <1> QED
    BY <1>3, <1>4, <1>5, <1>6, <1>7 DEF FedInv

LEMMA EnrollStep ==
    ASSUME FedInv, NEW k \in KeyId, NEW n \in Name, NEW roles \in Grants,
           NEW fresh, Enroll(k, n, roles, fresh), UNCHANGED <<fed, prov, held>>
    PROVE  FedInv'
  <1> DEFINE c == [kind |-> "ENROLL", key |-> k, name |-> n, pub |-> created + 1,
                   roles |-> roles, gen |-> 1, fresh |-> fresh, at |-> "created"]
  <1>1. CreateKey(n, c) /\ UNCHANGED <<reg, auths, deleting, lost, signer, torn, faults>>
    BY DEF Enroll
  <1>2. c.name = n /\ c.pub = created + 1
    OBVIOUS
  <1>3. EventOf(c) = [kind |-> "ENROLL", key |-> k, name |-> n, pub |-> created + 1,
                      roles |-> roles, gen |-> 1]
    BY DEF EventOf
  <1>4. created \in Nat
    BY DEF FedInv, KeyTypes
  <1>5. EventOf(c) \in KeyEvents
    BY <1>3, <1>4 DEF KeyEvents
  <1> HIDE DEF c
  <1> QED
    BY <1>1, <1>2, <1>5, CreateStep

LEMMA RotateStep ==
    ASSUME FedInv, NEW k \in KeyId, NEW old \in Name, NEW n \in Name,
           NEW fresh, Rotate(k, old, n, fresh), UNCHANGED <<fed, prov, held>>
    PROVE  FedInv'
  <1> DEFINE s == KeyState(reg, k)
             c == [kind |-> "ROTATE", key |-> k, name |-> n, pub |-> created + 1,
                   roles |-> s.roles, gen |-> s.gen + 1, fresh |-> fresh,
                   at |-> "created"]
  <1>2. /\ CreateKey(n, c) /\ Known(reg, k)
        /\ UNCHANGED <<reg, auths, deleting, lost, signer, torn, faults>>
    BY Zenon DEF Rotate
  <1>3. c.name = n /\ c.pub = created + 1
    OBVIOUS
  <1>4. EventOf(c) = [kind |-> "ROTATE", key |-> k, name |-> n, pub |-> created + 1,
                      roles |-> s.roles, gen |-> s.gen + 1]
    BY DEF EventOf
  <1>5. created \in Nat /\ s.roles \in Grants /\ s.gen \in Nat
    BY <1>2, StateTyped DEF FedInv, KeyTypes, EvidenceReplays
  <1> HIDE DEF s
  <1>6. EventOf(c) \in KeyEvents
    BY <1>4, <1>5 DEF KeyEvents
  <1> HIDE DEF c
  <1> QED
    BY <1>2, <1>3, <1>6, CreateStep

LEMMA RevokeStep ==
    ASSUME FedInv, NEW k \in KeyId, NEW n \in Name, Revoke(k, n), UNCHANGED <<fed, prov, held>>
    PROVE  FedInv'
  <1> DEFINE s == KeyState(reg, k)
             e == [kind |-> "REVOKE", key |-> k, name |-> n, pub |-> s.pub,
                   roles |-> s.roles, gen |-> s.gen]
  <1>1. /\ Known(reg, k) /\ KeyState(reg, k).active /\ s.name = n
        /\ reg' = Append(reg, e) /\ keycmd' = keycmd
        /\ UNCHANGED <<provider, created, auths, deleting, lost, signer, torn, faults>>
    BY DEF Revoke
  <1>2. s.pub \in Nat /\ s.roles \in Grants /\ s.roles # {} /\ s.gen \in Nat
    BY <1>1, StateTyped DEF FedInv, KeyTypes, EvidenceReplays
  <1>3. /\ e.kind = "REVOKE" /\ e.key = k /\ e.name = s.name /\ e.pub = s.pub
        /\ e.roles = s.roles /\ e.gen = s.gen
    BY <1>1
  <1>4. e \in KeyEvents
    <2> HIDE DEF s
    <2> QED
      BY <1>2 DEF KeyEvents
  <1> HIDE DEF e
  <1>5. ValidKeyEvent(reg, e)
    BY <1>1, <1>2, <1>3 DEF ValidKeyEvent
  <1> QED
    BY <1>1, <1>3, <1>4, <1>5, RegistryGrows

\* key-delete-provider asks the registry before it deletes.
LEMMA ReadBeforeDeleteStep ==
    ASSUME FedInv, NEW n \in Name, ReadBeforeDelete(n), UNCHANGED <<fed, prov, held>>
    PROVE  FedInv'
  <1>1. /\ ~InUse(reg, n) /\ deleting' = deleting \cup {[name |-> n, read |-> Len(reg)]}
        /\ UNCHANGED <<provider, created, reg, auths, keycmd, lost, signer, torn, faults>>
    BY DEF ReadBeforeDelete
  <1>2. /\ KeyTypes /\ CommandStands /\ DeletionsStand /\ HandlesStand /\ ActiveKeyKept
        /\ EvidenceReplays /\ reg \in Seq(KeyEvents)
    BY DEF FedInv, KeyTypes
  <1>3. Len(reg) \in 0..Len(reg) /\ SubSeq(reg, 1, Len(reg)) = reg
    BY <1>2
  <1>4. DeletionsStand'
    <2> SUFFICES ASSUME NEW d \in deleting'
                 PROVE  /\ d.name \in Name /\ d.read \in 0..Len(reg)
                        /\ ~InUse(SubSeq(reg, 1, d.read), d.name)
      BY <1>1 DEF DeletionsStand
    <2>1. CASE d \in deleting
      BY <1>2, <2>1 DEF DeletionsStand
    <2>2. CASE d = [name |-> n, read |-> Len(reg)]
      BY <1>1, <1>3, <2>2
    <2> QED
      BY <1>1, <2>1, <2>2
  <1>5. EvidenceReplays'
    BY <1>1, <1>2, SameFiles
  <1> QED
    BY <1>1, <1>2, <1>4, <1>5
       DEF FedInv, KeyTypes, CommandStands, HandlesStand, ActiveKeyKept, SignsFor, DeletedUnseen

\* It deletes the key of an active state only where the state came after what it
\* had read.
LEMMA DeleteStep ==
    ASSUME FedInv, NEW d \in deleting, DeleteProviderKey(d), UNCHANGED <<fed, prov, held>>
    PROVE  FedInv'
  <1> DEFINE n == d.name
             part == SubSeq(reg, 1, d.read)
             gone == [pub |-> provider[n], read |-> d.read]
  <1>1. /\ deleting' = deleting \ {d} /\ provider' = [provider EXCEPT ![n] = 0]
        /\ lost' = IF provider[n] = 0 THEN lost ELSE lost \cup {gone}
        /\ UNCHANGED <<created, reg, auths, keycmd, signer, torn, faults>>
    BY DEF DeleteProviderKey, WithoutKey
  <1>2. /\ KeyTypes /\ CommandStands /\ DeletionsStand /\ HandlesStand /\ ActiveKeyKept
        /\ EvidenceReplays
        /\ reg \in Seq(KeyEvents) /\ RegistryReplays(reg) /\ provider \in [Name -> Nat]
    BY DEF FedInv, KeyTypes, EvidenceReplays
  <1>3. n \in Name /\ d.read \in 0..Len(reg) /\ ~InUse(part, n) /\ List(reg) /\ Len(reg) \in Nat
    BY <1>2 DEF DeletionsStand, List
  <1>4. gone.pub = provider[n] /\ gone.read = d.read
    OBVIOUS
  <1> HIDE DEF gone, part
  <1>5. \A l \in lost : l \in lost'
    BY <1>1
  <1>6. ActiveKeyKept'
    <2> SUFFICES ASSUME NEW k \in KeyId, Known(reg, k), KeyState(reg, k).active
                 PROVE  /\ KeyState(reg, k).pub # 0
                        /\ \/ provider'[KeyState(reg, k).name] = KeyState(reg, k).pub
                           \/ \E l \in lost' : /\ l.pub = KeyState(reg, k).pub
                                               /\ l.read < Max(About(reg, k))
      BY <1>1 DEF ActiveKeyKept, SignsFor, DeletedUnseen
    <2>1. /\ KeyState(reg, k).pub # 0
          /\ \/ provider[KeyState(reg, k).name] = KeyState(reg, k).pub
             \/ \E l \in lost : /\ l.pub = KeyState(reg, k).pub
                                /\ l.read < Max(About(reg, k))
      BY <1>2 DEF ActiveKeyKept, SignsFor, DeletedUnseen
    <2>2. KeyState(reg, k).name \in Name
      BY <1>2, StateTyped
    <2>3. CASE KeyState(reg, k).name # n
      BY <1>1, <1>2, <1>5, <2>1, <2>2, <2>3
    <2>4. CASE KeyState(reg, k).name = n /\ provider[n] = KeyState(reg, k).pub
      <3>1. gone \in lost'
        BY <1>1, <2>1, <2>4
      <3>2. Max(About(reg, k)) \in 1..Len(reg)
        BY <1>3, LastIs
      <3>3. ~(Max(About(reg, k)) <= d.read)
        <4> SUFFICES ASSUME Max(About(reg, k)) <= d.read PROVE FALSE
          OBVIOUS
        <4>1. Known(part, k) /\ KeyState(part, k) = KeyState(reg, k)
          BY <1>3, StateSeen DEF part
        <4> QED
          BY <1>3, <2>4, <4>1 DEF InUse
      <3>4. d.read < Max(About(reg, k))
        BY <1>3, <3>2, <3>3
      <3> QED
        BY <1>4, <2>1, <2>4, <3>1, <3>4
    <2>5. CASE KeyState(reg, k).name = n /\ provider[n] # KeyState(reg, k).pub
      BY <1>5, <2>1, <2>5
    <2> QED
      BY <2>3, <2>4, <2>5
  <1>7. CommandStands'
    <2> SUFFICES ASSUME keycmd # Idle
                 PROVE  /\ EventOf(keycmd) \in KeyEvents /\ keycmd.pub # 0
                        /\ KeptUpTo(provider', lost', keycmd.name, keycmd.pub, Len(reg))
      BY <1>1 DEF CommandStands
    <2>1. /\ EventOf(keycmd) \in KeyEvents /\ keycmd.pub # 0
          /\ KeptUpTo(provider, lost, keycmd.name, keycmd.pub, Len(reg))
      BY <1>2 DEF CommandStands
    <2>2. keycmd.name \in Name
      <3>1. EventOf(keycmd).name = keycmd.name
        BY DEF EventOf
      <3> QED
        BY <2>1, <3>1 DEF KeyEvents
    <2>3. CASE provider[keycmd.name] = keycmd.pub /\ keycmd.name = n
      <3>1. gone \in lost'
        BY <1>1, <2>1, <2>3
      <3> QED
        BY <1>3, <1>4, <2>1, <2>3, <3>1 DEF KeptUpTo
    <2>4. CASE provider[keycmd.name] = keycmd.pub /\ keycmd.name # n
      BY <1>1, <1>2, <2>1, <2>2, <2>4 DEF KeptUpTo
    <2>5. CASE provider[keycmd.name] # keycmd.pub
      BY <1>5, <2>1, <2>5 DEF KeptUpTo
    <2> QED
      BY <2>3, <2>4, <2>5
  <1>8. KeyTypes' /\ DeletionsStand' /\ HandlesStand'
    BY <1>1, <1>2 DEF KeyTypes, DeletionsStand, HandlesStand
  <1>9. EvidenceReplays'
    BY <1>1, <1>2, SameFiles
  <1> QED
    BY <1>6, <1>7, <1>8, <1>9 DEF FedInv

\* An authorization is verified under the head it was signed for, whatever key
\* commands have appended meanwhile.
LEMMA AuthorizeStep ==
    ASSUME FedInv, NEW l, Authorize(l), UNCHANGED <<fed, prov, held>>
    PROVE  FedInv'
  <1> DEFINE a == [domain |-> l.domain, role |-> l.role, subject |-> l.subject, key |-> l.key,
                   head |-> signer, pub |-> StateAtHead(reg, signer, l.key).pub]
             part == SubSeq(reg, 1, signer)
  <1>1. /\ signer # Closed /\ signer' = Closed
        /\ auths' = auths \/ (MaySign(l) /\ auths' = Append(auths, a))
        /\ UNCHANGED <<provider, created, reg, keycmd, deleting, lost, torn, faults>>
    BY DEF Authorize
  <1>2. /\ KeyTypes /\ CommandStands /\ DeletionsStand /\ HandlesStand /\ ActiveKeyKept
        /\ EvidenceReplays
        /\ reg \in Seq(KeyEvents) /\ List(reg) /\ Len(reg) \in Nat /\ RegistryReplays(reg)
        /\ List(auths) /\ List(fed) /\ signer \in 0..Len(reg)
    BY <1>1, ListLength DEF FedInv, KeyTypes, EvidenceReplays, HandlesStand, List
  <1>3. /\ a.role = l.role /\ a.key = l.key /\ a.head = signer
        /\ a.pub = StateAtHead(reg, signer, l.key).pub
    OBVIOUS
  <1> HIDE DEF a
  <1>4. CASE auths' = auths
    <2>1. EvidenceReplays'
      BY <1>1, <1>2, <1>4, SameFiles
    <2> QED
      BY <1>1, <1>2, <1>4, <2>1
         DEF FedInv, KeyTypes, CommandStands, DeletionsStand, HandlesStand, ActiveKeyKept,
             SignsFor, DeletedUnseen
  <1>5. CASE MaySign(l) /\ auths' = Append(auths, a)
    <2>1. Known(part, l.key) /\ HasRole(part, l.key, l.role)
      BY <1>5 DEF MaySign, HasRole
    <2>2. Len(part) = signer /\ List(part) /\ part \in Seq(KeyEvents)
      BY <1>2, Prefix
    <2>3. Max(About(part, l.key)) \in 1..Len(part)
      BY <2>1, <2>2, LastIs
    <2>4. signer \in 1..Len(reg)
      BY <1>2, <2>2, <2>3
    <2>5. RegistryReplays(part)
      <3> SUFFICES ASSUME NEW i \in 1..Len(part)
                   PROVE  part[i] \in KeyEvents /\ ValidKeyEvent(SubSeq(part, 1, i - 1), part[i])
        BY DEF RegistryReplays
      <3>1. i \in 1..Len(reg) /\ i - 1 \in 0..signer
        BY <1>2, <2>2
      <3>2. Extends(part, reg)
        BY <1>2, HeldPart
      <3>3. part[i] = reg[i] /\ SubSeq(part, 1, i - 1) = SubSeq(reg, 1, i - 1)
        BY <1>2, <2>2, <3>1, <3>2, Kept
      <3> QED
        BY <1>2, <3>1, <3>3 DEF RegistryReplays
    <2>6. l.key \in KeyId /\ KeyState(part, l.key).roles \in Grants
          /\ KeyState(part, l.key).pub \in Nat
      BY <2>1, <2>2, <2>5, StateTyped
    <2>7. IsAuthorization(a)
      <3>1. l.role \in KeyState(part, l.key).roles
        BY <2>1 DEF HasRole
      <3> QED
        BY <1>2, <1>3, <2>6, <3>1 DEF IsAuthorization, StateAtHead
    <2>8. VerifyAuthorization(reg, a)
      BY <1>3, <2>1, <2>4 DEF VerifyAuthorization, HasRoleAtHead
    <2>9. AuthsReplay(reg, auths')
      BY <1>2, <1>5, <2>7, <2>8, AuthsReplayOn DEF EvidenceReplays
    <2>10. List(auths') /\ Extends(auths, auths')
      BY <1>2, <1>5, FileAppended
    <2>11. Later(reg, auths, reg, auths') /\ Extends(fed, fed)
      BY <1>2, <2>10, ExtendsItself DEF Later
    <2>12. FedReplays(reg, auths', fed)
      BY <1>2, <2>11, FedReplaysKept DEF EvidenceReplays
    <2>13. ProvReplays(reg, auths', fed, prov)
      BY <1>2, <2>11, ProvReplaysKept DEF EvidenceReplays
    <2>14. EvidenceReplays'
      BY <1>1, <1>2, <2>9, <2>12, <2>13 DEF EvidenceReplays
    <2>15. \A n \in 0..Len(auths) : n \in 0..Len(auths')
      BY <1>2, <2>10, Kept
    <2>16. HandlesStand'
      BY <1>1, <1>2, <2>15 DEF HandlesStand
    <2> QED
      BY <1>1, <1>2, <2>10, <2>14, <2>16
         DEF FedInv, KeyTypes, CommandStands, DeletionsStand, ActiveKeyKept, SignsFor,
             DeletedUnseen
  <1> QED
    BY <1>1, <1>4, <1>5

\* Steps of a process that leave the files and the provider alone.
LEMMA RestStep ==
    ASSUME FedInv, UNCHANGED <<provider, created, reg, auths, lost, fed, prov>>,
           keycmd' = keycmd \/ keycmd' = Idle \/ (keycmd # Idle /\ keycmd' = Signed(keycmd)),
           \A d \in deleting' : d \in deleting,
           signer' \in {signer, Closed, Len(reg)},
           held' = [reg |-> held'.reg, auths |-> held'.auths],
           held'.reg \in {held.reg, Closed, Len(reg)},
           held'.auths \in {held.auths, Closed, Len(auths)}
    PROVE  FedInv'
  <1>1. List(reg) /\ List(auths)
    BY DEF FedInv, KeyTypes, List
  <1>2. Len(reg) \in Nat /\ Len(auths) \in Nat
    BY <1>1, ListLength
  <1>3. EvidenceReplays'
    BY SameFiles DEF FedInv
  <1>4. HandlesStand'
    BY <1>2 DEF FedInv, HandlesStand
  <1>5. CommandStands'
    <2>1. /\ EventOf(Signed(keycmd)) = EventOf(keycmd)
          /\ Signed(keycmd).name = keycmd.name /\ Signed(keycmd).pub = keycmd.pub
      BY DEF Signed, EventOf
    <2> QED
      BY <2>1 DEF FedInv, CommandStands
  <1>6. KeyTypes' /\ DeletionsStand' /\ ActiveKeyKept'
    BY DEF FedInv, KeyTypes, DeletionsStand, ActiveKeyKept, SignsFor, DeletedUnseen
  <1> QED
    BY <1>3, <1>4, <1>5, <1>6 DEF FedInv

LEMMA AppendKeyEventStep ==
    ASSUME FedInv, AppendKeyEvent, UNCHANGED <<fed, prov, held>>
    PROVE  FedInv'
  <1> DEFINE e == EventOf(keycmd)
  <1>1. /\ keycmd # Idle /\ keycmd' = Idle
        /\ UNCHANGED <<provider, created, auths, deleting, lost, signer, torn, faults>>
        /\ reg' = reg \/ (reg' = Append(reg, e) /\ ValidKeyEvent(reg, e))
    BY DEF AppendKeyEvent, EventOf
  <1>2. /\ e \in KeyEvents /\ keycmd.pub # 0
        /\ KeptUpTo(provider, lost, keycmd.name, keycmd.pub, Len(reg))
    BY <1>1 DEF FedInv, CommandStands
  <1>3. e.pub = keycmd.pub /\ e.name = keycmd.name
    BY DEF EventOf
  <1> HIDE DEF e
  <1>4. CASE reg' = reg
    <2>1. held = [reg |-> held.reg, auths |-> held.auths]
      BY DEF FedInv, HandlesStand
    <2> QED
      BY <1>1, <1>4, <2>1, RestStep
  <1>5. CASE reg' = Append(reg, e) /\ ValidKeyEvent(reg, e)
    BY <1>1, <1>2, <1>3, <1>5, RegistryGrows
  <1> QED
    BY <1>1, <1>4, <1>5

LEMMA KeyStep ==
    ASSUME FedInv, KNext, UNCHANGED <<fed, prov, held>>
    PROVE  FedInv'
  <1>1. CASE \E k \in KeyId, n \in Name, fresh \in BOOLEAN, roles \in Grants :
                Enroll(k, n, roles, fresh)
    BY <1>1, EnrollStep
  <1>2. CASE \E k \in KeyId, old \in Name, n \in Name, fresh \in BOOLEAN :
                Rotate(k, old, n, fresh)
    BY <1>2, RotateStep
  <1>3. CASE AppendKeyEvent
    BY <1>3, AppendKeyEventStep
  <1>4. CASE \E k \in KeyId, n \in Name : Revoke(k, n)
    BY <1>4, RevokeStep
  <1>5. CASE \E d \in deleting : DeleteProviderKey(d)
    BY <1>5, DeleteStep
  <1>a. CASE \E n \in Name : ReadBeforeDelete(n)
    BY <1>a, ReadBeforeDeleteStep
  <1>6. CASE \E l \in Lines : Authorize(l)
    BY <1>6, AuthorizeStep
  <1>7. held = [reg |-> held.reg, auths |-> held.auths]
    BY DEF FedInv, HandlesStand
  <1>8. CASE OpenToSign
    BY <1>7, <1>8, RestStep DEF OpenToSign
  <1>9. CASE KillKeyCommand
    BY <1>7, <1>9, RestStep DEF KillKeyCommand
  <1>b. CASE SignKeyEvent
    BY <1>7, <1>b, RestStep DEF SignKeyEvent
  <1>c. CASE \E d \in deleting : KillDelete(d)
    BY <1>7, <1>c, RestStep DEF KillDelete
  <1>10. CASE KillInAppend
    BY <1>7, <1>10, RestStep DEF KillInAppend
  <1> QED
    BY <1>1, <1>2, <1>3, <1>4, <1>5, <1>a, <1>b, <1>c, <1>6, <1>8, <1>9, <1>10
       DEF KNext, KeyCreate, EnrollWithProvider, KeyRotate, RotateWithProviders, KeyRevoke,
           AuthorizeWithProvider

\* An open service holds parts of the registry and of the ledger.
LEMMA ServiceHolds ==
    ASSUME FedInv, ServiceOpen
    PROVE  /\ Later(Registry, Ledger, reg, auths)
           /\ held.auths \in Nat /\ Len(auths) \in Nat /\ held.auths <= Len(auths)
  <1>1. List(reg) /\ List(auths) /\ held.reg \in 0..Len(reg) /\ held.auths \in 0..Len(auths)
    BY DEF FedInv, KeyTypes, HandlesStand, ServiceOpen, List
  <1>2. Len(auths) \in Nat
    BY <1>1, ListLength
  <1>3. Later(Registry, Ledger, reg, auths)
    BY <1>1, HeldPart DEF Later, Registry, Ledger
  <1> QED
    BY <1>1, <1>2, <1>3

\* What the service appends to the federation ledger, by what it holds, replays
\* over the files of the day.
LEMMA AppendFedStep ==
    ASSUME FedInv, NEW e, AppendFed(e), IsFedEvent(e)
    PROVE  FedInv'
  <1>1. /\ ServiceOpen /\ ValidFedEvent(Registry, Ledger, fed, e) /\ fed' = Append(fed, e)
        /\ UNCHANGED <<provider, created, reg, auths, keycmd, deleting, lost, signer, torn,
                       faults, prov, held>>
    BY DEF AppendFed, kvars
  <1>2. /\ KeyTypes /\ CommandStands /\ DeletionsStand /\ HandlesStand /\ ActiveKeyKept
        /\ EvidenceReplays
        /\ List(reg) /\ List(auths) /\ List(fed)
    BY DEF FedInv, KeyTypes, List
  <1>3. Later(Registry, Ledger, reg, auths)
    BY <1>1, ServiceHolds
  <1>4. ValidFedEvent(reg, auths, fed, e)
    BY <1>1, <1>3, FedEventKept
  <1>5. FedReplays(reg, auths, fed')
    BY <1>1, <1>2, <1>4, FedReplaysOn DEF EvidenceReplays
  <1>6. List(fed') /\ Extends(fed, fed') /\ Later(reg, auths, reg, auths)
    BY <1>1, <1>2, FileAppended, ExtendsItself DEF Later
  <1>7. ProvReplays(reg, auths, fed', prov)
    BY <1>2, <1>6, ProvReplaysKept DEF EvidenceReplays
  <1>8. EvidenceReplays'
    BY <1>1, <1>2, <1>5, <1>7 DEF EvidenceReplays
  <1> QED
    BY <1>1, <1>2, <1>6, <1>8
       DEF FedInv, KeyTypes, CommandStands, DeletionsStand, HandlesStand, ActiveKeyKept,
             SignsFor, DeletedUnseen

\* A reference to an authorization is one to a key of the registry.
LEMMA RefersToKey ==
    ASSUME FedInv, NEW n, NEW domain, NEW role, NEW subject,
           Refers(reg, auths, n, domain, role, subject)
    PROVE  auths[n].key \in KeyId
  BY DEF FedInv, EvidenceReplays, AuthsReplay, IsAuthorization, Refers

\* The last event about an authority is in the ledger.
LEMMA LastAuthority ==
    ASSUME NEW f, List(f), NEW ns, NEW k, AuthorityEvents(f, ns, k) # {}
    PROVE  LET m == Max(AuthorityEvents(f, ns, k))
           IN  /\ m \in 1..Len(f) /\ f[m].kind \in {"ENROLL", "REVOKE"}
               /\ f[m].policy.ns = ns /\ f[m].key = k
               /\ \A i \in AuthorityEvents(f, ns, k) : i <= m
  <1>1. Len(f) \in Nat
    BY ListLength
  <1>2. AuthorityEvents(f, ns, k) \in SUBSET (1..Len(f))
    BY DEF AuthorityEvents
  <1>3. /\ Max(AuthorityEvents(f, ns, k)) \in AuthorityEvents(f, ns, k)
        /\ \A i \in AuthorityEvents(f, ns, k) : i <= Max(AuthorityEvents(f, ns, k))
    BY <1>1, <1>2, MaxIsLast
  <1> QED
    BY <1>3 DEF AuthorityEvents

LEMMA PolicySetStep ==
    ASSUME FedInv, NEW pol \in Policies, NEW n, SetNamespacePolicy(pol, n)
    PROVE  FedInv'
  <1> DEFINE e == [kind |-> "POLICY_SET", policy |-> pol, auth |-> n]
  <1>1. AppendFed(e)
    BY DEF SetNamespacePolicy
  <1>2. IsFedEvent(e)
    BY FederationAssumption DEF IsFedEvent
  <1> HIDE DEF e
  <1> QED
    BY <1>1, <1>2, AppendFedStep

LEMMA EnrollAuthorityStep ==
    ASSUME FedInv, NEW pol \in Policies, NEW k \in KeyId, NEW w \in Weights, NEW n,
           EnrollAuthority(pol, k, w, n)
    PROVE  FedInv'
  <1> DEFINE e == [kind |-> "ENROLL", policy |-> pol, key |-> k, weight |-> w, auth |-> n]
  <1>1. AppendFed(e)
    BY DEF EnrollAuthority
  <1>2. IsFedEvent(e)
    BY FederationAssumption DEF IsFedEvent
  <1> HIDE DEF e
  <1> QED
    BY <1>1, <1>2, AppendFedStep

LEMMA RevokeAuthorityStep ==
    ASSUME FedInv, NEW pol \in Policies, NEW k \in KeyId, NEW n, RevokeAuthority(pol, k, n)
    PROVE  FedInv'
  <1> DEFINE w == WeightOf(fed, pol.ns, k)
             e == [kind |-> "REVOKE", policy |-> pol, key |-> k, weight |-> w, auth |-> n]
  <1>1. AppendFed(e) /\ ActiveAuthority(fed, pol.ns, k)
    BY DEF RevokeAuthority
  <1>2. w \in Weights
    <2>1. List(fed) /\ AuthorityEvents(fed, pol.ns, k) # {}
      BY <1>1 DEF FedInv, KeyTypes, ActiveAuthority
    <2>2. PICK m \in 1..Len(fed) : /\ m = Max(AuthorityEvents(fed, pol.ns, k))
                                   /\ fed[m].kind \in {"ENROLL", "REVOKE"}
      BY <2>1, LastAuthority
    <2>3. IsFedEvent(fed[m])
      BY DEF FedInv, EvidenceReplays, FedReplays
    <2> QED
      BY <2>2, <2>3 DEF IsFedEvent, WeightOf
  <1> HIDE DEF w
  <1>3. IsFedEvent(e)
    BY <1>2, FederationAssumption DEF IsFedEvent
  <1> HIDE DEF e
  <1> QED
    BY <1>1, <1>3, AppendFedStep

LEMMA AcceptBundleStep ==
    ASSUME FedInv, NEW pol \in Policies, NEW b \in Bundles, NEW approvals \in SUBSET (1..held.auths),
           AcceptBundle(pol, b, approvals)
    PROVE  FedInv'
  <1> DEFINE version == LastVersion(fed, pol.ns) + 1
             parent == LastBundle(fed, pol.ns)
             e == [kind |-> "BUNDLE", policy |-> pol, bundle |-> b, version |-> version,
                   parent |-> parent, approvals |-> approvals]
  <1>1. AppendFed(e)
    BY DEF AcceptBundle
  <1> HIDE DEF version, parent
  <1>2. IsFedEvent(e)
    BY FederationAssumption DEF IsFedEvent
  <1> HIDE DEF e
  <1> QED
    BY <1>1, <1>2, AppendFedStep

\* The same of the provenance ledger.
LEMMA AppendRecordStep ==
    ASSUME FedInv, NEW pol \in Policies, NEW obj \in Objects, NEW n \in 1..held.auths,
           NEW i, NEW parents \in SUBSET (1..Len(prov)), AppendRecord(pol, obj, n, i, parents)
    PROVE  FedInv'
  <1> DEFINE version == LatestVersion(prov, [policy |-> pol, object |-> obj]) + 1
             e == [policy |-> pol, object |-> obj, actor |-> Ledger[n].key, auth |-> n,
                   bundleVersion |-> fed[i].version, bundle |-> fed[i].bundle,
                   version |-> version, parents |-> parents]
  <1>1. /\ ServiceOpen /\ TrustedRecord(Registry, Ledger, fed, e) /\ ValidTransition(prov, e)
        /\ prov' = Append(prov, e)
        /\ UNCHANGED <<provider, created, reg, auths, keycmd, deleting, lost, signer, torn,
                       faults, fed, held>>
    BY DEF AppendRecord, kvars
  <1>2. /\ KeyTypes /\ CommandStands /\ DeletionsStand /\ HandlesStand /\ ActiveKeyKept
        /\ EvidenceReplays
        /\ List(reg) /\ List(auths) /\ List(fed) /\ List(prov)
    BY DEF FedInv, KeyTypes, List
  <1>3. Later(Registry, Ledger, reg, auths) /\ Extends(fed, fed)
    BY <1>1, <1>2, ServiceHolds, ExtendsItself
  <1>4. version \in Nat
    <2>1. Len(prov) \in Nat
      BY <1>2, ListLength
    <2> DEFINE T == {x \in 1..Len(prov) :
                       /\ prov[x].object = [policy |-> pol, object |-> obj].object
                       /\ prov[x].policy.ns = [policy |-> pol, object |-> obj].policy.ns}
    <2>2. IsFiniteSet(1..Len(prov)) /\ T \subseteq 1..Len(prov)
      BY <2>1, FS_Interval
    <2>3. Cardinality(T) \in Nat
      BY <2>2, FS_Subset, FS_CardinalityType
    <2> HIDE DEF T
    <2> QED
      BY <2>3 DEF LatestVersion, T
  <1>5. /\ e.object = obj /\ e.auth = n /\ e.actor = Ledger[n].key /\ e.version = version
        /\ e.parents = parents
    OBVIOUS
  <1> HIDE DEF e, version
  <1>6. TrustedRecord(reg, auths, fed, e)
    BY <1>1, <1>2, <1>3, RecordKept
  <1>7. IsRecord(e)
    <2>1. /\ Refers(reg, auths, e.auth, "PROVENANCE", "authority", RecordSubject(e))
          /\ auths[e.auth].key = e.actor
      BY <1>6 DEF TrustedRecord
    <2>2. e.actor \in KeyId
      BY <2>1, RefersToKey
    <2>3. Len(prov) \in Nat
      BY <1>2, ListLength
    <2> QED
      BY <1>4, <1>5, <2>2, <2>3 DEF IsRecord
  <1>8. ProvReplays(reg, auths, fed, prov')
    BY <1>1, <1>2, <1>6, <1>7, ProvReplaysOn DEF EvidenceReplays
  <1>9. List(prov')
    BY <1>1, <1>2, FileAppended
  <1>10. EvidenceReplays'
    BY <1>1, <1>2, <1>8 DEF EvidenceReplays
  <1> QED
    BY <1>1, <1>2, <1>9, <1>10
       DEF FedInv, KeyTypes, CommandStands, DeletionsStand, HandlesStand, ActiveKeyKept,
             SignsFor, DeletedUnseen

LEMMA FederationStep == FedInv /\ [FNext]_vars => FedInv'
  <1> SUFFICES ASSUME FedInv, [FNext]_vars PROVE FedInv'
    OBVIOUS
  <1>1. CASE KNext /\ UNCHANGED <<fed, prov, held>>
    BY <1>1, KeyStep
  <1>2. held = [reg |-> held.reg, auths |-> held.auths]
    BY DEF FedInv, HandlesStand
  <1>3. CASE OpenRegistry
    <2>1. held' = [held EXCEPT !.reg = Len(reg)] /\ UNCHANGED <<kvars, fed, prov>>
      BY <1>3 DEF OpenRegistry
    <2> QED
      BY <1>2, <2>1, RestStep DEF kvars
  <1>4. CASE OpenLedgers
    <2>1. /\ held' = [held EXCEPT !.auths = Len(auths)] \/ held' = Shut
          /\ UNCHANGED <<kvars, fed, prov>>
      BY <1>4 DEF OpenLedgers
    <2> QED
      BY <1>2, <2>1, RestStep DEF kvars, Shut
  <1>5. CASE CloseService \/ KillService
    <2>1. /\ held' = Shut
          /\ UNCHANGED <<provider, created, reg, auths, keycmd, deleting, lost, signer, fed, prov>>
      BY <1>5 DEF CloseService, KillService, kvars
    <2> QED
      BY <2>1, RestStep DEF Shut
  <1>6. CASE \E pol \in Policies, n \in 1..held.auths : SetNamespacePolicy(pol, n)
    BY <1>6, PolicySetStep
  <1>7. CASE \E pol \in Policies, n \in 1..held.auths, k \in KeyId, w \in Weights :
                EnrollAuthority(pol, k, w, n)
    BY <1>7, EnrollAuthorityStep
  <1>8. CASE \E pol \in Policies, n \in 1..held.auths, k \in KeyId : RevokeAuthority(pol, k, n)
    BY <1>8, RevokeAuthorityStep
  <1>9. CASE \E pol \in Policies, n \in 1..held.auths, obj \in Objects :
             \E i \in Accepted(fed, pol.ns), parents \in SUBSET (1..Len(prov)) :
                AppendRecord(pol, obj, n, i, parents)
    BY <1>9, AppendRecordStep
  <1>10. CASE \E pol \in Policies, b \in Bundles, approvals \in SUBSET (1..held.auths) :
                AcceptBundle(pol, b, approvals)
    BY <1>10, AcceptBundleStep
  <1>11. CASE UNCHANGED vars
    BY <1>2, <1>11, RestStep DEF vars
  <1> QED
    BY <1>1, <1>3, <1>4, <1>5, <1>6, <1>7, <1>8, <1>9, <1>10, <1>11 DEF FNext

LEMMA FederationHolds == FSpec => []FedInv
  BY FederationStart, FederationStep, PTL DEF FSpec

\* A key the registry calls active can sign unless a key-delete-provider that had
\* read the registry before the key's event deleted its provider key: enrolment,
\* rotation, revocation and a deletion that saw the event, refused or killed
\* anywhere, never part the two.
THEOREM ActiveKeysKept == FSpec => []ActiveKeyKept
  <1>1. FedInv => ActiveKeyKept
    BY DEF FedInv
  <1> QED
    BY FederationHolds, <1>1, PTL

\* Everything that was verified when it was written verifies at every later open
\* of registry, authorizations, federation and provenance, though its writer held
\* older files than the reader has.
THEOREM EvidenceStays == FSpec => []EvidenceReplays
  <1>1. FedInv => EvidenceReplays
    BY DEF FedInv
  <1> QED
    BY FederationHolds, <1>1, PTL

-----------------------------------------------------------------------------
(* The quorum behind a bundle. *)

\* Within a namespace everything is under the one policy that was set.
LEMMA OnePolicy ==
    ASSUME NEW r, NEW ls, NEW f, List(f), FedReplays(r, ls, f),
           NEW i \in 1..Len(f), NEW j \in 1..Len(f),
           UnderPolicy(SubSeq(f, 1, i - 1), f[i]), UnderPolicy(SubSeq(f, 1, j - 1), f[j]),
           f[i].policy.ns = f[j].policy.ns
    PROVE  f[i].policy = f[j].policy
  <1>1. Len(f) \in Nat
    BY ListLength
  <1>2. ASSUME NEW x \in 1..Len(f), UnderPolicy(SubSeq(f, 1, x - 1), f[x])
        PROVE  \E a \in 1..Len(f) : /\ f[a].kind = "POLICY_SET" /\ f[a].policy = f[x].policy
    <2> DEFINE p == SubSeq(f, 1, x - 1)
    <2>1. x - 1 \in 0..Len(f)
      BY <1>1
    <2>2. Len(p) = x - 1 /\ \A a \in 1..(x - 1) : p[a] = f[a]
      BY <2>1, Prefix
    <2>3. PICK a \in PolicySet(p, f[x].policy.ns) : p[a].policy = f[x].policy
      BY <1>2 DEF UnderPolicy
    <2> HIDE DEF p
    <2>4. a \in 1..(x - 1) /\ p[a].kind = "POLICY_SET"
      BY <2>2 DEF PolicySet
    <2>5. a \in 1..Len(f) /\ f[a] = p[a]
      BY <1>1, <2>2, <2>4
    <2> QED
      BY <2>3, <2>4, <2>5
  <1>3. PICK a \in 1..Len(f) : f[a].kind = "POLICY_SET" /\ f[a].policy = f[i].policy
    BY <1>2
  <1>4. PICK b \in 1..Len(f) : f[b].kind = "POLICY_SET" /\ f[b].policy = f[j].policy
    BY <1>2
  <1>5. ASSUME NEW x \in 1..Len(f), NEW y \in 1..Len(f), x < y,
               f[x].kind = "POLICY_SET", f[y].kind = "POLICY_SET"
        PROVE  f[x].policy.ns # f[y].policy.ns
    <2> DEFINE p == SubSeq(f, 1, y - 1)
    <2>1. y - 1 \in 0..Len(f) /\ x \in 1..(y - 1)
      BY <1>1, <1>5
    <2>2. Len(p) = y - 1 /\ p[x] = f[x]
      BY <2>1, Prefix
    <2>3. PolicySet(p, f[y].policy.ns) = {}
      BY <1>5 DEF FedReplays, ValidFedEvent, ValidPolicySet
    <2> HIDE DEF p
    <2> QED
      BY <1>5, <2>1, <2>2, <2>3 DEF PolicySet
  <1>6. a = b
    <2>1. a < b \/ b < a \/ a = b
      BY <1>1
    <2> QED
      BY <1>3, <1>4, <1>5, <2>1
  <1> QED
    BY <1>3, <1>4, <1>6

\* An authority in office was enrolled by the controller, with the weight it
\* counts with, and not revoked since.
LEMMA InOffice ==
    ASSUME EvidenceReplays, List(fed), NEW i \in 1..Len(fed),
           UnderPolicy(SubSeq(fed, 1, i - 1), fed[i]),
           NEW k, ActiveAuthority(SubSeq(fed, 1, i - 1), fed[i].policy.ns, k)
    PROVE  /\ WeightOf(SubSeq(fed, 1, i - 1), fed[i].policy.ns, k) \in Weights
           /\ VoterAt(i, k, WeightOf(SubSeq(fed, 1, i - 1), fed[i].policy.ns, k))
  <1> DEFINE p == SubSeq(fed, 1, i - 1)
             ns == fed[i].policy.ns
  <1>1. Len(fed) \in Nat /\ i - 1 \in 0..Len(fed)
    BY ListLength
  <1>2. List(p) /\ Len(p) = i - 1 /\ \A j \in 1..(i - 1) : p[j] = fed[j]
    BY <1>1, Prefix
  <1>3. AuthorityEvents(p, ns, k) # {} /\ p[Max(AuthorityEvents(p, ns, k))].kind = "ENROLL"
    BY DEF ActiveAuthority
  <1> HIDE DEF p
  <1>4. PICK m : m = Max(AuthorityEvents(p, ns, k))
    OBVIOUS
  <1>5. /\ m \in 1..(i - 1) /\ p[m].kind = "ENROLL" /\ p[m].policy.ns = ns /\ p[m].key = k
        /\ \A h \in AuthorityEvents(p, ns, k) : h <= m
    BY <1>2, <1>3, <1>4, LastAuthority
  <1>6. m \in 1..Len(fed) /\ fed[m] = p[m]
    BY <1>1, <1>2, <1>5
  <1>7. IsFedEvent(fed[m]) /\ ValidFedEvent(reg, auths, SubSeq(fed, 1, m - 1), fed[m])
        /\ FedReplays(reg, auths, fed)
    BY <1>6 DEF EvidenceReplays, FedReplays
  <1>8. ValidEnroll(reg, auths, SubSeq(fed, 1, m - 1), fed[m])
    BY <1>5, <1>6, <1>7 DEF ValidFedEvent
  <1>9. fed[m].policy = fed[i].policy
    <2>1. UnderPolicy(SubSeq(fed, 1, m - 1), fed[m])
      BY <1>8 DEF ValidEnroll
    <2> QED
      BY <1>5, <1>6, <1>7, <2>1, OnePolicy
  <1>10. auths[fed[m].auth].key = fed[i].policy.controller
    BY <1>8, <1>9 DEF ValidEnroll, ByController
  <1>11. WeightOf(p, ns, k) = fed[m].weight /\ fed[m].weight \in Weights
    BY <1>4, <1>5, <1>6, <1>7 DEF WeightOf, IsFedEvent
  <1>12. ASSUME NEW h \in (m + 1)..(i - 1), fed[h].kind = "REVOKE",
                fed[h].policy = fed[i].policy, fed[h].key = k
         PROVE  FALSE
    <2>1. h \in 1..(i - 1) /\ h > m /\ m \in Nat
      BY <1>1, <1>5
    <2>2. h \in AuthorityEvents(p, ns, k)
      BY <1>2, <1>12, <2>1 DEF AuthorityEvents
    <2> QED
      BY <1>5, <2>1, <2>2
  <1>13. VoterAt(i, k, fed[m].weight)
    BY <1>5, <1>6, <1>9, <1>10, <1>12 DEF VoterAt
  <1> QED
    BY <1>11, <1>13 DEF p

\* A verified authorization was made with a key the registry had given its
\* signer, and had not revoked.
LEMMA SignedBy ==
    ASSUME EvidenceReplays, List(reg), NEW n, NEW require, VerifyAuthorization(reg, auths[n]),
           ProviderAdmits(StateAtHead(reg, auths[n].head, auths[n].key).name, require)
    PROVE  VotedWith(n, auths[n].key, require)
  <1> DEFINE head == auths[n].head
             k == auths[n].key
             part == SubSeq(reg, 1, head)
  <1>1. /\ head \in 1..Len(reg) /\ HasRole(part, k, auths[n].role)
        /\ KeyState(part, k).pub = auths[n].pub
        /\ require = "HARDWARE" => KeyState(part, k).name \in Hardware
    BY DEF VerifyAuthorization, HasRoleAtHead, StateAtHead, ProviderAdmits
  <1>2. Len(reg) \in Nat /\ head \in 0..Len(reg)
    BY <1>1, ListLength
  <1>3. List(part) /\ Len(part) = head /\ \A j \in 1..head : part[j] = reg[j]
    BY <1>2, Prefix
  <1>4. Known(part, k) /\ KeyState(part, k).active
    BY <1>1 DEF HasRole
  <1> HIDE DEF part, k, head
  <1>5. PICK m \in 1..head : /\ m = Max(About(part, k)) /\ part[m].key = k
                             /\ \A j \in 1..head : part[j].key = k => j <= m
    BY <1>3, <1>4, LastIs
  <1>6. KeyState(part, k) = StateOf(reg[m])
    BY <1>3, <1>5 DEF KeyState, LastAbout, StateOf
  <1>7. /\ reg[m].key = k /\ reg[m].pub = auths[n].pub /\ reg[m].kind # "REVOKE"
        /\ require = "HARDWARE" => reg[m].name \in Hardware
    BY <1>1, <1>3, <1>4, <1>5, <1>6, StateOfIs
  <1>8. ASSUME NEW h \in m..head, reg[h].kind = "REVOKE", reg[h].key = k
        PROVE  FALSE
    <2>1. h \in 1..head
      BY <1>2, <1>5
    <2>2. h <= m
      BY <1>3, <1>5, <1>8, <2>1
    <2>3. h = m
      BY <1>2, <1>5, <2>1, <2>2
    <2> QED
      BY <1>7, <1>8, <2>3
  <1> QED
    BY <1>5, <1>7, <1>8 DEF VotedWith, k, head

\* Every bundle accept_bundle took has its quorum: distinct authorities in office,
\* counted with the weights their controller signed for, each of whom signed this
\* bundle with a key that was then its own, in hardware where the policy asks.
THEOREM BundlesHaveQuorum == FSpec => []BundleQuorum
  <1>1. FedInv => BundleQuorum
    <2> SUFFICES ASSUME FedInv, NEW i \in 1..Len(fed), fed[i].kind = "BUNDLE"
                 PROVE  LET e == fed[i]
                            subject == BundleSubject(e.policy, e.version, e.parent, e.bundle)
                        IN  /\ \A m, n \in e.approvals : auths[m].key = auths[n].key => m = n
                            /\ \E weight \in [e.approvals -> Weights] :
                                /\ SumFunction(weight) >= e.policy.quorum
                                /\ \A n \in e.approvals :
                                    /\ auths[n].subject = subject
                                    /\ VoterAt(i, auths[n].key, weight[n])
                                    /\ VotedWith(n, auths[n].key, e.policy.require)
      BY DEF BundleQuorum
    <2> DEFINE e == fed[i]
               p == SubSeq(fed, 1, i - 1)
               subject == BundleSubject(e.policy, e.version, e.parent, e.bundle)
               weight == [n \in e.approvals |-> WeightOf(p, e.policy.ns, auths[n].key)]
    <2>1. EvidenceReplays /\ List(reg) /\ List(fed)
      BY DEF FedInv, KeyTypes, List
    <2>2. ValidBundle(reg, auths, p, e)
      BY <2>1 DEF EvidenceReplays, FedReplays, ValidFedEvent
    <2>3. /\ UnderPolicy(p, e)
          /\ \A n \in e.approvals : ValidApproval(reg, auths, p, e, n)
          /\ \A m, n \in e.approvals : auths[m].key = auths[n].key => m = n
          /\ SumFunction(weight) >= e.policy.quorum
      BY <2>2 DEF ValidBundle, Weight
    <2>4. ASSUME NEW n \in e.approvals
          PROVE  /\ WeightOf(p, e.policy.ns, auths[n].key) \in Weights
                 /\ auths[n].subject = subject
                 /\ VoterAt(i, auths[n].key, WeightOf(p, e.policy.ns, auths[n].key))
                 /\ VotedWith(n, auths[n].key, e.policy.require)
      <3>1. /\ auths[n].subject = subject /\ VerifyAuthorization(reg, auths[n])
            /\ ActiveAuthority(p, e.policy.ns, auths[n].key)
            /\ ProviderAdmits(StateAtHead(reg, auths[n].head, auths[n].key).name,
                              e.policy.require)
        BY <2>3 DEF ValidApproval, Refers
      <3>2. /\ WeightOf(p, e.policy.ns, auths[n].key) \in Weights
            /\ VoterAt(i, auths[n].key, WeightOf(p, e.policy.ns, auths[n].key))
        BY <2>1, <2>3, <3>1, InOffice
      <3>3. VotedWith(n, auths[n].key, e.policy.require)
        BY <2>1, <3>1, SignedBy
      <3> QED
        BY <3>1, <3>2, <3>3
    <2>5. /\ weight \in [e.approvals -> Weights]
          /\ \A n \in e.approvals : weight[n] = WeightOf(p, e.policy.ns, auths[n].key)
      BY <2>4
    <2> HIDE DEF weight, p, subject
    <2>6. \E w \in [e.approvals -> Weights] :
            /\ SumFunction(w) >= e.policy.quorum
            /\ \A n \in e.approvals :
                /\ auths[n].subject = subject
                /\ VoterAt(i, auths[n].key, w[n])
                /\ VotedWith(n, auths[n].key, e.policy.require)
      BY <2>3, <2>4, <2>5
    <2> QED
      BY <2>3, <2>6 DEF subject
  <1> QED
    BY FederationHolds, <1>1, PTL

=============================================================================
