--------------------------- MODULE AuthorityProofs ---------------------------
(***************************************************************************)
(* Proofs about the trust root and its approvals, modules KeyRegistry,     *)
(* TrustAuthority and EnterpriseApproval.  Nothing here is typed more than *)
(* the files allow: a file is a sequence that only grows, and what a       *)
(* process holds is a prefix of it.                                        *)
(***************************************************************************)
EXTENDS EnterpriseApproval, FileLemmas, FiniteSetTheorems

-----------------------------------------------------------------------------
(* What the events of a registry leave each key in. *)

Unrevoked(ks, k) == \A i \in About(ks, k) : ks[i].kind # "REVOKE"

\* While no event about k is a revocation, k holds what the last one gave it.
LEMMA HoldingLast ==
    ASSUME NEW ks, List(ks), NEW k, Known(ks, k), Unrevoked(ks, k)
    PROVE  /\ Holding(ks, k) \in About(ks, k)
           /\ \A j \in About(ks, k) : j <= Holding(ks, k)
  <1>1. About(ks, k) \in SUBSET (1..Len(ks)) /\ About(ks, k) # {}
    BY DEF About, Known
  <1>2. Len(ks) \in Nat
    BY ListLength
  <1>3. PICK i \in About(ks, k) : \A j \in About(ks, k) : j <= i
    BY <1>1, <1>2, Greatest
  <1> DEFINE P(x) == /\ ks[x].kind # "REVOKE"
                     /\ \A j \in About(ks, k) : j > x => ks[j].kind = "REVOKE"
  <1>4. P(i)
    BY <1>1, <1>2, <1>3 DEF Unrevoked
  <1>5. Holding(ks, k) = CHOOSE x \in About(ks, k) : P(x)
    BY DEF Holding
  <1>6. Holding(ks, k) \in About(ks, k) /\ P(Holding(ks, k))
    <2> HIDE DEF P
    <2> QED
      BY <1>4, <1>5
  <1>7. ASSUME NEW j \in About(ks, k) PROVE j <= Holding(ks, k)
    BY <1>1, <1>2, <1>6 DEF Unrevoked
  <1> QED
    BY <1>6, <1>7

LEMMA ActiveUnrevoked ==
    ASSUME NEW ks, NEW k
    PROVE  Active(ks, k) <=> Known(ks, k) /\ Unrevoked(ks, k)
  BY DEF Active, KeyState, Unrevoked

\* An event about another key leaves k as it is.
LEMMA OtherKeyKept ==
    ASSUME NEW ks, List(ks), NEW e, NEW k, e.target # k, NEW r, HasRole(ks, k, r)
    PROVE  HasRole(Append(ks, e), k, r)
  <1> DEFINE t == Append(ks, e)
  <1>1. /\ List(t) /\ Len(t) = Len(ks) + 1 /\ t[Len(ks) + 1] = e
        /\ \A i \in 1..Len(ks) : t[i] = ks[i]
        /\ Len(ks) \in Nat
    BY FileAppended, ListLength
  <1> HIDE DEF t
  <1>2. About(t, k) = About(ks, k)
    BY <1>1 DEF About
  <1>3. Known(ks, k) /\ Unrevoked(ks, k)
    BY ActiveUnrevoked DEF HasRole
  <1>4. Known(t, k) /\ Unrevoked(t, k)
    BY <1>1, <1>2, <1>3 DEF Known, Unrevoked, About
  <1>5. Holding(t, k) = Holding(ks, k) /\ Holding(ks, k) \in 1..Len(ks)
    <2>1. /\ Holding(ks, k) \in About(ks, k)
          /\ \A j \in About(ks, k) : j <= Holding(ks, k)
      BY <1>3, HoldingLast
    <2>2. /\ Holding(t, k) \in About(t, k)
          /\ \A j \in About(t, k) : j <= Holding(t, k)
      BY <1>1, <1>4, HoldingLast
    <2>3. Holding(ks, k) \in 1..Len(ks) /\ Holding(t, k) \in 1..Len(ks)
      BY <1>2, <2>1, <2>2 DEF About
    <2> QED
      BY <1>1, <1>2, <2>1, <2>2, <2>3
  <1>6. KeyState(t, k).roles = KeyState(ks, k).roles
    BY <1>1, <1>5 DEF KeyState
  <1> QED
    BY <1>4, <1>6, ActiveUnrevoked DEF HasRole, t

\* The last event about k is its state.
LEMMA LastEventRules ==
    ASSUME NEW ks, List(ks), NEW e, NEW k, e.target = k, e.kind # "REVOKE",
           Unrevoked(ks, k)
    PROVE  /\ Active(Append(ks, e), k)
           /\ KeyState(Append(ks, e), k).roles = e.roles
  <1> DEFINE t == Append(ks, e)
  <1>1. /\ List(t) /\ Len(t) = Len(ks) + 1 /\ t[Len(ks) + 1] = e
        /\ \A i \in 1..Len(ks) : t[i] = ks[i]
        /\ Len(ks) \in Nat
    BY FileAppended, ListLength
  <1> HIDE DEF t
  <1>2. About(t, k) = About(ks, k) \cup {Len(ks) + 1}
    BY <1>1 DEF About
  <1>3. Known(t, k) /\ Unrevoked(t, k)
    BY <1>1, <1>2 DEF Known, Unrevoked, About
  <1>4. Holding(t, k) = Len(ks) + 1
    <2>1. /\ Holding(t, k) \in About(t, k)
          /\ \A j \in About(t, k) : j <= Holding(t, k)
      BY <1>1, <1>3, HoldingLast
    <2> QED
      BY <1>1, <1>2, <2>1 DEF About
  <1>5. KeyState(t, k).roles = e.roles
    BY <1>1, <1>4 DEF KeyState
  <1> QED
    BY <1>3, <1>5, ActiveUnrevoked DEF t
ValidRegistry(ks) ==
    /\ List(ks) /\ KeysReplay(ks)
    /\ \A i \in 1..Len(ks) : ks[i].target \in KeyId

\* One valid event leaves an administrator, if there was one or it is the first.
LEMMA AdminAfterEvent ==
    ASSUME NEW ks, List(ks), NEW e, e.target \in KeyId, ValidKeyEvent(ks, e),
           ks = <<>> \/ \E k \in KeyId : HasRole(ks, k, "KEY_ADMIN"),
           e.kind \in KeyEventKind
    PROVE  \E k \in KeyId : HasRole(Append(ks, e), k, "KEY_ADMIN")
  <1>1. CASE e.kind = "BOOTSTRAP"
    <2>1. ks = <<>> /\ "KEY_ADMIN" \in e.roles
      BY <1>1 DEF ValidKeyEvent, ValidBootstrap
    <2>2. Unrevoked(ks, e.target)
      BY <2>1 DEF Unrevoked, About
    <2>3. e.kind # "REVOKE" /\ e.target = e.target
      BY <1>1
    <2>4. /\ Active(Append(ks, e), e.target)
          /\ KeyState(Append(ks, e), e.target).roles = e.roles
      BY <2>2, <2>3, LastEventRules
    <2> QED
      BY <2>1, <2>4 DEF HasRole
  <1>2. ASSUME e.kind # "BOOTSTRAP"
        PROVE  \E k \in KeyId : HasRole(ks, k, "KEY_ADMIN")
    <2>1. SignedByAdmin(ks, e)
      BY <1>2 DEF ValidKeyEvent, ValidRegister, ValidRotate, ValidRevoke, KeyEventKind
    <2>2. Known(ks, e.signer)
      BY <2>1 DEF SignedByAdmin, HasRole, Active
    <2>3. ks # <<>>
      BY <2>2 DEF Known, About
    <2> QED
      BY <2>3
  <1>3. CASE e.kind = "REGISTER"
    <2>1. PICK k \in KeyId : HasRole(ks, k, "KEY_ADMIN")
      BY <1>2, <1>3
    <2>2. ~Known(ks, e.target)
      BY <1>3 DEF ValidKeyEvent, ValidRegister
    <2>3. Known(ks, k)
      BY <2>1 DEF HasRole, Active
    <2>4. HasRole(Append(ks, e), k, "KEY_ADMIN")
      BY <2>1, <2>2, <2>3, OtherKeyKept
    <2> QED
      BY <2>4
  <1>4. CASE e.kind = "ROTATE"
    <2>1. PICK k \in KeyId : HasRole(ks, k, "KEY_ADMIN")
      BY <1>2, <1>4
    <2>2. CASE k # e.target
      BY <2>1, <2>2, OtherKeyKept
    <2>3. CASE k = e.target
      <3>1. KeyState(ks, k).roles = e.roles /\ "KEY_ADMIN" \in e.roles
        BY <1>4, <2>1, <2>3 DEF ValidKeyEvent, ValidRotate, HasRole
      <3>2. Unrevoked(ks, k)
        BY <2>1, ActiveUnrevoked DEF HasRole
      <3>3. HasRole(Append(ks, e), k, "KEY_ADMIN")
        BY <1>4, <2>3, <3>1, <3>2, LastEventRules DEF HasRole
      <3> QED
        BY <3>3
    <2> QED
      BY <2>2, <2>3
  <1>5. CASE e.kind = "REVOKE"
    <2>1. PICK k \in KeyId : HasRole(ks, k, "KEY_ADMIN")
      BY <1>2, <1>5
    <2>2. CASE k # e.target
      BY <2>1, <2>2, OtherKeyKept
    <2>3. CASE k = e.target
      <3>1. OtherAdmin(ks, e.target)
        BY <1>5, <2>1, <2>3 DEF ValidKeyEvent, ValidRevoke
      <3>2. PICK o \in KeyId \ {e.target} : HasRole(ks, o, "KEY_ADMIN")
        BY <3>1 DEF OtherAdmin
      <3>3. HasRole(Append(ks, e), o, "KEY_ADMIN")
        BY <3>2, OtherKeyKept
      <3> QED
        BY <3>3
    <2> QED
      BY <2>2, <2>3
  <1> QED
    BY <1>1, <1>3, <1>4, <1>5 DEF KeyEventKind

\* A prefix with one more event is an append.
LEMMA PrefixGrows ==
    ASSUME NEW s, List(s), NEW n \in 1..Len(s)
    PROVE  SubSeq(s, 1, n) = Append(SubSeq(s, 1, n - 1), s[n])
  <1>1. PICK S : s \in Seq(S)
    BY DEF List
  <1>2. SubSeq(s, 1, n) = [i \in 1..n |-> s[i]]
    BY <1>1
  <1>3. Len(s) \in Nat /\ n \in Nat /\ n - 1 \in 0..Len(s) /\ n - 1 \in Nat
    BY <1>1
  <1> DEFINE u == SubSeq(s, 1, n - 1)
  <1>4. u \in Seq(S) /\ Len(u) = n - 1 /\ \A i \in 1..(n - 1) : u[i] = s[i]
    BY <1>1, <1>3
  <1>5. s[n] \in S
    BY <1>1
  <1> HIDE DEF u
  <1>6. Append(u, s[n]) \in Seq(S) /\ Len(Append(u, s[n])) = n
        /\ Append(u, s[n]) = [i \in 1..n |-> IF i = n THEN s[n] ELSE u[i]]
    BY <1>3, <1>4, <1>5
  <1> QED
    BY <1>2, <1>3, <1>4, <1>6 DEF u

\* So every replayed registry that is not empty has one: the first prefix
\* without an administrator would follow one that has it.
LEMMA RegistryHasAdmin ==
    ASSUME NEW ks, ValidRegistry(ks), ks # <<>>,
           \A i \in 1..Len(ks) : ks[i].kind \in KeyEventKind
    PROVE  \E k \in KeyId : HasRole(ks, k, "KEY_ADMIN")
  <1> DEFINE Staffed(n) == \E k \in KeyId : HasRole(SubSeq(ks, 1, n), k, "KEY_ADMIN")
             T == {n \in 1..Len(ks) : ~Staffed(n)}
  <1>1. List(ks) /\ Len(ks) \in Nat /\ Len(ks) > 0
    BY ListLength DEF ValidRegistry
  <1>2. ASSUME T # {} PROVE FALSE
    <2>1. T \in SUBSET Nat
      BY <1>1
    <2>2. PICK n \in T : \A m \in T : n <= m
      <3> HIDE DEF T
      <3> QED
        BY <1>2, <2>1, Least
    <2>3. n \in 1..Len(ks) /\ ~Staffed(n)
      OBVIOUS
    <2> DEFINE u == SubSeq(ks, 1, n - 1)
    <2>4. n - 1 \in 0..Len(ks)
      BY <1>1, <2>3
    <2>5. List(u) /\ Len(u) = n - 1
      BY <1>1, <2>4, Prefix
    <2>6. u = <<>> \/ \E k \in KeyId : HasRole(u, k, "KEY_ADMIN")
      <3>1. CASE n = 1
        BY <2>5, <3>1, ListLength
      <3>2. CASE n > 1
        <4>1. n - 1 \in 1..Len(ks) /\ ~(n <= n - 1)
          BY <1>1, <2>3, <3>2
        <4>2. n - 1 \notin T
          BY <2>2, <4>1
        <4> QED
          BY <4>1, <4>2
      <3> QED
        BY <1>1, <2>3, <3>1, <3>2
    <2>7. ValidKeyEvent(u, ks[n])
      BY <2>3 DEF ValidRegistry, KeysReplay
    <2>8. ks[n].target \in KeyId /\ ks[n].kind \in KeyEventKind
      BY <2>3 DEF ValidRegistry
    <2> HIDE DEF u
    <2>9. \E k \in KeyId : HasRole(Append(u, ks[n]), k, "KEY_ADMIN")
      BY <2>5, <2>6, <2>7, <2>8, AdminAfterEvent
    <2>10. SubSeq(ks, 1, n) = Append(u, ks[n])
      BY <1>1, <2>3, PrefixGrows DEF u
    <2> QED
      BY <2>3, <2>9, <2>10
  <1>3. Len(ks) \in 1..Len(ks) /\ SubSeq(ks, 1, Len(ks)) = ks
    BY <1>1, Prefix
  <1> QED
    BY <1>2, <1>3
\* Whatever gave k a fingerprint gave it the same roles: a rotation keeps them
\* and nothing registers k again.
LEMMA SameRoles ==
    ASSUME NEW ks, ValidRegistry(ks), \A x \in 1..Len(ks) : ks[x].kind \in KeyEventKind,
           NEW k, NEW i \in About(ks, k), NEW j \in About(ks, k),
           ks[i].kind # "REVOKE", ks[j].kind # "REVOKE"
    PROVE  ks[i].roles = ks[j].roles
  <1> DEFINE Gives(x) == x \in About(ks, k) /\ ks[x].kind # "REVOKE"
             T == {y \in 1..Len(ks) : Gives(y) /\ \E x \in 1..Len(ks) :
                        Gives(x) /\ x < y /\ ks[x].roles # ks[y].roles}
  <1>1. List(ks) /\ Len(ks) \in Nat /\ About(ks, k) \subseteq 1..Len(ks)
    BY ListLength DEF ValidRegistry, About
  <1>2. ASSUME T # {} PROVE FALSE
    <2>1. T \in SUBSET Nat
      BY <1>1
    <2>2. PICK y \in T : \A z \in T : y <= z
      <3> HIDE DEF T
      <3> QED
        BY <1>2, <2>1, Least
    <2>3. y \in 1..Len(ks) /\ Gives(y)
      OBVIOUS
    <2>4. PICK x \in 1..Len(ks) : Gives(x) /\ x < y /\ ks[x].roles # ks[y].roles
      OBVIOUS
    <2> DEFINE u == SubSeq(ks, 1, y - 1)
    <2>5. y - 1 \in 0..Len(ks) /\ y - 1 \in Nat /\ x \in 1..(y - 1)
      BY <1>1, <2>3, <2>4
    <2>6. List(u) /\ Len(u) = y - 1 /\ \A z \in 1..(y - 1) : u[z] = ks[z]
      BY <1>1, <2>5, Prefix
    <2>7. ValidKeyEvent(u, ks[y]) /\ ks[y].kind \in KeyEventKind /\ ks[y].target = k
      BY <2>3 DEF ValidRegistry, KeysReplay, About
    <2> HIDE DEF u
    <2>8. x \in About(u, k)
      BY <1>1, <2>4, <2>5, <2>6 DEF About
    <2>9. Known(u, k) /\ u # <<>>
      BY <2>8 DEF Known, About
    <2>10. ks[y].kind = "ROTATE"
      BY <2>3, <2>7, <2>9 DEF ValidKeyEvent, ValidBootstrap, ValidRegister, KeyEventKind
    <2>11. Active(u, k) /\ KeyState(u, k).roles = ks[y].roles
      BY <2>7, <2>10 DEF ValidKeyEvent, ValidRotate
    <2>12. Unrevoked(u, k)
      BY <2>11, ActiveUnrevoked
    <2> DEFINE h == Holding(u, k)
    <2>13. h \in About(u, k) /\ x <= h
      BY <2>6, <2>8, <2>9, <2>12, HoldingLast
    <2>14. h \in 1..(y - 1) /\ u[h] = ks[h] /\ ks[h].target = k /\ u[h].kind # "REVOKE"
      BY <2>6, <2>12, <2>13 DEF About, Unrevoked
    <2>15. ks[h].roles = ks[y].roles
      BY <2>11, <2>14 DEF KeyState
    <2> HIDE DEF h
    <2>16. h \in 1..Len(ks) /\ h < y /\ Gives(h)
      BY <1>1, <2>3, <2>14 DEF About
    <2>17. h \notin T
      BY <2>1, <2>2, <2>16
    <2> QED
      BY <2>4, <2>13, <2>15, <2>16, <2>17
  <1>3. Gives(i) /\ Gives(j) /\ i \in 1..Len(ks) /\ j \in 1..Len(ks)
    BY <1>1
  <1>4. i \notin T /\ j \notin T
    BY <1>2
  <1>5. i = j \/ i < j \/ j < i
    BY <1>1, <1>3
  <1> QED
    BY <1>3, <1>4, <1>5

LEMMA HoldingRoles ==
    ASSUME NEW ks, ValidRegistry(ks), \A x \in 1..Len(ks) : ks[x].kind \in KeyEventKind,
           NEW k, NEW i \in About(ks, k), ks[i].kind # "REVOKE"
    PROVE  KeyState(ks, k).roles = ks[i].roles
  <1> DEFINE T == {x \in About(ks, k) : ks[x].kind # "REVOKE"}
             P(x) == /\ ks[x].kind # "REVOKE"
                     /\ \A j \in About(ks, k) : j > x => ks[j].kind = "REVOKE"
  <1>1. List(ks) /\ Len(ks) \in Nat /\ About(ks, k) \subseteq 1..Len(ks)
    BY ListLength DEF ValidRegistry, About
  <1>2. PICK g \in T : \A y \in T : y <= g
    <2>1. T \in SUBSET (1..Len(ks)) /\ T # {}
      BY <1>1
    <2> HIDE DEF T
    <2> QED
      BY <1>1, <2>1, Greatest
  <1>3. g \in About(ks, k) /\ P(g)
    BY <1>1, <1>2
  <1>4. Holding(ks, k) = CHOOSE x \in About(ks, k) : P(x)
    BY DEF Holding
  <1>5. Holding(ks, k) \in About(ks, k) /\ P(Holding(ks, k))
    <2> HIDE DEF P
    <2> QED
      BY <1>3, <1>4
  <1>6. ks[Holding(ks, k)].roles = ks[i].roles
    BY <1>5, SameRoles
  <1> QED
    BY <1>6 DEF KeyState

-----------------------------------------------------------------------------
(* The invariant.  Its parts take the files as parameters, to say that they *)
(* stay true when the files grow.                                          *)

At == {"idle", "opening", "ready", "authorized", "committing", "done"}

Handles == [keys : Nat, auths : Nat, policies : Nat, status : Nat]

Locals ==
    /\ pc \in [Proc -> At] /\ job \in [Proc -> Jobs \cup {None}]
    /\ seen \in [Proc -> Handles] /\ held \in [Proc -> Nat]
    /\ ref = [p \in Proc |-> ref[p]] /\ request = [p \in Proc |-> request[p]]

Files ==
    /\ List(keys) /\ List(auths) /\ List(policies) /\ List(status)
    /\ List(commits) /\ List(approvals)

Grown ==
    /\ Extends(keys, keys') /\ Extends(auths, auths')
    /\ Extends(policies, policies') /\ Extends(status, status')
    /\ Extends(commits, commits') /\ Extends(approvals, approvals')

Named(e) == e.target \in KeyId /\ e.kind \in KeyEventKind

\* id is recorded, and was signed under a head that is still in the registry.
Sealed(ks, as, id) ==
    /\ Recorded(as, id)
    /\ id.head \in 0..Len(ks)
    /\ VerifySecretRole(SubSeq(ks, 1, id.head), id.signer, id.fp, RoleOf[id.domain])

PolicyRests(as, e) ==
    \E a \in 1..Len(as) : as[a].id.subject = <<"policy", e.policy, e.digest>>

StatusRests(ks, as, e) ==
    /\ Sealed(ks, as, e.auth)
    /\ e.auth.subject = RevokeSubject(e.policy, e.digest, e.reason)

CommitRests(ks, as, e) ==
    Sealed(ks, as, e.auth) /\ e.auth.subject = <<"commit", e.request>>

\* Request id was carried out, and r is the reference to it.
DoneAs(ks, as, id, r) ==
    IF id.domain = "KEY_ROTATE"
    THEN \E k \in 1..Len(ks) :
            /\ ks[k] = r
            /\ id.subject = RotateSubject(ks[k].target, ks[k].old, ks[k].fp, ks[k].roles)
    ELSE Sealed(ks, as, r) /\ r.domain = id.domain /\ r.subject = id.subject

SignStands(ks, e) ==
    e.kind = "APPROVE" =>
        /\ e.signer # e.id.requester
        /\ e.id.created < e.time /\ e.time <= e.id.expires
        /\ e.head \in 0..Len(ks) /\ HasRole(SubSeq(ks, 1, e.head), e.signer, "AUDITOR")

FinalStands(ks, as, ap, i) ==
    ap[i].kind = "FINALIZE" =>
        /\ DoneAs(ks, as, ap[i].id, ap[i].reference)
        /\ Cardinality(Approvers(SubSeq(ap, 1, i - 1), ap[i].id)) >= Threshold

AuthorizedCommand == {"policy-register", "policy-revoke", "trust-commit"}

\* Where a process stands with the request rq it runs under: what it is about
\* to do, or did, is what rq asks for.
Serves(ks, as, ps, at, j, sn, r, rq) ==
    /\ at = "opening" =>
        /\ j.cmd \in AuthorizedCommand /\ rq.domain = Domain(j)
        /\ \E n \in 0..Len(ps) :
            /\ rq.subject = Subject(j, SubSeq(ps, 1, n))
            /\ j.cmd = "policy-revoke" => RegisteredIn(SubSeq(ps, 1, n), j.policy)
    /\ at = "ready" /\ j.cmd \in KeyCommand =>
        /\ j.cmd = "key-rotate" /\ rq.domain = "KEY_ROTATE"
        /\ KeyState(SubSeq(ks, 1, sn.keys), j.key).fp = j.old
        /\ rq.subject = RotateSubject(j.key, j.old, j.secret,
                                      KeyState(SubSeq(ks, 1, sn.keys), j.key).roles)
    /\ at \in {"ready", "authorized", "committing"} /\ j.cmd \notin KeyCommand =>
        /\ j.cmd \in AuthorizedCommand /\ rq.domain = Domain(j)
        /\ rq.subject = Subject(j, SubSeq(ps, 1, sn.policies))
    /\ at = "done" => DoneAs(ks, as, rq, r)

\* Where a process stands: what it authorized is sealed and is what it will do.
Stands(ks, as, ps, at, j, sn, r, rq) ==
    /\ at = "idle" => rq = None
    /\ at = "opening" => j.cmd \notin KeyCommand
    /\ at \in {"authorized", "committing"} =>
        /\ j.cmd \notin KeyCommand
        /\ Sealed(ks, as, r) /\ r.domain = Domain(j)
        /\ r.subject = Subject(j, SubSeq(ps, 1, sn.policies))
    /\ rq # None => Serves(ks, as, ps, at, j, sn, r, rq)

Within(sn, h) ==
    /\ sn.keys <= Len(keys) /\ sn.auths <= Len(auths)
    /\ sn.policies <= Len(policies) /\ sn.status <= Len(status)
    /\ h <= Len(approvals)

FilesStand ==
    /\ \A i \in 1..Len(keys) : Named(keys[i])
    /\ \A i \in 1..Len(auths) : Sealed(keys, auths, auths[i].id)
    /\ \A i \in 1..Len(policies) : PolicyRests(auths, policies[i])
    /\ \A i \in 1..Len(status) : StatusRests(keys, auths, status[i])
    /\ \A t \in pending : CommitRests(keys, auths, t)
    /\ \A i \in 1..Len(commits) : CommitRests(keys, auths, commits[i])
    /\ \A i \in 1..Len(approvals) :
        SignStands(keys, approvals[i]) /\ FinalStands(keys, auths, approvals, i)

ProcessStands(p) ==
    /\ Within(seen[p], held[p])
    /\ Stands(keys, auths, policies, pc[p], job[p], seen[p], ref[p], request[p])

AuthInv == Locals /\ Files /\ FilesStand /\ \A p \in Proc : ProcessStands(p)

-----------------------------------------------------------------------------
(* What stays true when the files grow. *)

LEMMA SealedKept ==
    ASSUME NEW ks, NEW kt, NEW as, NEW at, List(ks), List(kt), List(as), List(at),
           Extends(ks, kt), Extends(as, at), NEW id, Sealed(ks, as, id)
    PROVE  Sealed(kt, at, id)
  <1>1. Len(ks) \in Nat /\ Len(kt) \in Nat /\ Len(as) \in Nat /\ Len(at) \in Nat
    BY ListLength
  <1>2. Recorded(at, id)
    <2>1. PICK i \in 1..Len(as) : as[i].id = id
      BY DEF Sealed, Recorded
    <2>2. i \in 1..Len(at) /\ at[i] = as[i]
      BY Kept
    <2> QED
      BY <2>1, <2>2 DEF Recorded
  <1>3. id.head \in 0..Len(kt) /\ SubSeq(kt, 1, id.head) = SubSeq(ks, 1, id.head)
    BY <1>1 DEF Sealed, Extends
  <1> QED
    BY <1>2, <1>3 DEF Sealed

LEMMA DoneKept ==
    ASSUME NEW ks, NEW kt, NEW as, NEW at, List(ks), List(kt), List(as), List(at),
           Extends(ks, kt), Extends(as, at), NEW id, NEW r, DoneAs(ks, as, id, r)
    PROVE  DoneAs(kt, at, id, r)
  <1>1. Len(ks) \in Nat /\ Len(kt) \in Nat
    BY ListLength
  <1>2. CASE id.domain = "KEY_ROTATE"
    BY <1>1, <1>2 DEF DoneAs, Extends
  <1>3. CASE id.domain # "KEY_ROTATE"
    BY <1>3, SealedKept DEF DoneAs
  <1> QED
    BY <1>2, <1>3

LEMMA StandsKept ==
    ASSUME NEW ks, NEW kt, NEW as, NEW at, NEW ps, NEW pt,
           List(ks), List(kt), List(as), List(at), List(ps), List(pt),
           Extends(ks, kt), Extends(as, at), Extends(ps, pt),
           NEW x, NEW j, NEW sn, NEW r, NEW rq,
           sn.keys \in 0..Len(ks), sn.policies \in 0..Len(ps),
           Stands(ks, as, ps, x, j, sn, r, rq)
    PROVE  Stands(kt, at, pt, x, j, sn, r, rq)
  <1>1. /\ Len(ks) \in Nat /\ Len(kt) \in Nat /\ Len(ps) \in Nat /\ Len(pt) \in Nat
        /\ Len(ps) <= Len(pt)
    BY ListLength DEF Extends
  <1>2. /\ SubSeq(kt, 1, sn.keys) = SubSeq(ks, 1, sn.keys)
        /\ SubSeq(pt, 1, sn.policies) = SubSeq(ps, 1, sn.policies)
        /\ \A n \in 0..Len(ps) : n \in 0..Len(pt) /\ SubSeq(pt, 1, n) = SubSeq(ps, 1, n)
    BY <1>1 DEF Extends
  <1>3. x \in {"authorized", "committing"} => Sealed(kt, at, r)
    BY SealedKept DEF Stands
  <1>4. ASSUME rq # None PROVE Serves(kt, at, pt, x, j, sn, r, rq)
    <2>0. Serves(ks, as, ps, x, j, sn, r, rq)
      BY <1>4 DEF Stands
    <2>1. x = "done" => DoneAs(kt, at, rq, r)
      BY <2>0, DoneKept DEF Serves
    <2>2. ASSUME x = "opening"
          PROVE  \E n \in 0..Len(pt) :
                    /\ rq.subject = Subject(j, SubSeq(pt, 1, n))
                    /\ j.cmd = "policy-revoke" =>
                        RegisteredIn(SubSeq(pt, 1, n), j.policy)
      BY <1>2, <2>0, <2>2 DEF Serves
    <2> QED
      BY <1>2, <2>0, <2>1, <2>2 DEF Serves
  <1> QED
    BY <1>2, <1>3, <1>4 DEF Stands
LEMMA WithinKept ==
    ASSUME Files, Files', Grown, NEW sn \in Handles, NEW h \in Nat, Within(sn, h)
    PROVE  Within(sn, h)'
  <1>1. /\ Len(keys) \in Nat /\ Len(auths) \in Nat /\ Len(policies) \in Nat
        /\ Len(status) \in Nat /\ Len(approvals) \in Nat
        /\ Len(keys') \in Nat /\ Len(auths') \in Nat /\ Len(policies') \in Nat
        /\ Len(status') \in Nat /\ Len(approvals') \in Nat
    BY ListLength DEF Files
  <1>2. /\ Len(keys) <= Len(keys') /\ Len(auths) <= Len(auths')
        /\ Len(policies) <= Len(policies') /\ Len(status) <= Len(status')
        /\ Len(approvals) <= Len(approvals')
    BY DEF Grown, Extends
  <1> QED
    BY <1>1, <1>2 DEF Within, Handles

\* What a step appends stands.
NewKeys == \A i \in 1..Len(keys') : i > Len(keys) => Named(keys'[i])
NewAuths ==
    \A i \in 1..Len(auths') : i > Len(auths) => Sealed(keys', auths', auths'[i].id)
NewPolicies ==
    \A i \in 1..Len(policies') : i > Len(policies) => PolicyRests(auths', policies'[i])
NewStatus ==
    \A i \in 1..Len(status') : i > Len(status) => StatusRests(keys', auths', status'[i])
NewPending == \A t \in pending' : t \in pending \/ CommitRests(keys', auths', t)
NewCommits ==
    \A i \in 1..Len(commits') : i > Len(commits) => CommitRests(keys', auths', commits'[i])
NewApprovals ==
    \A i \in 1..Len(approvals') : i > Len(approvals) =>
        SignStands(keys', approvals'[i]) /\ FinalStands(keys', auths', approvals', i)

LEMMA Unmoved ==
    ASSUME Files
    PROVE  /\ keys' = keys => List(keys') /\ Extends(keys, keys') /\ NewKeys
           /\ auths' = auths => List(auths') /\ Extends(auths, auths') /\ NewAuths
           /\ policies' = policies =>
                List(policies') /\ Extends(policies, policies') /\ NewPolicies
           /\ status' = status => List(status') /\ Extends(status, status') /\ NewStatus
           /\ pending' = pending => NewPending
           /\ commits' = commits =>
                List(commits') /\ Extends(commits, commits') /\ NewCommits
           /\ approvals' = approvals =>
                List(approvals') /\ Extends(approvals, approvals') /\ NewApprovals
  <1>1. ASSUME NEW s, List(s) PROVE Extends(s, s) /\ \A i \in 1..Len(s) : ~(i > Len(s))
    BY <1>1, ListLength, ExtendsItself
  <1>2. ASSUME keys' = keys PROVE List(keys') /\ Extends(keys, keys') /\ NewKeys
    BY <1>1, <1>2 DEF Files, NewKeys
  <1>3. ASSUME auths' = auths PROVE List(auths') /\ Extends(auths, auths') /\ NewAuths
    BY <1>1, <1>3 DEF Files, NewAuths
  <1>4. ASSUME policies' = policies
        PROVE  List(policies') /\ Extends(policies, policies') /\ NewPolicies
    BY <1>1, <1>4 DEF Files, NewPolicies
  <1>5. ASSUME status' = status PROVE List(status') /\ Extends(status, status') /\ NewStatus
    BY <1>1, <1>5 DEF Files, NewStatus
  <1>6. ASSUME commits' = commits
        PROVE  List(commits') /\ Extends(commits, commits') /\ NewCommits
    BY <1>1, <1>6 DEF Files, NewCommits
  <1>7. ASSUME approvals' = approvals
        PROVE  List(approvals') /\ Extends(approvals, approvals') /\ NewApprovals
    BY <1>1, <1>7 DEF Files, NewApprovals
  <1> QED
    BY <1>2, <1>3, <1>4, <1>5, <1>6, <1>7 DEF NewPending

Untouched(q) ==
    /\ pc'[q] = pc[q] /\ job'[q] = job[q] /\ seen'[q] = seen[q]
    /\ ref'[q] = ref[q] /\ held'[q] = held[q] /\ request'[q] = request[q]

\* A step of the processes in P: the others stay as they are, the files grow,
\* and what is new in them stands.
LEMMA StepStands ==
    ASSUME AuthInv, Locals', Files', Grown, NEW P \in SUBSET Proc,
           \A q \in Proc : q \notin P => Untouched(q),
           \A p \in P : ProcessStands(p)',
           NewKeys, NewAuths, NewPolicies, NewStatus, NewPending, NewCommits,
           NewApprovals
    PROVE  AuthInv'
  <1>1. /\ Len(keys) \in Nat /\ Len(auths) \in Nat /\ Len(policies) \in Nat
        /\ Len(status) \in Nat /\ Len(commits) \in Nat /\ Len(approvals) \in Nat
        /\ Len(keys') \in Nat /\ Len(auths') \in Nat /\ Len(policies') \in Nat
        /\ Len(status') \in Nat /\ Len(commits') \in Nat /\ Len(approvals') \in Nat
    BY ListLength DEF AuthInv, Files
  <1>l. /\ List(keys) /\ List(keys') /\ List(auths) /\ List(auths')
        /\ List(policies) /\ List(policies')
        /\ Extends(keys, keys') /\ Extends(auths, auths') /\ Extends(policies, policies')
    BY DEF AuthInv, Files, Grown
  <1>2. \A id : Sealed(keys, auths, id) => Sealed(keys', auths', id)
    BY <1>l, SealedKept
  <1>3. \A id, r : DoneAs(keys, auths, id, r) => DoneAs(keys', auths', id, r)
    BY <1>l, DoneKept
  <1>4. ASSUME NEW i \in 1..Len(keys') PROVE Named(keys'[i])
    <2>1. CASE i <= Len(keys)
      <3>1. i \in 1..Len(keys) /\ keys'[i] = keys[i]
        BY <1>1, <2>1 DEF Grown, Extends
      <3> QED
        BY <3>1 DEF AuthInv, FilesStand
    <2> QED
      BY <1>1, <2>1 DEF NewKeys
  <1>5. ASSUME NEW i \in 1..Len(auths') PROVE Sealed(keys', auths', auths'[i].id)
    <2>1. CASE i <= Len(auths)
      <3>1. i \in 1..Len(auths) /\ auths'[i] = auths[i]
        BY <1>1, <2>1 DEF Grown, Extends
      <3> QED
        BY <1>2, <3>1 DEF AuthInv, FilesStand
    <2> QED
      BY <1>1, <2>1 DEF NewAuths
  <1>6. ASSUME NEW i \in 1..Len(policies') PROVE PolicyRests(auths', policies'[i])
    <2>1. CASE i <= Len(policies)
      <3>1. i \in 1..Len(policies) /\ policies'[i] = policies[i]
        BY <1>1, <2>1 DEF Grown, Extends
      <3>2. PolicyRests(auths, policies[i])
        BY <3>1 DEF AuthInv, FilesStand
      <3>3. PICK a \in 1..Len(auths) :
                auths[a].id.subject = <<"policy", policies[i].policy, policies[i].digest>>
        BY <3>2 DEF PolicyRests
      <3>4. a \in 1..Len(auths') /\ auths'[a] = auths[a]
        BY <1>1 DEF Grown, Extends
      <3> QED
        BY <3>1, <3>3, <3>4 DEF PolicyRests
    <2> QED
      BY <1>1, <2>1 DEF NewPolicies
  <1>7. ASSUME NEW i \in 1..Len(status') PROVE StatusRests(keys', auths', status'[i])
    <2>1. CASE i <= Len(status)
      <3>1. i \in 1..Len(status) /\ status'[i] = status[i]
        BY <1>1, <2>1 DEF Grown, Extends
      <3> QED
        BY <1>2, <3>1 DEF AuthInv, FilesStand, StatusRests
    <2> QED
      BY <1>1, <2>1 DEF NewStatus
  <1>8. ASSUME NEW i \in 1..Len(commits') PROVE CommitRests(keys', auths', commits'[i])
    <2>1. CASE i <= Len(commits)
      <3>1. i \in 1..Len(commits) /\ commits'[i] = commits[i]
        BY <1>1, <2>1 DEF Grown, Extends
      <3> QED
        BY <1>2, <3>1 DEF AuthInv, FilesStand, CommitRests
    <2> QED
      BY <1>1, <2>1 DEF NewCommits
  <1>9. ASSUME NEW i \in 1..Len(approvals')
        PROVE  SignStands(keys', approvals'[i])
               /\ FinalStands(keys', auths', approvals', i)
    <2>1. CASE i <= Len(approvals)
      <3>1. /\ i \in 1..Len(approvals) /\ approvals'[i] = approvals[i]
            /\ i - 1 \in 0..Len(approvals)
        BY <1>1, <2>1 DEF Grown, Extends
      <3>2. SubSeq(approvals', 1, i - 1) = SubSeq(approvals, 1, i - 1)
        BY <3>1 DEF Grown, Extends
      <3>3. SignStands(keys, approvals[i]) /\ FinalStands(keys, auths, approvals, i)
        BY <3>1 DEF AuthInv, FilesStand
      <3>4. FinalStands(keys', auths', approvals', i)
        BY <1>3, <3>1, <3>2, <3>3 DEF FinalStands
      <3>5. ASSUME approvals[i].head \in 0..Len(keys)
            PROVE  /\ approvals[i].head \in 0..Len(keys')
                   /\ SubSeq(keys', 1, approvals[i].head)
                        = SubSeq(keys, 1, approvals[i].head)
        BY <1>l, <3>5, Kept
      <3>6. SignStands(keys', approvals'[i])
        BY <3>1, <3>3, <3>5 DEF SignStands
      <3> QED
        BY <3>4, <3>6
    <2> QED
      BY <1>1, <2>1 DEF NewApprovals
  <1>p. ASSUME NEW t \in pending' PROVE CommitRests(keys', auths', t)
    BY <1>2 DEF NewPending, AuthInv, FilesStand, CommitRests
  <1>10. FilesStand'
    BY <1>4, <1>5, <1>6, <1>7, <1>8, <1>9, <1>p DEF FilesStand
  <1>11. ASSUME NEW q \in Proc PROVE ProcessStands(q)'
    <2>1. CASE q \in P
      BY <2>1
    <2>2. CASE q \notin P
      <3>1. /\ pc'[q] = pc[q] /\ job'[q] = job[q] /\ seen'[q] = seen[q]
            /\ ref'[q] = ref[q] /\ held'[q] = held[q] /\ request'[q] = request[q]
        BY <2>2 DEF Untouched
      <3>2. ProcessStands(q) /\ seen[q] \in Handles /\ held[q] \in Nat
        BY DEF AuthInv, Locals
      <3>3. Within(seen[q], held[q])'
        <4>1. \A sn \in Handles, h \in Nat : Within(sn, h) => Within(sn, h)'
          BY WithinKept DEF AuthInv
        <4>2. Within(seen[q], held[q])
          BY <3>2 DEF ProcessStands
        <4> QED
          BY <3>1, <3>2, <4>1, <4>2 DEF Within
      <3>4. seen[q].keys \in 0..Len(keys) /\ seen[q].policies \in 0..Len(policies)
        BY <1>1, <3>2 DEF ProcessStands, Within, Handles
      <3>5. Stands(keys, auths, policies, pc[q], job[q], seen[q], ref[q], request[q])
        BY <3>2 DEF ProcessStands
      <3>6. Stands(keys', auths', policies', pc[q], job[q], seen[q], ref[q], request[q])
        BY <1>l, <3>4, <3>5, StandsKept
      <3> QED
        BY <3>1, <3>3, <3>6 DEF ProcessStands
    <2> QED
      BY <2>1, <2>2
  <1> QED
    BY <1>10, <1>11 DEF AuthInv
-----------------------------------------------------------------------------
(* The steps. *)

LEMMA QuietStep ==
    ASSUME AuthInv,
           UNCHANGED <<keys, auths, policies, status, pending, commits, approvals>>,
           UNCHANGED <<pc, job, seen, ref, held, request>>
    PROVE  AuthInv'
  <1>1. Locals'
    BY DEF AuthInv, Locals
  <1>2. Files' /\ Grown /\ NewKeys /\ NewAuths /\ NewPolicies /\ NewStatus
        /\ NewPending /\ NewCommits /\ NewApprovals
    BY Unmoved DEF AuthInv, Files, Grown
  <1>3. \A q \in Proc : q \notin {} => Untouched(q)
    BY DEF Untouched
  <1>4. {} \in SUBSET Proc /\ \A q \in {} : ProcessStands(q)'
    OBVIOUS
  <1> QED
    BY <1>1, <1>2, <1>3, <1>4, StepStands

LEMMA IdleStep ==
    ASSUME AuthInv, NEW p \in Proc, Idle(p), Settled(p),
           UNCHANGED <<keys, auths, policies, status, pending, commits, approvals>>
    PROVE  AuthInv'
  <1>1. Locals'
    BY DEF AuthInv, Locals, Idle, Settled, At, Handles, Unseen
  <1>2. Files' /\ Grown /\ NewKeys /\ NewAuths /\ NewPolicies /\ NewStatus
        /\ NewPending /\ NewCommits /\ NewApprovals
    BY Unmoved DEF AuthInv, Files, Grown
  <1>3. /\ pc'[p] = "idle" /\ seen'[p] = Unseen /\ held'[p] = 0 /\ request'[p] = None
        /\ \A q \in Proc : q \notin {p} => Untouched(q)
    BY DEF AuthInv, Locals, Idle, Settled, Untouched
  <1>4. Within(seen[p], held[p])'
    BY <1>2, <1>3, ListLength DEF Within, Unseen, Files
  <1>5. ProcessStands(p)'
    BY <1>3, <1>4 DEF ProcessStands, Stands
  <1>6. {p} \in SUBSET Proc /\ \A q \in {p} : ProcessStands(q)'
    BY <1>5
  <1> QED
    BY <1>1, <1>2, <1>3, <1>6, StepStands
LEMMA OneSteps ==
    ASSUME AuthInv, Locals', Files', Grown, NEW p \in Proc,
           \A q \in Proc : q # p => Untouched(q), ProcessStands(p)',
           NewKeys, NewAuths, NewPolicies, NewStatus, NewPending, NewCommits,
           NewApprovals
    PROVE  AuthInv'
  <1>1. {p} \in SUBSET Proc /\ \A q \in {p} : ProcessStands(q)'
    OBVIOUS
  <1>2. \A q \in Proc : q \notin {p} => Untouched(q)
    OBVIOUS
  <1> QED
    BY <1>1, <1>2, StepStands

LEMMA NoneSteps ==
    ASSUME AuthInv, Locals', Files', Grown,
           UNCHANGED <<pc, job, seen, ref, held, request>>,
           NewKeys, NewAuths, NewPolicies, NewStatus, NewPending, NewCommits,
           NewApprovals
    PROVE  AuthInv'
  <1>1. {} \in SUBSET Proc /\ \A q \in {} : ProcessStands(q)'
    OBVIOUS
  <1>2. \A q \in Proc : q \notin {} => Untouched(q)
    BY DEF Untouched
  <1> QED
    BY <1>1, <1>2, StepStands

\* An event of the approvals file that stands when it is written.
LEMMA ApprovalAppended ==
    ASSUME AuthInv, NEW e, approvals' = Append(approvals, e), UNCHANGED <<keys, auths>>,
           SignStands(keys, e),
           e.kind = "FINALIZE" =>
                /\ DoneAs(keys, auths, e.id, e.reference)
                /\ Cardinality(Approvers(approvals, e.id)) >= Threshold
    PROVE  List(approvals') /\ Extends(approvals, approvals') /\ NewApprovals
  <1>1. List(approvals) /\ Len(approvals) \in Nat
    BY ListLength DEF AuthInv, Files
  <1>2. /\ List(approvals') /\ Extends(approvals, approvals')
        /\ Len(approvals') = Len(approvals) + 1 /\ approvals'[Len(approvals) + 1] = e
        /\ SubSeq(approvals', 1, Len(approvals)) = approvals
    BY <1>1, FileAppended
  <1>3. ASSUME NEW i \in 1..Len(approvals'), i > Len(approvals)
        PROVE  SignStands(keys', approvals'[i])
               /\ FinalStands(keys', auths', approvals', i)
    <2>1. i = Len(approvals) + 1 /\ i - 1 = Len(approvals)
      BY <1>1, <1>2, <1>3
    <2>2. approvals'[i] = e /\ SubSeq(approvals', 1, i - 1) = approvals
      BY <1>2, <2>1
    <2> QED
      BY <2>2 DEF FinalStands
  <1> QED
    BY <1>2, <1>3 DEF NewApprovals

LEMMA ApprovalRequestStep ==
    ASSUME AuthInv, ApprovalRequest
    PROVE  AuthInv'
  <1>1. PICK c \in Calls :
            approvals' = Append(approvals, Event(approvals, "REQUEST", RequestId(c),
                                    c.signer, c.time, Caller(c.nonce), None))
    BY DEF ApprovalRequest
  <1> DEFINE e == Event(approvals, "REQUEST", RequestId(c), c.signer, c.time,
                        Caller(c.nonce), None)
  <1>2. e.kind = "REQUEST"
    BY DEF Event
  <1>3. UNCHANGED <<held, request>> /\ UNCHANGED avars
    BY DEF ApprovalRequest
  <1>4. approvals' = Append(approvals, e)
    BY <1>1
  <1>5. SignStands(keys, e)
    BY <1>2 DEF SignStands
  <1> HIDE DEF e
  <1>6. List(approvals') /\ Extends(approvals, approvals') /\ NewApprovals
    BY <1>2, <1>3, <1>4, <1>5, ApprovalAppended DEF avars
  <1>7. Files' /\ Grown /\ NewKeys /\ NewAuths /\ NewPolicies /\ NewStatus
        /\ NewPending /\ NewCommits
    BY <1>3, <1>6, Unmoved DEF AuthInv, Files, Grown, avars
  <1>8. Locals'
    BY <1>3 DEF AuthInv, Locals, avars
  <1> QED
    BY <1>3, <1>6, <1>7, <1>8, NoneSteps DEF avars

LEMMA ApprovalSignStep ==
    ASSUME AuthInv, ApprovalSign
    PROVE  AuthInv'
  <1>1. PICK c \in Calls, i \in 1..Len(approvals) :
            /\ MaySign(c, approvals[i].id)
            /\ approvals' = Append(approvals, Event(approvals, "APPROVE",
                    approvals[i].id, c.signer, c.time, Caller(c.nonce), None))
    BY DEF ApprovalSign
  <1> DEFINE e == Event(approvals, "APPROVE", approvals[i].id, c.signer, c.time,
                        Caller(c.nonce), None)
  <1>2. /\ e.kind = "APPROVE" /\ e.signer = c.signer /\ e.id = approvals[i].id
        /\ e.time = c.time /\ e.head = Len(keys)
    BY DEF Event
  <1>3. UNCHANGED <<held, request>> /\ UNCHANGED avars
    BY DEF ApprovalSign
  <1>4. approvals' = Append(approvals, e)
    BY <1>1
  <1> HIDE DEF e
  <1>5. SignStands(keys, e)
    <2>1. List(keys) /\ Len(keys) \in Nat
      BY ListLength DEF AuthInv, Files
    <2>2. Len(keys) \in 0..Len(keys) /\ SubSeq(keys, 1, Len(keys)) = keys
      BY <2>1, Prefix
    <2>3. /\ c.time > approvals[i].id.created /\ c.time <= approvals[i].id.expires
          /\ c.signer # approvals[i].id.requester
          /\ HasRole(keys, c.signer, "AUDITOR")
      BY <1>1 DEF MaySign, VerifySecretRole
    <2> QED
      BY <1>2, <2>2, <2>3 DEF SignStands
  <1>6. List(approvals') /\ Extends(approvals, approvals') /\ NewApprovals
    BY <1>2, <1>3, <1>4, <1>5, ApprovalAppended DEF avars
  <1>7. Files' /\ Grown /\ NewKeys /\ NewAuths /\ NewPolicies /\ NewStatus
        /\ NewPending /\ NewCommits
    BY <1>3, <1>6, Unmoved DEF AuthInv, Files, Grown, avars
  <1>8. Locals'
    BY <1>3 DEF AuthInv, Locals, avars
  <1> QED
    BY <1>3, <1>6, <1>7, <1>8, NoneSteps DEF avars
\* What a command is asked to do under request rq when it begins.
AsksFor(rq, j) ==
    IF j.cmd \in KeyCommand
    THEN /\ j.cmd = "key-rotate" /\ rq.domain = "KEY_ROTATE"
         /\ KeyState(keys, j.key).fp = j.old
         /\ rq.subject = RotateSubject(j.key, j.old, j.secret,
                                       KeyState(keys, j.key).roles)
    ELSE /\ j.cmd \in AuthorizedCommand /\ rq.domain = Domain(j)
         /\ rq.subject = Subject(j, policies)
         /\ j.cmd = "policy-revoke" => RegisteredIn(policies, j.policy)

LEMMA BeginStep ==
    ASSUME AuthInv, NEW p \in Proc, NEW j \in Jobs, Begin(p, j), approvals' = approvals,
           NEW n \in Nat, n <= Len(approvals), held' = [held EXCEPT ![p] = n],
           NEW rq, request' = [request EXCEPT ![p] = rq], rq # None => AsksFor(rq, j)
    PROVE  AuthInv'
  <1>0. /\ Len(keys) \in Nat /\ Len(auths) \in Nat /\ Len(policies) \in Nat
        /\ Len(status) \in Nat /\ Len(approvals) \in Nat /\ List(keys) /\ List(policies)
    BY ListLength DEF AuthInv, Files
  <1>1. Files' /\ Grown /\ NewKeys /\ NewAuths /\ NewPolicies /\ NewStatus
        /\ NewPending /\ NewCommits /\ NewApprovals
    BY Unmoved DEF AuthInv, Files, Grown, Begin
  <1>2. PICK sn \in Handles, x \in At :
            /\ pc' = [pc EXCEPT ![p] = x] /\ seen' = [seen EXCEPT ![p] = sn]
            /\ sn.keys = Len(keys) /\ sn.auths <= Len(auths)
            /\ sn.policies = 0 /\ sn.status = 0
            /\ IF j.cmd \in KeyCommand THEN x = "ready" ELSE x = "opening"
    <2>1. CASE j.cmd \in KeyCommand
      <3> DEFINE s == [Unseen EXCEPT !.keys = Len(keys)]
      <3>1. /\ s \in Handles /\ s.keys = Len(keys) /\ s.auths = 0 /\ s.policies = 0
            /\ s.status = 0
        BY <1>0 DEF Unseen, Handles
      <3>2. seen' = [seen EXCEPT ![p] = s] /\ pc' = [pc EXCEPT ![p] = "ready"]
        BY <2>1 DEF Begin
      <3> HIDE DEF s
      <3>3. s \in Handles /\ "ready" \in At /\ s.auths <= Len(auths)
        BY <1>0, <3>1 DEF At
      <3> USE <3>3
      <3> WITNESS s \in Handles, "ready" \in At
      <3> QED
        BY <2>1, <3>1, <3>2, <3>3
    <2>2. CASE j.cmd \notin KeyCommand
      <3> DEFINE s == [Unseen EXCEPT !.keys = Len(keys), !.auths = Len(auths)]
      <3>1. /\ s \in Handles /\ s.keys = Len(keys) /\ s.auths = Len(auths)
            /\ s.policies = 0 /\ s.status = 0
        BY <1>0 DEF Unseen, Handles
      <3>2. seen' = [seen EXCEPT ![p] = s] /\ pc' = [pc EXCEPT ![p] = "opening"]
        BY <2>2 DEF Begin
      <3> HIDE DEF s
      <3>3. s \in Handles /\ "opening" \in At /\ s.auths <= Len(auths)
        BY <1>0, <3>1 DEF At
      <3> USE <3>3
      <3> WITNESS s \in Handles, "opening" \in At
      <3> QED
        BY <2>2, <3>1, <3>2, <3>3
    <2> QED
      BY <2>1, <2>2
  <1>3. job' = [job EXCEPT ![p] = j] /\ UNCHANGED <<keys, auths, policies, status, ref>>
    BY DEF Begin
  <1>4. Locals'
    BY <1>2, <1>3 DEF AuthInv, Locals
  <1>5. /\ pc'[p] = x /\ job'[p] = j /\ seen'[p] = sn /\ ref'[p] = ref[p]
        /\ held'[p] = n /\ request'[p] = rq
        /\ \A q \in Proc : q # p => Untouched(q)
    BY <1>2, <1>3 DEF AuthInv, Locals, Untouched
  <1>6. Within(seen[p], held[p])'
    BY <1>0, <1>2, <1>3, <1>5 DEF Within
  <1>7. SubSeq(keys, 1, sn.keys) = keys /\ SubSeq(policies, 1, Len(policies)) = policies
        /\ Len(policies) \in 0..Len(policies)
    BY <1>0, <1>2, Prefix
  <1>8. rq # None => Serves(keys, auths, policies, x, j, sn, ref[p], rq)
    <2>1. CASE j.cmd \in KeyCommand
      BY <1>2, <1>7, <2>1 DEF Serves, AsksFor
    <2>2. CASE j.cmd \notin KeyCommand
      BY <1>2, <1>7, <2>2 DEF Serves, AsksFor
    <2> QED
      BY <2>1, <2>2
  <1>9. Stands(keys, auths, policies, x, j, sn, ref[p], rq)
    BY <1>2, <1>8 DEF Stands
  <1>10. ProcessStands(p)'
    BY <1>3, <1>5, <1>6, <1>9 DEF ProcessStands
  <1> QED
    BY <1>1, <1>4, <1>5, <1>10, OneSteps

LEMMA PlainStep ==
    ASSUME AuthInv, NEW p \in Proc, Plain(p)
    PROVE  AuthInv'
  <1>1. PICK j \in Jobs : Begin(p, j)
    BY EnterpriseAssumption DEF Plain
  <1>2. pc[p] = "idle" /\ UNCHANGED <<approvals, held, request>>
    BY DEF Plain, Start, evars
  <1>3. request[p] = None /\ held[p] \in Nat /\ held[p] <= Len(approvals)
    BY <1>2 DEF AuthInv, ProcessStands, Stands, Within, Locals
  <1>4. held' = [held EXCEPT ![p] = held[p]] /\ request' = [request EXCEPT ![p] = None]
    BY <1>2, <1>3 DEF AuthInv, Locals
  <1> QED
    BY <1>1, <1>2, <1>3, <1>4, BeginStep

LEMMA ApprovedStep ==
    ASSUME AuthInv, NEW p \in Proc, Approved(p)
    PROVE  AuthInv'
  <1>1. PICK j \in Jobs, id \in {approvals[i].id : i \in 1..Len(approvals)} :
            \/ ApprovedRegisterPolicy(p, j, id) \/ ApprovedRevokePolicy(p, j, id)
            \/ ApprovedCommitTrust(p, j, id) \/ ApprovedRotateKey(p, j, id)
            \/ ApprovedRotateRecovered(p, j, id)
    BY DEF Approved
  <1>2. Chosen(p, id)
    BY <1>1 DEF ApprovedRegisterPolicy, ApprovedRevokePolicy, ApprovedCommitTrust,
                ApprovedRotateKey, ApprovedRotateRecovered
  <1>3. /\ held' = [held EXCEPT ![p] = Len(approvals)]
        /\ request' = [request EXCEPT ![p] = id] /\ approvals' = approvals
        /\ Len(approvals) \in Nat /\ Len(approvals) <= Len(approvals)
    BY <1>2, ListLength DEF Chosen, AuthInv, Files
  <1>4. ASSUME AsksFor(id, j), Begin(p, j) PROVE AuthInv'
    BY <1>3, <1>4, BeginStep
  <1>5. CASE ApprovedRegisterPolicy(p, j, id)
    <2>1. AsksFor(id, j) /\ Begin(p, j)
      BY <1>5 DEF ApprovedRegisterPolicy, AsksFor, ValidateReady, AuthorizedCommand,
                  KeyCommand, Domain
    <2> QED
      BY <1>4, <2>1
  <1>6. CASE ApprovedRevokePolicy(p, j, id)
    <2>1. AsksFor(id, j) /\ Begin(p, j)
      BY <1>6 DEF ApprovedRevokePolicy, AsksFor, ValidateReady, AuthorizedCommand,
                  KeyCommand, Domain
    <2> QED
      BY <1>4, <2>1
  <1>7. CASE ApprovedCommitTrust(p, j, id)
    <2>1. AsksFor(id, j) /\ Begin(p, j)
      BY <1>7 DEF ApprovedCommitTrust, AsksFor, ValidateReady, AuthorizedCommand,
                  KeyCommand, Domain
    <2> QED
      BY <1>4, <2>1
  <1>8. CASE ApprovedRotateKey(p, j, id)
    <2>1. AsksFor(id, j) /\ Begin(p, j)
      BY <1>8 DEF ApprovedRotateKey, RotationReady, AsksFor, ValidateReady, KeyCommand
    <2> QED
      BY <1>4, <2>1
  <1>9. CASE ApprovedRotateRecovered(p, j, id)
    <2>1. PICK i \in 1..Len(keys) :
            RotationFound(j, i) /\ ref' = [ref EXCEPT ![p] = keys[i]]
      BY <1>9 DEF ApprovedRotateRecovered
    <2>2. /\ keys[i].kind = "ROTATE" /\ keys[i].target = j.key
          /\ keys[i].old = j.old /\ keys[i].fp = j.secret
      BY <2>1 DEF RotationFound
    <2>3. /\ id.domain = "KEY_ROTATE"
          /\ id.subject = RotateSubject(j.key, j.old, j.secret,
                                        KeyState(keys, j.key).roles)
      BY <1>9 DEF ApprovedRotateRecovered, RotationReady, ValidateReady
    <2>4. KeyState(keys, j.key).roles = keys[i].roles
      <3>1. ValidRegistry(keys) /\ \A x \in 1..Len(keys) : keys[x].kind \in KeyEventKind
        BY DEF ValidRegistry, Approved, Start, KeysOpen, AuthInv, Files, FilesStand, Named
      <3>2. i \in About(keys, j.key) /\ keys[i].kind # "REVOKE"
        BY <2>2 DEF About
      <3> QED
        BY <3>1, <3>2, HoldingRoles
    <2>5. DoneAs(keys, auths, id, keys[i])
      BY <2>2, <2>3, <2>4 DEF DoneAs
    <2>6. /\ job' = [job EXCEPT ![p] = j] /\ pc' = [pc EXCEPT ![p] = "done"]
          /\ UNCHANGED <<keys, auths, policies, status, pending, commits, seen>>
      BY <1>9 DEF ApprovedRotateRecovered
    <2>7. Files' /\ Grown /\ NewKeys /\ NewAuths /\ NewPolicies /\ NewStatus
          /\ NewPending /\ NewCommits /\ NewApprovals
      BY <1>3, <2>6, Unmoved DEF AuthInv, Files, Grown
    <2>8. Locals'
      BY <1>3, <2>1, <2>6 DEF AuthInv, Locals, At
    <2>9. /\ pc'[p] = "done" /\ job'[p] = j /\ seen'[p] = seen[p] /\ ref'[p] = keys[i]
          /\ held'[p] = Len(approvals) /\ request'[p] = id
          /\ \A q \in Proc : q # p => Untouched(q)
      BY <1>3, <2>1, <2>6 DEF AuthInv, Locals, Untouched
    <2>10. Within(seen[p], held[p])'
      BY <1>3, <2>6, <2>9 DEF Within, AuthInv, ProcessStands
    <2>11. Stands(keys, auths, policies, "done", j, seen[p], keys[i], id)
      BY <2>5 DEF Stands, Serves
    <2>12. ProcessStands(p)'
      BY <2>6, <2>9, <2>10, <2>11 DEF ProcessStands
    <2> QED
      BY <2>7, <2>8, <2>9, <2>12, OneSteps
  <1> QED
    BY <1>1, <1>5, <1>6, <1>7, <1>8, <1>9
\* A policy that is registered once keeps its digest when more are registered.
LEMMA DigestKept ==
    ASSUME NEW ps, List(ps), PoliciesReplay(ps), NEW n \in 0..Len(ps), NEW q,
           RegisteredIn(SubSeq(ps, 1, n), q)
    PROVE  /\ RegisteredIn(ps, q)
           /\ PolicyDigest(SubSeq(ps, 1, n), q) = PolicyDigest(ps, q)
  <1> DEFINE u == SubSeq(ps, 1, n)
  <1>1. /\ Len(ps) \in Nat /\ Len(u) = n /\ \A i \in 1..n : u[i] = ps[i]
    BY Prefix, ListLength
  <1> HIDE DEF u
  <1>2. PICK i \in 1..n : u[i].policy = q
    BY <1>1 DEF RegisteredIn, u
  <1>3. i \in 1..Len(ps) /\ ps[i].policy = q /\ u[i] = ps[i] /\ i \in 1..Len(u)
    BY <1>1, <1>2
  <1>4. (CHOOSE x \in 1..Len(ps) : ps[x].policy = q) = i
    <2>1. \A x \in 1..Len(ps) : ps[x].policy = q => x = i
      BY <1>3 DEF PoliciesReplay
    <2> QED
      BY <1>3, <2>1
  <1>5. (CHOOSE x \in 1..Len(u) : u[x].policy = q) = i
    <2>1. \A x \in 1..Len(u) : u[x].policy = q => x = i
      <3> TAKE x \in 1..Len(u)
      <3>1. x \in 1..Len(ps) /\ u[x] = ps[x]
        BY <1>1
      <3> QED
        BY <1>3, <3>1 DEF PoliciesReplay
    <2> QED
      BY <1>2, <1>3, <2>1
  <1> QED
    BY <1>3, <1>4, <1>5 DEF RegisteredIn, PolicyDigest, u

\* What a subject names of the registered policies does not depend on how many
\* were read.
LEMMA SubjectKept ==
    ASSUME NEW ps, List(ps), PoliciesReplay(ps), NEW n \in 0..Len(ps), NEW j,
           j.cmd \in AuthorizedCommand,
           j.cmd = "policy-revoke" => RegisteredIn(SubSeq(ps, 1, n), j.policy)
    PROVE  Subject(j, SubSeq(ps, 1, n)) = Subject(j, ps)
  <1>1. CASE j.cmd = "policy-register"
    BY <1>1 DEF Subject
  <1>2. CASE j.cmd = "trust-commit"
    BY <1>2 DEF Subject
  <1>3. CASE j.cmd = "policy-revoke"
    <2>1. PolicyDigest(SubSeq(ps, 1, n), j.policy) = PolicyDigest(ps, j.policy)
      BY <1>3, DigestKept
    <2> QED
      BY <1>3, <2>1 DEF Subject
  <1> QED
    BY <1>1, <1>2, <1>3 DEF AuthorizedCommand

\* The command ends in this step, with whatever error.
LEMMA EndStep ==
    ASSUME AuthInv, NEW p \in Proc, TrustStep(p), Idle(p),
           UNCHANGED <<keys, auths, policies, status, pending, commits>>
    PROVE  AuthInv'
  <1>1. pc'[p] = "idle"
    BY DEF AuthInv, Locals, Idle
  <1>2. Settled(p) /\ approvals' = approvals
    BY <1>1 DEF TrustStep
  <1> QED
    BY <1>2, IdleStep

LEMMA OpenPoliciesStep ==
    ASSUME AuthInv, NEW p \in Proc, TrustStep(p), OpenPolicies(p)
    PROVE  AuthInv'
  <1>1. UNCHANGED <<keys, auths, policies, status, pending, commits>> /\ approvals' = approvals
    BY DEF OpenPolicies, TrustStep
  <1>2. CASE Idle(p)
    BY <1>1, <1>2, EndStep
  <1>3. CASE ~Idle(p)
    <2>1. /\ PoliciesReplay(policies) /\ pc[p] = "opening"
          /\ seen' = [seen EXCEPT ![p].policies = Len(policies), ![p].status = Len(status)]
          /\ pc' = [pc EXCEPT ![p] = "ready"] /\ UNCHANGED <<job, ref>>
      BY <1>3 DEF OpenPolicies
    <2>2. pc'[p] # "idle"
      BY <2>1 DEF AuthInv, Locals
    <2>3. UNCHANGED <<held, request>>
      BY <2>2 DEF TrustStep
    <2>4. /\ Len(keys) \in Nat /\ Len(auths) \in Nat /\ Len(policies) \in Nat
          /\ Len(status) \in Nat /\ Len(approvals) \in Nat /\ List(policies)
      BY ListLength DEF AuthInv, Files
    <2> DEFINE sn == [seen[p] EXCEPT !.policies = Len(policies), !.status = Len(status)]
    <2>5. seen[p] \in Handles /\ ProcessStands(p)
      BY DEF AuthInv, Locals
    <2>6. /\ sn \in Handles /\ sn.keys = seen[p].keys /\ sn.auths = seen[p].auths
          /\ sn.policies = Len(policies) /\ sn.status = Len(status)
      BY <2>4, <2>5 DEF Handles
    <2>7. seen' = [seen EXCEPT ![p] = sn]
      BY <2>1, <2>5 DEF AuthInv, Locals, Handles
    <2> HIDE DEF sn
    <2>8. Locals'
      BY <2>1, <2>3, <2>6, <2>7 DEF AuthInv, Locals, At
    <2>9. Files' /\ Grown /\ NewKeys /\ NewAuths /\ NewPolicies /\ NewStatus
          /\ NewPending /\ NewCommits /\ NewApprovals
      BY <1>1, Unmoved DEF AuthInv, Files, Grown
    <2>10. /\ pc'[p] = "ready" /\ job'[p] = job[p] /\ seen'[p] = sn /\ ref'[p] = ref[p]
           /\ held'[p] = held[p] /\ request'[p] = request[p]
           /\ \A q \in Proc : q # p => Untouched(q)
      BY <2>1, <2>3, <2>7 DEF AuthInv, Locals, Untouched
    <2>11. Within(seen[p], held[p])'
      BY <1>1, <2>4, <2>5, <2>6, <2>10 DEF Within, ProcessStands
    <2>12. Stands(keys, auths, policies, "opening", job[p], seen[p], ref[p], request[p])
      BY <2>1, <2>5 DEF ProcessStands
    <2>13. SubSeq(policies, 1, sn.policies) = policies
      BY <2>4, <2>6, Prefix
    <2>14. ASSUME request[p] # None
           PROVE  Serves(keys, auths, policies, "ready", job[p], sn, ref[p], request[p])
      <3>1. /\ job[p].cmd \notin KeyCommand /\ job[p].cmd \in AuthorizedCommand
            /\ request[p].domain = Domain(job[p])
        BY <2>12, <2>14 DEF Stands, Serves
      <3>2. PICK n \in 0..Len(policies) :
                /\ request[p].subject = Subject(job[p], SubSeq(policies, 1, n))
                /\ job[p].cmd = "policy-revoke" =>
                    RegisteredIn(SubSeq(policies, 1, n), job[p].policy)
        BY <2>12, <2>14 DEF Stands, Serves
      <3>3. request[p].subject = Subject(job[p], policies)
        BY <2>1, <2>4, <3>1, <3>2, SubjectKept
      <3> QED
        BY <2>13, <3>1, <3>3 DEF Serves
    <2>15. Stands(keys, auths, policies, "ready", job[p], sn, ref[p], request[p])
      BY <2>14 DEF Stands
    <2>16. ProcessStands(p)'
      BY <1>1, <2>10, <2>11, <2>15 DEF ProcessStands
    <2> QED
      BY <2>8, <2>9, <2>10, <2>16, OneSteps
  <1> QED
    BY <1>2, <1>3

\* The event a key command appends.
LEMMA KeyAppended ==
    ASSUME NEW ks, NEW j, j.cmd \in KeyCommand, NEW e \in KeyAppends(ks, j)
    PROVE  /\ e.target = j.key /\ e.kind \in KeyEventKind
           /\ e.seq = Len(ks) + 1 /\ ValidKeyEvent(ks, e)
           /\ j.cmd = "key-rotate" =>
                /\ e.old = KeyState(ks, j.key).fp /\ e.fp = j.secret
                /\ e.roles = KeyState(ks, j.key).roles
  <1>1. ValidKeyEvent(ks, e)
    BY DEF KeyAppends
  <1>2. CASE j.cmd = "key-bootstrap"
    <2>1. e \in Bootstrap(ks, j)
      BY <1>2 DEF KeyAppends
    <2>2. ks = <<>>
      BY <2>1 DEF Bootstrap
    <2>3. e.target = j.key /\ e.kind = "BOOTSTRAP" /\ e.seq = 1
      BY <2>1 DEF Bootstrap
    <2> QED
      BY <1>1, <1>2, <2>2, <2>3 DEF KeyEventKind
  <1>3. CASE j.cmd = "key-register"
    <2>1. e \in RegisterKey(ks, j)
      BY <1>3 DEF KeyAppends
    <2>2. e.target = j.key /\ e.kind = "REGISTER" /\ e.seq = Len(ks) + 1
      BY <2>1 DEF RegisterKey, Signed
    <2> QED
      BY <1>1, <1>3, <2>2 DEF KeyEventKind
  <1>4. CASE j.cmd = "key-rotate"
    <2>1. e \in RotateKey(ks, j)
      BY <1>4 DEF KeyAppends
    <2>2. /\ e.target = j.key /\ e.kind = "ROTATE" /\ e.seq = Len(ks) + 1
          /\ e.old = KeyState(ks, j.key).fp /\ e.fp = j.secret
          /\ e.roles = KeyState(ks, j.key).roles
      BY <2>1 DEF RotateKey, Signed
    <2> QED
      BY <1>1, <1>4, <2>2 DEF KeyEventKind
  <1>5. CASE j.cmd = "key-revoke"
    <2>1. e \in RevokeKey(ks, j)
      BY <1>5 DEF KeyAppends
    <2>2. e.target = j.key /\ e.kind = "REVOKE" /\ e.seq = Len(ks) + 1
      BY <2>1 DEF RevokeKey, Signed
    <2> QED
      BY <1>1, <1>5, <2>2 DEF KeyEventKind
  <1> QED
    BY <1>2, <1>3, <1>4, <1>5 DEF KeyCommand

LEMMA AppendKeyStep ==
    ASSUME AuthInv, NEW p \in Proc, TrustStep(p), NEW cmd \in KeyCommand, AppendKey(p, cmd)
    PROVE  AuthInv'
  <1>1. PICK e \in KeyAppends(KeysOf(p), job[p]) :
            keys' = Append(keys, e) /\ ref' = [ref EXCEPT ![p] = e]
    BY DEF AppendKey
  <1>2. /\ pc[p] = "ready" /\ job[p].cmd \in KeyCommand /\ approvals' = approvals
        /\ pc' = [pc EXCEPT ![p] = "done"]
        /\ UNCHANGED <<auths, policies, status, pending, commits, job, seen>>
    BY DEF AppendKey, TrustStep
  <1>3. pc'[p] # "idle"
    BY <1>2 DEF AuthInv, Locals
  <1>4. UNCHANGED <<held, request>>
    BY <1>3 DEF TrustStep
  <1>5. /\ e.target = job[p].key /\ e.kind \in KeyEventKind
        /\ job[p].cmd = "key-rotate" =>
            /\ e.old = KeyState(KeysOf(p), job[p].key).fp /\ e.fp = job[p].secret
            /\ e.roles = KeyState(KeysOf(p), job[p].key).roles
    BY <1>2, KeyAppended
  <1>6. job[p] \in Jobs
    BY <1>2 DEF AuthInv, Locals, KeyCommand, None
  <1>7. Named(e)
    BY <1>2, <1>5, <1>6, AuthorityAssumption DEF Named
  <1>8. List(keys) /\ Len(keys) \in Nat
    BY ListLength DEF AuthInv, Files
  <1>9. /\ List(keys') /\ Extends(keys, keys') /\ Len(keys') = Len(keys) + 1
        /\ keys'[Len(keys) + 1] = e
    BY <1>1, <1>8, FileAppended
  <1>10. NewKeys
    <2> SUFFICES ASSUME NEW i \in 1..Len(keys'), i > Len(keys) PROVE Named(keys'[i])
      BY DEF NewKeys
    <2>1. i = Len(keys) + 1
      BY <1>8, <1>9
    <2> QED
      BY <1>7, <1>9, <2>1
  <1>11. Files' /\ Grown /\ NewAuths /\ NewPolicies /\ NewStatus
        /\ NewPending /\ NewCommits
         /\ NewApprovals
    BY <1>2, <1>9, Unmoved DEF AuthInv, Files, Grown
  <1>12. Locals'
    BY <1>1, <1>2, <1>4 DEF AuthInv, Locals, At
  <1>13. /\ pc'[p] = "done" /\ job'[p] = job[p] /\ seen'[p] = seen[p] /\ ref'[p] = e
         /\ held'[p] = held[p] /\ request'[p] = request[p]
         /\ \A q \in Proc : q # p => Untouched(q)
    BY <1>1, <1>2, <1>4 DEF AuthInv, Locals, Untouched
  <1>14. ProcessStands(p) /\ seen[p] \in Handles /\ held[p] \in Nat
    BY DEF AuthInv, Locals
  <1>15. Within(seen[p], held[p])'
    <2>1. Within(seen[p], held[p])
      BY <1>14 DEF ProcessStands
    <2>2. \A sn \in Handles, h \in Nat : Within(sn, h) => Within(sn, h)'
      BY <1>11, WithinKept DEF AuthInv
    <2> QED
      BY <1>13, <1>14, <2>1, <2>2 DEF Within
  <1>16. ASSUME request[p] # None
         PROVE  DoneAs(keys', auths', request[p], e)
    <2>1. Serves(keys, auths, policies, "ready", job[p], seen[p], ref[p], request[p])
      BY <1>2, <1>14, <1>16 DEF ProcessStands, Stands
    <2>2. /\ job[p].cmd = "key-rotate" /\ request[p].domain = "KEY_ROTATE"
          /\ KeyState(KeysOf(p), job[p].key).fp = job[p].old
          /\ request[p].subject = RotateSubject(job[p].key, job[p].old, job[p].secret,
                                        KeyState(KeysOf(p), job[p].key).roles)
      BY <1>2, <2>1 DEF Serves, KeysOf
    <2>3. Len(keys) + 1 \in 1..Len(keys')
      BY <1>8, <1>9
    <2> QED
      BY <1>5, <1>9, <2>2, <2>3 DEF DoneAs
  <1>17. Stands(keys', auths', policies', "done", job[p], seen[p], e, request[p])
    BY <1>16 DEF Stands, Serves
  <1>18. ProcessStands(p)'
    BY <1>13, <1>15, <1>17 DEF ProcessStands
  <1> QED
    BY <1>10, <1>11, <1>12, <1>13, <1>18, OneSteps
LEMMA AppendOnceStep ==
    ASSUME AuthInv, NEW p \in Proc, TrustStep(p), AppendOnce(p)
    PROVE  AuthInv'
  <1> DEFINE proof == Authorize(KeysOf(p), job[p], PoliciesOf(p))
             rec == AuthorizationRecord(AuthsOf(p), proof)
  <1>1. /\ pc[p] = "ready" /\ job[p].cmd \notin KeyCommand /\ approvals' = approvals
        /\ pc' = [pc EXCEPT ![p] = "authorized"] /\ ref' = [ref EXCEPT ![p] = proof]
        /\ UNCHANGED <<keys, policies, status, pending, commits, job, seen>>
        /\ Signable(KeysOf(p), job[p])
        /\ auths' = IF Recorded(AuthsOf(p), proof) THEN auths ELSE Append(auths, rec)
    BY DEF AppendOnce, TrustStep, MayAuthorize
  <1>2. pc'[p] # "idle"
    BY <1>1 DEF AuthInv, Locals
  <1>3. UNCHANGED <<held, request>>
    BY <1>2 DEF TrustStep
  <1>4. /\ List(keys) /\ Len(keys) \in Nat /\ List(auths) /\ Len(auths) \in Nat
    BY ListLength DEF AuthInv, Files
  <1>5. ProcessStands(p) /\ seen[p] \in Handles /\ held[p] \in Nat
    BY DEF AuthInv, Locals
  <1>6. seen[p].keys \in 0..Len(keys) /\ seen[p].auths \in 0..Len(auths)
    BY <1>4, <1>5 DEF ProcessStands, Within, Handles
  <1>7. /\ proof.head = Len(KeysOf(p)) /\ proof.signer = job[p].signer
        /\ proof.fp = job[p].with /\ proof.domain = Domain(job[p])
        /\ proof.subject = Subject(job[p], SubSeq(policies, 1, seen[p].policies))
        /\ rec.id = proof
    BY DEF Authorize, PoliciesOf, AuthorizationRecord
  <1> HIDE DEF proof, rec
  <1>8. Len(KeysOf(p)) = seen[p].keys
    BY <1>4, <1>6, Prefix DEF KeysOf
  <1>9. List(auths') /\ Extends(auths, auths') /\ Recorded(auths', proof)
        /\ \A i \in 1..Len(auths') : i > Len(auths) => auths'[i].id = proof
    <2>1. CASE Recorded(AuthsOf(p), proof)
      <3>1. PICK i \in 1..Len(AuthsOf(p)) : AuthsOf(p)[i].id = proof
        BY <2>1 DEF Recorded
      <3>2. Len(AuthsOf(p)) = seen[p].auths
            /\ \A x \in 1..seen[p].auths : AuthsOf(p)[x] = auths[x]
        BY <1>4, <1>6, Prefix DEF AuthsOf
      <3>3. i \in 1..Len(auths) /\ auths[i].id = proof
        BY <1>4, <1>6, <3>1, <3>2
      <3>4. auths' = auths
        BY <1>1, <2>1
      <3> QED
        BY <1>4, <3>3, <3>4, ExtendsItself DEF Recorded
    <2>2. CASE ~Recorded(AuthsOf(p), proof)
      <3>1. auths' = Append(auths, rec)
        BY <1>1, <2>2
      <3>2. /\ List(auths') /\ Extends(auths, auths') /\ Len(auths') = Len(auths) + 1
            /\ auths'[Len(auths) + 1] = rec
        BY <1>4, <3>1, FileAppended
      <3>3. Len(auths) + 1 \in 1..Len(auths')
        BY <1>4, <3>2
      <3>4. Recorded(auths', proof)
        BY <1>7, <3>2, <3>3 DEF Recorded
      <3>5. \A i \in 1..Len(auths') : i > Len(auths) => i = Len(auths) + 1
        BY <1>4, <3>2
      <3> QED
        BY <1>7, <3>2, <3>4, <3>5
    <2> QED
      BY <2>1, <2>2
  <1>10. Sealed(keys', auths', proof)
    <2>1. proof.head \in 0..Len(keys) /\ SubSeq(keys, 1, proof.head) = KeysOf(p)
      BY <1>6, <1>7, <1>8 DEF KeysOf
    <2>2. VerifySecretRole(KeysOf(p), proof.signer, proof.fp, RoleOf[proof.domain])
      BY <1>1, <1>7 DEF Signable
    <2> QED
      BY <1>1, <1>9, <2>1, <2>2 DEF Sealed
  <1>11. NewAuths
    BY <1>9, <1>10 DEF NewAuths
  <1>12. Files' /\ Grown /\ NewKeys /\ NewPolicies /\ NewStatus
        /\ NewPending /\ NewCommits
         /\ NewApprovals
    BY <1>1, <1>9, Unmoved DEF AuthInv, Files, Grown
  <1>13. Locals'
    BY <1>1, <1>3 DEF AuthInv, Locals, At
  <1>14. /\ pc'[p] = "authorized" /\ job'[p] = job[p] /\ seen'[p] = seen[p]
         /\ ref'[p] = proof /\ held'[p] = held[p] /\ request'[p] = request[p]
         /\ \A q \in Proc : q # p => Untouched(q)
    BY <1>1, <1>3 DEF AuthInv, Locals, Untouched
  <1>15. Within(seen[p], held[p])'
    <2>1. Within(seen[p], held[p])
      BY <1>5 DEF ProcessStands
    <2>2. \A sn \in Handles, h \in Nat : Within(sn, h) => Within(sn, h)'
      BY <1>12, WithinKept DEF AuthInv
    <2> QED
      BY <1>5, <1>14, <2>1, <2>2 DEF Within
  <1>16. Stands(keys, auths, policies, "ready", job[p], seen[p], ref[p], request[p])
    BY <1>1, <1>5 DEF ProcessStands
  <1>17. Stands(keys', auths', policies', "authorized", job[p], seen[p], proof, request[p])
    BY <1>1, <1>7, <1>10, <1>16 DEF Stands, Serves
  <1>18. ProcessStands(p)'
    BY <1>14, <1>15, <1>17 DEF ProcessStands
  <1> QED
    BY <1>11, <1>12, <1>13, <1>14, <1>18, OneSteps

\* The command has done what it authorized.
LEMMA DoneStep ==
    ASSUME AuthInv, NEW p \in Proc, TrustStep(p), Done(p),
           pc[p] \in {"authorized", "committing"},
           List(policies') /\ Extends(policies, policies') /\ NewPolicies,
           List(status') /\ Extends(status, status') /\ NewStatus,
           List(commits') /\ Extends(commits, commits') /\ NewCommits, NewPending
    PROVE  AuthInv'
  <1>1. /\ pc' = [pc EXCEPT ![p] = "done"] /\ approvals' = approvals
        /\ UNCHANGED <<keys, auths, job, seen, ref>>
    BY DEF Done, TrustStep
  <1>2. pc'[p] # "idle"
    BY <1>1 DEF AuthInv, Locals
  <1>3. UNCHANGED <<held, request>>
    BY <1>2 DEF TrustStep
  <1>4. Files' /\ Grown /\ NewKeys /\ NewAuths /\ NewApprovals
    BY <1>1, Unmoved DEF AuthInv, Files, Grown
  <1>5. Locals'
    BY <1>1, <1>3 DEF AuthInv, Locals, At
  <1>6. /\ pc'[p] = "done" /\ job'[p] = job[p] /\ seen'[p] = seen[p]
        /\ ref'[p] = ref[p] /\ held'[p] = held[p] /\ request'[p] = request[p]
        /\ \A q \in Proc : q # p => Untouched(q)
    BY <1>1, <1>3 DEF AuthInv, Locals, Untouched
  <1>7. ProcessStands(p) /\ seen[p] \in Handles /\ held[p] \in Nat
    BY DEF AuthInv, Locals
  <1>8. Within(seen[p], held[p])'
    <2>1. Within(seen[p], held[p])
      BY <1>7 DEF ProcessStands
    <2>2. \A sn \in Handles, h \in Nat : Within(sn, h) => Within(sn, h)'
      BY <1>4, WithinKept DEF AuthInv
    <2> QED
      BY <1>6, <1>7, <2>1, <2>2 DEF Within
  <1>9. Stands(keys, auths, policies, pc[p], job[p], seen[p], ref[p], request[p])
    BY <1>7 DEF ProcessStands
  <1>10. ASSUME request[p] # None
         PROVE  DoneAs(keys, auths, request[p], ref[p])
    <2>1. /\ job[p].cmd \in AuthorizedCommand /\ request[p].domain = Domain(job[p])
          /\ request[p].subject = ref[p].subject /\ ref[p].domain = Domain(job[p])
          /\ Sealed(keys, auths, ref[p])
      BY <1>9, <1>10 DEF Stands, Serves
    <2>2. Domain(job[p]) # "KEY_ROTATE"
      BY <2>1 DEF Domain, AuthorizedCommand
    <2> QED
      BY <2>1, <2>2 DEF DoneAs
  <1>11. Stands(keys', auths', policies', "done", job[p], seen[p], ref[p], request[p])
    BY <1>1, <1>10 DEF Stands, Serves
  <1>12. ProcessStands(p)'
    BY <1>6, <1>8, <1>11 DEF ProcessStands
  <1> QED
    BY <1>4, <1>5, <1>6, <1>12, OneSteps

LEMMA PolicyRegisterStep ==
    ASSUME AuthInv, NEW p \in Proc, TrustStep(p), PolicyRegister(p)
    PROVE  AuthInv'
  <1>1. pc[p] = "authorized" /\ job[p].cmd = "policy-register"
    BY DEF PolicyRegister
  <1>2. CASE Fail(p)
    BY <1>2, EndStep DEF Fail
  <1>3. CASE Done(p) /\ UNCHANGED <<policies, status, pending, commits>>
    BY <1>1, <1>3, Unmoved, DoneStep DEF AuthInv
  <1>4. CASE /\ Done(p) /\ UNCHANGED <<status, pending, commits>>
             /\ policies' = Append(policies, [seq |-> Len(PoliciesOf(p)) + 1,
                                policy |-> job[p].policy, digest |-> job[p].digest])
    <2> DEFINE e == [seq |-> Len(PoliciesOf(p)) + 1, policy |-> job[p].policy,
                     digest |-> job[p].digest]
    <2>1. e.policy = job[p].policy /\ e.digest = job[p].digest
      OBVIOUS
    <2>2. policies' = Append(policies, e)
      BY <1>4
    <2> HIDE DEF e
    <2>3. List(policies) /\ Len(policies) \in Nat
      BY ListLength DEF AuthInv, Files
    <2>4. /\ List(policies') /\ Extends(policies, policies')
          /\ Len(policies') = Len(policies) + 1 /\ policies'[Len(policies) + 1] = e
      BY <2>2, <2>3, FileAppended
    <2>5. Sealed(keys, auths, ref[p])
          /\ ref[p].subject = <<"policy", job[p].policy, job[p].digest>>
      BY <1>1 DEF AuthInv, ProcessStands, Stands, Subject
    <2>6. PICK a \in 1..Len(auths) : auths[a].id = ref[p]
      BY <2>5 DEF Sealed, Recorded
    <2>7. PolicyRests(auths', e)
      BY <1>4, <2>1, <2>5, <2>6 DEF PolicyRests, Done
    <2>8. \A i \in 1..Len(policies') : i > Len(policies) => i = Len(policies) + 1
      BY <2>3, <2>4
    <2>9. NewPolicies
      BY <2>4, <2>7, <2>8 DEF NewPolicies
    <2> QED
      BY <1>1, <1>4, <2>4, <2>9, Unmoved, DoneStep DEF AuthInv
  <1> QED
    BY <1>2, <1>3, <1>4 DEF PolicyRegister

LEMMA PolicyRevokeStep ==
    ASSUME AuthInv, NEW p \in Proc, TrustStep(p), PolicyRevoke(p)
    PROVE  AuthInv'
  <1>1. pc[p] = "authorized" /\ job[p].cmd = "policy-revoke"
    BY DEF PolicyRevoke
  <1>2. CASE Fail(p)
    BY <1>2, EndStep DEF Fail
  <1>3. CASE Done(p) /\ UNCHANGED <<policies, status, pending, commits>>
    BY <1>1, <1>3, Unmoved, DoneStep DEF AuthInv
  <1> DEFINE d == PolicyDigest(PoliciesOf(p), job[p].policy)
             e == RevokeEvent(StatusOf(p), job[p], d, ref[p])
  <1>4. CASE Done(p) /\ UNCHANGED <<policies, pending, commits>> /\ status' = Append(status, e)
    <2>1. /\ e.policy = job[p].policy /\ e.digest = d /\ e.reason = job[p].reason
          /\ e.auth = ref[p]
      BY DEF RevokeEvent
    <2>2. status' = Append(status, e)
      BY <1>4
    <2>3. List(status) /\ Len(status) \in Nat
      BY ListLength DEF AuthInv, Files
    <2>5. Sealed(keys, auths, ref[p])
          /\ ref[p].subject = RevokeSubject(job[p].policy, d, job[p].reason)
      BY <1>1 DEF AuthInv, ProcessStands, Stands, Subject, PoliciesOf
    <2> HIDE DEF e, d
    <2>4. /\ List(status') /\ Extends(status, status')
          /\ Len(status') = Len(status) + 1 /\ status'[Len(status) + 1] = e
      BY <2>2, <2>3, FileAppended
    <2>7. StatusRests(keys', auths', e)
      BY <1>4, <2>1, <2>5 DEF StatusRests, Done
    <2>8. \A i \in 1..Len(status') : i > Len(status) => i = Len(status) + 1
      BY <2>3, <2>4
    <2>9. NewStatus
      BY <2>4, <2>7, <2>8 DEF NewStatus
    <2> QED
      BY <1>1, <1>4, <2>4, <2>9, Unmoved, DoneStep DEF AuthInv
  <1> QED
    BY <1>2, <1>3, <1>4 DEF PolicyRevoke

\* What a transaction rests on stays with it from stage to stage.
LEMMA TransactionMoves ==
    ASSUME AuthInv, NEW t \in pending, UNCHANGED <<keys, auths>>,
           \/ pending' = pending \ {t} /\ commits' = commits
           \/ \E stage : MoveTo(t, stage)
           \/ FinalizeTransaction(t)
    PROVE  NewPending /\ List(commits') /\ Extends(commits, commits') /\ NewCommits
  <1>1. CommitRests(keys', auths', t)
    BY DEF AuthInv, FilesStand
  <1>2. \A stage : CommitRests(keys', auths',
                              Transaction(t.request, t.auth, t.after, stage))
    BY <1>1 DEF CommitRests, Transaction
  <1>3. NewPending
    BY <1>2 DEF NewPending, MoveTo, FinalizeTransaction
  <1>4. CASE commits' = commits
    BY <1>3, <1>4, Unmoved DEF AuthInv
  <1>5. CASE commits' = Append(commits, t)
    <2>1. List(commits) /\ Len(commits) \in Nat
      BY ListLength DEF AuthInv, Files
    <2>2. /\ List(commits') /\ Extends(commits, commits')
          /\ Len(commits') = Len(commits) + 1 /\ commits'[Len(commits) + 1] = t
      BY <1>5, <2>1, FileAppended
    <2>3. \A i \in 1..Len(commits') : i > Len(commits) => i = Len(commits) + 1
      BY <2>1, <2>2
    <2>4. NewCommits
      BY <1>1, <2>2, <2>3 DEF NewCommits
    <2> QED
      BY <1>3, <2>2, <2>4
  <1> QED
    BY <1>4, <1>5 DEF MoveTo, FinalizeTransaction

\* A step inside the coordinator.
LEMMA CoordinatorStep ==
    ASSUME AuthInv, NEW p \in Proc, TrustStep(p),
           pc[p] \in {"authorized", "committing"},
           NEW at \in {"authorized", "committing"}, pc' = [pc EXCEPT ![p] = at],
           UNCHANGED <<keys, auths, policies, status, job, seen, ref>>, NewPending,
           List(commits') /\ Extends(commits, commits') /\ NewCommits
    PROVE  AuthInv'
  <1>1. pc'[p] = at /\ approvals' = approvals
    BY DEF AuthInv, Locals, TrustStep
  <1>2. UNCHANGED <<held, request>>
    BY <1>1 DEF TrustStep
  <1>3. Files' /\ Grown /\ NewKeys /\ NewAuths /\ NewPolicies /\ NewStatus /\ NewApprovals
    BY <1>1, Unmoved DEF AuthInv, Files, Grown
  <1>4. Locals'
    BY <1>2 DEF AuthInv, Locals, At
  <1>5. /\ job'[p] = job[p] /\ seen'[p] = seen[p]
        /\ ref'[p] = ref[p] /\ held'[p] = held[p] /\ request'[p] = request[p]
        /\ \A q \in Proc : q # p => Untouched(q)
    BY <1>1, <1>2 DEF AuthInv, Locals, Untouched
  <1>6. /\ Within(seen[p], held[p])
        /\ Stands(keys, auths, policies, pc[p], job[p], seen[p], ref[p], request[p])
    BY DEF AuthInv, ProcessStands
  <1>7. Within(seen[p], held[p])'
    BY <1>1, <1>5, <1>6 DEF Within
  <1>8. Stands(keys, auths, policies, at, job[p], seen[p], ref[p], request[p])
    BY <1>6 DEF Stands, Serves
  <1>9. ProcessStands(p)'
    BY <1>1, <1>5, <1>7, <1>8 DEF ProcessStands
  <1> QED
    BY <1>3, <1>4, <1>5, <1>9, OneSteps

LEMMA RecoverPendingStep ==
    ASSUME AuthInv, NEW p \in Proc, TrustStep(p), RecoverPending(p)
    PROVE  AuthInv'
  <1>1. /\ pc[p] = "authorized" /\ pc' = pc
        /\ UNCHANGED <<keys, auths, policies, status, job, seen, ref>>
    BY DEF RecoverPending, Committing
  <1>2. PICK t \in pending :
            \/ pending' = pending \ {t} /\ commits' = commits
            \/ \E stage : MoveTo(t, stage)
            \/ FinalizeTransaction(t)
    BY DEF RecoverPending
  <1>3. NewPending /\ List(commits') /\ Extends(commits, commits') /\ NewCommits
    BY <1>1, <1>2, TransactionMoves
  <1>4. pc' = [pc EXCEPT ![p] = "authorized"]
    BY <1>1 DEF AuthInv, Locals
  <1> QED
    BY <1>1, <1>3, <1>4, CoordinatorStep

LEMMA PrepareStep ==
    ASSUME AuthInv, NEW p \in Proc, TrustStep(p), Prepare(p)
    PROVE  AuthInv'
  <1>1. /\ pc[p] = "authorized" /\ job[p].cmd = "trust-commit"
        /\ pc' = [pc EXCEPT ![p] = "committing"]
        /\ UNCHANGED <<keys, auths, policies, status, commits, job, seen, ref>>
        /\ pending' = {Transaction(job[p].request, ref[p], Len(status), "prepared")}
    BY DEF Prepare, Committing
  <1>2. Sealed(keys, auths, ref[p]) /\ ref[p].subject = <<"commit", job[p].request>>
    BY <1>1 DEF AuthInv, ProcessStands, Stands, Subject
  <1>3. CommitRests(keys, auths,
                    Transaction(job[p].request, ref[p], Len(status), "prepared"))
    BY <1>2 DEF CommitRests, Transaction
  <1>4. NewPending
    BY <1>1, <1>3 DEF NewPending
  <1>5. List(commits') /\ Extends(commits, commits') /\ NewCommits
    BY <1>1, Unmoved DEF AuthInv
  <1> QED
    BY <1>1, <1>4, <1>5, CoordinatorStep

LEMMA CommitStep ==
    ASSUME AuthInv, NEW p \in Proc, TrustStep(p), Commit(p)
    PROVE  AuthInv'
  <1>1. pc[p] = "committing" /\ UNCHANGED <<keys, auths, policies, status>>
    BY DEF Commit, Committing, Done
  <1>2. PICK t \in pending :
            \/ /\ \E stage : MoveTo(t, stage)
               /\ UNCHANGED <<pc, job, seen, ref>>
            \/ FinalizeTransaction(t) /\ Done(p)
    BY DEF Commit
  <1>3. NewPending /\ List(commits') /\ Extends(commits, commits') /\ NewCommits
    BY <1>1, <1>2, TransactionMoves
  <1>4. CASE UNCHANGED <<pc, job, seen, ref>>
    <2>1. pc' = [pc EXCEPT ![p] = "committing"]
      BY <1>1, <1>4 DEF AuthInv, Locals
    <2> QED
      BY <1>1, <1>3, <1>4, <2>1, CoordinatorStep
  <1>5. CASE Done(p)
    BY <1>1, <1>3, <1>5, Unmoved, DoneStep DEF AuthInv
  <1> QED
    BY <1>2, <1>4, <1>5

\* More events, no fewer approvers.
LEMMA ApproversGrow ==
    ASSUME NEW ap, List(ap), NEW n \in 0..Len(ap), NEW id,
           Cardinality(Approvers(SubSeq(ap, 1, n), id)) >= Threshold
    PROVE  Cardinality(Approvers(ap, id)) >= Threshold
  <1> DEFINE u == SubSeq(ap, 1, n)
  <1>1. Len(ap) \in Nat /\ n \in Nat /\ Len(u) = n /\ \A i \in 1..n : u[i] = ap[i]
    BY ListLength, Prefix
  <1> HIDE DEF u
  <1>2. EventsOf(u, "APPROVE", id) \subseteq EventsOf(ap, "APPROVE", id)
    BY <1>1 DEF EventsOf
  <1>3. Approvers(u, id) \subseteq Approvers(ap, id)
    <2>1. \A i \in EventsOf(u, "APPROVE", id) : u[i] = ap[i]
      BY <1>1 DEF EventsOf
    <2> QED
      BY <1>2, <2>1 DEF Approvers
  <1>4. IsFiniteSet(Approvers(ap, id))
    <2>1. IsFiniteSet(1..Len(ap))
      BY <1>1, FS_Interval
    <2>2. EventsOf(ap, "APPROVE", id) \subseteq 1..Len(ap)
      BY DEF EventsOf
    <2>3. IsFiniteSet(EventsOf(ap, "APPROVE", id))
      BY <2>1, <2>2, FS_Subset
    <2> DEFINE f == [i \in EventsOf(ap, "APPROVE", id) |-> ap[i].signer]
    <2>4. Approvers(ap, id) = {f[i] : i \in EventsOf(ap, "APPROVE", id)}
      BY DEF Approvers
    <2>5. f \in Surjection(EventsOf(ap, "APPROVE", id), Approvers(ap, id))
      BY <2>4 DEF Surjection
    <2> QED
      BY <2>3, <2>5, FS_Surjection
  <1>5. Cardinality(Approvers(u, id)) <= Cardinality(Approvers(ap, id))
    BY <1>3, <1>4, FS_Subset
  <1>6. Cardinality(Approvers(u, id)) \in Nat /\ Cardinality(Approvers(ap, id)) \in Nat
    BY <1>3, <1>4, FS_Subset, FS_CardinalityType
  <1> QED
    BY <1>5, <1>6, EnterpriseAssumption DEF u

LEMMA FinalizeStep ==
    ASSUME AuthInv, NEW p \in Proc, Finalize(p)
    PROVE  AuthInv'
  <1> DEFINE e == FinalizeEvent(p)
  <1>1. /\ pc[p] = "done" /\ request[p] # None /\ approvals' = Append(approvals, e)
        /\ Idle(p) /\ Settled(p) /\ UNCHANGED <<keys, auths, policies, status, pending, commits>>
        /\ Cardinality(Approvers(HeldOf(p), request[p])) >= Threshold
    BY DEF Finalize, Return, MayFinalize, ValidateReady
  <1>2. e.kind = "FINALIZE" /\ e.id = request[p] /\ e.reference = ref[p]
    BY DEF FinalizeEvent, Event
  <1> HIDE DEF e
  <1>3. DoneAs(keys, auths, request[p], ref[p])
    BY <1>1 DEF AuthInv, ProcessStands, Stands, Serves
  <1>4. List(approvals) /\ Len(approvals) \in Nat
    BY ListLength DEF AuthInv, Files
  <1>5. held[p] \in 0..Len(approvals)
    BY <1>4 DEF AuthInv, ProcessStands, Within, Locals
  <1>6. Cardinality(Approvers(approvals, request[p])) >= Threshold
    BY <1>1, <1>4, <1>5, ApproversGrow DEF HeldOf
  <1>7. SignStands(keys, e)
    BY <1>2 DEF SignStands
  <1>8. List(approvals') /\ Extends(approvals, approvals') /\ NewApprovals
    BY <1>1, <1>2, <1>3, <1>6, <1>7, ApprovalAppended
  <1>9. Files' /\ Grown /\ NewKeys /\ NewAuths /\ NewPolicies /\ NewStatus
        /\ NewPending /\ NewCommits
    BY <1>1, <1>8, Unmoved DEF AuthInv, Files, Grown
  <1>10. Locals'
    BY <1>1 DEF AuthInv, Locals, Idle, Settled, At, Handles, Unseen
  <1>11. /\ pc'[p] = "idle" /\ seen'[p] = Unseen /\ held'[p] = 0 /\ request'[p] = None
         /\ \A q \in Proc : q # p => Untouched(q)
    BY <1>1 DEF AuthInv, Locals, Idle, Settled, Untouched
  <1>12. Within(seen[p], held[p])'
    BY <1>9, <1>11, ListLength DEF Within, Unseen, Files
  <1>13. ProcessStands(p)'
    BY <1>11, <1>12 DEF ProcessStands, Stands
  <1> QED
    BY <1>8, <1>9, <1>10, <1>11, <1>13, OneSteps

LEMMA TrustStepStep ==
    ASSUME AuthInv, NEW p \in Proc, TrustStep(p)
    PROVE  AuthInv'
  <1>1. Work(p)
    BY DEF TrustStep
  <1>2. CASE OpenPolicies(p)
    BY <1>2, OpenPoliciesStep
  <1>3. CASE KeyRefused(p) \/ AuthorizationRefused(p) \/ Kill(p) \/ KillInAppend(p)
    <2>1. Idle(p) /\ UNCHANGED <<keys, auths, policies, status, pending, commits>>
      BY <1>3 DEF KeyRefused, AuthorizationRefused, Kill, KillInAppend
    <2> QED
      BY <2>1, EndStep
  <1>4. CASE KeyBootstrap(p) \/ KeyRegister(p) \/ KeyRotate(p) \/ KeyRevoke(p)
    <2>1. PICK cmd \in KeyCommand : AppendKey(p, cmd)
      BY <1>4 DEF KeyBootstrap, KeyRegister, KeyRotate, KeyRevoke, KeyCommand
    <2> QED
      BY <2>1, AppendKeyStep
  <1>5. CASE AppendOnce(p)
    BY <1>5, AppendOnceStep
  <1>6. CASE PolicyRegister(p)
    BY <1>6, PolicyRegisterStep
  <1>7. CASE PolicyRevoke(p)
    BY <1>7, PolicyRevokeStep
  <1>8. CASE RecoverPending(p)
    BY <1>8, RecoverPendingStep
  <1>9. CASE AnswerFinalized(p)
    <2>1. /\ pc[p] = "authorized" /\ Done(p)
          /\ UNCHANGED <<policies, status, pending, commits>>
      BY <1>9 DEF AnswerFinalized, Committing
    <2> QED
      BY <2>1, Unmoved, DoneStep DEF AuthInv
  <1>10. CASE Prepare(p)
    BY <1>10, PrepareStep
  <1>11. CASE Commit(p)
    BY <1>11, CommitStep
  <1>12. CASE CommitFails(p)
    BY <1>12, EndStep DEF CommitFails, Fail
  <1> QED
    BY <1>1, <1>2, <1>3, <1>4, <1>5, <1>6, <1>7, <1>8, <1>9, <1>10, <1>11, <1>12 DEF Work

LEMMA ReturnStep ==
    ASSUME AuthInv, NEW p \in Proc, PlainReturn(p) \/ FinalizeRefused(p)
    PROVE  AuthInv'
  <1>1. Idle(p) /\ UNCHANGED <<keys, auths, policies, status, pending, commits, approvals>>
    BY DEF PlainReturn, FinalizeRefused, Return, evars
  <1>2. CASE FinalizeRefused(p)
    BY <1>1, <1>2, IdleStep DEF FinalizeRefused
  <1>3. CASE PlainReturn(p)
    <2>1. UNCHANGED <<held, request>> /\ request[p] = None
      BY <1>3 DEF PlainReturn, evars
    <2>2. Locals'
      BY <1>1, <2>1 DEF AuthInv, Locals, Idle, At, Handles, Unseen
    <2>3. Files' /\ Grown /\ NewKeys /\ NewAuths /\ NewPolicies /\ NewStatus
          /\ NewPending /\ NewCommits /\ NewApprovals
      BY <1>1, Unmoved DEF AuthInv, Files, Grown
    <2>4. /\ pc'[p] = "idle" /\ seen'[p] = Unseen /\ held'[p] = held[p]
          /\ request'[p] = None /\ \A q \in Proc : q # p => Untouched(q)
      BY <1>1, <2>1 DEF AuthInv, Locals, Idle, Untouched
    <2>5. held[p] <= Len(approvals)
      BY DEF AuthInv, ProcessStands, Within
    <2>6. Within(seen[p], held[p])'
      BY <1>1, <2>3, <2>4, <2>5, ListLength DEF Within, Unseen, Files
    <2>7. ProcessStands(p)'
      BY <2>4, <2>6 DEF ProcessStands, Stands
    <2> QED
      BY <2>2, <2>3, <2>4, <2>7, OneSteps
  <1> QED
    BY <1>2, <1>3

LEMMA AuthorityInit == EInit => AuthInv
  <1> SUFFICES ASSUME EInit PROVE AuthInv
    OBVIOUS
  <1>1. PICK s \in Starts : files = s.files /\ keys = s.keys
    BY DEF EInit, Init
  <1>2. keys \in Seq(KeyEvent)
    BY <1>1, AuthorityAssumption
  <1>3. /\ auths = <<>> /\ policies = <<>> /\ status = <<>> /\ commits = <<>>
        /\ approvals = <<>> /\ pending = {}
    BY DEF EInit, Init
  <1>4. List(<<>>) /\ Len(<<>>) = 0
    BY DEF List
  <1>5. Files
    BY <1>2, <1>3, <1>4 DEF Files, List
  <1>6. ASSUME NEW i \in 1..Len(keys) PROVE Named(keys[i])
    <2>1. keys[i] \in KeyEvent
      BY <1>2
    <2> QED
      BY <2>1 DEF Named, KeyEvent
  <1>7. FilesStand
    BY <1>3, <1>6 DEF FilesStand
  <1>8. Locals
    BY DEF EInit, Init, Locals, At, Handles, Unseen
  <1>9. ASSUME NEW p \in Proc PROVE ProcessStands(p)
    <2>1. pc[p] = "idle" /\ seen[p] = Unseen /\ held[p] = 0 /\ request[p] = None
      BY DEF EInit, Init
    <2>2. Within(seen[p], held[p])
      BY <1>2, <1>3, <2>1 DEF Within, Unseen
    <2> QED
      BY <2>1, <2>2 DEF ProcessStands, Stands
  <1> QED
    BY <1>5, <1>7, <1>8, <1>9 DEF AuthInv

LEMMA AuthorityStep == AuthInv /\ [ENext]_vars => AuthInv'
  <1> SUFFICES ASSUME AuthInv, [ENext]_vars PROVE AuthInv'
    OBVIOUS
  <1>1. CASE UNCHANGED vars
    BY <1>1, QuietStep DEF vars, avars, evars
  <1>2. CASE (TrustInit \/ TrustInitKilled \/ GovernanceUpgrade) /\ UNCHANGED evars
    BY <1>2, QuietStep DEF TrustInit, TrustInitKilled, GovernanceUpgrade, evars
  <1>3. CASE EnterpriseEnable \/ EnterpriseEnableKilled
    BY <1>3, QuietStep DEF EnterpriseEnable, EnterpriseEnableKilled, avars
  <1>4. CASE ApprovalRequest
    BY <1>4, ApprovalRequestStep
  <1>5. CASE ApprovalSign
    BY <1>5, ApprovalSignStep
  <1>6. CASE \E p \in Proc : Plain(p) \/ Approved(p) \/ TrustStep(p) \/ PlainReturn(p)
                             \/ Finalize(p) \/ FinalizeRefused(p)
    <2>1. PICK p \in Proc : Plain(p) \/ Approved(p) \/ TrustStep(p) \/ PlainReturn(p)
                            \/ Finalize(p) \/ FinalizeRefused(p)
      BY <1>6
    <2> QED
      BY <2>1, PlainStep, ApprovedStep, TrustStepStep, ReturnStep, FinalizeStep
  <1> QED
    BY <1>1, <1>2, <1>3, <1>4, <1>5, <1>6 DEF ENext

LEMMA AuthorityHolds == ESpec => []AuthInv
  BY AuthorityInit, AuthorityStep, PTL DEF ESpec

-----------------------------------------------------------------------------
(* What follows from it. *)

\* AdminRemains is an invariant of the trust root, however many processes run
\* the key commands beside each other: a registry that replays and is not empty
\* has an active KEY_ADMIN, because the revocation of the last one is refused
\* by the writer and by replay alike.
THEOREM AnAdminRemains == ESpec => []AdminRemains
  <1>1. AuthInv => AdminRemains
    <2> SUFFICES ASSUME AuthInv, keys # <<>>, KeysReplay(keys)
                 PROVE  \E k \in KeyId : HasRole(keys, k, "KEY_ADMIN")
      BY DEF AdminRemains
    <2>1. ValidRegistry(keys) /\ \A i \in 1..Len(keys) : keys[i].kind \in KeyEventKind
      BY DEF ValidRegistry, AuthInv, Files, FilesStand, Named
    <2> QED
      BY <2>1, RegistryHasAdmin
  <1> QED
    BY <1>1, AuthorityHolds, PTL

\* EffectsAuthorized is an invariant for any number of processes: every policy,
\* revocation and commit rests on a recorded authorization of exactly that
\* operation, signed under a registry head that is still a prefix of the file.
THEOREM EffectsAreAuthorized == ESpec => []EffectsAuthorized
  <1>1. AuthInv => EffectsAuthorized
    <2> SUFFICES ASSUME AuthInv PROVE EffectsAuthorized
      OBVIOUS
    <2>1. \A id : Sealed(keys, auths, id) => Authentic(id)
      BY DEF Sealed, Authentic
    <2>2. ASSUME NEW i \in 1..Len(policies)
          PROVE  \E a \in 1..Len(auths) :
                    /\ auths[a].id.subject
                        = <<"policy", policies[i].policy, policies[i].digest>>
                    /\ Authentic(auths[a].id)
      BY <2>1 DEF AuthInv, FilesStand, PolicyRests
    <2>3. ASSUME NEW i \in 1..Len(status)
          PROVE  /\ Authentic(status[i].auth)
                 /\ status[i].auth.subject = RevokeSubject(status[i].policy,
                                                status[i].digest, status[i].reason)
      BY <2>1 DEF AuthInv, FilesStand, StatusRests
    <2>4. /\ \A t \in pending : CommitAuthorized(t)
          /\ \A i \in 1..Len(commits) : CommitAuthorized(commits[i])
      BY <2>1 DEF AuthInv, FilesStand, CommitRests, CommitAuthorized
    <2> QED
      BY <2>2, <2>3, <2>4 DEF EffectsAuthorized
  <1> QED
    BY <1>1, AuthorityHolds, PTL

\* FinalizedByQuorum is an invariant for any number of processes and any
\* Threshold: the approvals counted by a handle are still in the file when the
\* finalization is appended, and the command served the subject the request
\* names from the first file it opened to the last.
THEOREM FinalizedWithQuorum == ESpec => []FinalizedByQuorum
  <1>1. AuthInv => FinalizedByQuorum
    <2> SUFFICES ASSUME AuthInv, NEW i \in Finalizations
                 PROVE  LET e == approvals[i]
                            signs == EventsOf(SubSeq(approvals, 1, i - 1), "APPROVE", e.id)
                        IN /\ Cardinality({approvals[s].signer : s \in signs}) >= Threshold
                           /\ \A s \in signs :
                                /\ approvals[s].signer # e.id.requester
                                /\ e.id.created < approvals[s].time
                                /\ approvals[s].time <= e.id.expires
                                /\ HasRole(SubSeq(keys, 1, approvals[s].head),
                                           approvals[s].signer, "AUDITOR")
                           /\ ReferenceDone(e)
      BY DEF FinalizedByQuorum
    <2> DEFINE e == approvals[i]
               u == SubSeq(approvals, 1, i - 1)
               signs == EventsOf(u, "APPROVE", e.id)
    <2>1. i \in 1..Len(approvals) /\ e.kind = "FINALIZE"
      BY DEF Finalizations
    <2>2. List(approvals) /\ Len(approvals) \in Nat /\ i - 1 \in 0..Len(approvals)
      BY <2>1, ListLength DEF AuthInv, Files
    <2>3. Len(u) = i - 1 /\ \A s \in 1..(i - 1) : u[s] = approvals[s]
      BY <2>2, Prefix
    <2>4. FinalStands(keys, auths, approvals, i)
      BY <2>1 DEF AuthInv, FilesStand
    <2>5. DoneAs(keys, auths, e.id, e.reference) /\ Cardinality(Approvers(u, e.id)) >= Threshold
      BY <2>1, <2>4 DEF FinalStands
    <2> HIDE DEF u
    <2>6. \A s \in signs : /\ s \in 1..Len(approvals) /\ u[s] = approvals[s]
                           /\ approvals[s].kind = "APPROVE" /\ approvals[s].id = e.id
      BY <2>1, <2>2, <2>3 DEF EventsOf
    <2>7. {approvals[s].signer : s \in signs} = Approvers(u, e.id)
      BY <2>6 DEF Approvers
    <2>8. ASSUME NEW s \in signs
          PROVE  /\ approvals[s].signer # e.id.requester
                 /\ e.id.created < approvals[s].time
                 /\ approvals[s].time <= e.id.expires
                 /\ HasRole(SubSeq(keys, 1, approvals[s].head), approvals[s].signer, "AUDITOR")
      <3>1. SignStands(keys, approvals[s])
        BY <2>6 DEF AuthInv, FilesStand
      <3> QED
        BY <2>6, <3>1 DEF SignStands
    <2>9. ReferenceDone(e)
      BY <2>5 DEF DoneAs, ReferenceDone, Sealed, Authentic
    <2> QED
      BY <2>5, <2>7, <2>8, <2>9 DEF u
  <1> QED
    BY <1>1, AuthorityHolds, PTL
-----------------------------------------------------------------------------
(* Commands that run one after the other. *)

OneAtATime == \A p, q \in Proc : p = q

\* The transaction was prepared before its policy was revoked.
Before(st, t) ==
    t.after \in 0..Len(st) /\ ~RevokedIn(SubSeq(st, 1, t.after), PolicyOf[t.request])

\* What the files hold replays, and every commit was begun before the revocation.
Contents ==
    /\ KeysReplay(keys) /\ AuthsReplay(auths) /\ PoliciesReplay(policies)
    /\ StatusReplays(status) /\ BindingsHold(status, auths, policies)
    /\ \A a \in 1..Len(auths) : auths[a].time = auths[a].id.time
    /\ \A t \in pending : Before(status, t)
    /\ \A i \in 1..Len(commits) : Before(status, commits[i])

\* What a process read is still all there is, up to its own append.
UpToDate(p) ==
    /\ pc[p] \in {"opening", "ready"} => seen[p].keys = Len(keys)
    /\ pc[p] \in {"opening", "ready"} /\ job[p].cmd \notin KeyCommand =>
        seen[p].auths = Len(auths)
    /\ (pc[p] = "ready" /\ job[p].cmd \notin KeyCommand) \/ pc[p] = "authorized" =>
        seen[p].policies = Len(policies) /\ seen[p].status = Len(status)
    /\ pc[p] = "authorized" => PolicyAdmits(job[p], policies, status)

SoloInv == AuthInv /\ Contents /\ \A p \in Proc : UpToDate(p)

LEMMA NumberedAppend ==
    ASSUME NEW s, List(s), Numbered(s), NEW e, e.seq = Len(s) + 1
    PROVE  Numbered(Append(s, e))
  <1>1. /\ Len(s) \in Nat /\ Len(Append(s, e)) = Len(s) + 1
        /\ Append(s, e)[Len(s) + 1] = e /\ \A i \in 1..Len(s) : Append(s, e)[i] = s[i]
    BY ListLength, FileAppended
  <1> DEFINE t == Append(s, e)
  <1> HIDE DEF t
  <1>2. ASSUME NEW i \in 1..Len(t) PROVE t[i].seq = i
    <2>1. i \in 1..Len(s) \/ i = Len(s) + 1
      BY <1>1 DEF t
    <2> QED
      BY <1>1, <2>1 DEF Numbered, t
  <1> QED
    BY <1>2 DEF Numbered, t

\* What an index of an appended sequence stands for, with what came before it.
LEMMA AppendedPrefix ==
    ASSUME NEW s, List(s), NEW e, NEW i \in 1..Len(Append(s, e))
    PROVE  \/ /\ i \in 1..Len(s) /\ Append(s, e)[i] = s[i]
              /\ SubSeq(Append(s, e), 1, i - 1) = SubSeq(s, 1, i - 1)
           \/ /\ i = Len(s) + 1 /\ Append(s, e)[i] = e
              /\ SubSeq(Append(s, e), 1, i - 1) = s
  <1>1. /\ Len(s) \in Nat /\ Len(Append(s, e)) = Len(s) + 1 /\ List(Append(s, e))
        /\ Append(s, e)[Len(s) + 1] = e /\ \A x \in 1..Len(s) : Append(s, e)[x] = s[x]
        /\ SubSeq(Append(s, e), 1, Len(s)) = s /\ Extends(s, Append(s, e))
    BY ListLength, FileAppended
  <1> DEFINE t == Append(s, e)
  <1> HIDE DEF t
  <1>2. CASE i \in 1..Len(s)
    <2>1. i - 1 \in 0..Len(s)
      BY <1>1, <1>2
    <2>2. SubSeq(t, 1, i - 1) = SubSeq(s, 1, i - 1)
      BY <1>1, <2>1, Kept DEF t
    <2> QED
      BY <1>1, <1>2, <2>2 DEF t
  <1>3. CASE i \notin 1..Len(s)
    <2>1. i = Len(s) + 1 /\ i - 1 = Len(s)
      BY <1>1, <1>3
    <2> QED
      BY <1>1, <2>1
  <1> QED
    BY <1>2, <1>3

LEMMA KeysReplayAppend ==
    ASSUME NEW ks, List(ks), KeysReplay(ks), NEW e, e.seq = Len(ks) + 1,
           ValidKeyEvent(ks, e)
    PROVE  KeysReplay(Append(ks, e))
  <1>1. Numbered(Append(ks, e))
    BY NumberedAppend DEF KeysReplay
  <1>2. ASSUME NEW i \in 1..Len(Append(ks, e))
        PROVE  ValidKeyEvent(SubSeq(Append(ks, e), 1, i - 1), Append(ks, e)[i])
    <2>1. CASE /\ i \in 1..Len(ks) /\ Append(ks, e)[i] = ks[i]
               /\ SubSeq(Append(ks, e), 1, i - 1) = SubSeq(ks, 1, i - 1)
      BY <2>1 DEF KeysReplay
    <2>2. CASE /\ i = Len(ks) + 1 /\ Append(ks, e)[i] = e
               /\ SubSeq(Append(ks, e), 1, i - 1) = ks
      BY <2>2
    <2> QED
      BY <2>1, <2>2, AppendedPrefix
  <1> QED
    BY <1>1, <1>2 DEF KeysReplay

LEMMA Below ==
    ASSUME NEW n \in Nat, NEW i \in 1..(n + 1)
    PROVE  \A h \in 1..(i - 1) : h \in 1..n
  OBVIOUS

LEMMA AuthsReplayAppend ==
    ASSUME NEW as, List(as), AuthsReplay(as), NEW e, e.seq = Len(as) + 1,
           e.id.role = RoleOf[e.id.domain], e.time > LastTime(as),
           ~NonceUsed(as, e.signer, e.nonce), ~Recorded(as, e.id)
    PROVE  AuthsReplay(Append(as, e))
  <1> DEFINE t == Append(as, e)
             Good(u, x) == /\ x.id.role = RoleOf[x.id.domain]
                           /\ x.time > LastTime(u)
                           /\ ~NonceUsed(u, x.signer, x.nonce)
  <1>1. Numbered(t)
    BY NumberedAppend DEF AuthsReplay
  <1>2. \A x \in 1..Len(as) : Good(SubSeq(as, 1, x - 1), as[x]) /\
            \A h \in 1..(x - 1) : as[h].id # as[x].id
    BY DEF AuthsReplay
  <1>3. Good(as, e)
    OBVIOUS
  <1>4. /\ Len(as) \in Nat /\ Len(t) = Len(as) + 1 /\ \A x \in 1..Len(as) : t[x] = as[x]
    BY ListLength, FileAppended
  <1> HIDE DEF t
  <1>5. ASSUME NEW i \in 1..Len(t)
        PROVE  Good(SubSeq(t, 1, i - 1), t[i]) /\ \A h \in 1..(i - 1) : t[h].id # t[i].id
    <2> HIDE DEF Good
    <2>0. \A h \in 1..(i - 1) : h \in 1..Len(as)
      BY <1>4, Below
    <2>1. CASE /\ i \in 1..Len(as) /\ t[i] = as[i]
               /\ SubSeq(t, 1, i - 1) = SubSeq(as, 1, i - 1)
      BY <1>2, <1>4, <2>1, <2>0
    <2>2. CASE i = Len(as) + 1 /\ t[i] = e /\ SubSeq(t, 1, i - 1) = as
      BY <1>3, <1>4, <2>2, <2>0 DEF Recorded
    <2>3. \/ /\ i \in 1..Len(as) /\ t[i] = as[i]
             /\ SubSeq(t, 1, i - 1) = SubSeq(as, 1, i - 1)
          \/ i = Len(as) + 1 /\ t[i] = e /\ SubSeq(t, 1, i - 1) = as
      BY AppendedPrefix DEF t
    <2> QED
      BY <2>1, <2>2, <2>3
  <1> QED
    BY <1>1, <1>5 DEF AuthsReplay, t

LEMMA PoliciesReplayAppend ==
    ASSUME NEW ps, List(ps), PoliciesReplay(ps), NEW e, e.seq = Len(ps) + 1,
           ~RegisteredIn(ps, e.policy)
    PROVE  PoliciesReplay(Append(ps, e))
  <1> DEFINE t == Append(ps, e)
  <1>1. Numbered(t)
    BY NumberedAppend DEF PoliciesReplay
  <1>2. /\ Len(ps) \in Nat /\ Len(t) = Len(ps) + 1 /\ t[Len(ps) + 1] = e
        /\ \A i \in 1..Len(ps) : t[i] = ps[i]
    BY ListLength, FileAppended
  <1> HIDE DEF t
  <1>3. ASSUME NEW i \in 1..Len(t), NEW j \in 1..Len(t), t[i].policy = t[j].policy
        PROVE  i = j
    <2>1. (i \in 1..Len(ps) \/ i = Len(ps) + 1) /\ (j \in 1..Len(ps) \/ j = Len(ps) + 1)
      BY <1>2
    <2>2. CASE i \in 1..Len(ps) /\ j \in 1..Len(ps)
      BY <1>2, <1>3, <2>2 DEF PoliciesReplay
    <2>3. CASE i \in 1..Len(ps) /\ j = Len(ps) + 1
      BY <1>2, <1>3, <2>3 DEF RegisteredIn
    <2>4. CASE i = Len(ps) + 1 /\ j \in 1..Len(ps)
      BY <1>2, <1>3, <2>4 DEF RegisteredIn
    <2> QED
      BY <2>1, <2>2, <2>3, <2>4
  <1> QED
    BY <1>1, <1>3 DEF PoliciesReplay, t

LEMMA StatusReplayAppend ==
    ASSUME NEW st, List(st), StatusReplays(st), NEW e, e.seq = Len(st) + 1,
           e.time > LastTime(st), ~RevokedIn(st, e.policy)
    PROVE  StatusReplays(Append(st, e))
  <1> DEFINE t == Append(st, e)
  <1>1. StatusFrames(t)
    BY NumberedAppend DEF StatusReplays, StatusFrames
  <1>2. ASSUME NEW i \in 1..Len(t)
        PROVE  /\ t[i].time > LastTime(SubSeq(t, 1, i - 1))
               /\ ~RevokedIn(SubSeq(t, 1, i - 1), t[i].policy)
    <2>1. CASE /\ i \in 1..Len(st) /\ t[i] = st[i]
               /\ SubSeq(t, 1, i - 1) = SubSeq(st, 1, i - 1)
      <3> HIDE DEF t
      <3> QED
        BY <2>1 DEF StatusReplays
    <2>2. CASE i = Len(st) + 1 /\ t[i] = e /\ SubSeq(t, 1, i - 1) = st
      <3> HIDE DEF t
      <3> QED
        BY <2>2
    <2> QED
      BY <2>1, <2>2, AppendedPrefix
  <1> HIDE DEF t
  <1> QED
    BY <1>1, <1>2 DEF StatusReplays, t

\* The authorization of one revocation.
Bound(e, as, ps) ==
    /\ RegisteredIn(ps, e.policy)
    /\ PolicyDigest(ps, e.policy) = e.digest
    /\ \E a \in 1..Len(as) :
        /\ as[a].id = e.auth
        /\ as[a].id.domain = "POLICY_REVOKE"
        /\ as[a].id.subject = RevokeSubject(e.policy, e.digest, e.reason)
        /\ as[a].time = e.time

LEMMA BoundKept ==
    ASSUME NEW as, NEW at, NEW ps, NEW pt, List(as), List(at), List(ps), List(pt),
           Extends(as, at), Extends(ps, pt), PoliciesReplay(pt), NEW e, Bound(e, as, ps)
    PROVE  Bound(e, at, pt)
  <1>1. /\ Len(ps) \in 0..Len(pt) /\ SubSeq(pt, 1, Len(ps)) = ps
    <2>1. Len(ps) \in Nat /\ SubSeq(ps, 1, Len(ps)) = ps
      BY ListLength, Prefix
    <2>2. Len(ps) \in 0..Len(ps)
      BY <2>1
    <2> QED
      BY <2>1, <2>2, Kept
  <1>2. RegisteredIn(pt, e.policy) /\ PolicyDigest(pt, e.policy) = e.digest
    <2>1. RegisteredIn(SubSeq(pt, 1, Len(ps)), e.policy)
      BY <1>1 DEF Bound
    <2>2. /\ RegisteredIn(pt, e.policy)
          /\ PolicyDigest(SubSeq(pt, 1, Len(ps)), e.policy) = PolicyDigest(pt, e.policy)
      BY <1>1, <2>1, DigestKept
    <2> QED
      BY <1>1, <2>2 DEF Bound
  <1>3. PICK a \in 1..Len(as) :
            /\ as[a].id = e.auth /\ as[a].id.domain = "POLICY_REVOKE"
            /\ as[a].id.subject = RevokeSubject(e.policy, e.digest, e.reason)
            /\ as[a].time = e.time
    BY DEF Bound
  <1>4. a \in 1..Len(at) /\ at[a] = as[a]
    BY Kept
  <1> QED
    BY <1>2, <1>3, <1>4 DEF Bound
LEMMA ContentsKept ==
    ASSUME Contents, UNCHANGED <<keys, auths, policies, status, pending, commits>>
    PROVE  Contents'
  BY DEF Contents

\* A handle that is up to date holds the file.
LEMMA HandlesWhole ==
    ASSUME SoloInv, NEW p \in Proc
    PROVE  /\ pc[p] \in {"opening", "ready"} => KeysOf(p) = keys
           /\ pc[p] \in {"opening", "ready"} /\ job[p].cmd \notin KeyCommand =>
                AuthsOf(p) = auths
           /\ (pc[p] = "ready" /\ job[p].cmd \notin KeyCommand) \/ pc[p] = "authorized" =>
                PoliciesOf(p) = policies /\ StatusOf(p) = status
  <1>1. ASSUME NEW s, List(s) PROVE SubSeq(s, 1, Len(s)) = s
    <2>1. Len(s) \in 0..Len(s)
      BY <1>1, ListLength
    <2> QED
      BY <1>1, <2>1, Prefix
  <1>2. List(keys) /\ List(auths) /\ List(policies) /\ List(status)
    BY DEF SoloInv, AuthInv, Files
  <1>3. UpToDate(p)
    BY DEF SoloInv
  <1> QED
    BY <1>1, <1>2, <1>3 DEF UpToDate, KeysOf, AuthsOf, PoliciesOf, StatusOf

LEMMA BeginUpToDate ==
    ASSUME AuthInv, NEW p \in Proc, NEW j \in Jobs, Begin(p, j)
    PROVE  UpToDate(p)'
  <1>1. Len(keys) \in Nat /\ Len(auths) \in Nat
    BY ListLength DEF AuthInv, Files
  <1>2. job'[p] = j /\ UNCHANGED <<keys, auths>>
    BY DEF Begin, AuthInv, Locals
  <1>3. CASE j.cmd \in KeyCommand
    <2>1. /\ seen' = [seen EXCEPT ![p] = [Unseen EXCEPT !.keys = Len(keys)]]
          /\ pc' = [pc EXCEPT ![p] = "ready"]
      BY <1>3 DEF Begin
    <2>2. pc'[p] = "ready" /\ seen'[p] = [Unseen EXCEPT !.keys = Len(keys)]
      BY <2>1 DEF AuthInv, Locals
    <2>3. seen'[p].keys = Len(keys)
      BY <2>2 DEF Unseen
    <2> QED
      BY <1>2, <1>3, <2>2, <2>3 DEF UpToDate
  <1>4. CASE j.cmd \notin KeyCommand
    <2>1. /\ seen' = [seen EXCEPT ![p] = [Unseen EXCEPT !.keys = Len(keys),
                                                        !.auths = Len(auths)]]
          /\ pc' = [pc EXCEPT ![p] = "opening"]
      BY <1>4 DEF Begin
    <2>2. /\ pc'[p] = "opening"
          /\ seen'[p] = [Unseen EXCEPT !.keys = Len(keys), !.auths = Len(auths)]
      BY <2>1 DEF AuthInv, Locals
    <2>3. seen'[p].keys = Len(keys) /\ seen'[p].auths = Len(auths)
      BY <2>2 DEF Unseen
    <2> QED
      BY <1>2, <1>4, <2>2, <2>3 DEF UpToDate
  <1> QED
    BY <1>3, <1>4

LEMMA OpenUpToDate ==
    ASSUME SoloInv, NEW p \in Proc, OpenPolicies(p)
    PROVE  UpToDate(p)' /\ Contents'
  <1>1. UNCHANGED <<keys, auths, policies, status, pending, commits>> /\ pc[p] = "opening"
    BY DEF OpenPolicies
  <1>2. Contents'
    BY <1>1, ContentsKept DEF SoloInv
  <1>3. CASE Idle(p)
    <2>1. pc'[p] = "idle"
      BY <1>3 DEF Idle, SoloInv, AuthInv, Locals
    <2> QED
      BY <1>2, <2>1 DEF UpToDate
  <1>4. CASE ~Idle(p)
    <2>1. /\ seen' = [seen EXCEPT ![p].policies = Len(policies), ![p].status = Len(status)]
          /\ pc' = [pc EXCEPT ![p] = "ready"] /\ job' = job
      BY <1>4 DEF OpenPolicies
    <2>2. seen[p] \in Handles /\ UpToDate(p)
      BY DEF SoloInv, AuthInv, Locals
    <2>3. /\ seen'[p].keys = seen[p].keys /\ seen'[p].auths = seen[p].auths
          /\ seen'[p].policies = Len(policies) /\ seen'[p].status = Len(status)
      BY <2>1, <2>2 DEF SoloInv, AuthInv, Locals, Handles
    <2>4. pc'[p] = "ready" /\ job'[p] = job[p]
      BY <2>1 DEF SoloInv, AuthInv, Locals
    <2> QED
      BY <1>1, <1>2, <2>2, <2>3, <2>4 DEF UpToDate
  <1> QED
    BY <1>3, <1>4

LEMMA AppendKeyUpToDate ==
    ASSUME SoloInv, NEW p \in Proc, NEW cmd \in KeyCommand, AppendKey(p, cmd)
    PROVE  UpToDate(p)' /\ Contents'
  <1>1. PICK e \in KeyAppends(KeysOf(p), job[p]) : keys' = Append(keys, e)
    BY DEF AppendKey
  <1>2. /\ pc[p] = "ready" /\ job[p].cmd \in KeyCommand
        /\ UNCHANGED <<auths, policies, status, pending, commits>> /\ pc'[p] = "done"
    BY DEF AppendKey, SoloInv, AuthInv, Locals
  <1>3. KeysOf(p) = keys
    BY <1>2, HandlesWhole
  <1>4. e.seq = Len(keys) + 1 /\ ValidKeyEvent(keys, e)
    BY <1>2, <1>3, KeyAppended
  <1>5. KeysReplay(keys')
    BY <1>1, <1>4, KeysReplayAppend DEF SoloInv, AuthInv, Files, Contents
  <1> QED
    BY <1>2, <1>5 DEF UpToDate, SoloInv, Contents

LEMMA AppendOnceUpToDate ==
    ASSUME SoloInv, NEW p \in Proc, AppendOnce(p)
    PROVE  UpToDate(p)' /\ Contents'
  <1> DEFINE proof == Authorize(keys, job[p], policies)
             rec == AuthorizationRecord(auths, proof)
  <1>1. pc[p] = "ready" /\ job[p].cmd \notin KeyCommand
    BY DEF AppendOnce
  <1>2. KeysOf(p) = keys /\ AuthsOf(p) = auths /\ PoliciesOf(p) = policies
        /\ StatusOf(p) = status
    BY <1>1, HandlesWhole
  <1>3. /\ auths' = IF Recorded(auths, proof) THEN auths ELSE Append(auths, rec)
        /\ UNCHANGED <<keys, policies, status, pending, commits, job, seen>>
        /\ PolicyAdmits(job[p], policies, status)
        /\ Recorded(auths, proof) \/ FreshProof(auths, proof)
    BY <1>2 DEF AppendOnce, MayAuthorize
  <1>4. pc'[p] = "authorized"
    BY DEF AppendOnce, SoloInv, AuthInv, Locals
  <1>5. UpToDate(p)'
    <2>1. seen[p].policies = Len(policies) /\ seen[p].status = Len(status)
      BY <1>1 DEF SoloInv, UpToDate
    <2> QED
      BY <1>3, <1>4, <2>1 DEF UpToDate
  <1>6. CASE auths' = auths
    <2>1. Contents'
      BY <1>3, <1>6, ContentsKept DEF SoloInv
    <2> QED
      BY <1>5, <2>1
  <1>7. CASE ~Recorded(auths, proof)
    <2>1. auths' = Append(auths, rec) /\ FreshProof(auths, proof)
      BY <1>3, <1>7
    <2>2. /\ proof.role = RoleOf[proof.domain]
      BY DEF Authorize
    <2>3. /\ rec.seq = Len(auths) + 1 /\ rec.id = proof /\ rec.signer = proof.signer
          /\ rec.nonce = proof.nonce /\ rec.time = proof.time
      BY DEF AuthorizationRecord
    <2> HIDE DEF proof, rec
    <2>4. List(auths) /\ AuthsReplay(auths) /\ Len(auths) \in Nat
      BY ListLength DEF SoloInv, AuthInv, Files, Contents
    <2>5. AuthsReplay(auths')
      BY <1>7, <2>1, <2>2, <2>3, <2>4, AuthsReplayAppend DEF FreshProof
    <2>6. /\ List(auths') /\ Extends(auths, auths') /\ Len(auths') = Len(auths) + 1
          /\ auths'[Len(auths) + 1] = rec /\ \A i \in 1..Len(auths) : auths'[i] = auths[i]
      BY <2>1, <2>4, FileAppended
    <2>7. ASSUME NEW a \in 1..Len(auths') PROVE auths'[a].time = auths'[a].id.time
      <3>1. a \in 1..Len(auths) \/ a = Len(auths) + 1
        BY <2>4, <2>6
      <3> QED
        BY <2>3, <2>6, <3>1 DEF SoloInv, Contents
    <2>8. BindingsHold(status', auths', policies')
      <3>1. List(policies) /\ Extends(policies, policies) /\ PoliciesReplay(policies)
        BY ExtendsItself DEF SoloInv, AuthInv, Files, Contents
      <3>2. ASSUME NEW i \in 1..Len(status) PROVE Bound(status[i], auths', policies)
        <4>1. Bound(status[i], auths, policies)
          BY DEF SoloInv, Contents, BindingsHold, Bound
        <4> QED
          BY <2>4, <2>6, <3>1, <4>1, BoundKept
      <3> QED
        BY <1>3, <3>2 DEF BindingsHold, Bound
    <2> QED
      BY <1>3, <1>5, <2>5, <2>7, <2>8 DEF SoloInv, Contents
  <1> QED
    BY <1>3, <1>6, <1>7
LEMMA PolicyRegisterUpToDate ==
    ASSUME SoloInv, NEW p \in Proc, PolicyRegister(p)
    PROVE  UpToDate(p)' /\ Contents'
  <1>1. pc[p] = "authorized"
    BY DEF PolicyRegister
  <1>2. PoliciesOf(p) = policies
    BY <1>1, HandlesWhole
  <1>3. pc'[p] \in {"idle", "done"}
    BY DEF PolicyRegister, Done, Fail, Idle, SoloInv, AuthInv, Locals
  <1>4. UpToDate(p)'
    BY <1>3 DEF UpToDate
  <1>5. UNCHANGED <<keys, auths, status, pending, commits>>
    BY DEF PolicyRegister, Done, Fail
  <1>6. CASE policies' = policies
    BY <1>4, <1>5, <1>6, ContentsKept DEF SoloInv
  <1> DEFINE e == [seq |-> Len(policies) + 1, policy |-> job[p].policy,
                   digest |-> job[p].digest]
  <1>7. CASE ~RegisteredIn(policies, job[p].policy) /\ policies' = Append(policies, e)
    <2>1. e.seq = Len(policies) + 1 /\ e.policy = job[p].policy
      OBVIOUS
    <2>2. policies' = Append(policies, e)
      BY <1>7
    <2> HIDE DEF e
    <2>3. List(policies) /\ List(auths) /\ PoliciesReplay(policies)
      BY DEF SoloInv, AuthInv, Files, Contents
    <2>4. PoliciesReplay(policies')
      BY <1>7, <2>1, <2>2, <2>3, PoliciesReplayAppend
    <2>5. List(policies') /\ Extends(policies, policies') /\ Extends(auths, auths)
      BY <2>2, <2>3, FileAppended, ExtendsItself
    <2>6. ASSUME NEW i \in 1..Len(status) PROVE Bound(status[i], auths, policies')
      <3>1. Bound(status[i], auths, policies)
        BY DEF SoloInv, Contents, BindingsHold, Bound
      <3> QED
        BY <2>3, <2>4, <2>5, <3>1, BoundKept
    <2>7. BindingsHold(status', auths', policies')
      BY <1>5, <2>6 DEF BindingsHold, Bound
    <2> QED
      BY <1>4, <1>5, <2>4, <2>7 DEF SoloInv, Contents
  <1> QED
    BY <1>2, <1>6, <1>7 DEF PolicyRegister, Fail

LEMMA PolicyRevokeUpToDate ==
    ASSUME SoloInv, NEW p \in Proc, PolicyRevoke(p)
    PROVE  UpToDate(p)' /\ Contents'
  <1>1. pc[p] = "authorized" /\ job[p].cmd = "policy-revoke"
    BY DEF PolicyRevoke
  <1>2. PoliciesOf(p) = policies /\ StatusOf(p) = status
    BY <1>1, HandlesWhole
  <1>3. pc'[p] \in {"idle", "done"}
    BY DEF PolicyRevoke, Done, Fail, Idle, SoloInv, AuthInv, Locals
  <1>4. UpToDate(p)'
    BY <1>3 DEF UpToDate
  <1>5. UNCHANGED <<keys, auths, policies, pending, commits>>
    BY DEF PolicyRevoke, Done, Fail
  <1>6. CASE status' = status
    BY <1>4, <1>5, <1>6, ContentsKept DEF SoloInv
  <1> DEFINE d == PolicyDigest(policies, job[p].policy)
             e == RevokeEvent(status, job[p], d, ref[p])
  <1>7. CASE /\ ~RevokedIn(status, job[p].policy) /\ ref[p].time > LastTime(status)
             /\ status' = Append(status, e)
    <2>1. /\ e.seq = Len(status) + 1 /\ e.policy = job[p].policy /\ e.digest = d
          /\ e.reason = job[p].reason /\ e.auth = ref[p] /\ e.time = ref[p].time
      BY DEF RevokeEvent
    <2>2. status' = Append(status, e)
      BY <1>7
    <2>3. List(status) /\ Len(status) \in Nat /\ StatusReplays(status)
      BY ListLength DEF SoloInv, AuthInv, Files, Contents
    <2>4. /\ Sealed(keys, auths, ref[p]) /\ ref[p].domain = "POLICY_REVOKE"
          /\ ref[p].subject = RevokeSubject(job[p].policy, d, job[p].reason)
      <3>1. Stands(keys, auths, policies, "authorized", job[p], seen[p], ref[p], request[p])
        BY <1>1 DEF SoloInv, AuthInv, ProcessStands
      <3>2. SubSeq(policies, 1, seen[p].policies) = policies
        BY <1>2 DEF PoliciesOf
      <3> QED
        BY <1>1, <3>1, <3>2 DEF Stands, Domain, Subject
    <2>5. RegisteredIn(policies, job[p].policy)
      BY <1>1 DEF SoloInv, UpToDate, PolicyAdmits
    <2> HIDE DEF e, d
    <2>6. StatusReplays(status')
      BY <1>7, <2>1, <2>2, <2>3, StatusReplayAppend
    <2>7. /\ List(status') /\ Extends(status, status') /\ Len(status') = Len(status) + 1
          /\ status'[Len(status) + 1] = e /\ \A i \in 1..Len(status) : status'[i] = status[i]
      BY <2>2, <2>3, FileAppended
    <2>8. Bound(e, auths, policies)
      <3>1. PICK a \in 1..Len(auths) : auths[a].id = ref[p]
        BY <2>4 DEF Sealed, Recorded
      <3>2. auths[a].time = ref[p].time
        BY <3>1 DEF SoloInv, Contents
      <3> QED
        BY <2>1, <2>4, <2>5, <3>1, <3>2 DEF Bound, d
    <2>9. ASSUME NEW i \in 1..Len(status') PROVE Bound(status'[i], auths', policies')
      <3>1. i \in 1..Len(status) \/ i = Len(status) + 1
        BY <2>3, <2>7
      <3>2. \A x \in 1..Len(status) : Bound(status[x], auths, policies)
        BY DEF SoloInv, Contents, BindingsHold, Bound
      <3> QED
        BY <1>5, <2>7, <2>8, <3>1, <3>2
    <2>10. BindingsHold(status', auths', policies')
      BY <2>9 DEF BindingsHold, Bound
    <2>11. ASSUME NEW t, Before(status, t) PROVE Before(status', t)
      <3>1. t.after \in 0..Len(status)
        BY <2>11 DEF Before
      <3>2. /\ t.after \in 0..Len(status')
            /\ SubSeq(status', 1, t.after) = SubSeq(status, 1, t.after)
        BY <2>3, <2>7, <3>1, Kept
      <3> QED
        BY <2>11, <3>2 DEF Before
    <2> QED
      BY <1>4, <1>5, <2>6, <2>10, <2>11 DEF SoloInv, Contents
  <1> QED
    BY <1>2, <1>6, <1>7 DEF PolicyRevoke, Fail

\* Where only transactions move, the rest of the files stays as it is.
LEMMA ContentsCommitted ==
    ASSUME SoloInv, UNCHANGED <<keys, auths, policies, status>>,
           \A t \in pending' : Before(status, t),
           \/ commits' = commits
           \/ \E t \in pending : commits' = Append(commits, t)
    PROVE  Contents'
  <1>2. CASE commits' = commits
    BY <1>2 DEF SoloInv, Contents
  <1>3. ASSUME NEW t \in pending, commits' = Append(commits, t) PROVE Contents'
    <2>1. List(commits) /\ Len(commits) \in Nat
      BY ListLength DEF SoloInv, AuthInv, Files
    <2>2. /\ Len(commits') = Len(commits) + 1 /\ commits'[Len(commits) + 1] = t
          /\ \A i \in 1..Len(commits) : commits'[i] = commits[i]
      BY <1>3, <2>1, FileAppended
    <2>3. ASSUME NEW i \in 1..Len(commits') PROVE Before(status, commits'[i])
      <3>1. i \in 1..Len(commits) \/ i = Len(commits) + 1
        BY <2>1, <2>2
      <3> QED
        BY <2>2, <3>1 DEF SoloInv, Contents
    <2> QED
      BY <2>3 DEF SoloInv, Contents
  <1> QED
    BY <1>2, <1>3

LEMMA CoordinatorUpToDate ==
    ASSUME SoloInv, NEW p \in Proc,
           RecoverPending(p) \/ AnswerFinalized(p) \/ Prepare(p) \/ Commit(p)
           \/ CommitFails(p)
    PROVE  UpToDate(p)' /\ Contents'
  <1>1. UNCHANGED <<keys, auths, policies, status>>
    BY DEF RecoverPending, AnswerFinalized, Prepare, Commit, CommitFails, Done, Fail
  <1>2. \A t \in pending : Before(status, t)
    BY DEF SoloInv, Contents
  <1>3. \A t, stage : Before(status, t) =>
            Before(status, Transaction(t.request, t.auth, t.after, stage))
    BY DEF Before, Transaction
  <1>4. CASE RecoverPending(p)
    <2>1. /\ \A t \in pending' : Before(status, t)
          /\ commits' = commits \/ \E t \in pending : commits' = Append(commits, t)
      BY <1>2, <1>3, <1>4 DEF RecoverPending, MoveTo, FinalizeTransaction
    <2>2. UpToDate(p)'
      BY <1>1, <1>4 DEF RecoverPending, SoloInv, UpToDate
    <2> QED
      BY <1>1, <2>1, <2>2, ContentsCommitted
  <1>5. CASE Prepare(p)
    <2> DEFINE t == Transaction(job[p].request, ref[p], Len(status), "prepared")
    <2>1. /\ pending' = {t} /\ commits' = commits /\ pc'[p] = "committing"
          /\ pc[p] = "authorized" /\ job[p].cmd = "trust-commit"
      BY <1>5 DEF Prepare, Committing, SoloInv, AuthInv, Locals
    <2>2. t.after = Len(status) /\ t.request = job[p].request
      BY DEF Transaction
    <2>3. ~RevokedIn(status, PolicyOf[job[p].request])
      BY <2>1 DEF SoloInv, UpToDate, PolicyAdmits
    <2>4. List(status) /\ Len(status) \in Nat
      BY ListLength DEF SoloInv, AuthInv, Files
    <2>5. Len(status) \in 0..Len(status) /\ SubSeq(status, 1, Len(status)) = status
      BY <2>4, Prefix
    <2> HIDE DEF t
    <2>6. Before(status, t)
      BY <2>2, <2>3, <2>5 DEF Before
    <2>7. UpToDate(p)'
      BY <2>1 DEF UpToDate
    <2> QED
      BY <1>1, <2>1, <2>6, <2>7, ContentsCommitted
  <1>6. CASE Commit(p)
    <2>1. /\ \A t \in pending' : Before(status, t)
          /\ commits' = commits \/ \E t \in pending : commits' = Append(commits, t)
      BY <1>2, <1>3, <1>6 DEF Commit, MoveTo, FinalizeTransaction
    <2>2. pc'[p] \in {"committing", "done"}
      BY <1>6 DEF Commit, Committing, Done, SoloInv, AuthInv, Locals
    <2>3. UpToDate(p)'
      BY <2>2 DEF UpToDate
    <2> QED
      BY <1>1, <2>1, <2>3, ContentsCommitted
  <1>7. CASE AnswerFinalized(p) \/ CommitFails(p)
    <2>1. UNCHANGED <<pending, commits>> /\ pc'[p] \in {"done", "idle"}
      BY <1>7 DEF AnswerFinalized, CommitFails, Done, Fail, Idle, SoloInv, AuthInv, Locals
    <2>2. UpToDate(p)'
      BY <2>1 DEF UpToDate
    <2> QED
      BY <1>1, <2>1, <2>2, ContentsKept DEF SoloInv
  <1> QED
    BY <1>4, <1>5, <1>6, <1>7

LEMMA SoloInit == EInit => SoloInv
  <1> SUFFICES ASSUME EInit PROVE SoloInv
    OBVIOUS
  <1>1. AuthInv
    BY AuthorityInit
  <1>2. KeysReplay(keys)
    BY AuthorityAssumption DEF EInit, Init
  <1>3. /\ auths = <<>> /\ policies = <<>> /\ status = <<>> /\ commits = <<>>
        /\ pending = {} /\ \A p \in Proc : pc[p] = "idle"
    BY DEF EInit, Init
  <1>4. Contents
    BY <1>2, <1>3 DEF Contents, AuthsReplay, PoliciesReplay, StatusReplays, StatusFrames,
                      Numbered, BindingsHold
  <1> QED
    BY <1>1, <1>3, <1>4 DEF SoloInv, UpToDate

LEMMA SoloStep ==
    ASSUME OneAtATime, SoloInv, [ENext]_vars
    PROVE  SoloInv'
  <1>1. AuthInv'
    BY AuthorityStep DEF SoloInv
  <1>2. ASSUME UNCHANGED <<keys, auths, policies, status, pending, commits, pc, job, seen>>
        PROVE  SoloInv'
    <2>1. Contents'
      BY <1>2, ContentsKept DEF SoloInv
    <2>2. \A p \in Proc : UpToDate(p)'
      BY <1>2 DEF SoloInv, UpToDate
    <2> QED
      BY <1>1, <2>1, <2>2 DEF SoloInv
  <1>3. ASSUME NEW p \in Proc, UpToDate(p)', Contents'
        PROVE  SoloInv'
    <2>1. \A q \in Proc : q = p
      BY DEF OneAtATime
    <2>2. \A q \in Proc : UpToDate(q)'
      BY <1>3, <2>1
    <2> QED
      BY <1>1, <1>3, <2>2 DEF SoloInv
  <1>4. ASSUME NEW p \in Proc, pc'[p] \in {"idle", "done"},
               UNCHANGED <<keys, auths, policies, status, pending, commits>>
        PROVE  SoloInv'
    <2>1. UpToDate(p)'
      BY <1>4 DEF UpToDate
    <2>2. Contents'
      BY <1>4, ContentsKept DEF SoloInv
    <2> QED
      BY <1>3, <2>1, <2>2
  <1>5. ASSUME NEW p \in Proc, NEW j \in Jobs, Begin(p, j)
        PROVE  SoloInv'
    <2>1. UpToDate(p)'
      BY <1>5, BeginUpToDate DEF SoloInv
    <2>2. Contents'
      BY <1>5, ContentsKept DEF SoloInv, Begin
    <2> QED
      BY <1>3, <2>1, <2>2
  <1>6. ASSUME NEW p \in Proc, Idle(p) PROVE pc'[p] \in {"idle", "done"}
    BY <1>6 DEF Idle, SoloInv, AuthInv, Locals
  <1>7. CASE UNCHANGED vars
    BY <1>2, <1>7 DEF vars, avars
  <1>8. CASE (TrustInit \/ TrustInitKilled \/ GovernanceUpgrade) /\ UNCHANGED evars
    BY <1>2, <1>8 DEF TrustInit, TrustInitKilled, GovernanceUpgrade
  <1>9. CASE EnterpriseEnable \/ EnterpriseEnableKilled \/ ApprovalRequest \/ ApprovalSign
    BY <1>2, <1>9 DEF EnterpriseEnable, EnterpriseEnableKilled, ApprovalRequest,
                      ApprovalSign, avars
  <1>10. ASSUME NEW p \in Proc, Plain(p) PROVE SoloInv'
    BY <1>5, <1>10, EnterpriseAssumption DEF Plain
  <1>11. ASSUME NEW p \in Proc, Approved(p) PROVE SoloInv'
    <2>1. PICK j \in Jobs, id \in {approvals[i].id : i \in 1..Len(approvals)} :
            Begin(p, j) \/ ApprovedRotateRecovered(p, j, id)
      BY <1>11 DEF Approved, ApprovedRegisterPolicy, ApprovedRevokePolicy,
                   ApprovedCommitTrust, ApprovedRotateKey
    <2>2. CASE Begin(p, j)
      BY <1>5, <2>2
    <2>3. CASE ApprovedRotateRecovered(p, j, id)
      <3>1. pc'[p] = "done" /\ UNCHANGED <<keys, auths, policies, status, pending, commits>>
        BY <2>3 DEF ApprovedRotateRecovered, SoloInv, AuthInv, Locals
      <3> QED
        BY <1>4, <3>1
    <2> QED
      BY <2>1, <2>2, <2>3
  <1>12. ASSUME NEW p \in Proc, PlainReturn(p) \/ Finalize(p) \/ FinalizeRefused(p)
         PROVE  SoloInv'
    <2>1. Idle(p) /\ UNCHANGED <<keys, auths, policies, status, pending, commits>>
      BY <1>12 DEF PlainReturn, Finalize, FinalizeRefused, Return
    <2> QED
      BY <1>4, <1>6, <2>1
  <1>13. ASSUME NEW p \in Proc, Work(p) PROVE SoloInv'
    <2>1. CASE KeyRefused(p) \/ AuthorizationRefused(p) \/ Kill(p) \/ KillInAppend(p)
      <3>1. Idle(p) /\ UNCHANGED <<keys, auths, policies, status, pending, commits>>
        BY <2>1 DEF KeyRefused, AuthorizationRefused, Kill, KillInAppend
      <3> QED
        BY <1>4, <1>6, <3>1
    <2>2. CASE KeyBootstrap(p) \/ KeyRegister(p) \/ KeyRotate(p) \/ KeyRevoke(p)
      <3>1. PICK cmd \in KeyCommand : AppendKey(p, cmd)
        BY <2>2 DEF KeyBootstrap, KeyRegister, KeyRotate, KeyRevoke, KeyCommand
      <3> QED
        BY <1>3, <3>1, AppendKeyUpToDate
    <2>3. CASE OpenPolicies(p)
      BY <1>3, <2>3, OpenUpToDate
    <2>4. CASE AppendOnce(p)
      BY <1>3, <2>4, AppendOnceUpToDate
    <2>5. CASE PolicyRegister(p)
      BY <1>3, <2>5, PolicyRegisterUpToDate
    <2>6. CASE PolicyRevoke(p)
      BY <1>3, <2>6, PolicyRevokeUpToDate
    <2>7. CASE RecoverPending(p) \/ AnswerFinalized(p) \/ Prepare(p) \/ Commit(p)
               \/ CommitFails(p)
      BY <1>3, <2>7, CoordinatorUpToDate
    <2> QED
      BY <1>13, <2>1, <2>2, <2>3, <2>4, <2>5, <2>6, <2>7 DEF Work
  <1> QED
    BY <1>7, <1>8, <1>9, <1>10, <1>11, <1>12, <1>13 DEF ENext, TrustStep

LEMMA SoloHolds ==
    ASSUME OneAtATime
    PROVE  ESpec => []SoloInv
  <1>1. SoloInv /\ [ENext]_vars => SoloInv'
    BY SoloStep
  <1> QED
    BY <1>1, SoloInit, PTL DEF ESpec

\* SurfaceStaysOpen is an invariant when commands run one after the other,
\* killed wherever: what the writers check leaves nothing that replay or
\* validate_policy_status_bindings refuses.  The hypothesis is needed: two
\* processes that hold the same prefix append two frames with one number.
THEOREM SurfaceIsKeptOpen ==
    ASSUME OneAtATime
    PROVE  ESpec => []SurfaceStaysOpen
  <1>1. SoloInv => SurfaceStaysOpen
    BY DEF SoloInv, Contents, SurfaceStaysOpen, SurfaceOpens, Readable, FileNames, FileOrder
  <1> QED
    BY <1>1, SoloHolds, PTL

\* RevokedBeginsNothing is an invariant when commands run one after the other,
\* killed wherever: a transaction is prepared only by a command that read a
\* status ledger without a revocation of its policy, and recovery, which does
\* not read it, begins none.
THEOREM RevokedPoliciesBeginNothing ==
    ASSUME OneAtATime
    PROVE  ESpec => []RevokedBeginsNothing
  <1>1. SoloInv => RevokedBeginsNothing
    BY DEF SoloInv, Contents, Before, BegunUnrevoked, RevokedBeginsNothing
  <1> QED
    BY <1>1, SoloHolds, PTL
=============================================================================
