----------------------------- MODULE FileLemmas -----------------------------
(***************************************************************************)
(* Lemmas about files that only grow, as sequences of frames and their     *)
(* prefixes, and about the least and the last of a set of positions.  No   *)
(* file is typed more than that: a frame may be anything.                  *)
(***************************************************************************)
EXTENDS Integers, Sequences, FiniteSetsExt, WellFoundedInduction, TLAPS

\* A file of frames, whatever the frames are.
List(s) == \E S : s \in Seq(S)

\* t has the frames of s, and perhaps more.
Extends(s, t) ==
    /\ Len(s) <= Len(t)
    /\ \A i \in 1..Len(s) : t[i] = s[i]
    /\ \A n \in 0..Len(s) : SubSeq(t, 1, n) = SubSeq(s, 1, n)

\* What the first frames of a file are.
LEMMA Prefix ==
    ASSUME NEW s, List(s), NEW n \in 0..Len(s)
    PROVE  /\ List(SubSeq(s, 1, n))
           /\ Len(SubSeq(s, 1, n)) = n
           /\ \A i \in 1..n : SubSeq(s, 1, n)[i] = s[i]
           /\ n = Len(s) => SubSeq(s, 1, n) = s
  <1>1. PICK S : s \in Seq(S)
    BY DEF List
  <1>2. SubSeq(s, 1, n) = [i \in 1..n |-> s[i]]
    BY <1>1
  <1>3. SubSeq(s, 1, n) \in Seq(S)
    BY <1>1
  <1>4. n = Len(s) => SubSeq(s, 1, n) = s
    BY <1>1, <1>2
  <1> QED
    BY <1>1, <1>2, <1>3, <1>4 DEF List

\* A file is empty when it has no frame.
LEMMA ListLength ==
    ASSUME NEW s, List(s)
    PROVE  Len(s) \in Nat /\ (s = <<>> <=> Len(s) = 0)
  BY DEF List

\* An append leaves every prefix alone.
LEMMA FileAppended ==
    ASSUME NEW s, List(s), NEW e
    PROVE  /\ List(Append(s, e))
           /\ Len(Append(s, e)) = Len(s) + 1
           /\ Append(s, e)[Len(s) + 1] = e
           /\ \A i \in 1..Len(s) : Append(s, e)[i] = s[i]
           /\ SubSeq(Append(s, e), 1, Len(s)) = s
           /\ \A n \in 0..Len(s) : SubSeq(Append(s, e), 1, n) = SubSeq(s, 1, n)
           /\ Extends(s, Append(s, e))
  <1>1. PICK S : s \in Seq(S)
    BY DEF List
  <1>2. s \in Seq(S \cup {e}) /\ e \in S \cup {e}
    BY <1>1
  <1> DEFINE t == Append(s, e)
  <1>3. t \in Seq(S \cup {e}) /\ Len(t) = Len(s) + 1 /\ t[Len(s) + 1] = e
        /\ \A i \in 1..Len(s) : t[i] = s[i]
    BY <1>2
  <1>4. List(t)
    BY <1>3 DEF List
  <1> HIDE DEF t
  <1>5. ASSUME NEW n \in 0..Len(s)
        PROVE  SubSeq(t, 1, n) = SubSeq(s, 1, n)
    <2>1. SubSeq(t, 1, n) = [i \in 1..n |-> t[i]]
      BY <1>2, <1>3
    <2>2. SubSeq(s, 1, n) = [i \in 1..n |-> s[i]]
      BY <1>2
    <2> QED
      BY <1>2, <1>3, <2>1, <2>2
  <1>6. Len(s) \in 0..Len(s)
    BY <1>2
  <1>7. SubSeq(t, 1, Len(s)) = s
    BY <1>5, <1>6, Prefix
  <1> QED
    BY <1>2, <1>3, <1>4, <1>5, <1>7 DEF Extends, t

\* Nothing is a growth too.
LEMMA ExtendsItself ==
    ASSUME NEW s, List(s)
    PROVE  Extends(s, s)
  BY ListLength DEF Extends

\* What was in a file is in the file it has grown to.
LEMMA Kept ==
    ASSUME NEW s, NEW t, List(s), List(t), Extends(s, t)
    PROVE  /\ Len(s) \in Nat /\ Len(t) \in Nat /\ Len(s) <= Len(t)
           /\ \A i \in 1..Len(s) : i \in 1..Len(t) /\ t[i] = s[i]
           /\ \A n \in 0..Len(s) : n \in 0..Len(t) /\ SubSeq(t, 1, n) = SubSeq(s, 1, n)
  <1>1. Len(s) \in Nat /\ Len(t) \in Nat
    BY ListLength
  <1>2. /\ Len(s) <= Len(t)
        /\ \A i \in 1..Len(s) : t[i] = s[i]
        /\ \A n \in 0..Len(s) : SubSeq(t, 1, n) = SubSeq(s, 1, n)
    BY Zenon DEF Extends
  <1>3. \A i \in 1..Len(s) : i \in 1..Len(t)
    BY <1>1, <1>2
  <1>4. \A n \in 0..Len(s) : n \in 0..Len(t)
    BY <1>1, <1>2
  <1> QED
    BY <1>1, <1>2, <1>3, <1>4, Zenon

\* A nonempty set of naturals has a least member: the one form of induction that
\* the provers can be given.
LEMMA Least ==
    ASSUME NEW T \in SUBSET Nat, T # {}
    PROVE  \E x \in T : \A y \in T : x <= y
  <1> DEFINE R == {ss \in Nat \X Nat : ss[1] < ss[2]}
  <1>1. IsWellFoundedOn(R, Nat)
    BY NatLessThanWellFounded, Zenon DEF OpToRel
  <1>2. PICK x \in T : \A y \in T : ~(<<y, x>> \in R)
    <2> HIDE DEF R
    <2> QED
      BY <1>1, WFMin
  <1>3. ASSUME NEW y \in T PROVE x <= y
    <2>1. <<y, x>> \in R <=> y < x
      OBVIOUS
    <2> QED
      BY <1>2, <2>1
  <1> QED
    BY <1>3

\* A nonempty set of positions has a last member.
LEMMA Greatest ==
    ASSUME NEW n \in Nat, NEW T \in SUBSET (1..n), T # {}
    PROVE  \E x \in T : \A y \in T : y <= x
  <1> DEFINE U == {n - x : x \in T}
  <1>1. U \in SUBSET Nat /\ U # {}
    <2>1. \A x \in T : x \in 1..n /\ n - x \in Nat
      OBVIOUS
    <2> QED
      BY <2>1
  <1>2. PICK u \in U : \A v \in U : u <= v
    BY <1>1, Least
  <1>3. PICK x \in T : u = n - x
    OBVIOUS
  <1>4. ASSUME NEW y \in T PROVE y <= x
    <2>1. n - y \in U
      OBVIOUS
    <2> QED
      BY <1>2, <1>3, <2>1
  <1> QED
    BY <1>4

\* Min of a nonempty set of naturals is its least member.
LEMMA MinIsLeast ==
    ASSUME NEW T \in SUBSET Nat, T # {}
    PROVE  Min(T) \in T /\ \A y \in T : Min(T) <= y
  <1>1. PICK x \in T : \A y \in T : x <= y
    BY Least
  <1> QED
    BY <1>1 DEF Min

\* Max of a nonempty set of positions is its last member.
LEMMA MaxIsLast ==
    ASSUME NEW n \in Nat, NEW T \in SUBSET (1..n), T # {}
    PROVE  /\ Max(T) \in T
           /\ \A y \in T : y <= Max(T)
           /\ \A x \in T : (\A y \in T : y <= x) => Max(T) = x
  <1>1. PICK x \in T : \A y \in T : y <= x
    BY Greatest
  <1>2. \A y \in T : x >= y
    BY <1>1
  <1>3. Max(T) \in T /\ \A y \in T : Max(T) >= y
    BY <1>2 DEF Max
  <1>4. \A a, b \in T : a >= b /\ b >= a => a = b
    OBVIOUS
  <1> QED
    BY <1>3, <1>4

=============================================================================
