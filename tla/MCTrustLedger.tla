--------------------------- MODULE MCTrustLedger ---------------------------
(* Small instances of TrustLedger. *)
EXTENDS TrustLedger, TLC

CONSTANTS r1, r2, d1, d2, p1, p2, MaxTime

Make(r, op, auth, d, t, b) ==
    [record |-> r, op |-> op, auth |-> auth, digest |-> d, time |-> t, by |-> b]

\* Proposals may come from an import; everything may be tried with evidence;
\* nothing is gained from a neutral authority or with another digest.
Proposals ==
    {Make(r, "propose", a, d, t, NoRecord) :
        r \in Record, a \in {"evidence", "import"}, d \in Digest,
        t \in 1..MaxTime}

Changes ==
    {Make(r, op, a, d, t, NoRecord) :
        r \in Record, op \in Operation \ {"propose", "supersede"},
        a \in Authority, d \in Digest, t \in 1..MaxTime}

Supersessions ==
    {Make(r, "supersede", "evidence", d, t, b) :
        r \in Record, d \in Digest, t \in 1..MaxTime, b \in Record}

AllIntents == Proposals \cup Changes \cup Supersessions

\* For two processes: operations that exclude each other.
RaceIntents ==
    {Make(r, op, "evidence", d1, t, NoRecord) :
        r \in Record, op \in {"propose", "promote", "revoke"}, t \in 1..MaxTime}
    \cup {Make(r, "supersede", "evidence", d1, t, b) :
        r \in Record, t \in 1..MaxTime, b \in Record}

Symmetric == Permutations(Record) \cup Permutations(Digest) \cup Permutations(Proc)
=============================================================================
