--------------------------- MODULE MCTrustCommit ---------------------------
(* Small instances of TrustCommit. *)
EXTENDS TrustCommit, TLC

CONSTANTS r1, r2, d1, d2

Ask(r, op, auth, t, b, p) ==
    [record |-> r, op |-> op, auth |-> auth, time |-> t, by |-> b, policy |-> p]

\* An import policy, one for evidence, one that may not be registered.
Imports  == [id |-> "imports", auth |-> "import", ops |-> {"propose"}]
Evidence == [id |-> "evidence", auth |-> "evidence", ops |-> Operation]
Ranking  == [id |-> "ranking", auth |-> "neutral", ops |-> {"promote"}]
Policies == {Imports, Evidence, Ranking}

Propose(r, t)      == Ask(r, "propose", "import", t, NoRecord, "imports")
Promote(r, t)      == Ask(r, "promote", "evidence", t, NoRecord, "evidence")
Supersede(r, b, t) == Ask(r, "supersede", "evidence", t, b, "evidence")

TwoRecords == {Propose(r1, 1), Propose(r2, 2), Supersede(r1, r2, 3)}
OneRecord  == {Propose(r1, 1), Promote(r1, 2)}
=============================================================================
