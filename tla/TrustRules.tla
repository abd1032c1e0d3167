----------------------------- MODULE TrustRules -----------------------------
(***************************************************************************)
(* The trust model of ultraballoondb-trust: which transition a ledger      *)
(* accepts next, and the frame it makes of it.  A ledger is the sequence   *)
(* of its frames; the snapshot of a record is its last frame.              *)
(*                                                                         *)
(* SHA-256 is taken to be injective.  The transition digest of a frame     *)
(* covers the frame and, through previous_transition_digest, every frame   *)
(* before it: head_digest is the ledger itself and is not kept apart.      *)
(***************************************************************************)
EXTENDS Integers, Sequences

CONSTANTS
    Record,     \* record ids
    NoRecord,   \* no superseding_record_id
    Digest,     \* canonical record digests
    Untracked   \* no previous_state

ASSUME TrustAssumption ==
    /\ NoRecord \notin Record
    /\ Untracked \notin [maturity : 1..4,
                         validity : {"active", "disputed", "expired",
                                     "revoked", "superseded"}]

Operation == {"propose", "promote", "dispute", "revoke", "expire", "supersede"}

\* RANKER, WAVE, SIMILARITY, FREQUENCY, LLM and RIGOR_MULTIPLIER are treated
\* alike: "neutral".
Authority == {"evidence", "import", "neutral"}

\* RAW, HYPOTHESIS, CANDIDATE, VERIFIED, by their codes.
Maturity == 1..4
Validity == {"active", "disputed", "expired", "revoked", "superseded"}

TrustState == [maturity : Maturity, validity : Validity]

RawActive == [maturity |-> 1, validity |-> "active"]

Terminal(s) == s.validity \in {"revoked", "superseded"}

\* TransitionIntent.  Evidence, policy and reason are strings that
\* validate_common_intent only asks to be present.
Intent ==
    [record : Record, op : Operation, auth : Authority, digest : Digest,
     time : Nat, by : Record \cup {NoRecord}]

Frame ==
    [seq : Nat, was : TrustState \cup {Untracked}, next : TrustState,
     intent : Intent]

-----------------------------------------------------------------------------

\* The frames of record r in ledger l.
Of(l, r) == {i \in 1..Len(l) : l[i].intent.record = r}

Tracked(l, r) == Of(l, r) # {}

\* states.get(record_id): the frame that wrote the snapshot last.
Snapshot(l, r) == l[CHOOSE i \in Of(l, r) : \A j \in Of(l, r) : j <= i]

StateOf(l, r) == IF Tracked(l, r) THEN Snapshot(l, r).next ELSE Untracked

LastTime(l) == IF l = <<>> THEN 0 ELSE l[Len(l)].intent.time

Authorized(x) == x.auth = "evidence" \/ (x.auth = "import" /\ x.op = "propose")

\* Later transitions use the digest bound by PROPOSE.
DigestBinds(l, x) ==
    Tracked(l, x.record) => Snapshot(l, x.record).intent.digest = x.digest

\* Mutant: the superseding record may be terminal.
SupersedableByAny(l, x) == x.by \in Record \ {x.record} /\ Tracked(l, x.by)

\* The superseding record is another tracked record that is not terminal.
Supersedable(l, x) ==
    /\ x.by \in Record \ {x.record}
    /\ Tracked(l, x.by)
    /\ ~Terminal(StateOf(l, x.by))

\* Mutant: REVOKE and SUPERSEDE of a terminal record are let through.
OperationLegalAlways(l, x) ==
    LET s == StateOf(l, x.record)
    IN  /\ (x.op = "propose") = (s = Untracked)
        /\ x.op = "promote" => s.validity = "active" /\ s.maturity < 4
        /\ x.op = "dispute" => s.validity = "active"
        /\ x.op = "expire" => s.validity \in {"active", "disputed"}
        /\ IF x.op = "supersede" THEN Supersedable(l, x) ELSE x.by = NoRecord

OperationLegal(l, x) ==
    LET s == StateOf(l, x.record)
    IN  /\ (x.op = "propose") = (s = Untracked)
        /\ x.op = "promote" => s.validity = "active" /\ s.maturity < 4
        /\ x.op = "dispute" => s.validity = "active"
        /\ x.op = "expire" => s.validity \in {"active", "disputed"}
        /\ x.op \in {"revoke", "supersede"} => ~Terminal(s)
        /\ IF x.op = "supersede" THEN Supersedable(l, x) ELSE x.by = NoRecord

\* Mutant: a promotion goes straight to VERIFIED.
NextStateSkips(s, op) ==
    CASE op = "propose"   -> RawActive
      [] op = "promote"   -> [s EXCEPT !.maturity = 4]
      [] op = "dispute"   -> [s EXCEPT !.validity = "disputed"]
      [] op = "revoke"    -> [s EXCEPT !.validity = "revoked"]
      [] op = "expire"    -> [s EXCEPT !.validity = "expired"]
      [] op = "supersede" -> [s EXCEPT !.validity = "superseded"]

NextState(s, op) ==
    CASE op = "propose"   -> RawActive
      [] op = "promote"   -> [s EXCEPT !.maturity = @ + 1]
      [] op = "dispute"   -> [s EXCEPT !.validity = "disputed"]
      [] op = "revoke"    -> [s EXCEPT !.validity = "revoked"]
      [] op = "expire"    -> [s EXCEPT !.validity = "expired"]
      [] op = "supersede" -> [s EXCEPT !.validity = "superseded"]

\* The checks of apply before it writes: the timestamp and
\* validate_semantic_transition.
Accepts(l, x) ==
    /\ x.time > LastTime(l)
    /\ Authorized(x)
    /\ DigestBinds(l, x)
    /\ OperationLegal(l, x)

\* The frame apply writes behind l.
FrameOf(l, x) ==
    [seq |-> Len(l) + 1, was |-> StateOf(l, x.record),
     next |-> NextState(StateOf(l, x.record), x.op), intent |-> x]

\* replay_bytes at frame i, when the frames before it replayed: sequence,
\* timestamp, previous_state, semantics and next_state.  A ledger's frames
\* are written behind the frames their writer replayed or wrote, so a frame
\* with the expected sequence also has the expected previous digest.
FrameReplays(l, i) ==
    LET before == SubSeq(l, 1, i - 1)
    IN  Accepts(before, l[i].intent) /\ l[i] = FrameOf(before, l[i].intent)
=============================================================================
