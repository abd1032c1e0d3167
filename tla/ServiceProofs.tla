---------------------------- MODULE ServiceProofs ---------------------------
(***************************************************************************)
(* Theorems about services around the database that share no state with    *)
(* each other: the daemon with its audited backend, backup and restore, and*)
(* migration.                                                              *)
(***************************************************************************)
EXTENDS DaemonService, BackupRestore, Migration, FileLemmas, FiniteSetTheorems

-----------------------------------------------------------------------------
(* The daemon and its audited backend: any hosts, frames, limits,          *)
(* identifiers and number of sessions.                                     *)

\* The handler has not called the backend for its request.
NotExecuted ==
    step \in {"health", "policy"} \/ (step = "record" /\ ~AfterExecution(pending))

SessionType ==
    [state : {"AwaitHello", "Ready", "Closed"}, last : Nat, count : Nat]

\* An identifier is executed and answered once: those of the past are below
\* the one being handled.
IdsInv ==
    /\ session \in SessionType
    /\ \A i \in 1..Len(calls) : calls[i].id \in Nat /\ calls[i].id <= session.last
    /\ \A i, j \in 1..Len(calls) : calls[i].id = calls[j].id => i = j
    /\ \A a \in answers : a.id \in Nat /\ a.id <= session.last
    /\ step # "wait" => request.id \in Nat
    /\ step \in {"health", "policy", "record"} => request.id = session.last
    /\ step = "reply" => request.id <= session.last
    /\ NotExecuted =>
          /\ \A i \in 1..Len(calls) : calls[i].id < request.id
          /\ \A a \in answers : a.id < request.id

Steps == {"wait", "handle", "health", "policy", "record", "reply"}

StepInv ==
    /\ step \in Steps
    /\ link = "down" => step = "wait"
    /\ step = "policy" => request.kind \in {"READ", "WRITE"}
    /\ step = "health" => request.kind \in {"WRITE", "HEALTH"}

\* Request id of that kind was executed, successfully; it is in the audit file.
Executed(done, id, kind) ==
    \E i \in 1..Len(done) : done[i].id = id /\ done[i].ok /\ done[i].op = kind

Audited(file, id, kind) ==
    \E k \in 1..Len(file) :
        file[k].id = id /\ file[k].op = kind /\ file[k].reason = "OK"

Unseen(done, id) == \A i \in 1..Len(done) : done[i].id # id

\* What an answer says of its request.
TrueOf(done, file, id, kind, what) ==
    /\ what = "RESULT" =>
          Executed(done, id, kind) /\ (host.observed => Audited(file, id, kind))
    /\ what \in DidNothing => Unseen(done, id)

\* What the record under way says, and what may be answered after it.
PendingInv ==
    step = "record" =>
        /\ host.observed /\ ~wrapper.failed
        /\ pending.id = request.id
        /\ pending.ok = "proceed" => request.kind = "WRITE" /\ ~AfterExecution(pending)
        /\ pending.ok = "RESULT" =>
              /\ pending.op = request.kind /\ pending.reason = "OK"
              /\ Executed(calls, request.id, request.kind)
        /\ pending.ok \in DidNothing => ~AfterExecution(pending)
        /\ pending.err \notin {"proceed", "RESULT"}
        /\ pending.err \in DidNothing => ~AfterExecution(pending)

AnswersInv ==
    /\ \A a \in answers : TrueOf(calls, audit, a.id, a.kind, a.what)
    /\ step = "reply" =>
          answer.what = "1002" \/ TrueOf(calls, audit, request.id, request.kind, answer.what)

WrapperType == [failed : BOOLEAN, events : Nat, next : Nat, prev : Nat \X Nat]

\* The wrapper stands behind the last record of a file that replays.
AuditInv ==
    /\ List(audit)
    /\ wrapper \in WrapperType
    /\ ~wrapper.failed /\ link # "down" =>
          /\ StrictReplay(audit)
          /\ wrapper.next = Len(audit) + 1
          /\ wrapper.prev = IF Len(audit) = 0 THEN <<0, 0>>
                            ELSE <<Len(audit), audit[Len(audit)].id>>
    /\ AuditReplays

\* The records and the calls, one by one.
ToldInv ==
    /\ List(calls)
    /\ host.observed =>
          LET n == Cardinality(ExecutionsIn(audit)) IN
          /\ n <= Len(calls) /\ Len(calls) <= n + 1
          /\ \A i \in ExecutionsIn(audit) : TellsOf(audit, i, calls)
          /\ step = "record" /\ AfterExecution(pending) =>
                /\ Len(calls) = n + 1
                /\ calls[n + 1].id = pending.id /\ calls[n + 1].op = pending.op
          /\ ~wrapper.failed /\ link # "down"
             /\ ~(step = "record" /\ AfterExecution(pending)) => Len(calls) = n

DaemonInv == IdsInv /\ StepInv /\ PendingInv /\ AnswersInv /\ AuditInv /\ ToldInv

-----------------------------------------------------------------------------
(* The audit file, one record longer. *)

Grown(s, e, t) ==
    /\ List(t) /\ Len(t) = Len(s) + 1 /\ Len(s) \in Nat
    /\ t[Len(s) + 1] = e
    /\ \A i \in 1..Len(s) : t[i] = s[i]
    /\ SubSeq(t, 1, Len(s)) = s
    /\ \A i \in 1..Len(t) : i \in 1..Len(s) \/ i = Len(s) + 1

LEMMA Grows ==
    ASSUME NEW s, List(s), NEW e, NEW t, t = Append(s, e)
    PROVE  Grown(s, e, t)
  <1>1. /\ List(t) /\ Len(t) = Len(s) + 1 /\ Len(s) \in Nat
        /\ t[Len(s) + 1] = e
        /\ \A i \in 1..Len(s) : t[i] = s[i]
        /\ SubSeq(t, 1, Len(s)) = s
    BY FileAppended, ListLength
  <1>2. \A i \in 1..Len(t) : i \in 1..Len(s) \/ i = Len(s) + 1
    BY <1>1
  <1> QED
    BY <1>1, <1>2 DEF Grown

LEMMA ExecutionsFinite ==
    ASSUME NEW f, List(f)
    PROVE  /\ IsFiniteSet(ExecutionsIn(f))
           /\ Cardinality(ExecutionsIn(f)) \in Nat
           /\ \A i : IsFiniteSet(ExecutionsIn(f) \cap 1..i)
  <1>1. IsFiniteSet(1..Len(f))
    BY ListLength, FS_Interval
  <1>2. ExecutionsIn(f) \subseteq 1..Len(f)
    BY DEF ExecutionsIn
  <1>3. IsFiniteSet(ExecutionsIn(f))
    BY <1>1, <1>2, FS_Subset
  <1>4. \A i : IsFiniteSet(ExecutionsIn(f) \cap 1..i)
    <2> TAKE i
    <2>1. ExecutionsIn(f) \cap 1..i \subseteq ExecutionsIn(f)
      OBVIOUS
    <2> QED
      BY <1>3, <2>1, FS_Subset
  <1> QED
    BY <1>3, <1>4, FS_CardinalityType

\* One more record: of no execution, or of one more.
LEMMA ExecutionsGrow ==
    ASSUME NEW f, List(f), NEW e, NEW g, Grown(f, e, g)
    PROVE  /\ ~AfterExecution(e) => ExecutionsIn(g) = ExecutionsIn(f)
           /\ AfterExecution(e) =>
                 /\ ExecutionsIn(g) = ExecutionsIn(f) \cup {Len(f) + 1}
                 /\ Cardinality(ExecutionsIn(g)) = Cardinality(ExecutionsIn(f)) + 1
           /\ \A i \in 1..Len(f) :
                 ExecutionsIn(g) \cap 1..i = ExecutionsIn(f) \cap 1..i
           /\ ExecutionsIn(g) \cap 1..(Len(f) + 1) = ExecutionsIn(g)
  <1>1. /\ Len(g) = Len(f) + 1 /\ Len(f) \in Nat
        /\ g[Len(f) + 1] = e
        /\ \A i \in 1..Len(f) : g[i] = f[i]
        /\ \A i \in 1..Len(g) : i \in 1..Len(f) \/ i = Len(f) + 1
    BY DEF Grown
  <1>2. Len(f) + 1 \in 1..Len(g) /\ Len(f) + 1 \notin 1..Len(f)
        /\ \A i \in 1..Len(f) : i \in 1..Len(g)
    BY <1>1
  <1>3. ~AfterExecution(e) => ExecutionsIn(g) = ExecutionsIn(f)
    BY <1>1, <1>2 DEF ExecutionsIn
  <1>4. AfterExecution(e) => ExecutionsIn(g) = ExecutionsIn(f) \cup {Len(f) + 1}
    BY <1>1, <1>2 DEF ExecutionsIn
  <1>5. Len(f) + 1 \notin ExecutionsIn(f)
    BY <1>2 DEF ExecutionsIn
  <1>6. ASSUME AfterExecution(e)
        PROVE  Cardinality(ExecutionsIn(g)) = Cardinality(ExecutionsIn(f)) + 1
    <2>1. IsFiniteSet(ExecutionsIn(f))
      BY ExecutionsFinite
    <2> QED
      BY <1>4, <1>5, <1>6, <2>1, FS_AddElement
  <1>7. ASSUME NEW i \in 1..Len(f)
        PROVE  ExecutionsIn(g) \cap 1..i = ExecutionsIn(f) \cap 1..i
    <2>1. \A k \in 1..i : k \in 1..Len(f) /\ k \in 1..Len(g)
      BY <1>1
    <2> QED
      BY <1>1, <2>1 DEF ExecutionsIn
  <1>8. ExecutionsIn(g) \cap 1..(Len(f) + 1) = ExecutionsIn(g)
    BY <1>1 DEF ExecutionsIn
  <1> QED
    BY <1>3, <1>4, <1>6, <1>7, <1>8

\* The ranks of the records are among the calls.
LEMMA Ranks ==
    ASSUME NEW f, List(f), NEW i \in ExecutionsIn(f)
    PROVE  Cardinality(ExecutionsIn(f) \cap 1..i) \in 1..Cardinality(ExecutionsIn(f))
  <1> DEFINE A == ExecutionsIn(f) \cap 1..i
  <1>1. i \in A
    BY ListLength DEF ExecutionsIn
  <1>2. IsFiniteSet(A) /\ IsFiniteSet(ExecutionsIn(f)) /\ A \subseteq ExecutionsIn(f)
    BY ExecutionsFinite
  <1>3. Cardinality(A) <= Cardinality(ExecutionsIn(f))
    BY <1>2, FS_Subset
  <1>4. Cardinality(A) # 0 /\ Cardinality(A) \in Nat
        /\ Cardinality(ExecutionsIn(f)) \in Nat
    BY <1>1, <1>2, FS_EmptySet, FS_CardinalityType
  <1> QED
    BY <1>3, <1>4

\* The records keep telling of their calls, whatever is recorded or executed.
LEMMA TellsGrow ==
    ASSUME NEW f, List(f), NEW e, NEW g, Grown(f, e, g),
           NEW cs, NEW n, n = Cardinality(ExecutionsIn(f)),
           \A i \in ExecutionsIn(f) : TellsOf(f, i, cs),
           AfterExecution(e) => cs[n + 1].id = e.id /\ cs[n + 1].op = e.op
    PROVE  \A i \in ExecutionsIn(g) : TellsOf(g, i, cs)
  <1>1. /\ Len(f) \in Nat /\ g[Len(f) + 1] = e
        /\ \A i \in 1..Len(f) : g[i] = f[i]
    BY DEF Grown
  <1>2. /\ ~AfterExecution(e) => ExecutionsIn(g) = ExecutionsIn(f)
        /\ AfterExecution(e) =>
                 /\ ExecutionsIn(g) = ExecutionsIn(f) \cup {Len(f) + 1}
                 /\ Cardinality(ExecutionsIn(g)) = Cardinality(ExecutionsIn(f)) + 1
        /\ \A i \in 1..Len(f) :
                 ExecutionsIn(g) \cap 1..i = ExecutionsIn(f) \cap 1..i
        /\ ExecutionsIn(g) \cap 1..(Len(f) + 1) = ExecutionsIn(g)
    BY ExecutionsGrow
  <1> SUFFICES ASSUME NEW i \in ExecutionsIn(g)
               PROVE  TellsOf(g, i, cs)
    OBVIOUS
  <1>3. CASE i \in ExecutionsIn(f)
    <2>1. i \in 1..Len(f) /\ g[i] = f[i]
      BY <1>1, <1>3 DEF ExecutionsIn
    <2>2. ExecutionsIn(g) \cap 1..i = ExecutionsIn(f) \cap 1..i
      BY <1>2, <2>1
    <2>3. TellsOf(f, i, cs)
      BY <1>3
    <2> QED
      BY <2>1, <2>2, <2>3 DEF TellsOf
  <1>4. CASE AfterExecution(e) /\ i = Len(f) + 1
    <2>1. Cardinality(ExecutionsIn(g) \cap 1..i) = n + 1
      BY <1>2, <1>4
    <2> QED
      BY <1>1, <1>4, <2>1 DEF TellsOf
  <1> QED
    BY <1>2, <1>3, <1>4

LEMMA TellsKept ==
    ASSUME NEW f, List(f), NEW cs, NEW e, NEW ds, Grown(cs, e, ds),
           Cardinality(ExecutionsIn(f)) <= Len(cs),
           \A i \in ExecutionsIn(f) : TellsOf(f, i, cs)
    PROVE  \A i \in ExecutionsIn(f) : TellsOf(f, i, ds)
  <1> SUFFICES ASSUME NEW i \in ExecutionsIn(f)
               PROVE  TellsOf(f, i, ds)
    OBVIOUS
  <1> DEFINE k == Cardinality(ExecutionsIn(f) \cap 1..i)
  <1>1. k \in 1..Cardinality(ExecutionsIn(f))
    BY Ranks
  <1>2. Len(cs) \in Nat /\ Cardinality(ExecutionsIn(f)) \in Nat
    BY ExecutionsFinite DEF Grown
  <1> HIDE DEF k
  <1>3. k \in 1..Len(cs)
    BY <1>1, <1>2
  <1>4. ds[k] = cs[k]
    BY <1>3 DEF Grown
  <1> QED
    BY <1>4 DEF TellsOf, k

\* append behind a file that replays.
LEMMA ReplayGrows ==
    ASSUME NEW f, List(f), StrictReplay(f), NEW e, NEW g, Grown(f, e, g), e.whole,
           e.seq = Len(f) + 1,
           e.prev = IF Len(f) = 0 THEN <<0, 0>> ELSE <<Len(f), f[Len(f)].id>>
    PROVE  StrictReplay(g)
  <1>1. /\ Len(g) = Len(f) + 1 /\ Len(f) \in Nat
        /\ g[Len(f) + 1] = e
        /\ \A i \in 1..Len(f) : g[i] = f[i]
        /\ \A i \in 1..Len(g) : i \in 1..Len(f) \/ i = Len(f) + 1
    BY DEF Grown
  <1> SUFFICES ASSUME NEW i \in 1..Len(g)
               PROVE  /\ g[i].whole /\ g[i].seq = i
                      /\ g[i].prev = IF i = 1 THEN <<0, 0>> ELSE <<i - 1, g[i - 1].id>>
    BY DEF StrictReplay
  <1>2. CASE i \in 1..Len(f)
    <2>1. g[i] = f[i] /\ (i # 1 => g[i - 1] = f[i - 1])
      BY <1>1, <1>2
    <2> QED
      BY <1>2, <2>1 DEF StrictReplay
  <1>3. CASE i = Len(f) + 1
    <2>1. g[i] = e /\ i - 1 = Len(f) /\ (i = 1 <=> Len(f) = 0)
      BY <1>1, <1>3
    <2>2. i # 1 => g[i - 1] = f[Len(f)]
      BY <1>1, <1>3, <2>1
    <2> QED
      BY <1>3, <2>1, <2>2
  <1> QED
    BY <1>1, <1>2, <1>3

LEMMA LastOfGrown ==
    ASSUME NEW f, List(f), NEW e, NEW g, g = Append(f, e)
    PROVE  Front(g) = f /\ Last(g) = e
  <1>1. Grown(f, e, g)
    BY Grows
  <1>2. Len(g) - 1 = Len(f)
    BY <1>1 DEF Grown
  <1> QED
    BY <1>1, <1>2 DEF Grown, Front, Last
-----------------------------------------------------------------------------
(* The actions. *)

\* Nothing was executed or answered for identifier id.
Above(done, told, id) ==
    /\ \A i \in 1..Len(done) : done[i].id < id
    /\ \A a \in told : a.id < id

LEMMA AuditUntouched ==
    ASSUME AuditInv, UNCHANGED <<wrapper, audit>>, link = "down" => link' = "down"
    PROVE  AuditInv'
  <1>1. AuditReplays'
    BY DEF AuditInv, AuditReplays
  <1> QED
    BY <1>1 DEF AuditInv

LEMMA ToldUntouched ==
    ASSUME ToldInv, UNCHANGED <<host, wrapper, audit, calls>>,
           link = "down" => link' = "down",
           step # "record" \/ UNCHANGED <<step, pending>>,
           step' = "record" => UNCHANGED <<step, pending>> \/ ~AfterExecution(pending')
    PROVE  ToldInv'
  <1> DEFINE n == Cardinality(ExecutionsIn(audit))
  <1>1. n' = n
    OBVIOUS
  <1>2. ASSUME host.observed
        PROVE  /\ n <= Len(calls) /\ Len(calls) <= n + 1
               /\ \A i \in ExecutionsIn(audit) : TellsOf(audit, i, calls)
               /\ step = "record" /\ AfterExecution(pending) =>
                     /\ Len(calls) = n + 1
                     /\ calls[n + 1].id = pending.id /\ calls[n + 1].op = pending.op
               /\ ~wrapper.failed /\ link # "down"
                  /\ ~(step = "record" /\ AfterExecution(pending)) => Len(calls) = n
    BY <1>2 DEF ToldInv
  <1> HIDE DEF n
  <1>3. ASSUME host.observed
        PROVE  /\ step' = "record" /\ AfterExecution(pending') =>
                     /\ Len(calls) = n + 1
                     /\ calls[n + 1].id = pending'.id /\ calls[n + 1].op = pending'.op
               /\ ~wrapper.failed /\ link' # "down"
                  /\ ~(step' = "record" /\ AfterExecution(pending')) => Len(calls) = n
    BY <1>2, <1>3
  <1> QED
    BY <1>1, <1>2, <1>3 DEF ToldInv, n

\* The session's own work: no call, no record, no answer to the client.
LEMMA HandlerStep ==
    ASSUME DaemonInv, step # "record",
           UNCHANGED <<host, wrapper, audit, calls, answers>>,
           link = "down" => link' = "down",
           session' \in SessionType, session.last <= session'.last,
           StepInv', PendingInv',
           step' # "wait" => request'.id \in Nat,
           step' \in {"health", "policy", "record"} =>
               request'.id = session'.last /\ Above(calls, answers, request'.id),
           step' = "reply" => request'.id <= session'.last,
           step' = "record" => ~AfterExecution(pending'),
           step' = "reply" =>
               /\ answer'.what # "RESULT"
               /\ answer'.what = "1002" \/ Unseen(calls, request'.id)
    PROVE  DaemonInv'
  <1>1. AuditInv'
    BY AuditUntouched DEF DaemonInv
  <1>2. ToldInv'
    BY ToldUntouched DEF DaemonInv
  <1>3. IdsInv'
    <2>1. session.last \in Nat /\ session'.last \in Nat
      BY DEF DaemonInv, IdsInv, SessionType
    <2>2. \A i \in 1..Len(calls) : calls[i].id \in Nat /\ calls[i].id <= session'.last
      BY <2>1 DEF DaemonInv, IdsInv
    <2>3. \A a \in answers : a.id \in Nat /\ a.id <= session'.last
      BY <2>1 DEF DaemonInv, IdsInv
    <2>4. \A i, j \in 1..Len(calls) : calls[i].id = calls[j].id => i = j
      BY DEF DaemonInv, IdsInv
    <2>5. NotExecuted' => Above(calls, answers, request'.id)
      BY DEF NotExecuted
    <2> QED
      BY <2>2, <2>3, <2>4, <2>5 DEF IdsInv, Above
  <1>4. AnswersInv'
    <2>1. \A a \in answers : TrueOf(calls, audit, a.id, a.kind, a.what)
      BY DEF DaemonInv, AnswersInv
    <2> QED
      BY <2>1 DEF AnswersInv, TrueOf
  <1> QED
    BY <1>1, <1>2, <1>3, <1>4 DEF DaemonInv

LEMMA Seen ==
    ASSUME DaemonInv
    PROVE  /\ session \in SessionType /\ session.last \in Nat
           /\ step # "wait" => request.id \in Nat
           /\ step = "handle" /\ NewId(request.id) =>
                 Above(calls, answers, request.id) /\ Unseen(calls, request.id)
           /\ NotExecuted =>
                 Above(calls, answers, request.id) /\ Unseen(calls, request.id)
  <1>1. session \in SessionType /\ session.last \in Nat
    BY DEF DaemonInv, IdsInv, SessionType
  <1>2. /\ \A i \in 1..Len(calls) : calls[i].id \in Nat /\ calls[i].id <= session.last
        /\ \A a \in answers : a.id \in Nat /\ a.id <= session.last
        /\ step # "wait" => request.id \in Nat
        /\ NotExecuted => Above(calls, answers, request.id)
    BY DEF DaemonInv, IdsInv, Above
  <1>3. ASSUME step = "handle", NewId(request.id)
        PROVE  Above(calls, answers, request.id)
    BY <1>1, <1>2, <1>3 DEF NewId, Above
  <1>4. NotExecuted => step # "wait"
    BY DEF NotExecuted
  <1>5. ASSUME Above(calls, answers, request.id), request.id \in Nat
        PROVE  Unseen(calls, request.id)
    BY <1>2, <1>5 DEF Above, Unseen
  <1> QED
    BY <1>1, <1>2, <1>3, <1>4, <1>5

\* Receiving, hanging up, and the errors before an identifier is looked at.
LEMMA LinkSteps ==
    ASSUME DaemonInv, Receive \/ BadFrame \/ Destroy \/ HandleRefused
    PROVE  DaemonInv'
  <1>1. /\ UNCHANGED <<host, session, pending, answer, wrapper, audit, calls, answers>>
        /\ link # "down" \/ link' = "down"
        /\ step \in {"wait", "handle"}
    BY DEF Receive, BadFrame, Destroy, HandleRefused, DaemonInv, StepInv
  <1>2. \/ step' = "handle" /\ link' = link /\ link = "open" /\ request'.id \in Nat
        \/ step' = "wait"
    <2>1. CASE Receive
      <3>1. PICK f \in Frames, id \in 1..MaxId :
               request' = [kind |-> f.kind, size |-> f.size, body |-> f.body, id |-> id]
        BY <2>1 DEF Receive
      <3>2. request'.id \in Nat
        BY <3>1, DaemonConstants
      <3> QED
        BY <2>1, <3>2 DEF Receive
    <2>2. CASE BadFrame \/ Destroy \/ HandleRefused
      BY <2>2 DEF BadFrame, Destroy, HandleRefused, ReturnError
    <2> QED
      BY <2>1, <2>2
  <1>3. StepInv' /\ PendingInv'
    BY <1>2 DEF StepInv, PendingInv, Steps
  <1> QED
    BY <1>1, <1>2, <1>3, Seen, HandlerStep

LEMMA CountedSession ==
    ASSUME DaemonInv, step = "handle", NewId(request.id),
           session' = Counted(session)
           \/ \E st \in {"Ready", "Closed"} :
                 session' = [Counted(session) EXCEPT !.state = st]
    PROVE  /\ session' \in SessionType /\ session'.last = request.id
           /\ session.last <= session'.last
  <1>1. session \in SessionType /\ session.last \in Nat /\ request.id \in Nat
    BY Seen
  <1>2. Counted(session) \in SessionType /\ Counted(session).last = request.id
    <2>1. session.count + 1 \in Nat
      BY <1>1 DEF SessionType
    <2>2. ASSUME NEW c \in Nat
          PROVE  /\ [session EXCEPT !.last = request.id, !.count = c] \in SessionType
                 /\ [session EXCEPT !.last = request.id, !.count = c].last = request.id
      BY <1>1 DEF SessionType
    <2> QED
      BY <2>1, <2>2 DEF Counted
  <1>3. session' \in SessionType /\ session'.last = request.id
    BY <1>2 DEF SessionType
  <1> QED
    BY <1>1, <1>3 DEF NewId

\* DaemonSession::handle up to the backend.
LEMMA HandleSteps ==
    ASSUME DaemonInv,
           \/ HandleDuplicate \/ HandleOverBudget \/ HandleHello
           \/ HandlePlain \/ HandleBackend
    PROVE  DaemonInv'
  <1>1. /\ step = "handle"
        /\ UNCHANGED <<host, pending, wrapper, audit, calls, answers>>
        /\ link # "down"
    BY DEF HandleDuplicate, HandleOverBudget, HandleHello, HandlePlain,
           HandleBackend, Handling, Admitted, DaemonInv, StepInv
  <1>2. /\ session \in SessionType /\ session.last \in Nat /\ request.id \in Nat
        /\ NewId(request.id) =>
              Above(calls, answers, request.id) /\ Unseen(calls, request.id)
    BY <1>1, Seen
  <1>3. CASE HandleDuplicate
    <2>1. /\ step' = "reply" /\ answer'.what = "1002" /\ session' = session
          /\ request' = request /\ link' = link /\ request.id <= session.last
      BY <1>2, <1>3 DEF HandleDuplicate, ReplyWith, Say, NewId
    <2>2. StepInv' /\ PendingInv'
      BY <1>1, <2>1 DEF StepInv, PendingInv, Steps
    <2> QED
      BY <1>1, <1>2, <2>1, <2>2, HandlerStep
  <1>4. CASE HandleOverBudget
    <2>1. /\ step' = "reply" /\ answer'.what = "1003" /\ NewId(request.id)
          /\ request' = request /\ link' = link
          /\ session' = [Counted(session) EXCEPT !.state = "Closed"]
      BY <1>4 DEF HandleOverBudget, ReplyWith, Say
    <2>2. session' \in SessionType /\ session'.last = request.id
          /\ session.last <= session'.last
      BY <1>1, <2>1, CountedSession
    <2>3. StepInv' /\ PendingInv'
      BY <1>1, <2>1 DEF StepInv, PendingInv, Steps
    <2> QED
      BY <1>1, <1>2, <2>1, <2>2, <2>3, HandlerStep
  <1>5. CASE HandleHello
    <2>1. /\ NewId(request.id)
          /\ \/ session' = Counted(session)
             \/ \E st \in {"Ready", "Closed"} :
                   session' = [Counted(session) EXCEPT !.state = st]
          /\ \/ /\ step' = "reply" /\ answer'.what \in {"ACK", "1001", "1004"}
                /\ link' = link /\ request' = request
             \/ step' = "wait"
      BY <1>5 DEF HandleHello, Admitted, ReplyWith, Say, ReturnError
    <2>2. session' \in SessionType /\ session'.last = request.id
          /\ session.last <= session'.last
      BY <1>1, <2>1, CountedSession
    <2>3. StepInv' /\ PendingInv'
      BY <1>1, <2>1 DEF StepInv, PendingInv, Steps
    <2> QED
      BY <1>1, <1>2, <2>1, <2>2, <2>3, HandlerStep
  <1>6. CASE HandlePlain
    <2>1. /\ NewId(request.id)
          /\ \/ session' = Counted(session)
             \/ \E st \in {"Ready", "Closed"} :
                   session' = [Counted(session) EXCEPT !.state = st]
          /\ step' = "reply" /\ answer'.what # "RESULT"
          /\ link' = link /\ request' = request
      BY <1>6 DEF HandlePlain, Admitted, ReplyWith, Say
    <2>2. session' \in SessionType /\ session'.last = request.id
          /\ session.last <= session'.last
      BY <1>1, <2>1, CountedSession
    <2>3. StepInv' /\ PendingInv'
      BY <1>1, <2>1 DEF StepInv, PendingInv, Steps
    <2> QED
      BY <1>1, <1>2, <2>1, <2>2, <2>3, HandlerStep
  <1>7. CASE HandleBackend
    <2>1. /\ NewId(request.id) /\ session' = Counted(session)
          /\ \/ request.kind = "READ" /\ step' = "policy"
             \/ request.kind \in {"WRITE", "HEALTH"} /\ step' = "health"
          /\ link' = link /\ request' = request
      BY <1>7 DEF HandleBackend, Admitted
    <2>2. session' \in SessionType /\ session'.last = request.id
          /\ session.last <= session'.last
      BY <1>1, <2>1, CountedSession
    <2>3. StepInv' /\ PendingInv'
      BY <1>1, <2>1 DEF StepInv, PendingInv, Steps
    <2> QED
      BY <1>1, <1>2, <2>1, <2>2, <2>3, HandlerStep
  <1> QED
    BY <1>3, <1>4, <1>5, <1>6, <1>7

\* The health check and the policy: a record of no execution, or an answer.
LEMMA BackendSteps ==
    ASSUME DaemonInv, HealthCheck \/ PolicyRefuses
    PROVE  DaemonInv'
  <1>1. /\ step \in {"health", "policy"} /\ NotExecuted
        /\ UNCHANGED <<host, link, session, request, wrapper, audit, calls, answers>>
        /\ link # "down"
    BY DEF HealthCheck, PolicyRefuses, NotExecuted, DaemonInv, StepInv
  <1>2. /\ session \in SessionType /\ session.last \in Nat /\ request.id \in Nat
        /\ Above(calls, answers, request.id) /\ Unseen(calls, request.id)
        /\ request.id = session.last
    BY <1>1, Seen DEF DaemonInv, IdsInv
  <1>3. \/ step' = "reply" /\ answer'.what # "RESULT"
        \/ step' = "policy" /\ request.kind = "WRITE"
        \/ /\ step' = "record" /\ host.observed /\ ~wrapper.failed
           /\ pending'.id = request.id /\ ~AfterExecution(pending')
           /\ pending'.ok = "proceed" => request.kind = "WRITE"
           /\ pending'.ok # "RESULT" /\ pending'.err \notin {"proceed", "RESULT"}
    <2>1. CASE HealthCheck
      <3>1. PICK readOnly \in ReadOnlyAnswers :
              LET forWrite == request.kind = "WRITE"
                  then == IF ~forWrite THEN "HEALTH"
                          ELSE IF readOnly THEN "2002" ELSE "proceed"
                  failed == IF forWrite THEN "2002" ELSE "HEALTH"
              IN  IF ~host.observed
                  THEN /\ IF then = "proceed" THEN step' = "policy" /\ UNCHANGED answer
                          ELSE ReplyWith(then, 0)
                       /\ UNCHANGED pending
                  ELSE IF wrapper.failed
                  THEN ReplyWith(failed, 0) /\ UNCHANGED pending
                  ELSE ToRecord("Health", "OK", then, failed, 0) /\ UNCHANGED answer
        BY <2>1, Zenon DEF HealthCheck
      <3> DEFINE then == IF request.kind # "WRITE" THEN "HEALTH"
                         ELSE IF readOnly THEN "2002" ELSE "proceed"
                 failed == IF request.kind = "WRITE" THEN "2002" ELSE "HEALTH"
      <3>2. /\ then \in {"HEALTH", "2002", "proceed"}
            /\ then = "proceed" => request.kind = "WRITE"
            /\ failed \in {"HEALTH", "2002"}
        OBVIOUS
      <3>3. \/ then = "proceed" /\ step' = "policy"
            \/ then # "proceed" /\ ReplyWith(then, 0)
            \/ ReplyWith(failed, 0)
            \/ host.observed /\ ~wrapper.failed /\ ToRecord("Health", "OK", then, failed, 0)
        BY <3>1
      <3> HIDE DEF then, failed
      <3> QED
        BY <3>2, <3>3 DEF ReplyWith, Say, ToRecord, AfterExecution
    <2>2. CASE PolicyRefuses
      BY <2>2 DEF PolicyRefuses, ReplyWith, Say, ToRecord, AfterExecution
    <2> QED
      BY <2>1, <2>2
  <1>4. StepInv'
    BY <1>1, <1>3 DEF StepInv, Steps
  <1>5. PendingInv'
    BY <1>1, <1>3 DEF PendingInv
  <1> QED
    BY <1>1, <1>2, <1>3, <1>4, <1>5, HandlerStep

\* The peer goes away.
LEMMA DisconnectStep ==
    ASSUME DaemonInv, Disconnect
    PROVE  DaemonInv'
  <1>1. /\ UNCHANGED <<host, session, step, request, pending, answer, wrapper, audit,
                       calls, answers>>
        /\ link = "open" /\ link' = "cut"
    BY DEF Disconnect
  <1>2. AuditInv' /\ ToldInv'
    BY <1>1, AuditUntouched, ToldUntouched DEF DaemonInv
  <1>3. IdsInv' /\ StepInv' /\ PendingInv'
    BY <1>1 DEF DaemonInv, IdsInv, NotExecuted, StepInv, PendingInv
  <1>4. AnswersInv'
    BY <1>1 DEF DaemonInv, AnswersInv, TrueOf
  <1> QED
    BY <1>2, <1>3, <1>4 DEF DaemonInv

\* The answer leaves, or cannot.
LEMMA ReplyStep ==
    ASSUME DaemonInv, Reply
    PROVE  DaemonInv'
  <1>1. /\ step = "reply" /\ step' = "wait"
        /\ UNCHANGED <<host, session, wrapper, audit, calls>>
        /\ answers' = answers \/ answers' = answers \cup Told
        /\ link # "down"
    BY DEF Reply, ReturnError, DaemonInv, StepInv
  <1>2. AuditInv' /\ ToldInv'
    BY <1>1, AuditUntouched, ToldUntouched DEF DaemonInv
  <1>3. StepInv' /\ PendingInv'
    BY <1>1 DEF StepInv, PendingInv, Steps
  <1>4. request.id \in Nat /\ request.id <= session.last
    BY <1>1 DEF DaemonInv, IdsInv
  <1>5. ASSUME NEW a \in Told
        PROVE  /\ a.id \in Nat /\ a.id <= session.last
               /\ TrueOf(calls, audit, a.id, a.kind, a.what)
    <2>1. answer.what # "1002"
      BY <1>5 DEF Told
    <2>2. a.id = request.id /\ a.kind = request.kind /\ a.what = answer.what
      BY <1>5 DEF Told
    <2> QED
      BY <1>1, <1>4, <2>1, <2>2 DEF DaemonInv, AnswersInv
  <1>6. \A a \in answers' : \/ a \in answers
                            \/ a \in Told
    BY <1>1
  <1>7. IdsInv'
    BY <1>1, <1>5, <1>6 DEF DaemonInv, IdsInv, NotExecuted
  <1>8. AnswersInv'
    BY <1>1, <1>5, <1>6 DEF DaemonInv, AnswersInv, TrueOf
  <1> QED
    BY <1>2, <1>3, <1>7, <1>8 DEF DaemonInv

\* A record that reaches the file, whole or torn.
LEMMA RecordWritten ==
    ASSUME DaemonInv, step = "record", NEW whole \in BOOLEAN,
           audit' = Append(audit, Record(pending, whole)), UNCHANGED host
    PROVE  /\ List(audit') /\ Grown(audit, Record(pending, whole), audit')
           /\ whole => StrictReplay(audit')
           /\ ~whole => StrictReplay(Front(audit')) /\ ~Last(audit').whole
           /\ \A i \in ExecutionsIn(audit') : TellsOf(audit', i, calls)
           /\ Cardinality(ExecutionsIn(audit')) = Len(calls)
           /\ pending.reason = "OK" => Audited(audit', request.id, pending.op)
           /\ \A id, kind : Audited(audit, id, kind) => Audited(audit', id, kind)
  <1> DEFINE e == Record(pending, whole)
  <1>1. /\ host.observed /\ ~wrapper.failed /\ link # "down" /\ pending.id = request.id
        /\ List(audit) /\ List(calls) /\ StrictReplay(audit)
        /\ wrapper.next = Len(audit) + 1
        /\ wrapper.prev = IF Len(audit) = 0 THEN <<0, 0>>
                          ELSE <<Len(audit), audit[Len(audit)].id>>
    BY DEF DaemonInv, PendingInv, StepInv, AuditInv, ToldInv
  <1>2. Grown(audit, e, audit')
    BY <1>1, Grows
  <1>3. /\ e.seq = wrapper.next /\ e.prev = wrapper.prev /\ e.op = pending.op
        /\ e.id = pending.id /\ e.reason = pending.reason /\ e.whole = whole
    BY DEF Record
  <1>4. AfterExecution(e) <=> AfterExecution(pending)
    BY <1>3 DEF AfterExecution
  <1>5. Front(audit') = audit /\ Last(audit') = e
    BY <1>1, LastOfGrown
  <1> DEFINE n == Cardinality(ExecutionsIn(audit))
  <1>6. /\ \A i \in ExecutionsIn(audit) : TellsOf(audit, i, calls)
        /\ AfterExecution(pending) =>
              /\ Len(calls) = n + 1
              /\ calls[n + 1].id = pending.id /\ calls[n + 1].op = pending.op
        /\ ~AfterExecution(pending) => Len(calls) = n
    BY <1>1 DEF DaemonInv, ToldInv
  <1> HIDE DEF e, n
  <1>7. whole => StrictReplay(audit')
    <2>1. ASSUME whole PROVE e.whole
      BY <1>3, <2>1
    <2> QED
      BY <1>1, <1>2, <1>3, <2>1, ReplayGrows
  <1>8. ~whole => StrictReplay(Front(audit')) /\ ~Last(audit').whole
    BY <1>1, <1>3, <1>5
  <1>9. \A i \in ExecutionsIn(audit') : TellsOf(audit', i, calls)
    BY <1>1, <1>2, <1>3, <1>4, <1>6, TellsGrow DEF n
  <1>10. Cardinality(ExecutionsIn(audit')) = Len(calls)
    <2>1. /\ ~AfterExecution(e) => ExecutionsIn(audit') = ExecutionsIn(audit)
          /\ AfterExecution(e) =>
                Cardinality(ExecutionsIn(audit')) = Cardinality(ExecutionsIn(audit)) + 1
      BY <1>1, <1>2, ExecutionsGrow
    <2> QED
      BY <1>4, <1>6, <2>1 DEF n
  <1>11. /\ Len(audit) + 1 \in 1..Len(audit') /\ audit'[Len(audit) + 1] = e
         /\ \A i \in 1..Len(audit) : i \in 1..Len(audit') /\ audit'[i] = audit[i]
    BY <1>2 DEF Grown
  <1>12. pending.reason = "OK" => Audited(audit', request.id, pending.op)
    BY <1>1, <1>3, <1>11 DEF Audited
  <1>13. \A id, kind : Audited(audit, id, kind) => Audited(audit', id, kind)
    BY <1>11 DEF Audited
  <1> QED
    BY <1>2, <1>7, <1>8, <1>9, <1>10, <1>12, <1>13 DEF e, Grown

\* The wrapper after an append, and after one that fails.
LEMMA WrapperSteps ==
    ASSUME DaemonInv, step = "record"
    PROVE  /\ \A w : w = [wrapper EXCEPT !.events = @ + 1, !.next = @ + 1,
                                         !.prev = <<wrapper.next, pending.id>>] =>
                 /\ w \in WrapperType /\ w.failed = wrapper.failed
                 /\ w.next = wrapper.next + 1 /\ w.prev = <<wrapper.next, pending.id>>
           /\ \A w : w = [wrapper EXCEPT !.failed = TRUE] =>
                 w \in WrapperType /\ w.failed
  <1>1. /\ wrapper \in WrapperType /\ pending.id \in Nat
        /\ wrapper.next \in Nat /\ wrapper.events \in Nat
    BY DEF DaemonInv, AuditInv, PendingInv, IdsInv, WrapperType
  <1>2. wrapper.events + 1 \in Nat /\ wrapper.next + 1 \in Nat
        /\ <<wrapper.next, pending.id>> \in Nat \X Nat
    BY <1>1
  <1>4. ASSUME NEW w, w = [wrapper EXCEPT !.failed = TRUE]
        PROVE  w \in WrapperType /\ w.failed
    BY <1>1, <1>4 DEF WrapperType
  <1>5. ASSUME NEW w, w = [wrapper EXCEPT !.events = @ + 1, !.next = @ + 1,
                                          !.prev = <<wrapper.next, pending.id>>]
        PROVE  /\ w \in WrapperType /\ w.failed = wrapper.failed
               /\ w.next = wrapper.next + 1 /\ w.prev = <<wrapper.next, pending.id>>
    <2> DEFINE v == wrapper.events + 1
               n == wrapper.next + 1
               q == <<wrapper.next, pending.id>>
    <2>1. v \in Nat /\ n \in Nat /\ q \in Nat \X Nat
      BY <1>2
    <2>2. w = [wrapper EXCEPT !.events = v, !.next = n, !.prev = q]
      BY <1>5
    <2> HIDE DEF v, n, q
    <2>3. /\ w \in WrapperType /\ w.failed = wrapper.failed
          /\ w.next = n /\ w.prev = q
      BY <1>1, <2>1, <2>2 DEF WrapperType
    <2> QED
      BY <2>3 DEF n, q
  <1> QED
    BY <1>4, <1>5

LEMMA RecordSteps ==
    ASSUME DaemonInv, RecordStep
    PROVE  DaemonInv'
  <1>1. /\ step = "record" /\ UNCHANGED <<host, link, session, request, calls, answers>>
        /\ \/ Appended /\ Resume(pending.ok)
           \/ AppendFails /\ Resume(pending.err)
           \/ OverBudget /\ UNCHANGED audit /\ Resume(pending.err)
    BY DEF RecordStep
  <1>2. /\ host.observed /\ link # "down" /\ pending.id = request.id /\ ~wrapper.failed
        /\ pending.ok = "proceed" => request.kind = "WRITE" /\ ~AfterExecution(pending)
        /\ pending.ok = "RESULT" =>
              /\ pending.op = request.kind /\ pending.reason = "OK"
              /\ Executed(calls, request.id, request.kind)
        /\ pending.ok \in DidNothing => ~AfterExecution(pending)
        /\ pending.err \notin {"proceed", "RESULT"}
        /\ pending.err \in DidNothing => ~AfterExecution(pending)
    BY <1>1 DEF DaemonInv, PendingInv, StepInv
  <1>3. ~AfterExecution(pending) =>
            Above(calls, answers, request.id) /\ Unseen(calls, request.id)
    BY <1>1, Seen DEF NotExecuted
  <1>4. /\ request.id \in Nat /\ request.id = session.last /\ session.last \in Nat
        /\ List(audit) /\ List(calls) /\ StrictReplay(audit)
        /\ wrapper.next = Len(audit) + 1
    BY <1>1, <1>2, Seen DEF DaemonInv, IdsInv, AuditInv, ToldInv
  <1> DEFINE Written ==
            /\ \A id, kind : Audited(audit, id, kind) => Audited(audit', id, kind)
            /\ \/ Resume(pending.ok) /\ (pending.reason = "OK" =>
                                            Audited(audit', request.id, pending.op))
               \/ Resume(pending.err)
            /\ wrapper' \in WrapperType /\ List(audit')
            /\ \/ StrictReplay(audit')
               \/ StrictReplay(Front(audit')) /\ ~Last(audit').whole /\ wrapper'.failed
            /\ ~wrapper'.failed =>
                  /\ StrictReplay(audit')
                  /\ wrapper'.next = Len(audit') + 1
                  /\ wrapper'.prev = IF Len(audit') = 0 THEN <<0, 0>>
                                     ELSE <<Len(audit'), audit'[Len(audit')].id>>
            /\ \A i \in ExecutionsIn(audit') : TellsOf(audit', i, calls)
            /\ \/ Cardinality(ExecutionsIn(audit')) = Len(calls)
               \/ /\ wrapper'.failed /\ audit' = audit
  <1>5. Written
    <2>1. CASE Appended /\ Resume(pending.ok)
      <3>1. /\ audit' = Append(audit, Record(pending, TRUE))
            /\ wrapper' = [wrapper EXCEPT !.events = @ + 1, !.next = @ + 1,
                                          !.prev = <<wrapper.next, pending.id>>]
        BY <2>1 DEF Appended
      <3>2. /\ wrapper' \in WrapperType /\ wrapper'.failed = wrapper.failed
            /\ wrapper'.next = wrapper.next + 1
            /\ wrapper'.prev = <<wrapper.next, pending.id>>
        BY <1>1, <3>1, WrapperSteps
      <3>3. /\ List(audit') /\ Grown(audit, Record(pending, TRUE), audit')
            /\ StrictReplay(audit')
            /\ \A i \in ExecutionsIn(audit') : TellsOf(audit', i, calls)
            /\ Cardinality(ExecutionsIn(audit')) = Len(calls)
            /\ pending.reason = "OK" => Audited(audit', request.id, pending.op)
            /\ \A id, kind : Audited(audit, id, kind) => Audited(audit', id, kind)
        BY <1>1, <3>1, RecordWritten
      <3>4. /\ Len(audit') = Len(audit) + 1 /\ Len(audit) \in Nat
            /\ audit'[Len(audit')].id = pending.id
        BY <3>3 DEF Grown, Record
      <3>5. wrapper'.next = Len(audit') + 1
            /\ wrapper'.prev = IF Len(audit') = 0 THEN <<0, 0>>
                               ELSE <<Len(audit'), audit'[Len(audit')].id>>
        BY <1>4, <3>2, <3>4
      <3> QED
        BY <2>1, <3>2, <3>3, <3>5
    <2>2. CASE Resume(pending.err) /\ audit' = audit /\ wrapper' = [wrapper EXCEPT !.failed = TRUE]
      <3>1. wrapper' \in WrapperType /\ wrapper'.failed
        BY <1>1, <2>2, WrapperSteps
      <3>2. \A i \in ExecutionsIn(audit) : TellsOf(audit, i, calls)
        BY <1>2 DEF DaemonInv, ToldInv
      <3> QED
        BY <1>4, <2>2, <3>1, <3>2
    <2>3. ASSUME Resume(pending.err), wrapper' = [wrapper EXCEPT !.failed = TRUE],
                 NEW whole \in BOOLEAN, audit' = Append(audit, Record(pending, whole))
          PROVE  Written
      <3>1. wrapper' \in WrapperType /\ wrapper'.failed
        BY <1>1, <2>3, WrapperSteps
      <3>2. /\ List(audit')
            /\ whole => StrictReplay(audit')
            /\ ~whole => StrictReplay(Front(audit')) /\ ~Last(audit').whole
            /\ \A i \in ExecutionsIn(audit') : TellsOf(audit', i, calls)
            /\ Cardinality(ExecutionsIn(audit')) = Len(calls)
            /\ \A id, kind : Audited(audit, id, kind) => Audited(audit', id, kind)
        BY <1>1, <2>3, RecordWritten
      <3> QED
        BY <2>3, <3>1, <3>2
    <2> QED
      BY <1>1, <2>1, <2>2, <2>3 DEF AppendFails, Failed, OverBudget
  <1> DEFINE Resumed ==
          \/ /\ step' = "policy" /\ request.kind = "WRITE" /\ ~AfterExecution(pending)
          \/ /\ step' = "reply"
             /\ TrueOf(calls, audit', request.id, request.kind, answer'.what)
  <1>6. Resumed
    <2>1. ASSUME Resume(pending.ok),
                 pending.reason = "OK" => Audited(audit', request.id, pending.op)
          PROVE  Resumed
      BY <1>2, <1>3, <2>1 DEF Resume, ReplyWith, Say, TrueOf
    <2>2. ASSUME Resume(pending.err) PROVE Resumed
      BY <1>2, <1>3, <2>2 DEF Resume, ReplyWith, Say, TrueOf
    <2> QED
      BY <1>5, <2>1, <2>2
  <1>7. StepInv' /\ PendingInv'
    BY <1>1, <1>2, <1>6 DEF StepInv, PendingInv, Steps
  <1>8. IdsInv'
    BY <1>1, <1>3, <1>4, <1>6 DEF DaemonInv, IdsInv, NotExecuted, Above
  <1>9. AnswersInv'
    <2>1. \A a \in answers : TrueOf(calls, audit', a.id, a.kind, a.what)
      BY <1>5 DEF DaemonInv, AnswersInv, TrueOf
    <2> QED
      BY <1>1, <1>6, <2>1 DEF AnswersInv, TrueOf
  <1>10. AuditInv'
    <2>1. AuditReplays'
      BY <1>5 DEF AuditReplays
    <2> QED
      BY <1>5, <2>1 DEF AuditInv
  <1>11. ToldInv'
    <2>1. step' # "record"
      BY <1>6
    <2>2. Cardinality(ExecutionsIn(audit)) <= Len(calls)
          /\ Len(calls) <= Cardinality(ExecutionsIn(audit)) + 1
      BY <1>2 DEF DaemonInv, ToldInv
    <2>3. Len(calls) \in Nat
      BY <1>4, ListLength
    <2> DEFINE m == Cardinality(ExecutionsIn(audit'))
    <2>4. m <= Len(calls) /\ Len(calls) <= m + 1 /\ (~wrapper'.failed => Len(calls) = m)
      BY <1>5, <2>2, <2>3
    <2> HIDE DEF m
    <2> QED
      BY <1>1, <1>4, <1>5, <2>1, <2>4 DEF ToldInv, m
  <1> QED
    BY <1>7, <1>8, <1>9, <1>10, <1>11 DEF DaemonInv

\* The backend executes.
LEMMA ExecuteStep ==
    ASSUME DaemonInv, Execute
    PROVE  DaemonInv'
  <1>1. /\ step = "policy" /\ NotExecuted
        /\ UNCHANGED <<host, link, session, request, wrapper, audit, answers>>
        /\ host.observed => ~wrapper.failed
        /\ link # "down" /\ request.kind \in {"READ", "WRITE"}
    BY DEF Execute, NotExecuted, DaemonInv, StepInv
  <1>2. /\ session \in SessionType /\ session.last \in Nat /\ request.id \in Nat
        /\ Above(calls, answers, request.id) /\ Unseen(calls, request.id)
        /\ request.id = session.last
    BY <1>1, Seen DEF DaemonInv, IdsInv
  <1>3. PICK out \in Outcomes :
          LET sent == IF out.size <= host.maxPayload THEN "RESULT" ELSE "2004"
          IN  /\ calls' = Append(calls, [id |-> request.id, op |-> request.kind, ok |-> out.ok])
              /\ IF host.observed
                 THEN /\ IF ~out.ok
                         THEN ToRecord(request.kind, "BACKEND_ERROR", "2003", "AUDIT", 0)
                         ELSE IF out.size > host.maxResponse
                         THEN ToRecord(request.kind, "RESPONSE", "RESPONSE", "AUDIT", 0)
                         ELSE ToRecord(request.kind, "OK", sent, "AUDIT", out.size)
                      /\ UNCHANGED answer
                 ELSE /\ ReplyWith(IF CallbackFails(out) THEN "2003" ELSE sent, out.size)
                      /\ UNCHANGED pending
    BY <1>1 DEF Execute
  <1> DEFINE c == [id |-> request.id, op |-> request.kind, ok |-> out.ok]
  <1>4. c.id = request.id /\ c.op = request.kind /\ c.ok = out.ok
    OBVIOUS
  <1>5. List(calls)
    BY DEF DaemonInv, ToldInv
  <1>6. calls' = Append(calls, c)
    BY <1>3
  <1>7. \/ /\ ~host.observed /\ step' = "reply"
           /\ answer'.what \in {"RESULT", "2003", "2004"}
           /\ answer'.what = "RESULT" => out.ok
        \/ /\ host.observed /\ step' = "record"
           /\ pending'.op = request.kind /\ pending'.id = request.id
           /\ pending'.ok \in {"2003", "RESPONSE", "RESULT", "2004"}
           /\ pending'.reason \in {"BACKEND_ERROR", "RESPONSE", "OK"}
           /\ pending'.ok = "RESULT" => pending'.reason = "OK" /\ out.ok
           /\ pending'.err = "AUDIT"
    BY <1>3 DEF ToRecord, ReplyWith, Say, CallbackFails
  <1> HIDE DEF c
  <1>8. Grown(calls, c, calls')
    BY <1>5, <1>6, Grows
  <1>9. /\ List(calls') /\ Len(calls') = Len(calls) + 1 /\ Len(calls) \in Nat
        /\ calls'[Len(calls) + 1] = c
        /\ \A i \in 1..Len(calls) : calls'[i] = calls[i]
        /\ \A i \in 1..Len(calls') : i \in 1..Len(calls) \/ i = Len(calls) + 1
        /\ \A i \in 1..Len(calls) : i \in 1..Len(calls')
        /\ Len(calls) + 1 \in 1..Len(calls')
    BY <1>8 DEF Grown
  <1>10. out.ok => Executed(calls', request.id, request.kind)
    BY <1>4, <1>9 DEF Executed
  <1>11. \A id, kind : Executed(calls, id, kind) => Executed(calls', id, kind)
    BY <1>9 DEF Executed
  <1>12. \A id : id # request.id /\ Unseen(calls, id) => Unseen(calls', id)
    BY <1>4, <1>9 DEF Unseen
  <1>13. ASSUME step' = "record" PROVE AfterExecution(pending')
    BY <1>1, <1>7, <1>13 DEF AfterExecution
  <1>14. StepInv' /\ PendingInv'
    BY <1>1, <1>7, <1>10 DEF StepInv, PendingInv, Steps, DidNothing
  <1>15. IdsInv'
    <2>1. /\ \A i \in 1..Len(calls) : calls[i].id \in Nat /\ calls[i].id <= session.last
                                      /\ calls[i].id # request.id
          /\ \A i, j \in 1..Len(calls) : calls[i].id = calls[j].id => i = j
      BY <1>2 DEF DaemonInv, IdsInv, Unseen
    <2>2. \A i \in 1..Len(calls') : calls'[i].id \in Nat /\ calls'[i].id <= session.last
      BY <1>2, <1>4, <1>9, <2>1
    <2>3. \A i, j \in 1..Len(calls') : calls'[i].id = calls'[j].id => i = j
      BY <1>4, <1>9, <2>1
    <2>4. ~NotExecuted'
      BY <1>7, <1>13 DEF NotExecuted
    <2> QED
      BY <1>1, <1>2, <1>7, <2>2, <2>3, <2>4 DEF DaemonInv, IdsInv
  <1>16. AnswersInv'
    <2>1. ASSUME NEW a \in answers
          PROVE  TrueOf(calls', audit, a.id, a.kind, a.what)
      <3>1. a.id # request.id
        BY <1>2 DEF Above
      <3>2. TrueOf(calls, audit, a.id, a.kind, a.what)
        BY DEF DaemonInv, AnswersInv
      <3> QED
        BY <1>11, <1>12, <3>1, <3>2 DEF TrueOf
    <2>2. step' = "reply" => TrueOf(calls', audit, request.id, request.kind, answer'.what)
      BY <1>7, <1>10 DEF TrueOf, DidNothing
    <2> QED
      BY <1>1, <2>1, <2>2 DEF AnswersInv, TrueOf
  <1>17. AuditInv'
    BY <1>1, AuditUntouched DEF DaemonInv
  <1>18. ToldInv'
    <2> DEFINE n == Cardinality(ExecutionsIn(audit))
    <2>1. n \in Nat
      BY ExecutionsFinite DEF DaemonInv, AuditInv
    <2>2. ASSUME host.observed
          PROVE  /\ Len(calls) = n
                 /\ \A i \in ExecutionsIn(audit) : TellsOf(audit, i, calls)
      BY <1>1, <2>2 DEF DaemonInv, ToldInv
    <2>3. ASSUME host.observed
          PROVE  \A i \in ExecutionsIn(audit) : TellsOf(audit, i, calls')
      <3>1. n <= Len(calls) /\ List(audit)
        BY <1>9, <2>2, <2>3 DEF DaemonInv, AuditInv
      <3> QED
        BY <1>8, <2>2, <2>3, <3>1, TellsKept
    <2>4. ASSUME host.observed
          PROVE  /\ n <= Len(calls') /\ Len(calls') = n + 1
                 /\ calls'[n + 1].id = pending'.id /\ calls'[n + 1].op = pending'.op
                 /\ step' = "record" /\ AfterExecution(pending')
      BY <1>4, <1>7, <1>9, <1>13, <2>1, <2>2, <2>4
    <2>5. n' = n
      BY <1>1
    <2> HIDE DEF n
    <2>6. Len(calls') = n + 1 => Len(calls') <= n + 1
      BY <2>1 DEF n
    <2> QED
      BY <1>1, <1>9, <2>3, <2>4, <2>5, <2>6 DEF ToldInv, n
  <1> QED
    BY <1>14, <1>15, <1>16, <1>17, <1>18 DEF DaemonInv

\* The host is killed, perhaps inside an append.
LEMMA KilledStep ==
    ASSUME DaemonInv, HostKilled
    PROVE  DaemonInv'
  <1>1. /\ link' = "down" /\ step' = "wait"
        /\ UNCHANGED <<host, session, wrapper, calls, answers>>
        /\ \/ audit' = audit
           \/ /\ step = "record"
              /\ \E whole \in BOOLEAN : audit' = Append(audit, Record(pending, whole))
    BY DEF HostKilled
  <1>2. CASE audit' = audit
    <2>1. AuditInv'
      BY <1>1, <1>2, AuditUntouched DEF DaemonInv
    <2>2. ToldInv'
      BY <1>1, <1>2 DEF DaemonInv, ToldInv
    <2>3. IdsInv' /\ StepInv' /\ PendingInv'
      BY <1>1 DEF DaemonInv, IdsInv, NotExecuted, StepInv, PendingInv, Steps
    <2>4. AnswersInv'
      BY <1>1, <1>2 DEF DaemonInv, AnswersInv, TrueOf
    <2> QED
      BY <2>1, <2>2, <2>3, <2>4 DEF DaemonInv
  <1>3. CASE step = "record"
             /\ \E whole \in BOOLEAN : audit' = Append(audit, Record(pending, whole))
    <2>1. PICK whole \in BOOLEAN : audit' = Append(audit, Record(pending, whole))
      BY <1>3
    <2>2. /\ List(audit')
          /\ whole => StrictReplay(audit')
          /\ ~whole => StrictReplay(Front(audit')) /\ ~Last(audit').whole
          /\ \A i \in ExecutionsIn(audit') : TellsOf(audit', i, calls)
          /\ Cardinality(ExecutionsIn(audit')) = Len(calls)
          /\ \A id, kind : Audited(audit, id, kind) => Audited(audit', id, kind)
      BY <1>1, <1>3, <2>1, RecordWritten
    <2>3. AuditInv'
      BY <1>1, <2>2 DEF DaemonInv, AuditInv, AuditReplays
    <2>4. ToldInv'
      <3>1. List(calls) /\ Len(calls) \in Nat
        BY ListLength DEF DaemonInv, ToldInv
      <3> QED
        BY <1>1, <2>2, <3>1 DEF ToldInv
    <2>5. IdsInv' /\ StepInv' /\ PendingInv'
      BY <1>1 DEF DaemonInv, IdsInv, NotExecuted, StepInv, PendingInv, Steps
    <2>6. AnswersInv'
      BY <1>1, <2>2 DEF DaemonInv, AnswersInv, TrueOf
    <2> QED
      BY <2>3, <2>4, <2>5, <2>6 DEF DaemonInv
  <1> QED
    BY <1>1, <1>2, <1>3

\* A session begins, with its own audit file.
FreshState ==
    /\ session = Fresh /\ step = "wait" /\ wrapper = FreshWrapper
    /\ audit = <<>> /\ calls = <<>> /\ answers = {}

LEMMA FreshSession == FreshState => DaemonInv
  <1> SUFFICES ASSUME FreshState PROVE DaemonInv
    OBVIOUS
  <1> USE DEF FreshState
  <1>1. List(<<>>) /\ Len(<<>>) = 0
    <2>1. <<>> \in Seq({})
      OBVIOUS
    <2> QED
      BY <2>1 DEF List
  <1>2. IdsInv
    BY <1>1 DEF IdsInv, Fresh, SessionType, NotExecuted
  <1>3. StepInv /\ PendingInv /\ AnswersInv
    BY DEF StepInv, PendingInv, AnswersInv, Steps
  <1>4. AuditInv
    <2>1. wrapper \in WrapperType /\ wrapper.next = 1 /\ wrapper.prev = <<0, 0>>
      BY DEF FreshWrapper, WrapperType
    <2>2. StrictReplay(<<>>)
      BY <1>1 DEF StrictReplay
    <2> QED
      BY <1>1, <2>1, <2>2 DEF AuditInv, AuditReplays
  <1>5. ToldInv
    <2>1. ExecutionsIn(<<>>) = {}
      BY <1>1 DEF ExecutionsIn
    <2>2. Cardinality({}) = 0
      BY FS_EmptySet
    <2>3. Cardinality(ExecutionsIn(audit)) = 0 /\ Len(calls) = 0 /\ List(calls)
      BY <1>1, <2>1, <2>2
    <2>4. \A i \in ExecutionsIn(audit) : TellsOf(audit, i, calls)
      BY <2>1
    <2>5. 0 <= 0 /\ 0 <= 0 + 1
      OBVIOUS
    <2>6. step # "record"
      OBVIOUS
    <2> QED
      BY <2>3, <2>4, <2>5, <2>6 DEF ToldInv
  <1> QED
    BY <1>2, <1>3, <1>4, <1>5 DEF DaemonInv

-----------------------------------------------------------------------------
(* The theorems. *)

LEMMA DaemonInvariant == DaemonSpec => []DaemonInv
  <1>1. DaemonInit => DaemonInv
    BY FreshSession DEF DaemonInit, FreshState
  <1>2. DaemonInv /\ [DaemonNext]_daemonVars => DaemonInv'
    <2> SUFFICES ASSUME DaemonInv, [DaemonNext]_daemonVars PROVE DaemonInv'
      OBVIOUS
    <2>1. CASE UNCHANGED daemonVars
      <3>1. /\ UNCHANGED <<host, session, step, request, pending, answer, wrapper, audit,
                           calls, answers>>
            /\ link' = link
        BY <2>1 DEF daemonVars
      <3>2. AuditInv' /\ ToldInv'
        BY <3>1, AuditUntouched, ToldUntouched DEF DaemonInv
      <3>3. IdsInv' /\ StepInv' /\ PendingInv'
        BY <3>1 DEF DaemonInv, IdsInv, NotExecuted, StepInv, PendingInv
      <3>4. AnswersInv'
        BY <3>1 DEF DaemonInv, AnswersInv, TrueOf
      <3> QED
        BY <3>2, <3>3, <3>4 DEF DaemonInv
    <2>2. CASE Open
      <3>1. FreshState'
        BY <2>2 DEF Open, FreshState
      <3>2. FreshState' => DaemonInv'
        BY FreshSession, PTL
      <3> QED
        BY <3>1, <3>2
    <2>3. CASE Receive \/ BadFrame \/ Disconnect \/ Destroy \/ Reply \/ HandleRefused
      BY <2>3, LinkSteps, DisconnectStep, ReplyStep
    <2>4. CASE \/ HandleDuplicate \/ HandleOverBudget \/ HandleHello
               \/ HandlePlain \/ HandleBackend
      BY <2>4, HandleSteps
    <2>5. CASE RecordStep \/ HealthCheck \/ PolicyRefuses \/ Execute \/ HostKilled
      BY <2>5, RecordSteps, BackendSteps, ExecuteStep, KilledStep
    <2> QED
      BY <2>1, <2>2, <2>3, <2>4, <2>5 DEF DaemonNext
  <1> QED
    BY <1>1, <1>2, PTL DEF DaemonSpec

\* However appends fail and hosts are killed, the chain of an audit file never
\* forks: it replays strictly, but for a torn last record behind which nothing
\* is written.
THEOREM AuditAlwaysReplays == DaemonSpec => []AuditReplays
  <1>1. DaemonInv => AuditReplays
    BY DEF DaemonInv, AuditInv
  <1> QED
    BY <1>1, DaemonInvariant, PTL

\* An answer is the truth about its request, and no identifier is executed
\* twice in a session.
THEOREM AnswersAreTrue == DaemonSpec => []AnswersTrue
  <1>1. ASSUME DaemonInv PROVE AnswersTrue
    <2>1. \A i, j \in 1..Len(calls) : calls[i].id = calls[j].id => i = j
      BY <1>1 DEF DaemonInv, IdsInv
    <2>2. \A a \in answers : TrueOf(calls, audit, a.id, a.kind, a.what)
      BY <1>1 DEF DaemonInv, AnswersInv
    <2> QED
      BY <2>1, <2>2 DEF AnswersTrue, TrueOf, Executed, Audited, Unseen
  <1> QED
    BY <1>1, DaemonInvariant, PTL

\* Every read and write the wrapper let through is in the audit file, in its
\* order, but possibly for the last one.
THEOREM AuditIsComplete == DaemonSpec => []AuditComplete
  <1>1. ASSUME DaemonInv PROVE AuditComplete
    <2> DEFINE n == Cardinality(ExecutionsIn(audit))
    <2>1. n \in Nat
      BY <1>1, ExecutionsFinite DEF DaemonInv, AuditInv
    <2>2. ASSUME host.observed
          PROVE  /\ n <= Len(calls) /\ Len(calls) <= n + 1
                 /\ \A i \in ExecutionsIn(audit) : TellsOf(audit, i, calls)
                 /\ ~wrapper.failed /\ link # "down"
                    /\ ~(step = "record" /\ AfterExecution(pending)) => Len(calls) = n
      BY <1>1, <2>2 DEF DaemonInv, ToldInv
    <2> HIDE DEF n
    <2>3. ASSUME host.observed, Len(calls) = n + 1
          PROVE  step = "record" \/ wrapper.failed \/ link = "down"
      BY <2>1, <2>2, <2>3
    <2> QED
      BY <2>2, <2>3 DEF AuditComplete, n
  <1> QED
    BY <1>1, DaemonInvariant, PTL

-----------------------------------------------------------------------------
(* Backup and restore: any tools, files, versions and roots.               *)

Contents == Nat \X Nat

SourceTypes ==
    /\ source \in [File -> Contents]
    /\ everHeld \in [File -> SUBSET Contents]
    /\ \A f \in File : source[f] \in everHeld[f]

IsFunction(m) == m = [f \in DOMAIN m |-> m[f]]

\* A manifest of contents the source really had.
Held(m) ==
    /\ IsFunction(m)
    /\ DOMAIN m \subseteq File
    /\ \A f \in DOMAIN m : m[f] \in everHeld[f]

\* The blocks read so far of file f.  Versions only grow, so that a first block
\* which reads the same twice did not change while the second one was read.
ReadsOf(f, seen) ==
    /\ seen \in Seq(Nat) /\ Len(seen) <= 3
    /\ Len(seen) = 1 => seen[1] <= source[f][1]
    /\ Len(seen) = 2 =>
          /\ seen[1] <= source[f][1]
          /\ seen[1] = source[f][1] => <<seen[1], seen[2]>> \in everHeld[f]
    /\ Len(seen) = 3 /\ seen[1] = seen[3] => <<seen[1], seen[2]>> \in everHeld[f]

BackupJob(j) ==
    /\ DOMAIN j = {"job", "pc", "name", "todo", "seen", "manifest", "payload"}
    /\ j.job = "backup"
    /\ j.name \in BackupRoot
    /\ j.todo \subseteq File
    /\ j.todo # {} => ReadsOf(Min(j.todo), j.seen)
    /\ j.todo = {} => j.seen = <<>>
    /\ Held(j.manifest)

RestoreJob(j) ==
    /\ DOMAIN j = {"job", "pc", "name", "from", "approved", "manifest", "todo", "files"}
    /\ j.job = "restore"
    /\ j.name \in RestoreRoot
    /\ IsFunction(j.files)
    /\ Held(j.manifest)
    /\ j.approved = j.manifest
    /\ j.pc = "rename" => j.files = j.manifest

Job(j) == j = NoJob \/ BackupJob(j) \/ RestoreJob(j)

BackupDir(d) ==
    \/ d = Nothing
    \/ DOMAIN d = {"manifest", "payload"} /\ Held(d.manifest)

RestoredDir(d) ==
    d # Nothing =>
        /\ d.files = d.approved
        /\ d.receipt = d.approved
        /\ Held(d.files)

BackupInv ==
    /\ SourceTypes
    /\ tools = [t \in Tool |-> tools[t]]
    /\ \A t \in Tool : Job(tools[t])
    /\ backups = [b \in BackupRoot |-> backups[b]]
    /\ \A b \in BackupRoot : BackupDir(backups[b])
    /\ restored = [r \in RestoreRoot |-> restored[r]]
    /\ \A r \in RestoreRoot : RestoredDir(restored[r])

-----------------------------------------------------------------------------

LEMMA MinIsIn ==
    ASSUME NEW T \in SUBSET File, T # {}
    PROVE  Min(T) \in T
  <1>1. T \in SUBSET Nat
    BY BackupConstants DEF File
  <1>2. \E x \in T : \A y \in T : x <= y
    BY <1>1, Least
  <1> QED
    BY <1>2 DEF Min

LEMMA BackupInitInv == BackupInit => BackupInv
  <1> SUFFICES ASSUME BackupInit PROVE BackupInv
    OBVIOUS
  <1>1. SourceTypes
    BY DEF BackupInit, SourceTypes, Contents
  <1>2. tools = [t \in Tool |-> tools[t]] /\ \A t \in Tool : Job(tools[t])
    BY DEF BackupInit, Job
  <1>3. backups = [b \in BackupRoot |-> backups[b]]
        /\ \A b \in BackupRoot : BackupDir(backups[b])
    BY DEF BackupInit, BackupDir
  <1>4. restored = [r \in RestoreRoot |-> restored[r]]
        /\ \A r \in RestoreRoot : RestoredDir(restored[r])
    BY DEF BackupInit, RestoredDir
  <1> QED
    BY <1>1, <1>2, <1>3, <1>4 DEF BackupInv

\* Where the source is left alone, what was held and what was read are as before.
LEMMA SourceKept ==
    ASSUME UNCHANGED <<source, everHeld>>
    PROVE  /\ SourceTypes => SourceTypes'
           /\ \A m : Held(m)' <=> Held(m)
           /\ \A j : Job(j)' <=> Job(j)
           /\ \A d : BackupDir(d)' <=> BackupDir(d)
           /\ \A d : RestoredDir(d)' <=> RestoredDir(d)
  BY DEF SourceTypes, Held, IsFunction, Job, BackupJob, RestoreJob, ReadsOf, BackupDir,
         RestoredDir

\* A step of one process that only changes what it is doing.
LEMMA ToolStep ==
    ASSUME BackupInv, UNCHANGED <<source, everHeld, backups, restored>>,
           NEW t \in Tool, NEW j, Job(j), tools' = [tools EXCEPT ![t] = j]
    PROVE  BackupInv'
  <1>1. tools' = [u \in Tool |-> tools'[u]] /\ \A u \in Tool : Job(tools'[u])
    BY DEF BackupInv
  <1>2. SourceTypes'
    BY SourceKept DEF BackupInv
  <1>3. \A u \in Tool : Job(tools[u])'
    BY <1>1, SourceKept
  <1>4. \A b \in BackupRoot : BackupDir(backups[b])'
    BY SourceKept DEF BackupInv
  <1>5. \A r \in RestoreRoot : RestoredDir(restored[r])'
    BY SourceKept DEF BackupInv
  <1> QED
    BY <1>1, <1>2, <1>3, <1>4, <1>5 DEF BackupInv

LEMMA GiveUpInv ==
    ASSUME BackupInv, UNCHANGED <<source, everHeld, backups, restored>>,
           NEW t \in Tool, GiveUp(t)
    PROVE  BackupInv'
  BY ToolStep DEF GiveUp, Job

LEMMA BeginBackupInv ==
    ASSUME BackupInv, NEW t \in Tool, BeginBackup(t)
    PROVE  BackupInv'
  <1>1. PICK b \in BackupRoot, files \in FileSets :
           tools' = [tools EXCEPT ![t] =
                [job |-> "backup", pc |-> "copy", name |-> b, todo |-> files,
                 seen |-> <<>>, manifest |-> <<>>, payload |-> <<>>]]
    BY DEF BeginBackup
  <1> DEFINE j == [job |-> "backup", pc |-> "copy", name |-> b, todo |-> files,
                   seen |-> <<>>, manifest |-> <<>>, payload |-> <<>>]
  <1>2. files \subseteq File
    BY BackupConstants DEF File
  <1>3. Held(<<>>)
    BY DEF Held, IsFunction
  <1>4. ReadsOf(Min(files), <<>>)
    BY DEF ReadsOf
  <1>5. BackupJob(j)
    BY <1>2, <1>3, <1>4 DEF BackupJob
  <1> QED
    BY <1>1, <1>5, ToolStep DEF BeginBackup, Job

LEMMA OneMore ==
    ASSUME NEW s \in Seq(Nat), NEW b \in Nat
    PROVE  /\ Append(s, b) \in Seq(Nat)
           /\ Len(Append(s, b)) = Len(s) + 1
           /\ \A i \in 1..Len(s) : Append(s, b)[i] = s[i]
           /\ Append(s, b)[Len(s) + 1] = b
  OBVIOUS

\* The first digest and the second one, in blocks.
LEMMA ReadTwice ==
    ASSUME NEW s \in Seq(Nat), Len(s) = 4
    PROVE  /\ SubSeq(s, 1, 2) = <<s[1], s[2]>>
           /\ SameTwice(s) => s[1] = s[3]
  <1>1. /\ SubSeq(s, 1, 2) \in Seq(Nat) /\ Len(SubSeq(s, 1, 2)) = 2
        /\ SubSeq(s, 1, 2)[1] = s[1] /\ SubSeq(s, 1, 2)[2] = s[2]
    OBVIOUS
  <1>2. SubSeq(s, 3, 4)[1] = s[3]
    OBVIOUS
  <1>3. \A q \in Seq(Nat) : Len(q) = 2 => q = <<q[1], q[2]>>
    OBVIOUS
  <1>4. SubSeq(s, 1, 2) = <<s[1], s[2]>>
    BY <1>1, <1>3
  <1> QED
    BY <1>1, <1>2, <1>4 DEF SameTwice

\* Which block is read next.
NextBlock(f, seen) == source[f][(Len(seen) % 2) + 1]

\* The reads of a file, with their number.
LEMMA NumberOfReads ==
    ASSUME NEW f, NEW seen, ReadsOf(f, seen)
    PROVE  seen \in Seq(Nat) /\ Len(seen) \in {0, 1, 2, 3}
  <1>1. seen \in Seq(Nat) /\ Len(seen) <= 3
    BY DEF ReadsOf
  <1>2. \A n \in Nat : n <= 3 => n \in {0, 1, 2, 3}
    OBVIOUS
  <1>3. Len(seen) \in Nat
    BY <1>1
  <1> QED
    BY <1>1, <1>2, <1>3

\* A block is read: what is known of the reads goes on to the next length.
LEMMA NextRead ==
    ASSUME SourceTypes, NEW f \in File, NEW seen, ReadsOf(f, seen)
    PROVE  LET more == Append(seen, NextBlock(f, seen)) IN
           /\ Len(more) \in Nat
           /\ Len(more) < 4 => ReadsOf(f, more)
           /\ Len(more) >= 4 /\ SameTwice(more) => SubSeq(more, 1, 2) \in everHeld[f]
  <1> DEFINE x == source[f][1]
             y == source[f][2]
             more == Append(seen, NextBlock(f, seen))
  <1> SUFFICES /\ Len(more) \in Nat
               /\ Len(more) < 4 => ReadsOf(f, more)
               /\ Len(more) >= 4 /\ SameTwice(more) =>
                     SubSeq(more, 1, 2) \in everHeld[f]
    OBVIOUS
  <1>1. x \in Nat /\ y \in Nat /\ <<x, y>> \in everHeld[f]
    <2>1. source[f] \in Contents /\ source[f] \in everHeld[f]
      BY DEF SourceTypes
    <2>2. \A c \in Contents : c = <<c[1], c[2]>> /\ c[1] \in Nat /\ c[2] \in Nat
      BY DEF Contents
    <2> QED
      BY <2>1, <2>2
  <1>2. seen \in Seq(Nat) /\ Len(seen) \in {0, 1, 2, 3}
    BY NumberOfReads
  <1>3. /\ Len(seen) \in {0, 2} => NextBlock(f, seen) = x
        /\ Len(seen) \in {1, 3} => NextBlock(f, seen) = y
    <2>1. /\ \A n \in {0, 2} : (n % 2) + 1 = 1
          /\ \A n \in {1, 3} : (n % 2) + 1 = 2
      OBVIOUS
    <2> QED
      BY <2>1 DEF NextBlock
  <1>4. /\ more \in Seq(Nat) /\ Len(more) = Len(seen) + 1
        /\ \A i \in 1..Len(seen) : more[i] = seen[i]
        /\ more[Len(seen) + 1] = NextBlock(f, seen)
    BY <1>1, <1>2, <1>3, OneMore
  <1> HIDE DEF more
  <1>5. CASE Len(seen) = 0
    <2>1. Len(more) = 1 /\ more[1] = x
      BY <1>3, <1>4, <1>5
    <2>2. ReadsOf(f, more)
      BY <1>1, <1>4, <2>1 DEF ReadsOf
    <2> QED
      BY <2>1, <2>2
  <1>6. CASE Len(seen) = 1
    <2>1. Len(more) = 2 /\ more[1] = seen[1] /\ more[2] = y /\ seen[1] <= x
          /\ seen[1] \in Nat
      BY <1>2, <1>3, <1>4, <1>6 DEF ReadsOf
    <2>2. more[1] <= x /\ (more[1] = x => <<more[1], more[2]>> \in everHeld[f])
      BY <1>1, <2>1
    <2>3. ReadsOf(f, more)
      BY <1>4, <2>1, <2>2 DEF ReadsOf
    <2> QED
      BY <2>1, <2>3
  <1>7. CASE Len(seen) = 2
    <2>1. Len(more) = 3 /\ more[1] = seen[1] /\ more[2] = seen[2] /\ more[3] = x
      BY <1>3, <1>4, <1>7
    <2>2. seen[1] = x => <<seen[1], seen[2]>> \in everHeld[f]
      BY <1>7 DEF ReadsOf
    <2>3. more[1] = more[3] => <<more[1], more[2]>> \in everHeld[f]
      BY <2>1, <2>2
    <2>4. more \in Seq(Nat)
      BY <1>4
    <2>5. Len(more) = 3
      BY <2>1
    <2>6. ReadsOf(f, more)
      BY <2>3, <2>4, <2>5 DEF ReadsOf
    <2> QED
      BY <2>1, <2>6
  <1>8. CASE Len(seen) = 3
    <2>1. Len(more) = 4 /\ more[1] = seen[1] /\ more[2] = seen[2] /\ more[3] = seen[3]
      BY <1>3, <1>4, <1>8
    <2>2. seen[1] = seen[3] => <<seen[1], seen[2]>> \in everHeld[f]
      BY <1>8 DEF ReadsOf
    <2>3. SameTwice(more) => SubSeq(more, 1, 2) \in everHeld[f]
      BY <1>4, <2>1, <2>2, ReadTwice
    <2> QED
      BY <2>1, <2>3
  <1> QED
    BY <1>2, <1>5, <1>6, <1>7, <1>8

LEMMA CopyBlockInv ==
    ASSUME BackupInv, NEW t \in Tool, CopyBlock(t)
    PROVE  BackupInv'
  <1> DEFINE j == tools[t]
             f == Min(j.todo)
             seen == Append(j.seen, NextBlock(f, j.seen))
             copied == SubSeq(seen, 1, 2)
             with(m) == [g \in DOMAIN m \cup {f} |-> IF g = f THEN copied ELSE m[g]]
  <1>1. j.job = "backup" /\ j.todo # {} /\ UNCHANGED <<source, everHeld, backups, restored>>
    BY DEF CopyBlock
  <1>2. BackupJob(j) /\ SourceTypes
    BY <1>1 DEF BackupInv, Job, NoJob, RestoreJob
  <1>3. f \in File /\ j.todo \subseteq File
    BY <1>1, <1>2, MinIsIn DEF BackupJob
  <1>4. ReadsOf(f, j.seen)
    BY <1>1, <1>2 DEF BackupJob
  <1>5. /\ Len(seen) < 4 => ReadsOf(f, seen)
        /\ Len(seen) >= 4 /\ SameTwice(seen) => copied \in everHeld[f]
        /\ Len(seen) \in Nat
    BY <1>2, <1>3, <1>4, NextRead
  <1>6. IF Len(seen) < 4
        THEN tools' = [tools EXCEPT ![t].seen = seen]
        ELSE IF SameTwice(seen)
        THEN tools' = [tools EXCEPT ![t].seen = <<>>, ![t].todo = @ \ {f},
                           ![t].manifest = with(@), ![t].payload = with(@)]
        ELSE GiveUp(t)
    BY DEF CopyBlock, NextBlock
  <1> HIDE DEF seen
  <1>7. CASE Len(seen) < 4
    <2> DEFINE k == [j EXCEPT !.seen = seen]
    <2>1. tools' = [tools EXCEPT ![t] = k]
      BY <1>6, <1>7
    <2>2. BackupJob(k)
      BY <1>1, <1>2, <1>5, <1>7 DEF BackupJob
    <2> QED
      BY <1>1, <2>1, <2>2, ToolStep DEF Job
  <1>8. CASE Len(seen) >= 4 /\ SameTwice(seen)
    <2> DEFINE m == with(j.manifest)
               w == with(j.payload)
               todo == j.todo \ {f}
               k == [j EXCEPT !.seen = <<>>, !.todo = todo, !.manifest = m, !.payload = w]
    <2>1. tools' = [tools EXCEPT ![t].seen = <<>>, ![t].todo = todo,
                                 ![t].manifest = m, ![t].payload = w]
      <3>1. ~(Len(seen) < 4)
        BY <1>5, <1>8
      <3>2. tools' = [tools EXCEPT ![t].seen = <<>>, ![t].todo = @ \ {f},
                                   ![t].manifest = with(@), ![t].payload = with(@)]
        <4> HIDE DEF with, f
        <4> QED
          BY <1>6, <1>8, <3>1, Zenon
      <3> QED
        BY <3>2, Zenon
    <2>2. tools' = [tools EXCEPT ![t] = k]
      <3>1. tools = [u \in Tool |-> tools[u]]
        BY DEF BackupInv
      <3> HIDE DEF todo, m, w
      <3> QED
        BY <2>1, <3>1
    <2>3. /\ DOMAIN k = DOMAIN j /\ k.job = j.job /\ k.name = j.name
          /\ k.seen = <<>> /\ k.todo = todo /\ k.manifest = m
      <3>1. DOMAIN j = {"job", "pc", "name", "todo", "seen", "manifest", "payload"}
        BY <1>2 DEF BackupJob
      <3> HIDE DEF j, todo, m, w
      <3> QED
        BY <3>1
    <2>4. Held(m)
      <3>1. Held(j.manifest) /\ copied \in everHeld[f]
        BY <1>2, <1>5, <1>8 DEF BackupJob
      <3> HIDE DEF copied, f
      <3>2. DOMAIN m = DOMAIN j.manifest \cup {f}
        OBVIOUS
      <3>3. \A g \in DOMAIN j.manifest \cup {f} :
               m[g] = IF g = f THEN copied ELSE j.manifest[g]
        OBVIOUS
      <3> QED
        BY <1>3, <3>1, <3>2, <3>3 DEF Held, IsFunction
    <2>5. ReadsOf(Min(todo), <<>>)
      BY DEF ReadsOf
    <2>6. BackupJob(k)
      <3> HIDE DEF m, k
      <3> QED
        BY <1>2, <1>3, <2>3, <2>4, <2>5 DEF BackupJob
    <2> QED
      BY <1>1, <2>2, <2>6, ToolStep DEF Job
  <1>9. CASE Len(seen) >= 4 /\ ~SameTwice(seen)
    <2>1. GiveUp(t)
      BY <1>5, <1>6, <1>9
    <2> QED
      BY <1>1, <2>1, GiveUpInv
  <1> QED
    BY <1>5, <1>7, <1>8, <1>9

LEMMA SealBackupInv ==
    ASSUME BackupInv, NEW t \in Tool, SealBackup(t)
    PROVE  BackupInv'
  <1>1. UNCHANGED <<source, everHeld, backups, restored>> /\ tools[t].job = "backup"
    BY DEF SealBackup
  <1>2. CASE GiveUp(t)
    BY <1>1, <1>2, GiveUpInv
  <1>3. CASE tools' = [tools EXCEPT ![t].pc = "rename"]
    <2> DEFINE k == [tools[t] EXCEPT !.pc = "rename"]
    <2>1. BackupJob(tools[t])
      BY <1>1 DEF BackupInv, Job, NoJob, RestoreJob
    <2>2. BackupJob(k)
      BY <2>1 DEF BackupJob
    <2>3. tools' = [tools EXCEPT ![t] = k]
      BY <1>3
    <2> QED
      BY <1>1, <2>2, <2>3, ToolStep DEF Job
  <1> QED
    BY <1>2, <1>3 DEF SealBackup

LEMMA PublishBackupInv ==
    ASSUME BackupInv, NEW t \in Tool, PublishBackup(t)
    PROVE  BackupInv'
  <1>1. UNCHANGED <<source, everHeld, restored>> /\ tools[t].job = "backup" /\ GiveUp(t)
    BY DEF PublishBackup
  <1>2. BackupJob(tools[t])
    BY <1>1 DEF BackupInv, Job, NoJob, RestoreJob
  <1>3. CASE UNCHANGED backups
    BY <1>1, <1>3, GiveUpInv
  <1>4. CASE backups' = [backups EXCEPT ![tools[t].name] =
                [manifest |-> tools[t].manifest, payload |-> tools[t].payload]]
    <2> DEFINE d == [manifest |-> tools[t].manifest, payload |-> tools[t].payload]
    <2>1. BackupDir(d) /\ tools[t].name \in BackupRoot
      BY <1>2 DEF BackupJob, BackupDir
    <2>2. \A b \in BackupRoot : BackupDir(backups'[b])
      BY <1>4, <2>1 DEF BackupInv
    <2>3. backups' = [b \in BackupRoot |-> backups'[b]]
      BY <1>4 DEF BackupInv
    <2>4. tools' = [u \in Tool |-> tools'[u]] /\ \A u \in Tool : Job(tools'[u])
      BY <1>1 DEF BackupInv, GiveUp, Job
    <2> QED
      BY <1>1, <2>2, <2>3, <2>4, SourceKept DEF BackupInv
  <1> QED
    BY <1>3, <1>4 DEF PublishBackup

-----------------------------------------------------------------------------

LEMMA BeginRestoreInv ==
    ASSUME BackupInv, NEW t \in Tool, BeginRestore(t)
    PROVE  BackupInv'
  <1>1. PICK b \in BackupRoot, r \in RestoreRoot, approved \in plans :
          /\ Opens(backups[b])
          /\ PlanApproved(backups[b].manifest, approved)
          /\ tools' = [tools EXCEPT ![t] =
                [job |-> "restore", pc |-> "copy", name |-> r, from |-> b,
                 approved |-> approved, manifest |-> backups[b].manifest,
                 todo |-> DOMAIN backups[b].manifest, files |-> <<>>]]
    BY DEF BeginRestore
  <1> DEFINE m == backups[b].manifest
             j == [job |-> "restore", pc |-> "copy", name |-> r, from |-> b,
                   approved |-> approved, manifest |-> m, todo |-> DOMAIN m,
                   files |-> <<>>]
  <1>2. Held(m)
    BY <1>1 DEF BackupInv, BackupDir, Opens
  <1>3. approved = m
    BY <1>1 DEF PlanApproved, PlanDigest
  <1>4. IsFunction(<<>>)
    BY DEF IsFunction
  <1>5. RestoreJob(j)
    BY <1>2, <1>3, <1>4 DEF RestoreJob
  <1> QED
    BY <1>1, <1>5, ToolStep DEF BeginRestore, Job

LEMMA RestoreFileInv ==
    ASSUME BackupInv, NEW t \in Tool, RestoreFile(t)
    PROVE  BackupInv'
  <1> DEFINE j == tools[t]
             f == Min(j.todo)
             x == backups[j.from].payload[f]
             files == [g \in DOMAIN j.files \cup {f} |-> IF g = f THEN x ELSE j.files[g]]
             todo == j.todo \ {f}
             k == [j EXCEPT !.todo = todo, !.files = files]
  <1>1. UNCHANGED <<source, everHeld, backups, restored>> /\ j.job = "restore"
        /\ j.pc = "copy"
    BY DEF RestoreFile
  <1>2. RestoreJob(j)
    BY <1>1 DEF BackupInv, Job, NoJob, BackupJob
  <1>3. CASE GiveUp(t)
    BY <1>1, <1>3, GiveUpInv
  <1>4. CASE tools' = [tools EXCEPT ![t].todo = @ \ {f},
                           ![t].files = [g \in DOMAIN @ \cup {f} |->
                                           IF g = f THEN x ELSE @[g]]]
    <2>1. tools' = [tools EXCEPT ![t].todo = todo, ![t].files = files]
      BY <1>4, Zenon
    <2>2. tools' = [tools EXCEPT ![t] = k]
      <3>1. tools = [u \in Tool |-> tools[u]]
        BY DEF BackupInv
      <3> HIDE DEF todo, files
      <3> QED
        BY <2>1, <3>1
    <2>3. /\ DOMAIN k = DOMAIN j /\ k.job = j.job /\ k.pc = j.pc /\ k.name = j.name
          /\ k.approved = j.approved /\ k.manifest = j.manifest /\ k.files = files
      <3>1. DOMAIN j = {"job", "pc", "name", "from", "approved", "manifest", "todo", "files"}
        BY <1>2 DEF RestoreJob
      <3> HIDE DEF j, todo, files
      <3> QED
        BY <3>1
    <2>4. IsFunction(files)
      <3> HIDE DEF x, f
      <3> QED
        BY DEF IsFunction
    <2>5. RestoreJob(k)
      <3> HIDE DEF k, files
      <3> QED
        BY <1>1, <1>2, <2>3, <2>4 DEF RestoreJob
    <2> QED
      BY <1>1, <2>2, <2>5, ToolStep DEF Job
  <1> QED
    BY <1>3, <1>4 DEF RestoreFile

\* What verify_restored_directory accepts is the manifest, file by file.
LEMMA SameFiles ==
    ASSUME NEW m, NEW files, IsFunction(m), IsFunction(files), PayloadMatches(m, files)
    PROVE  files = m
  <1>1. DOMAIN files = DOMAIN m /\ \A f \in DOMAIN m : files[f] = m[f]
    BY DEF PayloadMatches
  <1>2. files = [f \in DOMAIN m |-> m[f]]
    BY <1>1 DEF IsFunction
  <1> QED
    BY <1>2 DEF IsFunction

LEMMA SealRestoreInv ==
    ASSUME BackupInv, NEW t \in Tool, SealRestore(t)
    PROVE  BackupInv'
  <1> DEFINE j == tools[t]
             k == [j EXCEPT !.pc = "rename"]
  <1>1. UNCHANGED <<source, everHeld, backups, restored>> /\ j.job = "restore"
    BY DEF SealRestore
  <1>2. RestoreJob(j)
    BY <1>1 DEF BackupInv, Job, NoJob, BackupJob
  <1>3. CASE GiveUp(t)
    BY <1>1, <1>3, GiveUpInv
  <1>4. CASE PayloadMatches(j.manifest, j.files) /\ tools' = [tools EXCEPT ![t].pc = "rename"]
    <2>1. j.files = j.manifest
      BY <1>2, <1>4, SameFiles DEF RestoreJob, Held
    <2>2. tools' = [tools EXCEPT ![t] = k]
      BY <1>4
    <2>3. /\ DOMAIN k = DOMAIN j /\ k.job = j.job /\ k.name = j.name
          /\ k.approved = j.approved /\ k.manifest = j.manifest /\ k.files = j.files
      <3>1. DOMAIN j = {"job", "pc", "name", "from", "approved", "manifest", "todo", "files"}
        BY <1>2 DEF RestoreJob
      <3> HIDE DEF j
      <3> QED
        BY <3>1
    <2>4. RestoreJob(k)
      <3> HIDE DEF k
      <3> QED
        BY <1>2, <2>1, <2>3 DEF RestoreJob
    <2> QED
      BY <1>1, <2>2, <2>4, ToolStep DEF Job
  <1> QED
    BY <1>3, <1>4 DEF SealRestore

LEMMA PublishRestoreInv ==
    ASSUME BackupInv, NEW t \in Tool, PublishRestore(t)
    PROVE  BackupInv'
  <1> DEFINE d == [files |-> tools[t].files, receipt |-> tools[t].manifest,
                   approved |-> tools[t].approved]
  <1>1. UNCHANGED <<source, everHeld, backups>> /\ GiveUp(t)
        /\ tools[t].job = "restore" /\ tools[t].pc = "rename"
    BY DEF PublishRestore
  <1>2. RestoreJob(tools[t])
    BY <1>1 DEF BackupInv, Job, NoJob, BackupJob
  <1>3. CASE UNCHANGED restored
    BY <1>1, <1>3, GiveUpInv
  <1>4. CASE restored' = [restored EXCEPT ![tools[t].name] = d]
    <2>1. RestoredDir(d) /\ tools[t].name \in RestoreRoot
      BY <1>1, <1>2 DEF RestoreJob, RestoredDir
    <2>2. \A r \in RestoreRoot : RestoredDir(restored'[r])
      BY <1>4, <2>1 DEF BackupInv
    <2>3. restored' = [r \in RestoreRoot |-> restored'[r]]
      BY <1>4 DEF BackupInv
    <2>4. tools' = [u \in Tool |-> tools'[u]] /\ \A u \in Tool : Job(tools'[u])
      BY <1>1 DEF BackupInv, GiveUp, Job
    <2> QED
      BY <1>1, <2>2, <2>3, <2>4, SourceKept DEF BackupInv
  <1> QED
    BY <1>3, <1>4 DEF PublishRestore

-----------------------------------------------------------------------------

\* A writer raises one version: what was ever held stays held, and a first block
\* that was raised no longer is the one that was read.
LEMMA WriteSourceInv ==
    ASSUME BackupInv, WriteSource
    PROVE  BackupInv'
  <1>1. PICK f \in Busy, i \in {1, 2} :
          /\ source' = [source EXCEPT ![f] = [source[f] EXCEPT ![i] = @ + 1]]
          /\ everHeld' = [everHeld EXCEPT ![f] = @ \cup {[source[f] EXCEPT ![i] = @ + 1]}]
    BY DEF WriteSource
  <1> DEFINE now == [source[f] EXCEPT ![i] = @ + 1]
  <1>2. f \in File /\ SourceTypes
    BY BackupConstants DEF File, BackupInv
  <1>3. now \in Contents /\ source[f][1] <= now[1]
    <2>1. PICK x \in Nat, y \in Nat : source[f] = <<x, y>>
      BY <1>2 DEF SourceTypes, Contents
    <2>2. now = <<x + 1, y>> \/ now = <<x, y + 1>>
      <3>1. CASE i = 1
        BY <2>1, <3>1
      <3>2. CASE i = 2
        BY <2>1, <3>2
      <3> QED
        BY <3>1, <3>2
    <2> HIDE DEF now
    <2> QED
      BY <2>1, <2>2 DEF Contents
  <1>4. /\ source' = [source EXCEPT ![f] = now]
        /\ everHeld' = [everHeld EXCEPT ![f] = @ \cup {now}]
    BY <1>1
  <1> HIDE DEF now
  <1>5. SourceTypes'
    BY <1>2, <1>3, <1>4 DEF SourceTypes
  <1>6. \A g \in File : everHeld[g] \subseteq everHeld'[g] /\ source[g][1] <= source'[g][1]
        /\ source[g][1] \in Nat /\ source'[g][1] \in Nat
    <2>1. \A c \in Contents : c[1] \in Nat
      BY DEF Contents
    <2>2. \A g \in File : source[g] \in Contents /\ source'[g] \in Contents
      BY <1>2, <1>5 DEF SourceTypes
    <2>3. \A g \in File : g # f => source'[g] = source[g]
      BY <1>2, <1>4 DEF SourceTypes
    <2>4. source'[f] = now
      BY <1>2, <1>4 DEF SourceTypes
    <2>5. \A g \in File : everHeld[g] \subseteq everHeld'[g]
      BY <1>2, <1>4 DEF SourceTypes
    <2>6. \A g \in File : source[g][1] \in Nat /\ source'[g][1] \in Nat
      BY <2>1, <2>2
    <2> QED
      BY <1>3, <2>3, <2>4, <2>5, <2>6
  <1>7. \A m : Held(m) => Held(m)'
    BY <1>6 DEF Held, IsFunction
  <1>8. ASSUME NEW g \in File, NEW seen, ReadsOf(g, seen)
        PROVE  ReadsOf(g, seen)'
    <2>1. seen \in Seq(Nat) /\ Len(seen) \in {0, 1, 2, 3}
      BY <1>8, NumberOfReads
    <2>2. CASE Len(seen) = 1
      <3>1. seen[1] <= source'[g][1] /\ seen[1] \in Nat
        BY <1>6, <1>8, <2>1, <2>2 DEF ReadsOf
      <3> QED
        BY <2>1, <2>2, <3>1 DEF ReadsOf
    <2>3. CASE Len(seen) = 2
      <3>1. seen[1] <= source'[g][1] /\ seen[1] \in Nat
        BY <1>6, <1>8, <2>1, <2>3 DEF ReadsOf
      <3>2. seen[1] <= source[g][1]
            /\ (seen[1] = source[g][1] => <<seen[1], seen[2]>> \in everHeld[g])
        BY <1>8, <2>3 DEF ReadsOf
      <3>3. seen[1] = source'[g][1] => <<seen[1], seen[2]>> \in everHeld'[g]
        BY <1>6, <3>1, <3>2
      <3> QED
        BY <2>1, <2>3, <3>1, <3>3 DEF ReadsOf
    <2>4. CASE Len(seen) = 3
      <3>1. seen[1] = seen[3] => <<seen[1], seen[2]>> \in everHeld'[g]
        BY <1>6, <1>8, <2>4 DEF ReadsOf
      <3> QED
        BY <2>1, <2>4, <3>1 DEF ReadsOf
    <2>5. CASE Len(seen) = 0
      BY <2>1, <2>5 DEF ReadsOf
    <2> QED
      BY <2>1, <2>2, <2>3, <2>4, <2>5
  <1>9. ASSUME NEW t \in Tool PROVE Job(tools[t])'
    <2>1. Job(tools[t]) /\ tools'[t] = tools[t]
      BY DEF BackupInv, WriteSource
    <2>2. CASE tools[t] = NoJob
      BY <2>1, <2>2 DEF Job, NoJob
    <2>3. CASE BackupJob(tools[t])
      <3>1. tools[t].todo # {} => Min(tools[t].todo) \in File
        BY <2>3, MinIsIn DEF BackupJob
      <3>2. BackupJob(tools[t])'
        BY <1>7, <1>8, <2>1, <2>3, <3>1 DEF BackupJob
      <3> QED
        BY <3>2 DEF Job
    <2>4. CASE RestoreJob(tools[t])
      <3>1. RestoreJob(tools[t])'
        BY <1>7, <2>1, <2>4 DEF RestoreJob, IsFunction
      <3> QED
        BY <3>1 DEF Job
    <2> QED
      BY <2>1, <2>2, <2>3, <2>4 DEF Job
  <1>10. \A b \in BackupRoot : BackupDir(backups[b])'
    BY <1>7 DEF BackupInv, BackupDir, WriteSource
  <1>11. \A r \in RestoreRoot : RestoredDir(restored[r])'
    BY <1>7 DEF BackupInv, RestoredDir, WriteSource
  <1> QED
    BY <1>5, <1>9, <1>10, <1>11 DEF BackupInv, WriteSource

\* Damage touches a payload, never a manifest.
LEMMA RotInv ==
    ASSUME BackupInv, Rot
    PROVE  BackupInv'
  <1>1. UNCHANGED <<source, everHeld, restored>>
    BY DEF Rot
  <1>2. ASSUME NEW b \in BackupRoot, backups[b] # Nothing, UNCHANGED tools,
               NEW f \in DOMAIN backups[b].payload,
               backups' = [backups EXCEPT ![b].payload[f] = Damaged]
        PROVE  BackupInv'
    <2> DEFINE d == backups[b]
               p == [d.payload EXCEPT ![f] = Damaged]
               e == [d EXCEPT !.payload = p]
    <2>1. backups = [c \in BackupRoot |-> backups[c]] /\ BackupDir(d)
      BY DEF BackupInv
    <2>2. backups' = [backups EXCEPT ![b] = e]
      BY <1>2
    <2>3. DOMAIN e = DOMAIN d /\ e.manifest = d.manifest
      <3>1. DOMAIN d = {"manifest", "payload"}
        BY <1>2, <2>1 DEF BackupDir
      <3> HIDE DEF d, p
      <3> QED
        BY <3>1
    <2>4. BackupDir(e)
      <3> HIDE DEF e
      <3> QED
        BY <1>2, <2>1, <2>3 DEF BackupDir
    <2>5. backups' = [c \in BackupRoot |-> backups'[c]]
          /\ \A c \in BackupRoot : BackupDir(backups'[c])
      <3> HIDE DEF e
      <3> QED
        BY <2>1, <2>2, <2>4 DEF BackupInv
    <2> QED
      BY <1>1, <1>2, <2>5, SourceKept DEF BackupInv
  <1>3. ASSUME NEW t \in Tool, tools[t].job = "backup", UNCHANGED backups,
               NEW f \in DOMAIN tools[t].payload,
               tools' = [tools EXCEPT ![t].payload[f] = Damaged]
        PROVE  BackupInv'
    <2> DEFINE j == tools[t]
               p == [j.payload EXCEPT ![f] = Damaged]
               k == [j EXCEPT !.payload = p]
    <2>1. BackupJob(j)
      BY <1>3 DEF BackupInv, Job, NoJob, RestoreJob
    <2>2. tools' = [tools EXCEPT ![t] = k]
      BY <1>3
    <2>3. /\ DOMAIN k = DOMAIN j /\ k.job = j.job /\ k.name = j.name
          /\ k.todo = j.todo /\ k.seen = j.seen /\ k.manifest = j.manifest
      <3>1. DOMAIN j = {"job", "pc", "name", "todo", "seen", "manifest", "payload"}
        BY <2>1 DEF BackupJob
      <3> HIDE DEF j, p
      <3> QED
        BY <3>1
    <2>4. BackupJob(k)
      <3> HIDE DEF k
      <3> QED
        BY <2>1, <2>3 DEF BackupJob
    <2> QED
      BY <1>1, <1>3, <2>2, <2>4, ToolStep DEF Job
  <1> QED
    BY <1>2, <1>3 DEF Rot

LEMMA DeleteBackupInv ==
    ASSUME BackupInv, DeleteBackup
    PROVE  BackupInv'
  <1>1. PICK b \in BackupRoot : backups' = [backups EXCEPT ![b] = Nothing]
    BY DEF DeleteBackup
  <1>2. UNCHANGED <<source, everHeld, restored, tools>>
    BY DEF DeleteBackup
  <1>3. backups' = [c \in BackupRoot |-> backups'[c]]
        /\ \A c \in BackupRoot : BackupDir(backups'[c])
    BY <1>1 DEF BackupInv, BackupDir
  <1> QED
    BY <1>2, <1>3, SourceKept DEF BackupInv

LEMMA BackupNextInv == BackupInv /\ [BackupNext]_backupVars => BackupInv'
  <1> SUFFICES ASSUME BackupInv, [BackupNext]_backupVars PROVE BackupInv'
    OBVIOUS
  <1>1. ASSUME NEW t \in Tool, FailOrDie(t) PROVE BackupInv'
    BY <1>1, GiveUpInv DEF FailOrDie
  <1>2. CASE DryRun
    <2>1. UNCHANGED <<source, everHeld, backups, restored, tools>>
      BY <1>2 DEF DryRun
    <2> QED
      BY <2>1, SourceKept DEF BackupInv
  <1>3. CASE UNCHANGED backupVars
    <2>1. UNCHANGED <<source, everHeld, backups, restored, tools>>
      BY <1>3 DEF backupVars
    <2> QED
      BY <2>1, SourceKept DEF BackupInv
  <1> QED
    BY <1>1, <1>2, <1>3, BeginBackupInv, CopyBlockInv, SealBackupInv, PublishBackupInv,
       BeginRestoreInv, RestoreFileInv, SealRestoreInv, PublishRestoreInv,
       WriteSourceInv, RotInv, DeleteBackupInv DEF BackupNext

\* A backup that open_backup_strict accepts holds contents its source really had,
\* though copy_stable_file reads a file that is being written, block by block, and
\* though disks rot: for any number of processes, files and versions.
THEOREM BackupsHold == BackupSpec => []BackupsHoldTheSource
  <1>1. BackupInv => BackupsHoldTheSource
    BY DEF BackupInv, BackupsHoldTheSource, Opens, PayloadMatches, BackupDir, Held
  <1> QED
    BY <1>1, BackupInitInv, BackupNextInv, PTL DEF BackupSpec

\* What restore_to_new_directory publishes is the plan that was approved, whatever
\* happened to the backup while it was copied and whoever else restored.
THEOREM RestoresAsApproved == BackupSpec => []RestoredAsApproved
  <1>1. BackupInv => RestoredAsApproved
    BY DEF BackupInv, RestoredAsApproved, RestoredDir, Held
  <1> QED
    BY <1>1, BackupInitInv, BackupNextInv, PTL DEF BackupSpec

-----------------------------------------------------------------------------
(* The importer: any plan, limits and number of attempts.                  *)

\* The operation behind everything committed.
Behind == FirstBehind(target.commits, Len(target.commits))

\* A running importer, its open transaction, and a target that exists.
ImporterType ==
    [pc : {"begin", "fill", "commit", "count"}, at : Nat, batch : Nat, added : Nat, bytes : Nat]
WriterType ==
    [state : {"Active", "Prepared"}, id : Nat, entries : Seq(Nat), bytes : Nat]
TargetType == [exists : BOOLEAN, commits : Seq(Seq(Nat)), checkpoint : Nat]

\* The commits are the plan's operations up to Behind, in batches within limits.
TargetStands ==
    /\ target \in TargetType
    /\ \A k \in 1..Len(target.commits) : Len(target.commits[k]) \in 1..MaxOperations
    /\ InPlanOrder(target.commits)
    /\ Behind \in 1..(Len(plan) + 1)
    /\ Committed = 1..(Behind - 1)

\* The batch under way holds the operations behind the last commit, up to at.
BatchStands ==
    /\ writer \in WriterType
    /\ Len(writer.entries) = importer.added
    /\ \A j \in 1..Len(writer.entries) : writer.entries[j] = Behind + j - 1
    /\ importer.added \in 0..MaxOperations
    /\ importer.at = Behind + importer.added

\* A running importer has read an acceptable plan, and its target stands.
Running ==
    /\ importer \in ImporterType
    /\ importer.at \in 1..(Len(plan) + 1)
    /\ ReadPlan
    /\ TargetStands
    /\ importer.pc \in {"begin", "count"} => importer.at = Behind
    /\ importer.pc \in {"fill", "commit"} => BatchStands
    /\ importer.pc = "fill" /\ importer.added = 0 => importer.at <= Len(plan)
    /\ importer.pc = "commit" => importer.added # 0
    /\ importer.pc = "count" => /\ importer.at = Len(plan) + 1
                                /\ target.checkpoint = Len(target.commits)

MigrationInv ==
    /\ planFile \in PlanFiles
    /\ importer.pc # "stopped" => Running
    /\ ReceiptMeansComplete

\* A plan is a sequence of records and edges.
LEMMA PlanTyped ==
    ASSUME planFile \in PlanFiles
    PROVE  /\ plan \in Seq(Range(plan)) /\ Len(plan) \in Nat /\ DOMAIN plan = 1..Len(plan)
           /\ \A i \in 1..Len(plan) :
                 plan[i].kind \in {"record", "edge"} /\ plan[i].bytes \in Nat
  BY MigrationConstants DEF plan

\* Two operations are never on one key when the keys are as many as the
\* operations: a surjection between sets of one size is injective.
LEMMA CountedOnce ==
    ASSUME NEW S, NEW T, IsFiniteSet(S), NEW keyOf,
           T = {keyOf[i] : i \in S}, Cardinality(T) = Cardinality(S)
    PROVE  \A a, b \in S : keyOf[a] = keyOf[b] => a = b
  <1> DEFINE f == [i \in S |-> keyOf[i]]
  <1>1. f \in Surjection(S, T)
    BY DEF Surjection
  <1>2. \A a \in S : f[a] = keyOf[a]
    OBVIOUS
  <1>3. DOMAIN f = S
    OBVIOUS
  <1> HIDE DEF f
  <1>4. f \in Injection(S, T)
    BY <1>1, FS_Surjection
  <1> QED
    BY <1>2, <1>3, <1>4 DEF Injection, IsInjective

\* state_counts: when the counts agree, every operation of the plan is served.
LEMMA CountsServe ==
    ASSUME planFile \in PlanFiles, ReadPlan, CountsAgree, Committed = 1..Len(plan)
    PROVE  \A i \in DOMAIN plan : Serves(i)
  <1> DEFINE N == Len(plan)
             keyOf == [i \in 1..N |-> <<plan[i].kind, plan[i].key>>]
  <1>1. N \in Nat /\ DOMAIN plan = 1..N /\ \A i \in 1..N : plan[i].kind \in {"record", "edge"}
    BY PlanTyped
  <1>2. ASSUME NEW kind \in {"record", "edge"}, NEW i \in 1..N, NEW j \in 1..N,
               plan[i].kind = kind, plan[j].kind = kind, plan[i].key = plan[j].key
        PROVE  i = j
    <2> DEFINE S == {n \in DOMAIN plan : plan[n].kind = kind}
               T == {k \in KeysOf(Committed) : k[1] = kind}
    <2>1. IsFiniteSet(S)
      <3>1. IsFiniteSet(1..N)
        BY <1>1, FS_Interval
      <3>2. S \in SUBSET (1..N)
        BY <1>1
      <3> HIDE DEF S
      <3> QED
        BY <3>1, <3>2, FS_Subset
    <2>2. T = {keyOf[n] : n \in S}
      <3>1. KeysOf(Committed) = {<<plan[n].kind, plan[n].key>> : n \in 1..N}
        BY Zenon DEF KeysOf
      <3> QED
        BY <1>1, <3>1
    <2>3. Cardinality(T) = Cardinality(S)
      BY DEF CountsAgree, CountOf, ReadPlan
    <2>4. i \in S /\ j \in S /\ keyOf[i] = keyOf[j]
      BY <1>1, <1>2
    <2> HIDE DEF S, T, keyOf
    <2> QED
      BY <2>1, <2>2, <2>3, <2>4, CountedOnce
  <1>3. ASSUME NEW i \in 1..N, NEW j \in 1..N, KeysOf({i}) = KeysOf({j})
        PROVE  i = j
    <2>1. KeysOf({i}) = {<<plan[i].kind, plan[i].key>>}
          /\ KeysOf({j}) = {<<plan[j].kind, plan[j].key>>}
      BY Zenon DEF KeysOf
    <2>2. <<plan[i].kind, plan[i].key>> = <<plan[j].kind, plan[j].key>>
      BY <1>3, <2>1, Zenon
    <2>3. plan[j].kind = plan[i].kind /\ plan[i].key = plan[j].key
      BY <2>2
    <2> QED
      BY <1>1, <1>2, <2>3
  <1> HIDE DEF N
  <1>4. ASSUME NEW i \in 1..N PROVE Serves(i)
    <2>1. i \in Committed
      BY DEF N
    <2>2. ASSUME NEW j \in Committed, KeysOf({i}) = KeysOf({j}) PROVE j <= i
      <3>1. j \in 1..N
        BY DEF N
      <3> QED
        BY <1>1, <1>3, <2>2, <3>1
    <2> QED
      BY <2>1, <2>2 DEF Serves
  <1> QED
    BY <1>1, <1>4 DEF N

\* CommitBatch: the commits go on where they ended.
LEMMA BatchCommitted ==
    ASSUME NEW batches \in Seq(Seq(Nat)), NEW batch \in Seq(Nat), Len(batch) # 0,
           \A k \in 1..Len(batches) : Len(batches[k]) \in 1..MaxOperations,
           InPlanOrder(batches), FirstBehind(batches, Len(batches)) \in Nat,
           \A j \in 1..Len(batch) : batch[j] = FirstBehind(batches, Len(batches)) + j - 1
    PROVE  /\ InPlanOrder(Append(batches, batch))
           /\ FirstBehind(Append(batches, batch), Len(batches) + 1)
                  = FirstBehind(batches, Len(batches)) + Len(batch)
           /\ UNION {ToSet(Append(batches, batch)[k]) : k \in 1..(Len(batches) + 1)}
                  = (UNION {ToSet(batches[k]) : k \in 1..Len(batches)})
                        \cup (FirstBehind(batches, Len(batches))..
                                  (FirstBehind(batches, Len(batches)) + Len(batch) - 1))
  <1> DEFINE n == Len(batches)
             after == Append(batches, batch)
             first == FirstBehind(batches, n)
  <1>1. /\ after \in Seq(Seq(Nat)) /\ Len(after) = n + 1 /\ n \in Nat
        /\ after[n + 1] = batch /\ \A k \in 1..n : after[k] = batches[k]
        /\ DOMAIN after = 1..(n + 1) /\ DOMAIN batches = 1..n
    OBVIOUS
  <1> HIDE DEF after
  <1>2. \A k \in 0..n : FirstBehind(after, k) = FirstBehind(batches, k)
    BY <1>1 DEF FirstBehind
  <1>3. ASSUME NEW k \in 1..(n + 1), NEW j \in DOMAIN after[k]
        PROVE  after[k][j] = FirstBehind(after, k - 1) + j - 1
    <2>1. k - 1 \in 0..n
      BY <1>1
    <2>2. CASE k = n + 1
      <3>1. j \in 1..Len(batch) /\ k - 1 = n
        BY <1>1, <2>2
      <3> QED
        BY <1>1, <1>2, <2>1, <2>2, <3>1
    <2>3. CASE k \in 1..n
      <3>1. batches[k][j] = FirstBehind(batches, k - 1) + j - 1
        BY <1>1, <2>3 DEF InPlanOrder
      <3> QED
        BY <1>1, <1>2, <2>1, <2>3, <3>1
    <2> QED
      BY <1>1, <2>2, <2>3
  <1>4. InPlanOrder(after)
    BY <1>1, <1>3 DEF InPlanOrder
  <1>5. FirstBehind(after, n + 1) = first + Len(batch)
    <2>1. Len(batch) \in 1..Len(batch) /\ Len(batch) \in Nat
      OBVIOUS
    <2>2. FirstBehind(after, n + 1) = batch[Len(batch)] + 1
      BY <1>1 DEF FirstBehind
    <2>3. batch[Len(batch)] = first + Len(batch) - 1 /\ first \in Nat
      BY <2>1
    <2> HIDE DEF n, first
    <2> QED
      BY <2>1, <2>2, <2>3
  <1>6. ToSet(batch) = first..(first + Len(batch) - 1)
    <2>1. ToSet(batch) = {batch[j] : j \in 1..Len(batch)}
      BY DEF ToSet
    <2>2. ASSUME NEW x \in first..(first + Len(batch) - 1)
          PROVE  x \in ToSet(batch)
      <3>1. x - first + 1 \in 1..Len(batch) /\ batch[x - first + 1] = x
        OBVIOUS
      <3> QED
        BY <2>1, <3>1
    <2>3. ASSUME NEW x \in ToSet(batch)
          PROVE  x \in first..(first + Len(batch) - 1)
      <3>1. PICK j \in 1..Len(batch) : x = batch[j]
        BY <2>1
      <3> QED
        BY <3>1
    <2> QED
      BY <2>2, <2>3
  <1>7. UNION {ToSet(after[k]) : k \in 1..(n + 1)}
            = (UNION {ToSet(batches[k]) : k \in 1..n}) \cup ToSet(batch)
    <2>1. n + 1 \in 1..(n + 1) /\ \A k \in 1..n : k \in 1..(n + 1)
      BY <1>1
    <2>2. \A k \in 1..(n + 1) : k = n + 1 \/ k \in 1..n
      BY <1>1
    <2>3. ASSUME NEW x \in UNION {ToSet(after[k]) : k \in 1..(n + 1)}
          PROVE  x \in (UNION {ToSet(batches[k]) : k \in 1..n}) \cup ToSet(batch)
      <3>1. PICK k \in 1..(n + 1) : x \in ToSet(after[k])
        OBVIOUS
      <3> QED
        BY <1>1, <2>2, <3>1
    <2>4. ASSUME NEW x \in (UNION {ToSet(batches[k]) : k \in 1..n}) \cup ToSet(batch)
          PROVE  x \in UNION {ToSet(after[k]) : k \in 1..(n + 1)}
      <3>1. CASE x \in ToSet(batch)
        BY <1>1, <2>1, <3>1
      <3>2. CASE x \in UNION {ToSet(batches[k]) : k \in 1..n}
        <4>1. PICK k \in 1..n : x \in ToSet(batches[k])
          BY <3>2
        <4> QED
          BY <1>1, <2>1, <4>1
      <3> QED
        BY <3>1, <3>2
    <2> QED
      BY <2>3, <2>4
  <1> QED
    BY <1>4, <1>5, <1>6, <1>7, Zenon DEF after

LEMMA MigrationStarts == MigrationInit => MigrationInv
  BY DEF MigrationInit, MigrationInv, Stopped, ReceiptMeansComplete

\* What an import relies on is not touched when neither plan nor target is.
LEMMA TargetSame ==
    ASSUME TargetStands, UNCHANGED <<planFile, target>>
    PROVE  TargetStands' /\ Behind' = Behind
  BY DEF TargetStands, Behind, Committed, plan

LEMMA StartImportInv == MigrationInv /\ StartImport => MigrationInv'
  <1> SUFFICES ASSUME MigrationInv, StartImport PROVE MigrationInv'
    OBVIOUS
  <1>1. CASE ~ReadPlan \/ target.exists
    <2>1. importer' = [Stopped EXCEPT !.result = "refused"] /\ planFile' = planFile
      BY <1>1 DEF StartImport, Refuse
    <2>2. importer'.pc = "stopped" /\ importer'.result = "refused"
      BY <2>1 DEF Stopped
    <2> QED
      BY <2>1, <2>2 DEF MigrationInv, ReceiptMeansComplete
  <1>2. CASE ~(~ReadPlan \/ target.exists)
    <2>1. /\ importer' = [pc |-> "begin", at |-> 1, batch |-> 0, added |-> 0, bytes |-> 0]
          /\ target' = [exists |-> TRUE, commits |-> <<>>, checkpoint |-> 0]
          /\ planFile' = planFile
      BY <1>2 DEF StartImport
    <2>2. planFile \in PlanFiles /\ Len(plan) \in Nat
      BY PlanTyped DEF MigrationInv
    <2>3. target'.commits = <<>> /\ Len(target'.commits) = 0
      BY <2>1
    <2>4. Behind' = 1
      BY <2>3 DEF Behind, FirstBehind
    <2>5. Committed' = {}
      <3>1. 1..0 = {}
        OBVIOUS
      <3> QED
        BY <2>3, <3>1 DEF Committed
    <2>6. TargetStands'
      BY <2>1, <2>2, <2>3, <2>4, <2>5 DEF TargetStands, TargetType, InPlanOrder, plan
    <2>7. ReadPlan'
      BY <1>2, <2>1 DEF ReadPlan, plan
    <2>8. Running'
      BY <2>1, <2>2, <2>4, <2>6, <2>7 DEF Running, ImporterType, plan
    <2> QED
      BY <2>1, <2>2, <2>8 DEF MigrationInv, ReceiptMeansComplete
  <1> QED
    BY <1>1, <1>2

LEMMA BeginTransactionInv == MigrationInv /\ BeginTransaction => MigrationInv'
  <1> SUFFICES ASSUME MigrationInv, BeginTransaction PROVE MigrationInv'
    OBVIOUS
  <1>1. Running /\ importer.pc = "begin" /\ importer.at <= Len(plan) /\ planFile' = planFile
        /\ target' = target /\ planFile \in PlanFiles
    BY DEF MigrationInv, BeginTransaction
  <1>2. /\ importer' \in ImporterType /\ importer'.pc = "fill" /\ importer'.added = 0
        /\ importer'.at = importer.at
    <2> DEFINE b == importer.batch + 1
    <2>1. importer \in ImporterType /\ b \in Nat
      BY <1>1 DEF Running, ImporterType
    <2>2. importer' = [importer EXCEPT !.pc = "fill", !.batch = b, !.added = 0, !.bytes = 0]
      BY DEF BeginTransaction
    <2> HIDE DEF b
    <2> QED
      BY <2>1, <2>2 DEF ImporterType
  <1>7. writer' \in WriterType /\ writer'.entries = <<>>
    <2>1. importer.batch + 1 \in Nat
      BY <1>1 DEF Running, ImporterType
    <2> QED
      BY <2>1 DEF BeginTransaction, BeginBatch, WriterType
  <1>3. TargetStands' /\ Behind' = Behind
    BY <1>1, TargetSame DEF Running
  <1>4. BatchStands'
    <2>1. importer.at = Behind /\ Behind \in Nat /\ 0 \in 0..MaxOperations
      BY <1>1, MigrationConstants DEF Running, TargetStands
    <2> QED
      BY <1>2, <1>3, <1>7, <2>1 DEF BatchStands
  <1>5. ReadPlan' /\ Len(plan)' = Len(plan)
    BY <1>1 DEF Running, ReadPlan, plan
  <1>6. Running'
    BY <1>1, <1>2, <1>3, <1>4, <1>5 DEF Running
  <1> QED
    BY <1>1, <1>2, <1>6 DEF MigrationInv, ReceiptMeansComplete

LEMMA AddOperationInv == MigrationInv /\ AddOperation => MigrationInv'
  <1> SUFFICES ASSUME MigrationInv, AddOperation PROVE MigrationInv'
    OBVIOUS
  <1>1. Running /\ importer.pc = "fill" /\ importer.at <= Len(plan) /\ planFile' = planFile
        /\ target' = target /\ planFile \in PlanFiles /\ importer.added < MaxOperations
    BY DEF MigrationInv, AddOperation, Room
  <1>2. CASE MayAdd(writer, importer.at)
    <2>1. /\ writer' = WithEntry(writer, importer.at)
          /\ importer' = [importer EXCEPT !.at = @ + 1, !.added = @ + 1,
                              !.bytes = @ + plan[importer.at].bytes]
      BY <1>2 DEF AddOperation
    <2>2. TargetStands' /\ Behind' = Behind /\ Behind \in Nat
      BY <1>1, TargetSame DEF Running, TargetStands
    <2>3. Len(plan) \in Nat /\ importer.at \in 1..Len(plan) /\ plan[importer.at].bytes \in Nat
      BY <1>1, PlanTyped DEF Running
    <2>4. BatchStands /\ importer \in ImporterType
      BY <1>1 DEF Running
    <2>5. importer' \in ImporterType
          /\ importer'.pc = "fill" /\ importer'.at = importer.at + 1
          /\ importer'.added = importer.added + 1
      <3> DEFINE a == importer.at + 1
                 b == importer.added + 1
                 c == importer.bytes + plan[importer.at].bytes
      <3>1. a \in Nat /\ b \in Nat /\ c \in Nat
        BY <2>3, <2>4 DEF ImporterType
      <3>2. importer' = [importer EXCEPT !.at = a, !.added = b, !.bytes = c]
        BY <2>1
      <3> HIDE DEF a, b, c
      <3>3. /\ importer' \in ImporterType /\ importer'.pc = importer.pc
            /\ importer'.at = a /\ importer'.added = b
        BY <2>4, <3>1, <3>2 DEF ImporterType
      <3> QED
        BY <1>1, <3>3 DEF a, b
    <2>6. EncodedBytes(plan[importer.at]) \in Nat
      BY <2>3, MigrationConstants DEF EncodedBytes
    <2>7. writer' \in WriterType
          /\ writer'.entries = Append(writer.entries, importer.at)
      <3> DEFINE a == Append(writer.entries, importer.at)
                 b == writer.bytes + EncodedBytes(plan[importer.at])
      <3>1. writer \in WriterType /\ a \in Seq(Nat) /\ b \in Nat
        BY <2>3, <2>4, <2>6 DEF BatchStands, WriterType
      <3>2. writer' = [writer EXCEPT !.entries = a, !.bytes = b]
        BY <2>1 DEF WithEntry
      <3> HIDE DEF a, b
      <3>3. writer' \in WriterType /\ writer'.entries = a
        BY <3>1, <3>2 DEF WriterType
      <3> QED
        BY <3>3 DEF a
    <2>8. BatchStands'
      <3>1. writer.entries \in Seq(Nat) /\ Len(writer.entries) = importer.added
            /\ importer.at = Behind + importer.added
            /\ \A j \in 1..Len(writer.entries) : writer.entries[j] = Behind + j - 1
        BY <2>4 DEF BatchStands, WriterType
      <3>2. Len(writer'.entries) = importer.added + 1
        BY <2>3, <2>7, <3>1
      <3>3. ASSUME NEW j \in 1..(importer.added + 1)
            PROVE  writer'.entries[j] = Behind + j - 1
        <4>1. CASE j = importer.added + 1
          <5>1. writer'.entries[importer.added + 1] = importer.at
            BY <2>3, <2>7, <3>1
          <5> QED
            BY <2>2, <2>3, <3>1, <4>1, <5>1, <2>4 DEF ImporterType
        <4>2. CASE j \in 1..importer.added
          BY <2>3, <2>7, <3>1, <4>2
        <4> QED
          BY <2>4, <4>1, <4>2 DEF ImporterType
      <3>4. importer.added + 1 \in 0..MaxOperations
            /\ importer.at + 1 = Behind + importer.added + 1
        BY <1>1, <2>2, <3>1, <2>4, MigrationConstants DEF ImporterType
      <3> QED
        BY <2>2, <2>5, <2>7, <3>2, <3>3, <3>4 DEF BatchStands
    <2>9. ReadPlan' /\ Len(plan)' = Len(plan)
      BY <1>1 DEF Running, ReadPlan, plan
    <2>10. Running'
      <3>1. importer.at + 1 \in 1..(Len(plan) + 1) /\ importer.added + 1 # 0
        BY <2>3, <2>4 DEF ImporterType
      <3> QED
        BY <2>2, <2>5, <2>8, <2>9, <3>1 DEF Running
    <2> QED
      BY <1>1, <2>5, <2>10 DEF MigrationInv, ReceiptMeansComplete
  <1>3. CASE ~MayAdd(writer, importer.at)
    <2>1. importer'.pc = "stopped" /\ importer'.result = "refused"
      BY <1>3 DEF AddOperation, Refuse, Stopped
    <2> QED
      BY <1>1, <2>1 DEF MigrationInv, ReceiptMeansComplete
  <1> QED
    BY <1>2, <1>3

LEMMA PrepareBatchInv == MigrationInv /\ PrepareBatch => MigrationInv'
  <1> SUFFICES ASSUME MigrationInv, PrepareBatch PROVE MigrationInv'
    OBVIOUS
  <1>1. Running /\ importer.pc = "fill" /\ ~Room /\ planFile' = planFile
        /\ target' = target /\ planFile \in PlanFiles
        /\ writer' = [writer EXCEPT !.state = "Prepared"]
        /\ importer' = [importer EXCEPT !.pc = "commit"]
    BY DEF MigrationInv, PrepareBatch
  <1>2. TargetStands' /\ Behind' = Behind
    BY <1>1, TargetSame DEF Running
  <1>3. importer.added # 0
    BY <1>1, MigrationConstants DEF Room, Running
  <1>4. BatchStands'
    <2>1. BatchStands /\ writer \in WriterType /\ importer \in ImporterType
      BY <1>1 DEF BatchStands, Running
    <2>2. writer' \in WriterType /\ writer'.entries = writer.entries
      BY <1>1, <2>1 DEF WriterType
    <2>3. importer'.added = importer.added /\ importer'.at = importer.at
      BY <1>1, <2>1 DEF ImporterType
    <2> QED
      BY <1>2, <2>1, <2>2, <2>3 DEF BatchStands
  <1>5. ReadPlan' /\ Len(plan)' = Len(plan)
    BY <1>1 DEF Running, ReadPlan, plan
  <1>6. /\ importer' \in ImporterType /\ importer'.pc = "commit"
        /\ importer'.at = importer.at /\ importer'.added = importer.added
    BY <1>1 DEF Running, ImporterType
  <1>7. Running'
    BY <1>1, <1>2, <1>3, <1>4, <1>5, <1>6 DEF Running
  <1> QED
    BY <1>1, <1>6, <1>7 DEF MigrationInv, ReceiptMeansComplete

LEMMA CommitBatchInv == MigrationInv /\ CommitBatch => MigrationInv'
  <1> SUFFICES ASSUME MigrationInv, CommitBatch PROVE MigrationInv'
    OBVIOUS
  <1>1. Running /\ importer.pc = "commit" /\ planFile' = planFile /\ planFile \in PlanFiles
        /\ target' = [target EXCEPT !.commits = Append(@, writer.entries)]
        /\ importer' = [importer EXCEPT !.pc = "begin"]
    BY DEF MigrationInv, CommitBatch
  <1> DEFINE batches == target.commits
             batch == writer.entries
             n == Len(batches)
  <1>2. /\ batches \in Seq(Seq(Nat)) /\ batch \in Seq(Nat)
        /\ Len(batch) = importer.added /\ importer.added \in 1..MaxOperations
        /\ \A k \in 1..Len(batches) : Len(batches[k]) \in 1..MaxOperations
        /\ InPlanOrder(batches) /\ Behind \in 1..(Len(plan) + 1)
        /\ \A j \in 1..Len(batch) : batch[j] = Behind + j - 1
        /\ Committed = 1..(Behind - 1)
        /\ importer.at = Behind + Len(batch) /\ importer.at \in 1..(Len(plan) + 1)
    <2>1. TargetStands /\ BatchStands /\ importer.added # 0
          /\ importer.at \in 1..(Len(plan) + 1)
      BY <1>1 DEF Running
    <2>2. target \in TargetType /\ writer \in WriterType
      BY <2>1 DEF TargetStands, BatchStands
    <2>3. batches \in Seq(Seq(Nat)) /\ batch \in Seq(Nat)
      BY <2>2 DEF TargetType, WriterType
    <2> QED
      BY <2>1, <2>3, MigrationConstants DEF TargetStands, BatchStands
  <1>3. Len(plan) \in Nat /\ Len(plan)' = Len(plan)
    BY <1>1, PlanTyped DEF plan
  <1>4. target' \in TargetType
        /\ target'.commits = Append(batches, batch)
    <2>1. target \in TargetType
      BY <1>1 DEF Running, TargetStands
    <2> DEFINE more == Append(batches, batch)
    <2>2. more \in Seq(Seq(Nat)) /\ target' = [target EXCEPT !.commits = more]
      BY <1>1, <1>2
    <2> HIDE DEF more
    <2>3. target' \in TargetType /\ target'.commits = more
      BY <2>1, <2>2 DEF TargetType
    <2> QED
      BY <2>3 DEF more
  <1>5. Len(target'.commits) = n + 1 /\ n \in Nat
    BY <1>2, <1>4
  <1>6. /\ InPlanOrder(Append(batches, batch))
        /\ FirstBehind(Append(batches, batch), n + 1) = Behind + Len(batch)
        /\ UNION {ToSet(Append(batches, batch)[k]) : k \in 1..(n + 1)}
               = Committed \cup (Behind..(Behind + Len(batch) - 1))
    <2>1. Behind \in Nat /\ Len(batch) # 0
      BY <1>2, <1>3
    <2> QED
      BY <1>2, <2>1, BatchCommitted DEF Behind, Committed
  <1>7. Behind' = importer.at
    BY <1>2, <1>4, <1>5, <1>6 DEF Behind
  <1>8. Committed' = 1..(Behind' - 1)
    <2>1. Committed' = Committed \cup (Behind..(Behind + Len(batch) - 1))
      BY <1>4, <1>5, <1>6 DEF Committed
    <2>2. (1..(Behind - 1)) \cup (Behind..(Behind + Len(batch) - 1))
              = 1..(Behind + Len(batch) - 1)
      BY <1>2, <1>3
    <2> QED
      BY <1>2, <1>7, <2>1, <2>2
  <1>9. \A k \in 1..(n + 1) : Len(target'.commits[k]) \in 1..MaxOperations
    BY <1>2, <1>4
  <1>10. TargetStands'
    BY <1>2, <1>3, <1>4, <1>5, <1>6, <1>7, <1>8, <1>9 DEF TargetStands
  <1>11. ReadPlan'
    BY <1>1 DEF Running, ReadPlan, plan
  <1>12. Running' /\ importer'.pc = "begin"
    <2>1. importer' \in ImporterType /\ importer'.pc = "begin" /\ importer'.at = importer.at
      BY <1>1 DEF Running, ImporterType
    <2> QED
      BY <1>2, <1>3, <1>7, <1>10, <1>11, <2>1 DEF Running
  <1> QED
    BY <1>1, <1>12 DEF MigrationInv, ReceiptMeansComplete

LEMMA CheckpointTargetInv == MigrationInv /\ CheckpointTarget => MigrationInv'
  <1> SUFFICES ASSUME MigrationInv, CheckpointTarget PROVE MigrationInv'
    OBVIOUS
  <1>1. Running /\ importer.pc = "begin" /\ importer.at > Len(plan) /\ planFile' = planFile
        /\ target' = [target EXCEPT !.checkpoint = Len(target.commits)]
        /\ importer' = [importer EXCEPT !.pc = "count"] /\ planFile \in PlanFiles
    BY DEF MigrationInv, CheckpointTarget
  <1>2. Len(plan) \in Nat /\ Len(plan)' = Len(plan)
    BY <1>1, PlanTyped DEF plan
  <1>3. target' \in TargetType
        /\ target'.commits = target.commits /\ target'.checkpoint = Len(target.commits)
    <2>1. target \in TargetType /\ Len(target.commits) \in Nat
      BY <1>1 DEF Running, TargetStands, TargetType
    <2> QED
      BY <1>1, <2>1 DEF TargetType
  <1>4. Behind' = Behind /\ Committed' = Committed
    BY <1>3 DEF Behind, Committed
  <1>5. TargetStands'
    BY <1>1, <1>2, <1>3, <1>4 DEF Running, TargetStands
  <1>6. ReadPlan'
    BY <1>1 DEF Running, ReadPlan, plan
  <1>7. Running' /\ importer'.pc = "count"
    <2>1. importer' \in ImporterType /\ importer'.pc = "count" /\ importer'.at = importer.at
      BY <1>1 DEF Running, ImporterType
    <2>2. importer.at = Len(plan) + 1 /\ importer.at = Behind
      BY <1>1, <1>2 DEF Running
    <2> QED
      BY <1>2, <1>3, <1>4, <1>5, <1>6, <2>1, <2>2 DEF Running
  <1> QED
    BY <1>1, <1>7 DEF MigrationInv, ReceiptMeansComplete

LEMMA FinishImportInv == MigrationInv /\ FinishImport => MigrationInv'
  <1> SUFFICES ASSUME MigrationInv, FinishImport PROVE MigrationInv'
    OBVIOUS
  <1>1. Running /\ importer.pc = "count" /\ planFile' = planFile /\ target' = target
        /\ planFile \in PlanFiles
    BY DEF MigrationInv, FinishImport
  <1>2. CASE CountsAgree /\ target.checkpoint = Len(target.commits)
    <2>1. importer'.pc = "stopped"
      BY <1>2 DEF FinishImport, Stopped
    <2>2. Len(plan) \in Nat /\ Behind = Len(plan) + 1
      BY <1>1, PlanTyped DEF Running
    <2>3. Committed = 1..Len(plan)
      BY <1>1, <2>2 DEF Running, TargetStands
    <2>4. \A i \in DOMAIN plan : Serves(i)
      BY <1>1, <1>2, <2>3, CountsServe DEF Running
    <2>5. /\ InPlanOrder(target.commits)
          /\ \A k \in DOMAIN target.commits : Len(target.commits[k]) \in 1..MaxOperations
      BY <1>1 DEF Running, TargetStands
    <2>6. (\A i \in DOMAIN plan : Serves(i))' /\ Len(plan)' = Len(plan)
      BY <1>1, <2>4 DEF Serves, Committed, KeysOf, plan
    <2>7. ReceiptMeansComplete'
      BY <1>1, <1>2, <2>2, <2>5, <2>6 DEF ReceiptMeansComplete, Behind
    <2> QED
      BY <1>1, <2>1, <2>7 DEF MigrationInv
  <1>3. CASE ~(CountsAgree /\ target.checkpoint = Len(target.commits))
    <2>1. importer'.pc = "stopped" /\ importer'.result = "refused"
      BY <1>3 DEF FinishImport, Refuse, Stopped
    <2> QED
      BY <1>1, <2>1 DEF MigrationInv, ReceiptMeansComplete
  <1> QED
    BY <1>2, <1>3

LEMMA MigrationSteps == MigrationInv /\ [MigrationNext]_migrationVars => MigrationInv'
  <1> SUFFICES ASSUME MigrationInv, [MigrationNext]_migrationVars PROVE MigrationInv'
    OBVIOUS
  <1>1. CASE ImporterKilled
    BY <1>1 DEF ImporterKilled, MigrationInv, ReceiptMeansComplete, Stopped
  <1>2. CASE UNCHANGED migrationVars
    BY <1>2 DEF migrationVars, MigrationInv, ReceiptMeansComplete, Running, ReadPlan,
        TargetStands, BatchStands, Behind, Committed, Serves, KeysOf, plan
  <1> QED
    BY <1>1, <1>2, StartImportInv, BeginTransactionInv, AddOperationInv, PrepareBatchInv,
        CommitBatchInv, CheckpointTargetInv, FinishImportInv DEF MigrationNext

\* import_plan: for any plan, limits and number of attempts, killed anywhere, a
\* receipt means a target that serves every operation of the plan, each committed
\* once, in order, in batches of at most MaxOperations operations.
THEOREM ReceiptsMeanComplete == MigrationSpec => []ReceiptMeansComplete
  <1>1. MigrationInv => ReceiptMeansComplete
    BY DEF MigrationInv
  <1> QED
    BY <1>1, MigrationStarts, MigrationSteps, PTL DEF MigrationSpec
=============================================================================
