---------------------------- MODULE DaemonService ----------------------------
(***************************************************************************)
(* The daemon protocol and what stands behind it: a DaemonSession that     *)
(* reads one frame, calls the backend and answers, over a TCP connection   *)
(* (serve_one) or behind the C ABI and its Python binding (process_frame); *)
(* and the ObservedBackend that puts a policy and an audit file between    *)
(* the session and the backend.                                            *)
(*                                                                         *)
(* A session takes one frame at a time.  Its handler is split where the    *)
(* host can be killed with something already done: after the health check  *)
(* of a write, after the backend has executed, after the audit record, and *)
(* before the answer leaves.  Each session has its own wrapper and its own *)
(* audit file, which must not exist before.                                *)
(*                                                                         *)
(* Frame payloads are sizes; a digest of a request is its identifier.  The *)
(* bytes of a frame that fails to decode are not modelled, only that it    *)
(* does.                                                                   *)
(***************************************************************************)
EXTENDS Integers, Sequences, FiniteSets, SequencesExt

CONSTANTS
    Hosts,          \* configurations a host may run with
    Frames,         \* frames a client sends: [kind, size, body]
    Responses,      \* sizes of the backend's responses
    MaxId,          \* bound on request identifiers
    MaxSessions     \* bound on sessions

ASSUME DaemonConstants ==
    /\ MaxId \in Nat /\ MaxSessions \in Nat
    /\ Responses \subseteq Nat
    /\ \A h \in Hosts : h.front = "abi" => ~h.observed
    /\ \A h \in Hosts : h.maxRead <= h.maxPayload /\ h.maxWrite <= h.maxPayload

VARIABLES
    host,       \* the configuration: ProtocolConfig, SecurityPolicy and front end
    link,       \* the connection or handle: "down", "open", "cut"
    session,    \* state, last_request_id, request_count
    step,       \* where the handler is
    request,    \* the frame being handled
    pending,    \* the audit record to be appended, and the answers after it
    answer,     \* the answer about to leave
    wrapper,    \* audit_failed, audit_events and the append position
    audit,      \* the audit file
    calls,      \* what the backend has executed in this session
    answers,    \* what the client has been told in this session
    opened      \* sessions opened so far

daemonVars == <<host, link, session, step, request, pending, answer, wrapper,
                audit, calls, answers, opened>>

None == [kind |-> "none"]
Fresh == [state |-> "AwaitHello", last |-> 0, count |-> 0]
FreshWrapper == [failed |-> FALSE, events |-> 0, next |-> 1, prev |-> <<0, 0>>]

\* Payload bytes of an answer, in units that keep their order: a hello is 16
\* bytes, its acknowledgement and the capabilities 24, an error more.
AnswerSize(a) ==
    CASE a.what = "RESULT" -> a.size
      [] a.what = "PONG" -> a.size
      [] a.what \in {"HEALTH", "CLOSED"} -> 1
      [] OTHER -> 2

Say(what, size) == [kind |-> "answer", what |-> what, size |-> size]

\* The handler returns a frame.
ReplyWith(what, size) ==
    /\ step' = "reply"
    /\ answer' = Say(what, size)

(***************************************************************************)
(* The connection                                                          *)
(***************************************************************************)

\* serve_one accepts, or ubdb_session_create_v1 makes a handle.
Open ==
    /\ link = "down" /\ opened < MaxSessions
    /\ link' = "open" /\ session' = Fresh /\ opened' = opened + 1
    /\ step' = "wait" /\ request' = None /\ pending' = None /\ answer' = None
    /\ wrapper' = FreshWrapper /\ audit' = <<>> /\ calls' = <<>> /\ answers' = {}
    /\ UNCHANGED host

\* read_frame, or the checks of process_frame that pass: room for a largest
\* answer (otherwise nothing happens), a frame within the limit that decodes.
Receive ==
    /\ link = "open" /\ step = "wait"
    /\ \E f \in Frames, id \in 1..MaxId :
          /\ f.size <= host.maxPayload
          /\ request' = [kind |-> f.kind, size |-> f.size, body |-> f.body, id |-> id]
    /\ step' = "handle"
    /\ UNCHANGED <<host, link, session, pending, answer, wrapper, audit, calls, answers, opened>>

\* The handler, or the reading or writing of a frame, returns an error: over TCP
\* the connection is over, through the C ABI the call returns a status.
ReturnError ==
    /\ step' = "wait" /\ request' = None
    /\ link' = IF host.front = "tcp" THEN "down" ELSE link

\* A frame that is too long or does not decode, and over TCP a peer that hangs
\* up or is silent for the read timeout.
BadFrame ==
    /\ link = "open" /\ step = "wait" /\ host.front = "tcp"
    /\ ReturnError
    /\ UNCHANGED <<host, session, pending, answer, wrapper, audit, calls, answers, opened>>

\* The peer goes away while its request is being handled.
Disconnect ==
    /\ link = "open" /\ host.front = "tcp" /\ step # "wait"
    /\ link' = "cut"
    /\ UNCHANGED <<host, session, step, request, pending, answer, wrapper, audit, calls, answers, opened>>

\* ubdb_session_destroy_v1, and the Drop of the Python session.
Destroy ==
    /\ link = "open" /\ host.front = "abi" /\ step = "wait"
    /\ link' = "down"
    /\ UNCHANGED <<host, session, step, request, pending, answer, wrapper, audit, calls, answers, opened>>

\* What the client learns, kept for the properties: a repeated identifier's
\* refusal says nothing about the request that had it first.
Told == IF answer.what = "1002" THEN {}
        ELSE {[id |-> request.id, kind |-> request.kind, what |-> answer.what]}

\* write_frame, or the end of process_frame.  An answer too long to encode is an
\* error after the fact.
Reply ==
    /\ step = "reply"
    /\ IF AnswerSize(answer) <= host.maxPayload /\ link = "open"
       THEN /\ answers' = answers \cup Told
            /\ step' = "wait" /\ request' = None
            /\ link' = IF host.front = "tcp" /\ session.state = "Closed" THEN "down" ELSE link
       ELSE /\ ReturnError
            /\ UNCHANGED answers
    /\ answer' = None
    /\ UNCHANGED <<host, session, pending, wrapper, audit, calls, opened>>

(***************************************************************************)
(* DaemonSession::handle up to the first call of the backend               *)
(***************************************************************************)

\* A session that is closed, or a frame of a response kind: the handler fails
\* before it has looked at the request identifier.
HandleRefused ==
    /\ step = "handle"
    /\ session.state = "Closed" \/ request.kind = "RESULT"
    /\ ReturnError
    /\ UNCHANGED <<host, session, pending, answer, wrapper, audit, calls, answers, opened>>

Handling == step = "handle" /\ session.state # "Closed" /\ request.kind # "RESULT"

\* Mutant of NewId: an identifier is remembered only by the highest seen.
IdNotBelowLast(id) == id >= session.last

\* Not above last_request_id, which makes the set of seen identifiers needless.
NewId(id) == id > session.last

HandleDuplicate ==
    /\ Handling /\ ~NewId(request.id)
    /\ ReplyWith("1002", 0)
    /\ UNCHANGED <<host, link, session, request, pending, wrapper, audit, calls, answers, opened>>

Counted(s) == [s EXCEPT !.last = request.id, !.count = @ + 1]
WithinBudget == session.count + 1 <= host.maxRequests

HandleOverBudget ==
    /\ Handling /\ NewId(request.id) /\ ~WithinBudget
    /\ session' = [Counted(session) EXCEPT !.state = "Closed"]
    /\ ReplyWith("1003", 0)
    /\ UNCHANGED <<host, link, request, pending, wrapper, audit, calls, answers, opened>>

Admitted == Handling /\ NewId(request.id) /\ WithinBudget

HandleHello ==
    /\ Admitted /\ session.state = "AwaitHello"
    /\ IF request.kind = "HELLO" /\ request.body = "ok"
       THEN /\ session' = [Counted(session) EXCEPT !.state = "Ready"]
            /\ ReplyWith("ACK", 0)
            /\ UNCHANGED <<link, request>>
       ELSE IF request.kind = "HELLO" /\ request.body = "bad"   \* decode_hello fails
       THEN /\ session' = Counted(session)
            /\ ReturnError
            /\ UNCHANGED answer
       ELSE /\ session' = [Counted(session) EXCEPT !.state = "Closed"]
            /\ ReplyWith(IF request.kind # "HELLO" THEN "1001" ELSE "1004", 0)
            /\ UNCHANGED <<link, request>>
    /\ UNCHANGED <<host, pending, wrapper, audit, calls, answers, opened>>

\* Requests a ready session answers by itself; it has no other kinds to refuse.
HandlePlain ==
    /\ Admitted /\ session.state = "Ready"
    /\ session' = IF request.kind = "CLOSE" /\ request.size = 0
                  THEN [Counted(session) EXCEPT !.state = "Closed"] ELSE Counted(session)
    /\ \/ request.kind = "HELLO" /\ ReplyWith("1006", 0)
       \/ request.kind = "PING" /\ ReplyWith("PONG", request.size)
       \/ request.kind = "CAPABILITIES" /\ ReplyWith(IF request.size = 0 THEN "CAPS" ELSE "1008", 0)
       \/ request.kind = "HEALTH" /\ request.size > 0 /\ ReplyWith("1007", 0)
       \/ request.kind = "CLOSE" /\ ReplyWith(IF request.size = 0 THEN "CLOSED" ELSE "1011", 0)
       \/ request.kind = "READ" /\ request.size > host.maxRead /\ ReplyWith("1009", 0)
       \/ request.kind = "WRITE" /\ request.size > host.maxWrite /\ ReplyWith("1010", 0)
    /\ UNCHANGED <<host, link, request, pending, wrapper, audit, calls, answers, opened>>

\* Requests that go on to the backend: a write through the health check.
HandleBackend ==
    /\ Admitted /\ session.state = "Ready"
    /\ session' = Counted(session)
    /\ \/ request.kind = "READ" /\ request.size <= host.maxRead /\ step' = "policy"
       \/ request.kind = "WRITE" /\ request.size <= host.maxWrite /\ step' = "health"
       \/ request.kind = "HEALTH" /\ request.size = 0 /\ step' = "health"
    /\ UNCHANGED <<host, link, request, pending, answer, wrapper, audit, calls, answers, opened>>

(***************************************************************************)
(* ObservedBackend::record and AuditWriter::append                         *)
(***************************************************************************)

\* What append writes: the sequence number, the time (they move together) and
\* the digest of the record before.
Record(p, whole) ==
    [seq |-> wrapper.next, prev |-> wrapper.prev, op |-> p.op, id |-> p.id,
     reason |-> p.reason, whole |-> whole]

\* Mutant of Failed: an append that fails leaves the wrapper in service.
StillServing == wrapper

\* audit_failed is set, and nothing unsets it.
Failed == [wrapper EXCEPT !.failed = TRUE]

\* Mutant of OverBudget: the limit stops the record only, not the wrapper.
OverBudgetSilently ==
    /\ wrapper.events >= host.maxEvents
    /\ wrapper' = wrapper

\* The audit file is full: the wrapper fails for good.
OverBudget ==
    /\ wrapper.events >= host.maxEvents
    /\ wrapper' = [wrapper EXCEPT !.failed = TRUE]

Appended ==
    /\ ~wrapper.failed /\ wrapper.events < host.maxEvents
    /\ audit' = Append(audit, Record(pending, TRUE))
    /\ wrapper' = [wrapper EXCEPT !.events = @ + 1, !.next = @ + 1,
                                  !.prev = <<wrapper.next, pending.id>>]

\* A write or sync error: nothing, a part, or all of the record is in the file.
AppendFails ==
    /\ ~wrapper.failed /\ wrapper.events < host.maxEvents
    /\ \/ UNCHANGED audit
       \/ \E whole \in BOOLEAN : audit' = Append(audit, Record(pending, whole))
    /\ wrapper' = Failed

\* What happens after record has returned: the answer for Ok or the one for Err,
\* or, after the health check of a write, the policy.
Resume(outcome) ==
    IF outcome = "proceed"
    THEN step' = "policy" /\ UNCHANGED answer
    ELSE ReplyWith(outcome, pending.size)

RecordStep ==
    /\ step = "record"
    /\ \/ Appended /\ Resume(pending.ok)
       \/ AppendFails /\ Resume(pending.err)
       \/ ~wrapper.failed /\ OverBudget /\ UNCHANGED audit /\ Resume(pending.err)
    /\ pending' = None
    /\ UNCHANGED <<host, link, session, request, calls, answers, opened>>

ToRecord(op, reason, ok, err, size) ==
    /\ step' = "record"
    /\ pending' = [kind |-> "record", op |-> op, id |-> request.id, reason |-> reason,
                   ok |-> ok, err |-> err, size |-> size]

(***************************************************************************)
(* ObservedBackend around the backend                                      *)
(***************************************************************************)

\* Through the C ABI a health callback that fails, or fills its structure
\* wrongly, makes the backend read-only for this request.
ReadOnlyAnswers == IF host.front = "abi" THEN {host.readOnly, TRUE} ELSE {host.readOnly}

\* health, called for HEALTH and before every WRITE.  A wrapper without an audit
\* says unhealthy and read-only, which ends a write; so does a backend that is
\* read-only.
HealthCheck ==
    /\ step = "health"
    /\ \E readOnly \in ReadOnlyAnswers :
       LET forWrite == request.kind = "WRITE"
           then == IF ~forWrite THEN "HEALTH"
                   ELSE IF readOnly THEN "2002" ELSE "proceed"
           failed == IF forWrite THEN "2002" ELSE "HEALTH"
       IN  IF ~host.observed
           THEN /\ IF then = "proceed" THEN step' = "policy" /\ UNCHANGED answer
                   ELSE ReplyWith(then, 0)
                /\ UNCHANGED pending
           ELSE IF wrapper.failed
           THEN ReplyWith(failed, 0) /\ UNCHANGED pending
           ELSE ToRecord("Health", "OK", then, failed, 0) /\ UNCHANGED answer
    /\ UNCHANGED <<host, link, session, request, wrapper, audit, calls, answers, opened>>

\* The checks execute_operation makes before the callback.
PolicyAdmits ==
    /\ request.size <= host.maxRequest
    /\ request.kind = "WRITE" => host.allowWrites

\* execute_operation before the callback.
PolicyRefuses ==
    /\ step = "policy" /\ host.observed
    /\ IF wrapper.failed
       THEN ReplyWith("AUDIT", 0) /\ UNCHANGED pending
       ELSE /\ ~PolicyAdmits
            /\ ToRecord(request.kind, "REFUSED", "REFUSED", "AUDIT", 0)
            /\ UNCHANGED answer
    /\ UNCHANGED <<host, link, session, request, wrapper, audit, calls, answers, opened>>

\* What a backend makes of a request: an error (a Python exception is one), or a
\* response of some length.
Outcomes == [ok : BOOLEAN, size : Responses]

\* CallbackBackend::execute: a bad status, or a response longer than a frame.
CallbackFails(out) == ~out.ok \/ (host.front = "abi" /\ out.size > host.maxPayload)

\* The backend executes, and result_frame checks the length again.  Errors of the
\* backend, 2001 for a read and 2003 for a write, are "2003"; those of the
\* wrapper have the same codes and are told apart by their text.
Execute ==
    /\ step = "policy"
    /\ host.observed => ~wrapper.failed /\ PolicyAdmits
    /\ \E out \in Outcomes :
          LET sent == IF out.size <= host.maxPayload THEN "RESULT" ELSE "2004"
          IN  /\ calls' = Append(calls, [id |-> request.id, op |-> request.kind, ok |-> out.ok])
              /\ IF host.observed
                 THEN /\ IF ~out.ok
                         THEN ToRecord(request.kind, "BACKEND_ERROR", "2003", "AUDIT", 0)
                         ELSE IF out.size > host.maxResponse
                         THEN ToRecord(request.kind, "RESPONSE", "RESPONSE", "AUDIT", 0)
                         ELSE ToRecord(request.kind, "OK", sent, "AUDIT", out.size)
                      /\ UNCHANGED answer
                 ELSE /\ ReplyWith(IF CallbackFails(out) THEN "2003" ELSE sent, out.size)
                      /\ UNCHANGED pending
    /\ UNCHANGED <<host, link, session, request, wrapper, audit, answers, opened>>

\* The host process is killed; an audit append under way may be torn.
HostKilled ==
    /\ link # "down"
    /\ link' = "down" /\ step' = "wait" /\ request' = None /\ pending' = None /\ answer' = None
    /\ \/ UNCHANGED audit
       \/ /\ step = "record" /\ ~wrapper.failed /\ wrapper.events < host.maxEvents
          /\ \E whole \in BOOLEAN : audit' = Append(audit, Record(pending, whole))
    /\ UNCHANGED <<host, session, wrapper, calls, answers, opened>>

DaemonInit ==
    /\ host \in Hosts
    /\ link = "down" /\ session = Fresh /\ step = "wait" /\ opened = 0
    /\ request = None /\ pending = None /\ answer = None
    /\ wrapper = FreshWrapper /\ audit = <<>> /\ calls = <<>> /\ answers = {}

DaemonNext ==
    \/ Open \/ Receive \/ BadFrame \/ Disconnect \/ Destroy \/ Reply
    \/ HandleRefused \/ HandleDuplicate \/ HandleOverBudget \/ HandleHello
    \/ HandlePlain \/ HandleBackend
    \/ RecordStep \/ HealthCheck \/ PolicyRefuses \/ Execute \/ HostKilled

DaemonSpec == DaemonInit /\ [][DaemonNext]_daemonVars

(***************************************************************************)
(* Properties                                                              *)
(***************************************************************************)

\* strict_replay of the audit file
StrictReplay(file) ==
    \A i \in 1..Len(file) :
        /\ file[i].whole
        /\ file[i].seq = i
        /\ file[i].prev = IF i = 1 THEN <<0, 0>> ELSE <<i - 1, file[i - 1].id>>

\* The records execute_operation writes after the backend has executed.
AfterExecution(r) == r.op # "Health" /\ r.reason # "REFUSED"
ExecutionsIn(file) == {i \in 1..Len(file) : AfterExecution(file[i])}

\* Record i of the audit file is the k-th of them: it tells of the k-th call.
TellsOf(file, i, done) ==
    LET rank == Cardinality(ExecutionsIn(file) \cap 1..i)
    IN  file[i].id = done[rank].id /\ file[i].op = done[rank].op

\* The audit file tells, in order, every read and write the backend has executed
\* through the wrapper, except possibly the last one: one that is being
\* recorded, or after which the wrapper has failed for good or the host has been
\* killed.  (The client of that one is told the audit is unavailable, or
\* nothing, though the write was executed.)
AuditComplete ==
    host.observed =>
        LET n == Cardinality(ExecutionsIn(audit)) IN
        /\ n <= Len(calls) /\ Len(calls) <= n + 1
        /\ \A i \in ExecutionsIn(audit) : TellsOf(audit, i, calls)
        /\ Len(calls) = n + 1 => step = "record" \/ wrapper.failed \/ link = "down"

\* The audit file always replays strictly, but for a torn last record, which
\* only a failed append or a kill leaves, and after which nothing is appended:
\* sequence numbers and the chain of digests never fork over a failed append.
AuditReplays ==
    \/ StrictReplay(audit)
    \/ /\ StrictReplay(Front(audit)) /\ ~Last(audit).whole
       /\ wrapper.failed \/ link = "down"

\* Answers that say the request did nothing.
DidNothing == {"1001", "1003", "1004", "1006", "1007", "1008", "1009", "1010", "1011",
               "2002", "REFUSED"}

\* An answer is the truth about its request: a result means that the backend
\* executed it, once and successfully, and that the audit file has it; an answer
\* of policy or protocol means that the backend never saw it.  No identifier is
\* executed twice in a session, whatever the client repeats.
AnswersTrue ==
    LET Of(id) == {i \in 1..Len(calls) : calls[i].id = id} IN
    /\ \A i, j \in 1..Len(calls) : calls[i].id = calls[j].id => i = j
    /\ \A a \in answers :
          /\ a.what = "RESULT" =>
                /\ \E i \in Of(a.id) : calls[i].ok /\ calls[i].op = a.kind
                /\ host.observed => \E k \in 1..Len(audit) :
                      audit[k].id = a.id /\ audit[k].op = a.kind /\ audit[k].reason = "OK"
          /\ a.what \in DidNothing => Of(a.id) = {}
=============================================================================
