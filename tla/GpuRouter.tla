------------------------------ MODULE GpuRouter ------------------------------
(***************************************************************************)
(* find_exact_routed_with_receipt: several threads score queries on the    *)
(* CPU or on the OpenCL device.  They share one RouterState behind a mutex *)
(* that a query takes three times: to look for a calibration, to make the  *)
(* engine, and to calibrate and score.  Between them other queries run.    *)
(*                                                                         *)
(* The arithmetic is left out: the device fails, gives parts that differ   *)
(* from the CPU's in the rows that are compared, or the same parts.  Which *)
(* side is faster is the clock's choice.  Vectors and k are valid.  Engines *)
(* are numbered as they are made, to tell one from the next.               *)
(***************************************************************************)
EXTENDS Integers, FiniteSets

CONSTANTS
    Thread,          \* threads that query
    Dimensions,      \* dimensions of the vector spaces
    Counts,          \* numbers of candidates a query may have
    Bootstrap,       \* bootstrap_candidate_count
    MaxBatchBytes,   \* max_batch_bytes
    MaxEngines       \* bound: engines ever made

ASSUME RouterConstants ==
    /\ Counts \subseteq Nat /\ Dimensions \subseteq Nat
    /\ Bootstrap \in Nat /\ MaxBatchBytes \in Nat

VARIABLES
    mode,        \* RouterMode: "auto", "cpu", "gpu"
    router,      \* RouterState: engine, disabled_reason, parity_certified, calibrations
    holder,      \* the thread that keeps the mutex between steps, or {}
    queries,     \* what every thread is doing
    made,        \* engines made so far
    caught       \* history: engines seen to fail or differ, and by what

routerVars == <<mode, router, holder, queries, made, caught>>

\* No Calibration; it is also what unwrap_or puts in its place.
Uncalibrated == [crossover |-> 0, largest |-> 0]
Resting == [at |-> "idle"]
NoEngine == 0

\* An engine fails or differs: the one that certify_engine_exact_parity looks at
\* before it is kept, or the one a query calibrates or scores with.
Catch(engine, by) == [engine |-> engine, by |-> by]

\* cached_auto_cpu_policy; no crossover is 0.
CachedCpuPolicy(calibration, count) ==
    IF calibration.crossover = 0 THEN count <= calibration.largest
    ELSE count < calibration.crossover

NeedsCalibration(calibration, count) ==
    calibration.crossover = 0 /\ count > calibration.largest

\* checked_batch_bytes
BatchBytes(count, dimension) == 4 * count * dimension + 4 * dimension + 16 * count

\* What is decided before the router is looked at.
CpuByPolicy(q) ==
    \/ q.count = 0
    \/ mode = "cpu"
    \/ BatchBytes(q.count, q.dimension) > MaxBatchBytes
    \/ mode = "auto" /\ q.count < Bootstrap

Calibration(t) == router.calibrations[queries[t].dimension]
Move(t, at) == queries' = [queries EXCEPT ![t].at = at]

\* What speaks against an answer of the engine: that it was caught itself, or that
\* any engine was caught at work.
Grounds == {f \in caught : f.by = "query" \/ f.engine = router.engine}

\* The receipts.
OnCpu(t, fallback) ==
    queries' = [queries EXCEPT ![t] = [at |-> "answered", backend |-> "CpuExact",
                                       fallback |-> fallback]]
OnGpu(t) ==
    queries' = [queries EXCEPT ![t] =
        [at |-> "answered", backend |-> "OpenClFp64", fallback |-> FALSE,
         certified |-> router.certified, crossover |-> Calibration(t).crossover,
         count |-> queries[t].count, grounds |-> Grounds]]

\* Mutant of Disabled: the reason is not kept.
DisabledForNow == [router EXCEPT !.engine = NoEngine, !.certified = FALSE]

\* disable
Disabled == [router EXCEPT !.engine = NoEngine, !.certified = FALSE, !.disabled = TRUE]

Query(t, dimension, count) ==
    /\ queries[t] = Resting
    /\ LET q == [at |-> "cache", dimension |-> dimension, count |-> count]
       IN  IF CpuByPolicy(q) THEN OnCpu(t, FALSE)
           ELSE queries' = [queries EXCEPT ![t] = q]
    /\ UNCHANGED <<mode, router, holder, made, caught>>

LookInCache(t) ==
    /\ queries[t].at = "cache" /\ holder = {}
    /\ IF mode = "auto" /\ CachedCpuPolicy(Calibration(t), queries[t].count)
       THEN OnCpu(t, FALSE) ELSE Move(t, "engine")
    /\ UNCHANGED <<mode, router, holder, made, caught>>

\* OpenClEngine::new, which may fail, and certify_engine_exact_parity: an engine
\* that does not pass is dropped, nothing is disabled, and the next query makes
\* another.
MakeEngine(t) ==
    \/ OnCpu(t, TRUE) /\ UNCHANGED <<router, made, caught>>
    \/ /\ made < MaxEngines /\ made' = made + 1
       /\ caught' = caught \cup {Catch(made + 1, "certification")}
       /\ OnCpu(t, TRUE) /\ UNCHANGED router
    \/ /\ made < MaxEngines /\ made' = made + 1
       /\ router' = [router EXCEPT !.engine = made + 1, !.certified = TRUE]
       /\ Move(t, "pack") /\ UNCHANGED caught

\* ensure_engine: a disabled router, the engine there is, or a new one.
EnsureEngine(t) ==
    /\ queries[t].at = "engine" /\ holder = {}
    /\ \/ router.disabled /\ OnCpu(t, TRUE) /\ UNCHANGED <<router, made, caught>>
       \/ ~router.disabled /\ router.engine # NoEngine
          /\ Move(t, "pack") /\ UNCHANGED <<router, made, caught>>
       \/ ~router.disabled /\ router.engine = NoEngine /\ MakeEngine(t)
    /\ UNCHANGED <<mode, holder>>

\* The vectors are packed without the mutex, which is then kept to the end.
Relock(t) ==
    /\ queries[t].at = "pack" /\ holder = {}
    /\ holder' = {t}
    /\ Move(t, IF NeedsCalibration(Calibration(t), queries[t].count)
               THEN "calibrate" ELSE "decide")
    /\ UNCHANGED <<mode, router, made, caught>>

\* Calibration on the query: ensure_engine again, which makes no engine here since
\* one that was made is gone only where the router is disabled; then the engine
\* fails or differs, or it is timed.
Calibrate(t) ==
    /\ queries[t].at = "calibrate"
    /\ \/ /\ router.disabled
          /\ OnCpu(t, TRUE) /\ holder' = {} /\ UNCHANGED <<router, caught>>
       \/ /\ ~router.disabled
          /\ router' = Disabled /\ caught' = caught \cup {Catch(router.engine, "query")}
          /\ OnCpu(t, TRUE) /\ holder' = {}
       \/ /\ ~router.disabled
          /\ \E crossover \in {0, queries[t].count} :
                router' = [router EXCEPT !.calibrations[queries[t].dimension] =
                              [crossover |-> crossover, largest |-> queries[t].count]]
          /\ Move(t, "decide") /\ UNCHANGED <<holder, caught>>
    /\ UNCHANGED <<mode, made>>

Decide(t) ==
    /\ queries[t].at = "decide"
    /\ IF mode = "auto" /\ CachedCpuPolicy(Calibration(t), queries[t].count)
       THEN OnCpu(t, FALSE) /\ holder' = {}
       ELSE Move(t, "score") /\ UNCHANGED holder
    /\ UNCHANGED <<mode, router, made, caught>>

\* exact_parts and verify_query_samples.
Score(t) ==
    /\ queries[t].at = "score"
    /\ holder' = {}
    /\ \/ /\ router.engine = NoEngine
          /\ Move(t, "failed") /\ UNCHANGED <<router, caught>>
       \/ /\ router.engine # NoEngine
          /\ router' = Disabled /\ caught' = caught \cup {Catch(router.engine, "query")}
          /\ OnCpu(t, TRUE)
       \/ /\ router.engine # NoEngine
          /\ OnGpu(t) /\ UNCHANGED <<router, caught>>
    /\ UNCHANGED <<mode, made>>

Answered(t) ==
    /\ queries[t].at \in {"answered", "failed"}
    /\ queries' = [queries EXCEPT ![t] = Resting]
    /\ UNCHANGED <<mode, router, holder, made, caught>>

RouterInit ==
    /\ mode \in {"auto", "cpu", "gpu"}
    /\ router = [engine |-> NoEngine, disabled |-> FALSE, certified |-> FALSE,
                 calibrations |-> [d \in Dimensions |-> Uncalibrated]]
    /\ holder = {} /\ made = 0 /\ caught = {}
    /\ queries = [t \in Thread |-> Resting]

RouterNext ==
    \E t \in Thread :
        \/ \E dimension \in Dimensions, count \in Counts : Query(t, dimension, count)
        \/ LookInCache(t) \/ EnsureEngine(t) \/ Relock(t)
        \/ Calibrate(t) \/ Decide(t) \/ Score(t) \/ Answered(t)

RouterSpec == RouterInit /\ [][RouterNext]_routerVars

-----------------------------------------------------------------------------

\* exact_backend_valid, which execute_product_hybrid_query asks of every receipt.
ExactBackendValid(a) == a.backend = "OpenClFp64" => a.certified

\* The device is used only while it is trusted.  An answer it gave was certified,
\* and for no fewer candidates than it was measured to win with (the diagnostic
\* mode aside).  No answer is from an engine that was caught failing or differing
\* from the CPU, by its certification or by a query, and once calibration or
\* scoring has caught an engine at work no query is answered from any engine again,
\* whatever it does between its three locks.  (A failed certification alone costs
\* that engine only: the next query may make one that passes.)
DeviceTrusted ==
    \A t \in Thread : queries[t].at = "answered" =>
        /\ ExactBackendValid(queries[t])
        /\ queries[t].backend = "OpenClFp64" =>
              /\ queries[t].grounds = {}
              /\ mode = "gpu" \/ queries[t].crossover \in 1..queries[t].count

\* Any failure of the device causes CPU fallback: no query fails for it.
FailureFallsBack == \A t \in Thread : queries[t].at # "failed"
=============================================================================
