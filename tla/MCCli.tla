------------------------------- MODULE MCCli -------------------------------
(***************************************************************************)
(* The durable database under callers with the discipline of the command   *)
(* line (a fresh id for every attempt, no use of a handle after an error): *)
(* the commands themselves, and any other program that keeps to it, whose  *)
(* batches have several operations.                                        *)
(***************************************************************************)
EXTENDS NativeCli, TLC

CONSTANTS t1, t2, k1, k2, v1, v2

VARIABLE driver

\* A put of two keys and a delete; and the operations of the commands.
LibraryBatches == {{<<k1, v1>>, <<k2, v1>>}, {<<k1, Absent>>}}
MCBatches == LibraryBatches \cup {{<<k1, v>>} : v \in {v1, v2, Absent}}

Line(kind, v) == [kind |-> kind, key |-> k1, val |-> v]
MCCommands == {Line("put", v1), Line("put", v2), Line("delete", Absent),
               Line("checkpoint", v1), Line("read", v1)}

MCInit ==
    \/ driver = "cli" /\ CliInit
    \/ /\ driver = "library" /\ Init
       /\ command = NoCommand /\ stage = "none" /\ told = [k \in Key |-> {}]

MCNext ==
    \/ driver = "cli" /\ CliNext /\ UNCHANGED driver
    \/ driver = "library" /\ Next /\ UNCHANGED <<cliVars, driver>>

MCSpec == MCInit /\ [][MCNext]_<<vars, cliVars, driver>>

\* Library callers commit their batches only, in a shorter log, with one fault.
LibraryLsn == 8
Scenario ==
    driver = "library" =>
        /\ jobOps' \in LibraryBatches \cup {{}}
        /\ pc' = "begin" => nextLsn + Cardinality(jobOps') + 1 <= LibraryLsn
        /\ nextLsn' <= LibraryLsn + 1
        /\ faults' <= 1

Perms == Permutations(Tx)
Both == BOOLEAN
=============================================================================
