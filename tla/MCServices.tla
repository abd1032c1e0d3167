----------------------------- MODULE MCServices -----------------------------
(***************************************************************************)
(* Small instances of the services around the database that share no state *)
(* here: the daemon with its audited backend, backup and restore, the      *)
(* migration, the vector store, the inventory of derived artifacts, the    *)
(* GPU router, and the federation.  A behaviour is one of one of them.     *)
(***************************************************************************)
EXTENDS DaemonService, BackupRestore, Migration, VectorStore, DerivedArtifacts,
        GpuRouter, MCFederation

VARIABLE service

\* The daemon: an audited host, one that may not write, one whose backend is
\* read-only, one without the wrapper, and two C ABI hosts, the second with
\* frames too short for the acknowledgement of a hello.
Host(front, observed, allowWrites, readOnly, maxPayload) ==
    [front |-> front, observed |-> observed, allowWrites |-> allowWrites,
     readOnly |-> readOnly, maxPayload |-> maxPayload,
     maxRead |-> IF maxPayload = 1 THEN 1 ELSE 2,
     maxWrite |-> IF maxPayload = 1 THEN 1 ELSE 2, maxRequest |-> 1, maxResponse |-> 2,
     maxEvents |-> 2, maxRequests |-> 3]

MCHosts ==
    {Host("tcp", TRUE, TRUE, FALSE, 3), Host("tcp", TRUE, FALSE, FALSE, 3),
     Host("tcp", TRUE, TRUE, TRUE, 3), Host("tcp", FALSE, TRUE, FALSE, 3),
     Host("abi", FALSE, TRUE, FALSE, 3), Host("abi", FALSE, TRUE, FALSE, 1)}

Frame(kind, size, body) == [kind |-> kind, size |-> size, body |-> body]

MCFrames ==
    {Frame("HELLO", 1, "ok"), Frame("HELLO", 1, "bad"), Frame("HELLO", 1, "old"),
     Frame("PING", 1, "ok"), Frame("HEALTH", 0, "ok"), Frame("HEALTH", 1, "ok"),
     Frame("CAPABILITIES", 0, "ok"), Frame("READ", 1, "ok"), Frame("READ", 3, "ok"),
     Frame("WRITE", 1, "ok"), Frame("WRITE", 2, "ok"), Frame("WRITE", 3, "ok"),
     Frame("CLOSE", 0, "ok"), Frame("CLOSE", 1, "ok"), Frame("RESULT", 0, "ok")}

\* Backup: a file set that can be restored, and one with a file that has the
\* receipt's name.
MCFileSets == {{1, 2}, {1, 3}}

\* Migration: every plan of at most four operations, on two records and an edge,
\* some of whose batches fit by one count and not by the other, and files that
\* are not accepted.
Op(lid, kind, key, bytes) == [lid |-> lid, kind |-> kind, key |-> key, bytes |-> bytes]
Shapes == {<<"record", 1, 1>>, <<"record", 2, 2>>, <<"edge", 1, 1>>}

Ops(choice) == [i \in DOMAIN choice |-> Op(i, choice[i][1], choice[i][2], choice[i][3])]
OfKind(ops, kind) == Cardinality({i \in DOMAIN ops : ops[i].kind = kind})

MCPlanFiles ==
    LET good == {[intact |-> TRUE, records |-> OfKind(Ops(shapes), "record"),
                  edges |-> OfKind(Ops(shapes), "edge"), ops |-> Ops(shapes)] :
                     shapes \in UNION {[1..n -> Shapes] : n \in 0..4}}
        one == <<Op(1, "record", 1, 1)>>
        file(intact, records, ops) ==
            [intact |-> intact, records |-> records, edges |-> 0, ops |-> ops]
    IN  good \cup {file(FALSE, 1, one), file(TRUE, 2, one),
                   file(TRUE, 2, one \o <<Op(1, "record", 2, 2)>>)}

\* Vectors: two values of one record, and an import that touches it and another.
Input(key, batch) == [key |-> key, batch |-> batch]
MCInputs == {Input(0, {<<1, 1>>}), Input(0, {<<1, 2>>}), Input(1, {<<1, 1>>, <<2, 1>>})}

DaemonIdle == DaemonInit /\ host = CHOOSE h \in MCHosts : TRUE
MigrationIdle == MigrationInit /\ planFile = CHOOSE f \in MCPlanFiles : TRUE
TrustIdle == FInit /\ reg = <<>>
RouterIdle == RouterInit /\ mode = "auto"

Init ==
    /\ BackupInit /\ VectorInit /\ DerivedInit
    /\ \/ service = "daemon" /\ DaemonInit /\ MigrationIdle /\ TrustIdle /\ RouterIdle
       \/ service = "migration" /\ DaemonIdle /\ MigrationInit /\ TrustIdle /\ RouterIdle
       \/ service = "federation" /\ DaemonIdle /\ MigrationIdle /\ FInit /\ RouterIdle
       \/ service = "router" /\ DaemonIdle /\ MigrationIdle /\ TrustIdle /\ RouterInit
       \/ /\ service \in {"backup", "vectors", "derived"}
          /\ DaemonIdle /\ MigrationIdle /\ TrustIdle /\ RouterIdle

\* The variables of the services, grouped so that a step can leave the others alone.
filesVars == <<backupVars, migrationVars>>
indexVars == <<vectorVars, derivedVars, routerVars>>

Next ==
    /\ UNCHANGED service
    /\ \/ /\ service = "daemon" /\ DaemonNext
          /\ UNCHANGED <<filesVars, indexVars, vars>>
       \/ /\ service = "backup" /\ BackupNext
          /\ UNCHANGED <<daemonVars, migrationVars, indexVars, vars>>
       \/ /\ service = "migration" /\ MigrationNext
          /\ UNCHANGED <<daemonVars, backupVars, indexVars, vars>>
       \/ /\ service = "vectors" /\ VectorNext
          /\ UNCHANGED <<daemonVars, filesVars, derivedVars, routerVars, vars>>
       \/ /\ service = "derived" /\ DerivedNext
          /\ UNCHANGED <<daemonVars, filesVars, vectorVars, routerVars, vars>>
       \/ /\ service = "router" /\ RouterNext
          /\ UNCHANGED <<daemonVars, filesVars, vectorVars, derivedVars, vars>>
       \/ /\ service = "federation" /\ FNext
          /\ UNCHANGED <<daemonVars, filesVars, indexVars>>

Spec == Init /\ [][Next]_<<service, daemonVars, filesVars, indexVars, vars>>

\* A client repeats an identifier or takes the next one; the federation's roots
\* are used as MCFederation says.
Scenario ==
    /\ request'.kind # "none" => request'.id <= session.last + 1
    /\ service = "federation" => FederationScenario
=============================================================================
