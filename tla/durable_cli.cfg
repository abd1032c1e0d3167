\* Callers with the discipline of the command line: a fresh id for every
\* attempt, and no use of a handle after a call on it failed.
SPECIFICATION MCSpec
CONSTANTS
    t1 = t1 t2 = t2 k1 = k1 k2 = k2 v1 = v1 v2 = v2
    NoTx = NoTx Absent = Absent
    Tx = {t1, t2}
    Key = {k1, k2}
    Val = {v1, v2}
    Batches <- MCBatches
    Commands <- MCCommands
    MaxLsn = 9
    MaxFaults = 2
    RepairModes <- Both
    RetryIds = FALSE
    ReuseAfterError = FALSE
    IoFaults = TRUE
INVARIANTS AckedOnDisk NeverRefused ServedState HeadExact AnswersStay
PROPERTIES HeadAdvances KeepsPromise
SYMMETRY Perms
ACTION_CONSTRAINT Scenario
