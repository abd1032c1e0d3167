\* Callers of the library interface: ids may be retried and a handle may be
\* used again after an error.  The log is never repaired;
\* crashes are finitely many.
SPECIFICATION FairSpec
CONSTANTS
    t1 = t1 t2 = t2 t3 = t3 k1 = k1 k2 = k2 v1 = v1 v2 = v2
    NoTx = NoTx Absent = Absent
    Tx = {t1, t2}
    Key = {k1}
    Val = {v1, v2}
    Batches <- TinyBatches
    MaxLsn = 5
    MaxFaults = 2
    RepairModes <- NoRepair
    RetryIds = TRUE
    ReuseAfterError = TRUE
    IoFaults = TRUE
INVARIANT AckedOnDisk
PROPERTY CallsEnd
\* A refused database stays refused.
CHECK_DEADLOCK FALSE
