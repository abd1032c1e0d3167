\* A kill between publishing CHECKPOINT-<gen> and the head, then a checkpoint.
SPECIFICATION Spec
CONSTANTS
    t1 = t1 t2 = t2 t3 = t3 k1 = k1 k2 = k2 v1 = v1 v2 = v2
    NoTx = NoTx Absent = Absent
    Tx = {t1, t2}
    Key = {k1, k2}
    Val = {v1}
    Batches <- SmallBatches
    MaxLsn = 8
    MaxFaults = 2
    RepairModes <- Both
    RetryIds = FALSE
    ReuseAfterError = FALSE
    IoFaults = FALSE
INVARIANT FreshHandleCheckpoints
SYMMETRY Perms
