SPECIFICATION FairSpec
CONSTANTS
    r1 = r1
    r2 = r2
    d1 = d1
    d2 = d2
    Record = {r1, r2}
    Digest = {d1, d2}
    NoRecord = NoRecord
    Untracked = Untracked
    Missing = Missing
    Original = d1
    Policy <- Policies
    Requests <- TwoRecords
    Careful = TRUE
    MaxChanges = 1
    MaxKills = 0
    MaxPower = 2
    TornWrites = FALSE
INVARIANT AckedInLedger
PROPERTY PendingResolved
