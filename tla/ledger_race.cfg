SPECIFICATION Spec
CONSTANTS
    r1 = r1
    r2 = r2
    d1 = d1
    d2 = d2
    p1 = p1
    p2 = p2
    Record = {r1, r2}
    Digest = {d1}
    Proc = {p1, p2}
    NoRecord = NoRecord
    Untracked = Untracked
    MaxTime = 3
    Intents <- RaceIntents
    MaxFrames = 4
    MaxFaults = 2
    ReuseAfterError = TRUE
INVARIANT AckedKept
SYMMETRY Symmetric
