SPECIFICATION Spec
CONSTANTS
    r1 = r1
    r2 = r2
    d1 = d1
    d2 = d2
    p1 = p1
    p2 = p2
    Record = {r1, r2}
    Digest = {d1, d2}
    Proc = {p1}
    NoRecord = NoRecord
    Untracked = Untracked
    MaxTime = 5
    Intents <- AllIntents
    MaxFrames = 5
    MaxFaults = 2
    ReuseAfterError = FALSE
INVARIANTS AckedServed RefusedOnlyTorn HistoryFinal MaturityEarned SupersessionForward
SYMMETRY Symmetric
