SPECIFICATION RouterSpec
CONSTANTS
    Thread = {q1, q2}
    Dimensions = {1, 2}
    Counts = {0, 1, 2, 3}
    Bootstrap = 2
    MaxBatchBytes = 64
    MaxEngines = 2
INVARIANT FailureFallsBack
