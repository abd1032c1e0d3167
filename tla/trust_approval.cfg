SPECIFICATION ESpec
CONSTANTS
    a = a
    x = x
    y = y
    s0 = s0
    s1 = s1
    s2 = s2
    s3 = s3
    s4 = s4
    n1 = n1
    n2 = n2
    n3 = n3
    n4 = n4
    n5 = n5
    q1 = q1
    q2 = q2
    d1 = d1
    d2 = d2
    w1 = w1
    r1 = r1
    r2 = r2
    KeyId = {a, x, y}
    Secret = {s0, s1, s2, s3, s4}
    Nonce <- MCNonce
    MaxTime = 8
    Proc = {p1}
    Policy = {q1, q2}
    Digest = {d1, d2}
    Reason = {w1}
    Request = {r1, r2}
    PolicyOf <- MCPolicyOf
    Jobs <- MCJobs
    PlainJobs <- MCPlainJobs
    Calls <- MCCalls
    Starts <- MCStarts
    Rotations = FALSE
    Threshold = 2
    MaxTtl = 7
    MaxKeys = 5
    MaxAuths = 5
    MaxApprovals = 8
    MaxFaults = 1
INVARIANTS AdminRemains EffectsAuthorized SurfaceStaysOpen RevokedBeginsNothing FinalizedByQuorum
CHECK_DEADLOCK FALSE
ACTION_CONSTRAINT Scenario
