SPECIFICATION Spec
CONSTANTS
    Hosts <- MCHosts
    Frames <- MCFrames
    Responses = {1, 3, 4}
    MaxId = 4
    MaxSessions = 1
    Tool = {tool1, tool2}
    BackupRoot = {backup1}
    RestoreRoot = {restore1}
    FileCount = 3
    ReceiptFile = 3
    FileSets <- MCFileSets
    Busy = {1}
    MaxVersion = 1
    MaxMishaps = 2
    PlanFiles <- MCPlanFiles
    MaxOperations = 2
    MaxPayload = 4
    RecordHeader = 1
    MaxAttempts = 2
    Spaces = {1, 2}
    Inputs <- MCInputs
    MaxGeneration = 2
    MaxInterrupts = 2
    MaxCommits = 2
    MaxBreaks = 2
    c = c
    k = k
    n1 = n1
    n2 = n2
    n3 = n3
    n4 = n4
    b1 = b1
    o1 = o1
    KeyId = {c, k}
    Name = {n1, n2, n3, n4}
    Hardware = {n1, n2}
    Grants <- MCGrants
    Lines <- MCLines
    Starts <- MCStarts
    Policies <- MCPolicies
    Weights = {1, 2}
    Bundles = {b1}
    Objects = {o1}
    MaxRegistry = 3
    MaxAuths = 6
    MaxPublic = 3
    MaxDeletes = 1
    MaxFaults = 1
    MaxFed = 5
    MaxProv = 1
    Thread = {q1, q2}
    Dimensions = {1, 2}
    Counts = {0, 1, 2, 3}
    Bootstrap = 2
    MaxBatchBytes = 64
    MaxEngines = 2
INVARIANTS AuditComplete AuditReplays AnswersTrue BackupsHoldTheSource RestoredAsApproved ReceiptMeansComplete VectorsKept RefusedOnlyUnfinished ArtifactsAsRegistered ActiveKeyKept EvidenceReplays BundleQuorum DeviceTrusted
CHECK_DEADLOCK FALSE
ACTION_CONSTRAINT Scenario
