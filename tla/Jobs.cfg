SPECIFICATION JobsSpec
CONSTANTS
    e1 = e1
    e2 = e2
    w1 = w1
    w2 = w2
    v1 = v1
    v2 = v2
    s1 = s1
    s2 = s2
    AnyVersion = AnyVersion
    Engines = {e1, e2}
    Workers = {w1, w2}
    Versions = {v1, v2}
    EngineOf <- EngineOfTwo
    VersionOf <- VersionOfTwo
    Jobs = {1}
    AttemptLimits = {1, 2}
    MaxRetries = 1
    MaxStops = 1
    Schedules = {s1, s2}
    Mgrs = {m1, m2}
    ClaimIds = {1, 2, 3, 4, 5, 6, 7, 8}
    Lease = 3
    MaxEdits = 2
    MaxErrors = 1
INVARIANT FiredMeansEnqueued
PROPERTIES ImplementsLedger EventuallySettled DueIsFired
CHECK_DEADLOCK FALSE
