SPECIFICATION RolloutSpec
CONSTANTS
    Managers = {1, 2}
    Nobody = Nobody
    Policies = {p1, p2, q1, q2, q3}
    NoPolicy = NoPolicy
    p1 = p1
    p2 = p2
    q1 = q1
    q2 = q2
    q3 = q3
    Gen <- MCGen
    Enrolled <- MCEnrolled
    FirstPolicy = p1
    Submitted = {p2}
    Settled = TRUE
    MaxRollouts = 1
    MaxCrashes = 0
    MaxDeaths = 0
    MaxFaults = 0
    Again = FALSE
INVARIANT TargetsAcknowledged
CHECK_DEADLOCK FALSE
