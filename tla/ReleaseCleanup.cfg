SPECIFICATION FairSpec
CONSTANTS
    MaxRev = 4
    Retentions <- KeepOne
    MaxPolicies = 1
    MaxFaults = 1
INVARIANT NeededIsKept
PROPERTY AbandonedClaimIsWithdrawn
CHECK_DEADLOCK FALSE
