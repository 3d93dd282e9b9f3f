SPECIFICATION MCSpec
CONSTANTS
    Reqs = {r1, r2}
    GroupOf <- Owners
    ProxyNames = {p}
    EngineNames = {e}
    MaxSignals = 2
    MaxClaims = 2
    Instances = {1, 2}
    KindOf <- OneOfEach
    MaxPolls = 2
    Clis = {1, 2, 3}
    MaxKills = 1
INVARIANTS QuietAfterIdle OkExitIsClean ReturnLeavesNothing VerdictStands AcceptedIsDeployable
PROPERTIES InterruptEndsRun DrainIsNoticed
CHECK_DEADLOCK FALSE
