SPECIFICATION MCSpec
CONSTANTS
    g1 = g1
    g2 = g2
    v1 = v1
    v2 = v2
    v3 = v3
    Guests = {g1, g2}
    Raw = {}
    Conns = {v1, v2}
    MaxStatements = 1
    MaxTx = 1
    MaxCursors = 1
    Runners = {v1, v2, v3}
    BundleOf <- Bundles
    MaxApprovals = 2
    MaxCrashes = 1
    MaxAttempts = 3
    Provisioners = {v1, v2, v3}
    ManifestOf <- ManifestList
    Values = {v1, v2}
    Scoped = {v1}
    peer = peer
    ma = ma
    mb = mb
    pol1 = pol1
    pol2 = pol2
    pol3 = pol3
    None = None
    Managers = {ma, mb}
    Policies = {pol1, pol2, pol3}
    GenOf <- Gens
    Peers = {peer}
    Enrolled <- Enrolments
    Skew <- Skews
    Validity = 2
    MaxFutureSkew = 1
    MaxTime = 3
    Jobs = {1, 2, 3}
    Engines = {1, 2}
    Calls = {1}
    PolicyLimit = 1
    Asked = {0, 2}
    DefaultSize = 1
    LargestSize = 2
    Sizes = {0, 3}
    MaxFaults = 1
    n1 = n1
    n2 = n2
    s1 = s1
    s2 = s2
    e1 = e1
    e2 = e2
    f1 = f1
    p1 = p1
    p2 = p2
    q1 = q1
    mgr = mgr
    mod1 = mod1
    mod2 = mod2
    Nobody = Nobody
    Nodes = {n1, n2}
    Slots = {s1, s2}
    NodeOf <- NodeOfSlot
    EngineIds = {e1, e2, f1}
    SlotOf <- SlotOfEngine
    Hosts <- Inventories
    ProxyIds = {p1, p2, q1}
    HomeOf <- HomeOfProxy
    ManagerIds = {mgr}
    MaxChanges = 4
INVARIANTS CommitTellsTruth ReadyIsMigrated PublishedIsUsable HandlersAgree RevocationTakesHold WalkIsComplete AnswersTellTruth HealthyIsServed
PROPERTIES NeverBackward DeregisteredStaysGone
CHECK_DEADLOCK FALSE
