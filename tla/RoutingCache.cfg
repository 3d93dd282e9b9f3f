SPECIFICATION FairSpec
CONSTANTS
    a1 = a1
    a2 = a2
    NoAct = NoAct
    Acts = {a1, a2}
    RevOf <- MCRev
    Proxies = {p1}
    Syncs = {poll}
    MaxVersion = 3
    MaxOps = 2
INVARIANTS
    ServingIsOwned
    TableNotOlderThanLabel
PROPERTIES
    VersionCoversChange
    ProxiesConverge
