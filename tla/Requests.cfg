SPECIFICATION RequestsSpec
CONSTANTS
    p1 = p1
    p2 = p2
    e1 = e1
    e2 = e2
    r1 = r1
    r2 = r2
    Proxies = {p1, p2}
    Plans <- OneAndTwo
    Home <- MCHome
    Reqs = {r1, r2}
    Rules <- SameVersion
    Wanted <- AnyVersion
    Unpinned = Unpinned
    Period = 2
    MaxHops = 3
    Hosts = {1, 2, 3}
    Tasks = {"routing", "heartbeat", "policy"}
    MaxMoves = 3
INVARIANT PublishedIsRegistered
PROPERTIES BreakersRecover RoutesStayFed
CHECK_DEADLOCK FALSE
