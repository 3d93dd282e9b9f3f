----------------------------- MODULE MCRequests -----------------------------
(* The proxies that route requests (ProxyRequests), and the managers that    *)
(* keep them fed (ManagerClients), one or the other.                         *)
EXTENDS ProxyRequests, ManagerClients, TLC

CONSTANTS p1, p2, e1, e2, r1, r2

MCHome == (e1 :> p1) @@ (e2 :> p2)

\* Two nodes with one engine each.  The second table withdraws the engine of
\* node p1, the third brings it back.
Rule(e, v, h) == [engine |-> e, version |-> v, healthy |-> h]

SameVersion ==
    << <<Rule(e1, <<1, 0>>, TRUE), Rule(e2, <<1, 0>>, TRUE)>>,
       <<Rule(e1, <<1, 0>>, FALSE), Rule(e2, <<1, 0>>, TRUE)>>,
       <<Rule(e1, <<1, 0>>, TRUE), Rule(e2, <<1, 0>>, TRUE)>>,
       <<Rule(e1, <<1, 0>>, FALSE), Rule(e2, <<1, 0>>, FALSE)>> >>

\* Two callers of p1 across three tables, one caller of two proxies, and none.
Quiet == [opaque |-> {p2}, entry |-> p1, callers |-> {}, abandons |-> 0,
          tables |-> {}, threshold |-> 1]

OneAndTwo == {[opaque |-> {p2}, entry |-> p1, callers |-> {r1, r2}, abandons |-> 1,
               tables |-> 2..3, threshold |-> 2],
              [opaque |-> {}, entry |-> p1, callers |-> {r1}, abandons |-> 0,
               tables |-> {4}, threshold |-> 1],
              Quiet}

AnyVersion == {Unpinned}

\* One caller that names a version, and a later compatible one.
OneCaller == {[opaque |-> {p2}, entry |-> p1, callers |-> {r1}, abandons |-> 0,
               tables |-> {}, threshold |-> 1], Quiet}

TwoVersions == << <<Rule(e1, <<1, 0>>, TRUE), Rule(e2, <<1, 1>>, TRUE)>> >>

NamedVersion == {Unpinned, <<1, 0>>}

-----------------------------------------------------------------------------
all == <<vars, clientVars>>

NoTraffic == Init /\ plan = Quiet /\ failing = {}

NoClients == ClientInit({1}, MaxMoves)

MCInit == (Init /\ plan # Quiet /\ NoClients) \/ (NoTraffic /\ ClientInit({1, 2}, 0))

MCNext ==
    \/ Next /\ UNCHANGED clientVars
    \/ ClientNext /\ UNCHANGED vars

RequestsSpec == MCInit /\ [][MCNext]_all /\ Fairness /\ ClientFairness
=============================================================================
