--------------------------- MODULE ProxyRequests ---------------------------
(***************************************************************************)
(* The request path of the proxies: choosing a candidate from the          *)
(* published routing index, the circuit breaker of every forwarding        *)
(* address, forwarding to a local engine or to a peer proxy, and the       *)
(* replacement of the index while requests are in flight.                  *)
(*                                                                         *)
(* A request that crosses proxies is a stack of pending calls, one for     *)
(* each proxy it went through: the answer unwinds the stack and every      *)
(* level records its outcome on the breaker it called through.  All        *)
(* engines serve one module.  A version is <<major, minor>> with major > 0.*)
(* Breakers are objects that handles point to: a request keeps the one it  *)
(* selected even after the registry dropped it.                            *)
(***************************************************************************)
EXTENDS Naturals, Sequences, FiniteSets, Functions, TLC

CONSTANTS
    Proxies,       \* proxies, each also the forwarding address of its peers
    Plans,         \* scenarios: who is followed inside, who calls, which tables
    Home,          \* the node (proxy) of every engine
    Reqs,          \* callers; each sends any number of requests
    Rules,         \* the manager's tables: Rules[v] is a sequence of rules
    Wanted,        \* x-wr-version values callers send (Unpinned: no header)
    Unpinned,
    Period,        \* counters are kept modulo Period, a common multiple of
                   \* every number of candidates they are reduced by
    MaxHops        \* bound on the modelled proxies one request goes through

Engines == DOMAIN Home

Addresses == Engines \cup Proxies


Versions == {rule.version : rule \in UNION {Range(Rules[v]) : v \in DOMAIN Rules}}

ASSUME ProxyAssumption ==
    /\ Proxies \cap Engines = {} /\ \A e \in Engines : Home[e] \in Proxies
    /\ Period \in Nat \ {0}
    /\ Plans \subseteq [opaque : SUBSET Proxies, entry : Proxies, callers : SUBSET Reqs,
                       abandons : Nat, tables : SUBSET DOMAIN Rules, threshold : Nat \ {0}]

VARIABLES
    plan,       \* the scenario: proxies that are only called, the callers
                \* and their proxy, how many requests may end before their
                \* call does, later tables, failure_threshold
    table,      \* per proxy: the index published to the request path
    registry,   \* per proxy: CircuitBreakerRegistry, address -> breaker
    refresh,    \* per proxy: where RoutingTable::replace is
    breaker,    \* the breaker objects created so far
    counter,    \* per proxy: the round-robin counters of the route group
    request,    \* the requests
    failing,    \* servers that answer with 5xx or 429, or not at all
    abandons

vars == <<plan, table, registry, refresh, breaker, counter, request, failing, abandons>>

routing == <<plan, table, registry, refresh>>

NoBreaker == 0

Modelled == Proxies \ plan.opaque

\* What answers a call by itself.
Servers == {e \in Engines : Home[e] \in Modelled} \cup plan.opaque

-----------------------------------------------------------------------------
(* The breaker: failsafe's state machine under the operation mutex.        *)

Fresh == [st |-> "closed", errs |-> 0]

Permits(b) == b.st # "open"

\* is_call_permitted lets an open breaker whose time is up half-open.
Asked(b) == IF b.st = "elapsed" THEN [b EXCEPT !.st = "half"] ELSE b

OnSuccess(b) ==
    [st |-> IF b.st = "half" THEN "closed" ELSE b.st, errs |-> 0]

OnError(b) ==
    CASE b.st = "half" -> [st |-> "open", errs |-> 0]
      [] b.st = "closed" /\ b.errs + 1 >= plan.threshold -> [st |-> "open", errs |-> 0]
      [] b.st = "closed" /\ b.errs + 1 < plan.threshold -> [b EXCEPT !.errs = @ + 1]
      [] OTHER -> b

-----------------------------------------------------------------------------
(* The index: IndexedRoutingTable::from_proto.                             *)

\* A rule is reached at its own address on its own node, otherwise through
\* the peer proxy of its node.
Address(p, rule) == IF Home[rule.engine] = p THEN rule.engine ELSE Home[rule.engine]

Higher(v, w) == v[1] > w[1] \/ (v[1] = w[1] /\ v[2] > w[2])

\* Healthy rules only, the highest version first.
Entries(p, v) ==
    LET live == SelectSeq(Rules[v], LAMBDA rule : rule.healthy)
        entry(rule) == [addr |-> Address(p, rule), version |-> rule.version]
        entries == [i \in DOMAIN live |-> entry(live[i])]
    IN SortSeq(entries, LAMBDA a, b : Higher(a.version, b.version))

Indexed == [p \in Proxies |-> [v \in DOMAIN Rules |-> Entries(p, v)]]

\* The addresses an index forwards to.
Active(candidates) == {a \in Addresses : \E i \in DOMAIN candidates : candidates[i].addr = a}

\* resolve: an address keeps the breaker it is registered with, a new one
\* gets a fresh breaker.
Resolved(p, active) ==
    [a \in Addresses |-> IF a \in active /\ registry[p][a] = NoBreaker
                         THEN Len(breaker[p][a]) + 1 ELSE registry[p][a]]

Idle == [pc |-> "idle"]

\* A proxy serves only after its first sync installed a table.
Init ==
    /\ plan \in Plans
    /\ table = [p \in Proxies |->
          [version |-> 1, candidates |-> Indexed[p][1],
           handle |-> [a \in Addresses |->
                         IF a \in Active(Indexed[p][1]) THEN 1 ELSE NoBreaker]]]
    /\ registry = [p \in Proxies |-> table[p].handle]
    /\ refresh = [p \in Proxies |-> Idle]
    /\ breaker = [p \in Proxies |-> [a \in Addresses |->
                    IF a \in Active(Indexed[p][1]) THEN <<Fresh>> ELSE <<>>]]
    /\ counter = [p \in Proxies |-> [s \in Versions \cup {Unpinned} |-> 0]]
    /\ request = [r \in Reqs |-> Idle]
    /\ failing \in SUBSET Servers
    /\ abandons = 0

(* RoutingTable::replace: build the index and register its breakers, then  *)
(* publish it under the write lock with the counters of the groups that    *)
(* stay, then evict what the published index does not use.                 *)
Prepare(p, v) ==
    LET candidates == Indexed[p][v]
        handle == Resolved(p, Active(candidates))
    IN /\ p \in Modelled /\ refresh[p] = Idle /\ table[p].version < v /\ v \in plan.tables
       /\ breaker' = [breaker EXCEPT ![p] = [a \in Addresses |->
                        IF handle[a] > Len(@[a]) THEN Append(@[a], Fresh) ELSE @[a]]]
       /\ registry' = [registry EXCEPT ![p] = handle]
       /\ refresh' = [refresh EXCEPT ![p] =
            [pc |-> "prepared",
             table |-> [version |-> v, candidates |-> candidates, handle |-> handle]]]
       /\ UNCHANGED <<plan, table, counter, request, failing, abandons>>

VersionsIn(candidates) == {candidates[i].version : i \in DOMAIN candidates}

Seeded(p, next) ==
    LET kept == VersionsIn(table[p].candidates) \cap VersionsIn(next)
    IN [s \in DOMAIN counter[p] |->
          IF \/ s \in kept
             \/ s = Unpinned /\ table[p].candidates # <<>> /\ next # <<>>
          THEN counter[p][s] ELSE 0]

Publish(p) ==
    /\ refresh[p].pc = "prepared"
    /\ table' = [table EXCEPT ![p] = refresh[p].table]
    /\ counter' = [counter EXCEPT ![p] = Seeded(p, refresh[p].table.candidates)]
    /\ refresh' = [refresh EXCEPT ![p] = [pc |-> "published"]]
    /\ UNCHANGED <<plan, registry, breaker, request, failing, abandons>>

\* Defect: eviction goes by the index that was just prepared, before it is
\* published.
EvictPrepared(p) ==
    /\ refresh[p].pc = "prepared"
    /\ registry' = [registry EXCEPT ![p] = [a \in Addresses |->
          IF a \in Active(refresh[p].table.candidates) THEN @[a] ELSE NoBreaker]]
    /\ table' = table /\ refresh' = refresh
    /\ UNCHANGED <<plan, breaker, counter, request, failing, abandons>>

Evict(p) ==
    /\ refresh[p].pc = "published"
    /\ registry' = [registry EXCEPT ![p] = [a \in Addresses |->
          IF a \in Active(table[p].candidates) THEN @[a] ELSE NoBreaker]]
    /\ refresh' = [refresh EXCEPT ![p] = Idle]
    /\ UNCHANGED <<plan, table, breaker, counter, request, failing, abandons>>

-----------------------------------------------------------------------------
(* Selection: RoutingService::call.                                        *)

\* VersionReq::matches of semver: a bare version is a caret requirement.
Matches(want, v) == want[1] = v[1] /\ ~Higher(want, v)

\* A pinned request takes the highest version that matches, and only that
\* one; an unpinned request takes all of them.
Eligible(p, want) ==
    LET all == table[p].candidates
        fits == IF want = Unpinned THEN all
                ELSE SelectSeq(all, LAMBDA c : Matches(want, c.version))
    IN IF want = Unpinned \/ fits = <<>> THEN fits
       ELSE SelectSeq(fits, LAMBDA c : c.version = fits[1].version)

Key(want, eligible) == IF want = Unpinned THEN Unpinned ELSE eligible[1].version

\* The breaker a candidate of the published index forwards through.
Handle(p, a) == [of |-> p, to |-> a, nth |-> table[p].handle[a]]

State(h) == breaker[h.of][h.to][h.nth]

Update(h, b) == breaker' = [breaker EXCEPT ![h.of][h.to][h.nth] = b]

\* Defect: a half-open breaker counts as open.
ChooseClosed(p, eligible, slot) ==
    LET permitted == SelectSeq(eligible, LAMBDA c : State(Handle(p, c.addr)).st = "closed")
        from == IF permitted = <<>> THEN eligible ELSE permitted
    IN from[(slot % Len(from)) + 1]

Choose(p, eligible, slot) ==
    LET permitted == SelectSeq(eligible, LAMBDA c : Permits(State(Handle(p, c.addr))))
        from == IF permitted = <<>> THEN eligible ELSE permitted
    IN from[(slot % Len(from)) + 1]

Become(r, state) == request' = [request EXCEPT ![r] = state]

Answer(status, calls) ==
    IF calls = <<>> THEN Idle ELSE [pc |-> "answer", status |-> status, calls |-> calls]

\* Every eligible breaker is asked, so all whose time is up half-open; the
\* concrete version chosen replaces the requested one.
Select(r, p, want, calls) ==
    LET eligible == Eligible(p, want)
        key == Key(want, eligible)
        chosen == Choose(p, eligible, counter[p][key])
    IN /\ eligible # <<>>
       /\ breaker' = [breaker EXCEPT ![p] = [a \in Addresses |->
                        IF a \in Active(eligible)
                        THEN [breaker[p][a] EXCEPT ![table[p].handle[a]] = Asked(@)]
                        ELSE breaker[p][a]]]
       /\ counter' = [counter EXCEPT ![p][key] = (@ + 1) % Period]
       /\ Become(r, [pc |-> "selected", want |-> chosen.version, asked |-> want,
                     call |-> Handle(p, chosen.addr), calls |-> calls])
       /\ UNCHANGED <<routing, failing, abandons>>

Arrive(r, want) ==
    r \in plan.callers /\ request[r] = Idle /\ Select(r, plan.entry, want, <<>>)

Relay(r) == request[r].pc = "arrived" /\ Select(r, request[r].at, request[r].want, request[r].calls)

NoRoute(r) ==
    /\ request[r].pc = "arrived" /\ Eligible(request[r].at, request[r].want) = <<>>
    /\ Become(r, Answer("error", request[r].calls))
    /\ UNCHANGED <<routing, breaker, counter, failing, abandons>>

\* Public ingress validates the body between selection and forwarding, with
\* a schema it may have to fetch; a refusal never reaches the breaker.
SchemaRefuses(r) ==
    /\ request[r].pc = "selected" /\ request[r].calls = <<>>
    /\ abandons < plan.abandons /\ abandons' = abandons + 1
    /\ Become(r, Idle)
    /\ UNCHANGED <<routing, breaker, counter, failing>>

(* ForwardService::call.                                                   *)
Forward(r) ==
    LET call == request[r].call
        calls == Append(request[r].calls, call)
    IN /\ request[r].pc = "selected" /\ Permits(State(call))
       /\ Update(call, Asked(State(call)))
       /\ \/ /\ call.to \in Servers
             /\ Become(r, [pc |-> "calling", want |-> request[r].want, asked |-> request[r].asked,
                           calls |-> calls])
          \/ /\ call.to \in Modelled /\ Len(calls) < MaxHops
             /\ Become(r, [pc |-> "arrived", at |-> call.to, want |-> request[r].want,
                           calls |-> calls])
       /\ UNCHANGED <<routing, counter, failing, abandons>>

\* "circuit open": 503, and no outcome for this breaker.
Refuse(r) ==
    /\ request[r].pc = "selected" /\ ~Permits(State(request[r].call))
    /\ Become(r, Answer("error", request[r].calls))
    /\ UNCHANGED <<routing, breaker, counter, failing, abandons>>

\* The innermost forwarding call that waits for an answer.
Innermost(r) == request[r].calls[Len(request[r].calls)]

\* One level of the answer: the outcome is recorded and the response passed
\* on with its status, which the next proxy up counts in turn.
Return(r, status) ==
    LET call == Innermost(r)
        outer == SubSeq(request[r].calls, 1, Len(request[r].calls) - 1)
    IN /\ Update(call, IF status = "ok" THEN OnSuccess(State(call)) ELSE OnError(State(call)))
       /\ Become(r, Answer(status, outer))
       /\ UNCHANGED <<routing, counter, failing, abandons>>

EngineAnswers(r) ==
    /\ request[r].pc = "calling"
    /\ Return(r, IF Innermost(r).to \in failing THEN "error" ELSE "ok")

PeerAnswers(r) == request[r].pc = "answer" /\ Return(r, request[r].status)

\* The caller disconnects: the futures of all levels are dropped and no
\* breaker hears of it.
Drop(r) == Become(r, Idle) /\ UNCHANGED <<routing, breaker, counter, failing>>

Abandon(r) ==
    /\ request[r] # Idle /\ Drop(r)
    /\ abandons < plan.abandons /\ abandons' = abandons + 1

\* No caller waits for more than MaxHops proxies.
Overlong(r) ==
    /\ request[r].pc = "selected" /\ request[r].call.to \in Modelled
    /\ Len(request[r].calls) + 1 >= MaxHops
    /\ Drop(r) /\ abandons' = abandons

-----------------------------------------------------------------------------
Elapse(p, a) ==
    /\ \E n \in DOMAIN breaker[p][a] :
        /\ breaker[p][a][n].st = "open"
        /\ breaker' = [breaker EXCEPT ![p][a][n].st = "elapsed"]
    /\ UNCHANGED <<routing, counter, request, failing, abandons>>

Heal ==
    /\ failing # {} /\ failing' = {}
    /\ UNCHANGED <<routing, breaker, counter, request, abandons>>

Refresh(p) == (\E v \in DOMAIN Rules : Prepare(p, v)) \/ Publish(p) \/ Evict(p)

Serve(r) == Relay(r) \/ NoRoute(r) \/ Forward(r) \/ Refuse(r) \/ EngineAnswers(r)
            \/ PeerAnswers(r) \/ Overlong(r)

Next ==
    \/ \E p \in Proxies : Refresh(p)
    \/ \E r \in Reqs : \/ \E want \in Wanted : Arrive(r, want)
                       \/ Serve(r) \/ SchemaRefuses(r) \/ Abandon(r)
    \/ \E p \in Proxies, a \in Addresses : Elapse(p, a)
    \/ Heal

Spec == Init /\ [][Next]_vars

(* Requests keep coming to the entry proxy and are worked on, and the open     *)
(* duration of a breaker ends; the manager is polled.                      *)
Fairness ==
    /\ \A p \in Proxies :
        /\ WF_vars(Refresh(p))
        /\ \A a \in Addresses \ {p} : WF_vars(Elapse(p, a))
    /\ \A r \in Reqs :
        /\ WF_vars(\E want \in Wanted : Arrive(r, want))
        /\ WF_vars(Serve(r))

FairSpec == Spec /\ Fairness

-----------------------------------------------------------------------------
(* The breaker a published candidate forwards through is the one the       *)
(* registry holds for its address at every moment of a refresh: the next   *)
(* refresh finds it again and the status report counts it.                 *)
PublishedIsRegistered ==
    \A p \in Modelled : \A a \in Active(table[p].candidates) :
        registry[p][a] = table[p].handle[a]

(* "Circuit breakers ... survive routing refreshes while that destination  *)
(* remains active" (docs/architecture.md:201): replacing the index never   *)
(* resets or swaps the breaker of an address both indexes use.             *)
BreakersSurvive ==
    [][\A p \in Modelled :
         \A a \in Active(table[p].candidates) \cap Active(table'[p].candidates) :
            table'[p].handle[a] = table[p].handle[a]]_vars

(* Once the engines answer again, every breaker that requests go through   *)
(* closes: the round robin reaches a half-open breaker, and refusals by a  *)
(* peer do not keep each other's breakers open.                            *)
BreakersRecover ==
    <>[](failing = {}) =>
        <>[](\A p \in Modelled : \A a \in Active(table[p].candidates) :
                State(Handle(p, a)).st = "closed")

(* "Routing distinguishes exact semantic versions, ranges, and unpinned    *)
(* requests" (docs/architecture.md:199): a request that names a version is *)
(* served by that version.  It does not hold.                              *)
ExactVersionServed ==
    \A r \in plan.callers : request[r].pc = "calling" =>
        \/ request[r].asked = Unpinned
        \/ request[r].asked = request[r].want

(* A request a proxy hands to a peer is served on that peer's node         *)
(* (docs/architecture.md:186).  It does not hold.                          *)
PeerServesItself == \A r \in plan.callers : request[r] # Idle => Len(request[r].calls) <= 2

=============================================================================
