--------------------------- MODULE ClusterStatus ---------------------------
(***************************************************************************)
(* What an operator is told about a cluster.  GetClusterStatus reads every *)
(* control-plane table in one repeatable-read transaction (db.rs) and      *)
(* composes severities from it (status.rs): managers, engines, proxies,    *)
(* nodes, services, and the whole.  `wr-cli cluster status --fail-on` and  *)
(* `cluster wait` turn those into exit codes.                              *)
(*                                                                         *)
(* The tables change underneath: engines register, heartbeat, lapse and    *)
(* leave; slot authority switches from one revision to the next; proxies   *)
(* register, report and deregister over a network that may deliver a       *)
(* request late or twice, because the reporter repeats it through another  *)
(* manager when the transport fails.  A node deploys one bundle per        *)
(* revision, so a revision stands for its digests too.  Ages are           *)
(* abstracted to fresh or stale.                                           *)
(***************************************************************************)
EXTENDS Naturals, FiniteSets, FiniteSetsExt

CONSTANTS
    Nodes, Slots, NodeOf,   \* the nodes, the engine slots and their nodes
    EngineIds, SlotOf,      \* engine registrations and the slot of each
    Hosts,                  \* Hosts[r][s]: modules revision r puts in slot s
    ProxyIds, HomeOf,       \* proxy processes and the node of each
    ManagerIds,
    Nobody,                 \* no row, no owner, no manager
    MaxChanges              \* bound on the steps away from the first state

Revisions == DOMAIN Hosts

VARIABLES
    engineRow,   \* wr_engines, wr_module_heartbeats and default routes
    slotOwner,   \* wr_node_slot_owners
    authority,   \* wr_node_slot_authority: selected revision, 0 if none
    committed,   \* wr_nodes.current_revision
    staged,      \* wr_nodes.target_revision, 0 if none
    operation,   \* the proxy target of the node's active operation
    inventory,   \* wr_proxy_inventory
    sent,        \* proxy requests that may still reach a manager
    member,      \* wr_managers: whether each manager's lease is fresh
    cleanup,     \* wr_node_cleanup of each node
    changes

tables == <<engineRow, slotOwner, authority, committed, staged, operation,
            inventory, member, cleanup>>

statusVars == <<tables, sent, changes>>

---------------------------------------------------------------------------
(* Severities, in the order of the wire enumeration.                       *)

Unknown == 0
Healthy == 1
Degraded == 2
Unhealthy == 3

(* A condition is its code and its severity. *)
Condition(code, severity) == <<code, severity>>

(* reduce_severity: the worst severity that is known. *)
Reduce(severities) == Max(severities \cup {Unknown})

ConditionSeverity(conditions) == Reduce({c[2] : c \in conditions})

SeverityOf(conditions) ==
    IF conditions = {} THEN Healthy ELSE ConditionSeverity(conditions)

---------------------------------------------------------------------------
(* Engines.  A row holds the revision, whether the engine heartbeat is     *)
(* fresh, and the heartbeat and the default route of every module the      *)
(* engine advertises: registration makes those its slot's inventory.       *)

Registered(e) == engineRow[e] # Nobody

Advertised(e) == Hosts[engineRow[e].rev][SlotOf[e]]

EnginesOf(s) == {e \in EngineIds : Registered(e) /\ SlotOf[e] = s}

(* The registration matches a slot of a deployment, and that revision is   *)
(* the selected one, or the committed one if none is selected.             *)
AuthoritativeEngine(e) ==
    LET s == SlotOf[e] IN
    /\ Hosts[engineRow[e].rev][s] # {}
    /\ engineRow[e].rev =
         IF authority[s] = 0 THEN committed[NodeOf[s]] ELSE authority[s]

CleanupConditions(n) ==
    CASE cleanup[n] = "paused" -> {Condition("release_cleanup_paused", Degraded)}
      [] cleanup[n] = "overdue" -> {Condition("release_cleanup_overdue", Degraded)}
      [] OTHER -> {}

EngineConditions(e) ==
    LET failed == IF AuthoritativeEngine(e) THEN Unhealthy ELSE Degraded
        row == engineRow[e]
    IN  CleanupConditions(NodeOf[SlotOf[e]])
        \cup (IF AuthoritativeEngine(e) THEN {}
              ELSE {Condition("UNMANAGED_ENGINE", Degraded)})
        \cup (IF row.fresh THEN {}
              ELSE {Condition("STALE_ENGINE_HEARTBEAT", failed)})
        \cup {Condition(row.beat[m], failed) :
                 m \in {x \in Advertised(e) : row.beat[x] # "fresh"}}

ManagerConditions(m) ==
    IF member[m] THEN {} ELSE {Condition("STALE_MANAGER_HEARTBEAT", Unhealthy)}

---------------------------------------------------------------------------
(* Deployments: VerifyDeployment and the node's own status share this.     *)

(* A module without a fresh heartbeat is reported before its route is. *)
ModuleConditions(e) ==
    UNION {LET beat == engineRow[e].beat[m]
               route == engineRow[e].route[m]
           IN  IF beat # "fresh" THEN {beat}
               ELSE IF route # "healthy" THEN {"UNHEALTHY_ROUTE"} ELSE {} : m \in Advertised(e)}

SlotConditions(s, r) ==
    LET exact == {e \in EnginesOf(s) : engineRow[e].rev = r}
        fresh == {e \in exact : engineRow[e].fresh}
    IN  IF exact = {}
        THEN {IF EnginesOf(s) = {} THEN "MISSING_ENGINE" ELSE "REVISION_MISMATCH"}
        ELSE IF fresh = {} THEN {"STALE_ENGINE_HEARTBEAT"}
        ELSE IF Cardinality(fresh) # 1 THEN {"DUPLICATE_ENGINE_SLOT"}
        ELSE ModuleConditions(CHOOSE e \in fresh : TRUE)

SlotsOf(n, r) == {s \in Slots : NodeOf[s] = n /\ Hosts[r][s] # {}}

DeploymentConditions(n, r) ==
    IF r \notin {committed[n], staged[n]} THEN {"NON_AUTHORITATIVE_REVISION"}
    ELSE UNION {SlotConditions(s, r) : s \in SlotsOf(n, r)}

---------------------------------------------------------------------------
(* Proxies.  The active operation's progress, or else the committed        *)
(* deployment, says which proxy a node should be running.                  *)

(* expected_proxy_projection *)
ExpectedProxy(n) ==
    LET op == operation[n] IN
    IF op = Nobody
    THEN [rev |-> committed[n], pinned |-> Nobody, ambiguous |-> FALSE]
    ELSE LET r == IF op.restoring \/ ~op.started THEN op.source ELSE op.target
         IN  [rev |-> r,
              pinned |-> IF op.seen # Nobody /\ inventory[op.seen].rev = r
                         THEN op.seen ELSE Nobody,
              ambiguous |-> op.paused /\ op.unsure]

ListedProxies == {p \in ProxyIds : inventory[p].row = "present"}

ExactProxy(p) ==
    LET x == ExpectedProxy(HomeOf[p]) IN x.rev # 0 /\ inventory[p].rev = x.rev

ProxyExpected(p) ==
    LET x == ExpectedProxy(HomeOf[p]) IN
    ~x.ambiguous /\ ExactProxy(p) /\ x.pinned \in {Nobody, p}

FreshReport(p) == inventory[p].report # Nobody /\ inventory[p].fresh

Candidates(n) ==
    {p \in ListedProxies : HomeOf[p] = n /\ ProxyExpected(p) /\ FreshReport(p)}

Selected(p) == Candidates(HomeOf[p]) = {p}

Superseded(p) ==
    /\ Cardinality(Candidates(HomeOf[p])) = 1
    /\ ExactProxy(p)
    /\ ~inventory[p].fresh
    /\ ~Selected(p)

(* What the proxy's own report gives away. *)
ReportConditions(p) ==
    LET report == inventory[p].report
        serving == Selected(p) /\ report.life = "ready"
    IN  (IF report.life = "stopping" THEN {Condition("PROXY_STOPPING", Degraded)} ELSE {})
        \cup (IF serving /\ ~report.open
              THEN {Condition("PROXY_ADMISSION_CLOSED", Unhealthy)} ELSE {})
        \cup (IF report.routing = "none"
              THEN {Condition("PROXY_ROUTING_NOT_SYNCHRONIZED", Degraded)} ELSE {})
        \cup (IF report.routing # "current"
              THEN {Condition("PROXY_ROUTING_BEHIND", Degraded)} ELSE {})
        \cup (IF report.via \notin ManagerIds
              THEN {Condition("UNKNOWN_PROXY_ROUTING_MANAGER", Degraded)} ELSE {})
        \cup (CASE report.breakers = "open" ->
                     {Condition("ALL_PROXY_TARGETS_OPEN", Unhealthy)}
                [] report.breakers = "partial" ->
                     {Condition("PARTIALLY_OPEN_PROXY_BREAKERS", Degraded)}
                [] report.breakers = "closed" -> {})

ProxyConditions(p) ==
    LET n == HomeOf[p] IN
    (CASE ExpectedProxy(n).ambiguous -> {Condition("AMBIGUOUS_PROXY_OPERATION", Degraded)}
       [] ~ExpectedProxy(n).ambiguous /\ ~ProxyExpected(p) ->
            {Condition("PROXY_RELEASE_MISMATCH", Degraded)}
       [] OTHER -> {})
    \cup (CASE inventory[p].report = Nobody -> {Condition("MISSING_PROXY_REPORT", Degraded)}
            [] inventory[p].report # Nobody /\ ~inventory[p].fresh ->
                 {Condition("STALE_PROXY_REPORT", Degraded)}
            [] OTHER -> {})
    \cup (IF Cardinality(Candidates(n)) > 1 /\ ProxyExpected(p)
          THEN {Condition("MULTIPLE_FRESH_PROXY_INSTANCES", Degraded)} ELSE {})
    \cup (IF Superseded(p) THEN {Condition("SUPERSEDED_PROXY_INSTANCE", Degraded)} ELSE {})
    \cup (IF inventory[p].report = Nobody THEN {} ELSE ReportConditions(p))

NodeProxyConditions(n) ==
    LET x == ExpectedProxy(n)
        chosen == {p \in ListedProxies : HomeOf[p] = n /\ Selected(p)}
    IN  (CASE x.ambiguous -> {Condition("AMBIGUOUS_PROXY_OPERATION", Degraded)}
           [] ~x.ambiguous /\ x.rev # 0 /\ chosen = {} ->
                {Condition(IF Candidates(n) = {} THEN "MISSING_EXPECTED_PROXY"
                           ELSE "MULTIPLE_FRESH_PROXY_INSTANCES", Degraded)}
           [] OTHER -> {})
        \cup UNION {ProxyConditions(p) : p \in chosen}

---------------------------------------------------------------------------
(* Nodes, services and the whole.                                          *)

NodeConditions(n) ==
    LET r == IF committed[n] # 0 THEN committed[n] ELSE staged[n] IN
    {Condition(code, Unhealthy) :
        code \in IF r = 0 THEN {"NO_COMMITTED_DEPLOYMENT"} ELSE DeploymentConditions(n, r)}
    \cup CleanupConditions(n)
    \cup NodeProxyConditions(n)

NodeSeverity(n) == SeverityOf(NodeConditions(n))

Modules == UNION {Hosts[r][s] : r \in Revisions, s \in Slots}

DesiredRoutes(m) ==
    Cardinality({s \in Slots : committed[NodeOf[s]] # 0 /\ m \in Hosts[committed[NodeOf[s]]][s]})

RoutesTo(m) == {e \in EngineIds : Registered(e) /\ m \in Advertised(e)}

HealthyRoutes(m) ==
    {e \in RoutesTo(m) : AuthoritativeEngine(e) /\ engineRow[e].route[m] = "healthy"}

ServiceSeverity(m) ==
    LET desired == DesiredRoutes(m)
        healthy == Cardinality(HealthyRoutes(m))
    IN  IF desired = 0 THEN Degraded
        ELSE IF healthy = 0 THEN Unhealthy
        ELSE IF healthy < desired THEN Degraded ELSE Healthy

Services == {m \in Modules : DesiredRoutes(m) # 0 \/ RoutesTo(m) # {}}

(* Fresh inventory that no deployment intent selects. *)
OrphanProxies ==
    {p \in ListedProxies : ~Superseded(p) /\ ~Selected(p) /\ FreshReport(p) /\ ~ProxyExpected(p)}

ClusterConditions ==
    {Condition("SIGNAL_NOT_REPORTED", Unknown)}
    \cup (IF OrphanProxies = {} THEN {} ELSE {Condition("ORPHAN_PROXY_INVENTORY", Degraded)})

ClusterSeverity ==
    Reduce({SeverityOf(ManagerConditions(m)) : m \in ManagerIds}
           \cup {NodeSeverity(n) : n \in Nodes}
           \cup {SeverityOf(EngineConditions(e)) : e \in {x \in EngineIds : Registered(x)}}
           \cup {ServiceSeverity(m) : m \in Services}
           \cup {ConditionSeverity(ClusterConditions)})

---------------------------------------------------------------------------
(* wr-cli cluster.  A --node filter keeps the services the node's committed *)
(* deployment names; severities are the ones the manager computed.          *)

KeptServices(n, m) ==
    {x \in Services : /\ n = Nobody \/ \E s \in Slots : /\ NodeOf[s] = n
                                                        /\ committed[n] # 0
                                                        /\ x \in Hosts[committed[n]][s]
                      /\ m \in {Nobody, x}}

(* The severities `cluster wait` compares with the expected one. *)
Observed(n, m) ==
    IF m # Nobody THEN {ServiceSeverity(x) : x \in KeptServices(n, m)}
    ELSE IF n # Nobody THEN {NodeSeverity(n)}
    ELSE {ClusterSeverity}

(* expectation_matches: a target that matches nothing is an error. *)
WaitMatches(n, m, expected) == Observed(n, m) = {expected}

UnknownPresent == \E c \in ClusterConditions : c[2] = Unknown

(* should_fail: what `cluster status --fail-on` makes of the response. *)
ShouldFail(failOn) ==
    CASE failOn = "never" -> FALSE
      [] failOn = "unhealthy" -> ClusterSeverity >= Unhealthy
      [] failOn = "degraded" -> ClusterSeverity >= Degraded
      [] failOn = "unknown" -> ClusterSeverity = Unknown \/ UnknownPresent

---------------------------------------------------------------------------
(* The tables change.                                                      *)

Change ==
    /\ changes < MaxChanges
    /\ changes' = changes + 1

EngineChange ==
    Change /\ UNCHANGED <<authority, committed, staged, operation, inventory,
                          sent, member, cleanup>>

OperationChange ==
    Change /\ UNCHANGED <<slotOwner, inventory, sent, member, cleanup>>

ProxyChange ==
    Change /\ UNCHANGED <<engineRow, slotOwner, authority, committed, staged,
                          operation, member, cleanup>>

Withdrawn(row) == [row EXCEPT !.route = [m \in Modules |-> "unhealthy"]]

NewRow(r) == [rev |-> r, fresh |-> TRUE,
              beat |-> [m \in Modules |-> "MISSING_MODULE_HEARTBEAT"],
              route |-> [m \in Modules |-> "unhealthy"]]

(* The operation in progress admits one revision to its slots. *)
Admitted(n) ==
    IF operation[n] = Nobody THEN 0
    ELSE IF operation[n].restoring THEN operation[n].source ELSE operation[n].target

\* Defect: the previous owner's routes are left as they were.
RegisterOver(e) ==
    LET s == SlotOf[e] IN
    /\ EngineChange
    /\ ~Registered(e)
    /\ Admitted(NodeOf[s]) # 0 /\ Hosts[Admitted(NodeOf[s])][s] # {}
    /\ engineRow' = [engineRow EXCEPT ![e] = NewRow(Admitted(NodeOf[s]))]
    /\ slotOwner' = [slotOwner EXCEPT ![s] = e]

(* register_engine_and_routes: the newcomer owns the slot, and the routes  *)
(* and module heartbeats of the owner before it are withdrawn.             *)
RegisterEngine(e) ==
    LET s == SlotOf[e]
        old == slotOwner[s]
    IN  /\ EngineChange
        /\ ~Registered(e)
        /\ Admitted(NodeOf[s]) # 0 /\ Hosts[Admitted(NodeOf[s])][s] # {}
        /\ engineRow' = [x \in EngineIds |->
               IF x = e THEN NewRow(Admitted(NodeOf[s]))
               ELSE IF x = old /\ Registered(x)
               THEN [NewRow(engineRow[x].rev) EXCEPT !.fresh = engineRow[x].fresh]
               ELSE engineRow[x]]
        /\ slotOwner' = [slotOwner EXCEPT ![s] = e]

(* A fenced heartbeat naming the healthy modules.  Only the slot's owner   *)
(* gets through, and only a revision with authority has its routes serve.  *)
Heartbeat(e, healthy) ==
    /\ EngineChange
    /\ Registered(e) /\ slotOwner[SlotOf[e]] = e
    /\ engineRow' = [engineRow EXCEPT ![e] =
           [engineRow[e] EXCEPT
              !.fresh = TRUE,
              !.beat = [m \in Modules |->
                  IF m \in healthy THEN "fresh" ELSE engineRow[e].beat[m]],
              !.route = [m \in Modules |->
                  IF m \in healthy /\ AuthoritativeEngine(e)
                  THEN "healthy" ELSE "unhealthy"]]]
    /\ UNCHANGED slotOwner

(* Time passes with no heartbeat of the engine, or of one of its modules. *)
Lapse(e, m) ==
    /\ EngineChange
    /\ Registered(e)
    /\ \/ /\ engineRow[e].fresh
          /\ engineRow' = [engineRow EXCEPT ![e].fresh = FALSE]
       \/ /\ engineRow[e].beat[m] = "fresh"
          /\ engineRow' = [engineRow EXCEPT ![e].beat[m] = "STALE_MODULE_HEARTBEAT"]
    /\ UNCHANGED slotOwner

(* The health monitor withdraws the routes of a lapsed engine, and removes *)
(* it once it has been gone for long; a clean exit removes it at once.     *)
Reap(e) ==
    /\ EngineChange
    /\ Registered(e)
    /\ \/ ~engineRow[e].fresh /\ engineRow' = [engineRow EXCEPT ![e] = Withdrawn(@)]
       \/ engineRow' = [engineRow EXCEPT ![e] = Nobody]
    /\ UNCHANGED slotOwner

(* A deployment or rollback (r differs from the committed revision), or a  *)
(* restart, is accepted for the node.                                      *)
SubmitOperation(n, r) ==
    /\ OperationChange
    /\ operation[n] = Nobody
    /\ operation' = [operation EXCEPT ![n] =
           [source |-> committed[n], target |-> r, restoring |-> FALSE,
            started |-> FALSE, seen |-> Nobody, paused |-> FALSE, unsure |-> FALSE]]
    /\ staged' = [staged EXCEPT ![n] = IF r = committed[n] THEN 0 ELSE r]
    /\ UNCHANGED <<engineRow, authority, committed>>

(* The proxy target advances, pauses on unclear evidence, resumes, or the  *)
(* operation turns back to its source.                                     *)
AdvanceOperation(n) ==
    LET op == operation[n] IN
    /\ OperationChange
    /\ op # Nobody
    /\ \/ /\ ~op.started /\ ~op.paused
          /\ \E p \in {Nobody} \cup {x \in ListedProxies : HomeOf[x] = n} :
               operation' = [operation EXCEPT ![n].started = TRUE, ![n].seen = p]
       \/ ~op.paused /\ \E u \in BOOLEAN :
            operation' = [operation EXCEPT ![n].paused = TRUE, ![n].unsure = u]
       \/ op.paused /\ operation' = [operation EXCEPT ![n].paused = FALSE, ![n].unsure = FALSE]
       \/ ~op.restoring /\ op.source # 0
          /\ operation' = [operation EXCEPT ![n].restoring = TRUE, ![n].paused = FALSE]
    /\ UNCHANGED <<engineRow, authority, committed, staged>>

(* switch_authority: selecting a revision withdraws, in the same           *)
(* transaction, the serving routes of every other revision in the slot.    *)
SwitchAuthority(s) ==
    LET r == Admitted(NodeOf[s]) IN
    /\ OperationChange
    /\ r # 0 /\ authority[s] # r
    /\ authority' = [authority EXCEPT ![s] = r]
    /\ engineRow' = [e \in EngineIds |->
           IF SlotOf[e] = s /\ Registered(e) /\ engineRow[e].rev # r
           THEN Withdrawn(engineRow[e]) ELSE engineRow[e]]
    /\ UNCHANGED <<committed, staged, operation>>

(* The operation ends with every slot serving the admitted revision. *)
EndOperation(n) ==
    LET r == Admitted(n) IN
    /\ OperationChange
    /\ r # 0
    /\ DeploymentConditions(n, r) = {}
    /\ \A s \in SlotsOf(n, r) : authority[s] = r
    /\ committed' = [committed EXCEPT ![n] = r]
    /\ staged' = [staged EXCEPT ![n] = 0]
    /\ operation' = [operation EXCEPT ![n] = Nobody]
    /\ UNCHANGED <<engineRow, authority>>

---------------------------------------------------------------------------
(* The proxies' requests.  A request stays in sent: its first copy may     *)
(* reach one manager after the reporter repeated it through another.       *)

Request(p, kind, body) == [from |-> p, kind |-> kind, body |-> body]

HasSent(p, kind) == \E q \in sent : q.from = p /\ q.kind = kind

SendRegister(p, r) ==
    /\ ProxyChange
    /\ inventory[p].row = "absent" /\ ~HasSent(p, "register")
    /\ r # 0 /\ r \in {committed[HomeOf[p]], staged[HomeOf[p]]}
    /\ sent' = sent \cup {Request(p, "register", r)}
    /\ UNCHANGED inventory

SendReport(p, report) ==
    /\ ProxyChange
    /\ inventory[p].row = "present" /\ ~HasSent(p, "deregister")
    /\ sent' = sent \cup {Request(p, "report", report)}
    /\ UNCHANGED inventory

SendDeregister(p) ==
    /\ ProxyChange
    /\ inventory[p].row = "present"
    /\ sent' = sent \cup {Request(p, "deregister", Nobody)}
    /\ UNCHANGED inventory

\* Defect: registering again replaces the row, its deregistration included.
UpsertProxy(q) ==
    /\ q.kind = "register"
    /\ inventory' = [inventory EXCEPT ![q.from] =
           [row |-> "present", rev |-> q.body, report |-> Nobody, fresh |-> FALSE]]

(* db register_proxy: an exact repetition is accepted and changes nothing; *)
(* a deregistered process stays so.                                        *)
RegisterProxy(q) ==
    /\ q.kind = "register"
    /\ inventory[q.from].row \in {"absent", "purged"}
    /\ inventory' = [inventory EXCEPT ![q.from] =
           [row |-> "present", rev |-> q.body, report |-> Nobody, fresh |-> FALSE]]

(* validate_proxy_report: a synchronized routing table names its manager. *)
ValidReport(report) == report.routing # "none" => report.via # Nobody

(* replace_proxy_inventory: stamped with the time of its arrival. *)
ReplaceProxyInventory(q) ==
    /\ q.kind = "report" /\ ValidReport(q.body)
    /\ inventory[q.from].row = "present"
    /\ inventory' = [inventory EXCEPT ![q.from].report = q.body, ![q.from].fresh = TRUE]

DeregisterProxy(q) ==
    /\ q.kind = "deregister"
    /\ inventory' = [inventory EXCEPT ![q.from].row = "deregistered"]

Deliver(q) ==
    /\ ProxyChange
    /\ RegisterProxy(q) \/ ReplaceProxyInventory(q) \/ DeregisterProxy(q)
    /\ UNCHANGED sent

(* Registration purges tombstones older than the retention, which outlasts *)
(* every request of the process (an RPC deadline is far shorter).          *)
PurgeTombstone(p) ==
    /\ ProxyChange
    /\ inventory[p].row = "deregistered"
    /\ inventory' = [inventory EXCEPT ![p].row = "purged"]
    /\ sent' = {q \in sent : q.from # p}

ReportLapses(p) ==
    /\ ProxyChange
    /\ inventory[p].row = "present" /\ inventory[p].fresh
    /\ inventory' = [inventory EXCEPT ![p].fresh = FALSE]
    /\ UNCHANGED sent

(* A manager stops renewing its lease or renews it; maintenance of a       *)
(* node's releases falls behind, pauses or catches up.                     *)
Surroundings ==
    /\ Change
    /\ \/ /\ \E m \in ManagerIds : member' = [member EXCEPT ![m] = ~@]
          /\ UNCHANGED cleanup
       \/ /\ \E n \in Nodes, c \in {"clean", "overdue", "paused"} :
               cleanup' = [cleanup EXCEPT ![n] = c]
          /\ UNCHANGED member
    /\ UNCHANGED <<engineRow, slotOwner, authority, committed, staged, operation,
                   inventory, sent>>

---------------------------------------------------------------------------
(* The whole, from a cluster in which nothing is registered yet.           *)

(* What a proxy may report: it does from when it is ready. *)
ReportForms ==
    [life : {"ready", "stopping"}, open : BOOLEAN, routing : {"current", "behind", "none"},
     via : ManagerIds \cup {Nobody}, breakers : {"closed", "partial", "open"}]

EngineRows ==
    [rev : Revisions, fresh : BOOLEAN,
     beat : [Modules -> {"fresh", "STALE_MODULE_HEARTBEAT", "MISSING_MODULE_HEARTBEAT"}],
     route : [Modules -> {"healthy", "unhealthy"}]]

Operations ==
    [source : Revisions \cup {0}, target : Revisions, restoring : BOOLEAN,
     started : BOOLEAN, seen : ProxyIds \cup {Nobody}, paused : BOOLEAN, unsure : BOOLEAN]

ASSUME StatusAssumption ==
    /\ IsFiniteSet(Slots) /\ IsFiniteSet(EngineIds)
    /\ Revisions \subseteq Nat \ {0}
    /\ NodeOf \in [Slots -> Nodes]
    /\ SlotOf \in [EngineIds -> Slots]
    /\ Nobody \notin Nodes \cup Modules \cup EngineIds \cup ProxyIds
    /\ Nobody \notin EngineRows \cup Operations \cup ReportForms

ClusterInit ==
    /\ engineRow = [e \in EngineIds |-> Nobody]
    /\ slotOwner = [s \in Slots |-> Nobody]
    /\ authority = [s \in Slots |-> 0]
    /\ committed = [n \in Nodes |-> 0]
    /\ staged = [n \in Nodes |-> 0]
    /\ operation = [n \in Nodes |-> Nobody]
    /\ inventory = [p \in ProxyIds |->
           [row |-> "absent", rev |-> 0, report |-> Nobody, fresh |-> FALSE]]
    /\ sent = {}
    /\ member = [m \in ManagerIds |-> TRUE]
    /\ cleanup = [n \in Nodes |-> "clean"]
    /\ changes = 0

EngineStep(e) ==
    \/ RegisterEngine(e)
    \/ \E healthy \in SUBSET Modules : Heartbeat(e, healthy)
    \/ \E m \in Modules : Lapse(e, m)
    \/ Reap(e)

NodeStep(n) ==
    \/ \E r \in Revisions : SubmitOperation(n, r)
    \/ AdvanceOperation(n)
    \/ EndOperation(n)

ProxyStep(p) ==
    \/ \E r \in Revisions : SendRegister(p, r)
    \/ \E report \in ReportForms : SendReport(p, report)
    \/ SendDeregister(p)
    \/ PurgeTombstone(p)
    \/ ReportLapses(p)

ClusterNext ==
    \/ \E e \in EngineIds : EngineStep(e)
    \/ \E n \in Nodes : NodeStep(n)
    \/ \E s \in Slots : SwitchAuthority(s)
    \/ \E p \in ProxyIds : ProxyStep(p)
    \/ \E q \in sent : Deliver(q)
    \/ Surroundings

ClusterSpec == ClusterInit /\ [][ClusterNext]_statusVars

---------------------------------------------------------------------------
(* The properties.                                                         *)

(* The slot serves module m: a route a proxy may use leads to an engine    *)
(* that owns the slot and runs the revision with authority over it.        *)
SlotServes(s, m) ==
    \E e \in EnginesOf(s) : /\ slotOwner[s] = e
                            /\ m \in Advertised(e)
                            /\ engineRow[e].route[m] = "healthy"
                            /\ authority[s] \in {0, engineRow[e].rev}

(* Every module of the committed (or first staged) revision is served by   *)
(* its slot's owner, at that revision and with every heartbeat fresh, and  *)
(* one proxy process of the node reports itself ready and admitting.       *)
NodeServed(n) ==
    LET r == IF committed[n] # 0 THEN committed[n] ELSE staged[n] IN
    /\ r # 0
    /\ \A s \in SlotsOf(n, r) :
         LET e == slotOwner[s] IN
         /\ e # Nobody /\ Registered(e)
         /\ engineRow[e].rev = r /\ engineRow[e].fresh
         /\ \A m \in Hosts[r][s] : engineRow[e].beat[m] = "fresh" /\ SlotServes(s, m)
    /\ ExpectedProxy(n).rev # 0 =>
         \E p \in ProxyIds : /\ HomeOf[p] = n
                             /\ inventory[p].row = "present"
                             /\ inventory[p].rev = ExpectedProxy(n).rev
                             /\ FreshReport(p)
                             /\ inventory[p].report.life = "ready"
                             /\ inventory[p].report.open

(* What `cluster wait --severity healthy` and `cluster status --fail-on    *)
(* degraded` let an operator conclude.  A node that is waited for as       *)
(* healthy serves every module of its deployment; a service that is        *)
(* healthy is served by as many slots as the committed deployments give    *)
(* it; a cluster that passes the gate has every node and every desired     *)
(* service served and no manager missing (status.rs compose and            *)
(* deployment_conditions_from_snapshot over what registration, heartbeats, *)
(* authority switches and proxy reports leave in the tables).              *)
HealthyIsServed ==
    /\ \A n \in Nodes : WaitMatches(n, Nobody, Healthy) => NodeServed(n)
    /\ \A m \in Modules :
         WaitMatches(Nobody, m, Healthy) =>
           Cardinality({s \in Slots : SlotServes(s, m)}) >= DesiredRoutes(m)
    /\ ~ShouldFail("degraded") =>
         /\ \A n \in Nodes : NodeServed(n)
         /\ \A m \in ManagerIds : member[m]
         /\ \A m \in Services : \E s \in Slots : SlotServes(s, m)

(* A proxy process that deregistered never comes back into the inventory,  *)
(* whatever copies of its requests arrive late: register_proxy refuses a   *)
(* tombstoned process and replace_proxy_inventory updates none.            *)
DeregisteredStaysGone ==
    [][\A p \in ProxyIds : inventory[p].row \in {"deregistered", "purged"} =>
         inventory'[p].row # "present"]_statusVars
=============================================================================
