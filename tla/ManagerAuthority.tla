--------------------------- MODULE ManagerAuthority ---------------------------
(***************************************************************************)
(* Who may call which RPC of a manager.  Every call of the manager's       *)
(* listener is decided twice: the wrapper services ask the table of RPC    *)
(* rows (wr-manager/src/auth.rs, ManagerAuthorizer::authorize) with the    *)
(* resource they read from the request, and the handlers behind them ask   *)
(* again, by role lists of their own, once they know the record the call   *)
(* is about.  Between the two the admission gate may close.  The module    *)
(* models both decisions, the policies the loader accepts, the filters     *)
(* applied to lists, and the rollout prevalidation, which is a third       *)
(* reading of the same policy.                                             *)
(***************************************************************************)

CONSTANTS
  Values,     \* namespaces, nodes, queues and managers: two names of each
  Scoped      \* the names a scope may be restricted to

VARIABLES
  principal,  \* the calling principal, as the loaded policy describes it
  gate,       \* the manager's admission gate is open
  call        \* the call in progress

vars == <<principal, gate, call>>

Unset == "none"     \* an absent selector
ASSUME AuthorityAssumption == Unset \notin Values

All == {}          \* an absent scope dimension: no restriction (an empty one is refused)

Dimensions == {"namespace", "node", "queue", "manager"}
Workloads == {"manager", "proxy", "agent"}

-----------------------------------------------------------------------------
(* The policy file *)

\* The roles of a kind of principal, and the dimensions an assignment of the
\* role may restrict; any other pair is refused by the loader.
AllowedDimensions ==
  [human |->
     [admin |-> {}, view |-> {"namespace", "node"},
      infra |-> {"node", "manager"}, jobView |-> {"queue"},
      jobAdmin |-> {"queue"}],
   service |->
     [status |-> {"namespace", "node"}, route |-> {"namespace"},
      secret |-> {"namespace"}, schedule |-> {"namespace"},
      infra |-> {"node"}, deploy |-> {"node", "manager"},
      jobView |-> {"queue"}, jobAdmin |-> {"queue"}]]

\* Every assignment ValidatedPolicy::load accepts for a kind: a restricted
\* dimension is one the role allows, and its set is not empty.
Assignments(kind) ==
  UNION {[role: {role},
          scope: {s \in [Dimensions -> {All} \cup {{v} : v \in Scoped}] :
                    \A d \in Dimensions :
                      s[d] # All => d \in AllowedDimensions[kind][role]}]
         : role \in DOMAIN AllowedDimensions[kind]}

\* A declared principal: people and service accounts hold role assignments,
\* without duplicates; every workload is enrolled exactly once, proxies and
\* node agents on a node, and holds none.  Bound: two assignments, enough for
\* every disagreement between one assignment and the union of several.
Holders(kind) ==
  [kind: {kind}, node: {Unset}, revoked: BOOLEAN,
   grants: {{g, h} : g, h \in Assignments(kind)}]

Principals ==
  Holders("human") \cup Holders("service")
    \cup [kind: {"proxy", "agent"}, node: Values, revoked: BOOLEAN, grants: {{}}]
    \cup [kind: {"manager"}, node: {Unset}, revoked: BOOLEAN, grants: {{}}]

\* A scope covers a set of names in one dimension.
Covers(scope, d, names) == scope[d] = All \/ names \subseteq scope[d]

-----------------------------------------------------------------------------
(* The table of RPCs *)

RoutingWrites == {"UpsertRoutingRule", "DeleteRoutingRule"}
SecretRpcs == {"SetSecret", "DeleteSecret", "ListSecrets"}
ScheduleWrites == {"UpsertSchedule", "DeleteSchedule"}
ClusterReads ==
  {"ListEngines", "GetRoutingTable", "ListManagers", "GetClusterStatus",
   "GetSchema"}
OperationWrites ==
  {"SubmitOperation", "ResumeOperation", "CancelOperation", "RetryNodeCleanup"}
DeploymentWrites ==
  {"BeginDeployment", "VerifyDeployment", "FinalizeDeployment",
   "AbandonDeployment", "PutNodeAgentPolicy", "BeginRollback"}
RolloutControl ==
  {"BeginManagerRollout", "ResetFailedManagerRollout", "AdvanceManagerRollout"}
NodeReads ==
  {"GetStatus", "GetOperation", "ListOperations", "GetNodeCleanupStatus"}
ProxyReports == {"RegisterProxy", "ReportProxyInventory", "DeregisterProxy"}
EngineReports == {"DeregisterEngine", "Heartbeat", "BeginEngineDrain"}
AgentRpcs ==
  {"Attest", "ClaimOperation", "RenewOperationLease", "ClaimNodeCleanup",
   "RenewNodeCleanupLease", "ReportNodeCleanupResult", "ReportObservation",
   "ReportStepResult"}
JobReads == {"ListJobQueues", "ListJobs", "GetJobQueueSummary", "GetJob"}
PolicyRpcs == {"GetPolicyStatus", "GetWorkloadSnapshot"}

InfrastructureRpcs ==
  NodeReads \cup OperationWrites \cup DeploymentWrites \cup RolloutControl \cup
  {"GetManagerRollout"}
NodeRpcs == ProxyReports \cup EngineReports \cup AgentRpcs \cup {"RegisterEngine"}

\* Every method with exactly one row and a handler binding; others are denied.
Rpcs ==
  ClusterReads \cup RoutingWrites \cup SecretRpcs \cup ScheduleWrites \cup
  InfrastructureRpcs \cup NodeRpcs \cup JobReads \cup PolicyRpcs \cup
  {"ListSchedules", "RetryJob", "GetLifecycleStatus"}

\* The workload column of MANAGER_RPC_ROWS.
WorkloadBinding(rpc) ==
  CASE rpc \in ProxyReports \cup EngineReports \cup {"RegisterEngine"} -> "proxyBound"
    [] rpc \in AgentRpcs -> "agentBound"
    [] rpc \in {"GetRoutingTable", "ListManagers", "GetSchema",
                "GetWorkloadSnapshot"} -> "proxyGlobal"
    [] rpc \in {"GetPolicyStatus", "GetLifecycleStatus"} -> "enrolled"
    [] OTHER -> "notApplicable"

\* workload_binding_matches, after "not applicable" has been refused.
\* A call that
\* names no node is about the node the principal is enrolled on.
WorkloadBindingMatches(rpc, p, res) ==
  LET b == WorkloadBinding(rpc)
      own == "node" \in DOMAIN res => res["node"] = {p.node}
  IN  \/ b = "proxyBound" /\ p.kind = "proxy" /\ own
      \/ b = "agentBound" /\ p.kind = "agent" /\ own
      \/ b = "proxyGlobal" /\ p.kind = "proxy"
      \/ b = "enrolled"

\* roles_for_row: the roles that grant an RPC to people and to service
\* accounts.  The rows of NodeService grant it to neither.
RolesForRow(rpc) ==
  CASE rpc \in RoutingWrites -> [human |-> {"admin"}, service |-> {"route"}]
    [] rpc \in SecretRpcs -> [human |-> {"admin"}, service |-> {"secret"}]
    [] rpc \in ScheduleWrites -> [human |-> {"admin"}, service |-> {"schedule"}]
    [] rpc = "ListSchedules" ->
         [human |-> {"admin", "view"}, service |-> {"status", "schedule"}]
    [] rpc \in ClusterReads \cup PolicyRpcs ->
         [human |-> {"admin", "view"}, service |-> {"status"}]
    [] rpc \in OperationWrites ->
         [human |-> {"admin", "infra"}, service |-> {"infra"}]
    [] rpc \in DeploymentWrites \cup RolloutControl ->
         [human |-> {"admin", "infra"}, service |-> {"deploy"}]
    [] rpc \in {"GetManagerRollout", "GetLifecycleStatus"} ->
         [human |-> {"admin", "infra", "view"},
          service |-> {"deploy", "infra", "status"}]
    [] rpc \in NodeReads ->
         [human |-> {"admin", "infra", "view"}, service |-> {"infra", "status"}]
    [] rpc = "RetryJob" ->
         [human |-> {"admin", "jobAdmin"}, service |-> {"jobAdmin"}]
    [] rpc \in JobReads ->
         [human |-> {"admin", "jobAdmin", "jobView"},
          service |-> {"jobAdmin", "jobView"}]
    [] OTHER -> [human |-> {}, service |-> {}]

(***************************************************************************)
(* A resource is a function from the dimensions a wrapper extracts to sets *)
(* of names; a dimension the request leaves out is not in its domain.      *)
(***************************************************************************)
NoResource == [d \in {} |-> {}]
Named(d) == {[x \in {d} |-> {v}] : v \in Values}

\* The decision of authorize_row_evidence: a workload by its binding alone, a
\* person or service account by one assignment that covers the whole tuple.
AuthorizeRow(rpc, p, res) ==
  /\ ~p.revoked
  /\ IF p.kind \in Workloads
     THEN WorkloadBindingMatches(rpc, p, res)
     ELSE \E g \in p.grants :
            /\ g.role \in RolesForRow(rpc)[p.kind]
            /\ \A d \in DOMAIN res : Covers(g.scope, d, res[d])

\* The assignments the call carries to the filters of its response.
Carried(rpc, p) == {g \in p.grants : g.role \in RolesForRow(rpc)[p.kind]}

AllowsCollectionItem(rpc, p, item) ==
  \/ p.kind \in Workloads
  \/ \E g \in Carried(rpc, p) : \A d \in DOMAIN item : Covers(g.scope, d, item[d])

\* collect_scope: the union of the queues the assignments name, or no filter.
InJobQueueFilter(p, item) ==
  LET grants == Carried("ListJobQueues", p)
  IN  \/ \E g \in grants : g.scope["queue"] = All
      \/ item["queue"] \subseteq UNION {g.scope["queue"] : g \in grants}

AllowedWhileClosed ==
  RolloutControl \cup {"GetManagerRollout", "GetLifecycleStatus"}

-----------------------------------------------------------------------------
(* The wrappers: the resource each one reads from its request *)

ClusterResources(rpc) ==
  CASE rpc \in {"UpsertRoutingRule", "GetSchema", "SetSecret", "DeleteSecret"}
                 \cup ScheduleWrites -> Named("namespace")
    [] rpc \in {"ListSecrets", "ListSchedules"} -> Named("namespace") \cup {NoResource}
    [] OTHER -> {NoResource}

InfrastructureResources(rpc) ==
  CASE rpc \in DeploymentWrites \cup
                 {"SubmitOperation", "GetNodeCleanupStatus", "RetryNodeCleanup"} ->
         Named("node")
    [] rpc \in {"GetStatus", "ListOperations"} -> Named("node") \cup {NoResource}
    [] rpc = "BeginManagerRollout" -> {[d \in {"manager"} |-> Values]}
    [] OTHER -> {NoResource}

NodeResources(rpc) ==
  CASE rpc \in AgentRpcs -> Named("node")
    [] rpc = "RegisterEngine" -> Named("node") \cup {NoResource}
    [] OTHER -> {NoResource}

JobResources(rpc) ==
  IF rpc = "ListJobQueues" THEN {NoResource} ELSE Named("queue")

Resources(rpc) ==
  CASE rpc \in JobReads \cup {"RetryJob"} -> JobResources(rpc)
    [] rpc \in NodeRpcs -> NodeResources(rpc)
    [] rpc \in InfrastructureRpcs -> InfrastructureResources(rpc)
    [] OTHER -> ClusterResources(rpc)

\* What the handler finds behind an identifier in the request: the node of an
\* operation or an engine, the namespace of a rule, or whose rollout it is.
Records(rpc) ==
  CASE rpc \in {"GetOperation", "ResumeOperation", "CancelOperation"} -> Values
    [] rpc \in EngineReports \cup {"DeleteRoutingRule"} -> Values \cup {Unset}
    [] rpc \in RolloutControl \cup {"GetManagerRollout"} -> {"own", "other"}
    [] OTHER -> {Unset}

-----------------------------------------------------------------------------
(* The handlers: their own reading of the policy *)

HasRole(p, roles) == \E g \in p.grants : g.role \in roles

HasNodeGrant(p, roles, node) ==
  /\ p.kind \in DOMAIN roles
  /\ \E g \in p.grants : g.role \in roles[p.kind] /\ Covers(g.scope, "node", node)

AuthorizeInfrastructureRead(p, node) ==
  HasNodeGrant(p, [human |-> {"admin", "view", "infra"},
                   service |-> {"status", "infra"}], node)

\* Defect: a role list that forgets the service accounts' role.
PeopleWrite(p, node) ==
  HasNodeGrant(p, [human |-> {"admin", "infra"}, service |-> {"deploy"}], node)

AuthorizeInfrastructureWrite(p, node) ==
  HasNodeGrant(p, [human |-> {"admin", "infra"}, service |-> {"infra"}], node)

AuthorizeRead(p) == HasRole(p, {"admin", "view", "infra", "status", "deploy"})

AuthorizeOperator(p) == HasRole(p, {"admin", "infra", "deploy"})

AuthorizeEnrolled(p) == AuthorizeRead(p) \/ p.kind \in Workloads

AuthorizeProxy(p) == p.kind = "proxy" /\ p.node # Unset

AuthorizeAgent(p, node) == p.kind = "agent" /\ node = {p.node}

\* The policy lets the principal run a rollout to a set of managers.
AuthorizesRollout(p, managers) ==
  \E g \in p.grants :
    /\ <<p.kind, g.role>> \in {<<"human", "admin">>, <<"human", "infra">>,
                                <<"service", "deploy">>}
    /\ Covers(g.scope, "manager", managers)

\* The check of a target policy before a rollout to it begins.
PrevalidateRolloutClaims(p, managers) ==
  /\ p.kind \in {"human", "service"}
  /\ ~p.revoked
  /\ managers = Values
  /\ AuthorizesRollout(p, managers)

NodeNamed(res) == IF "node" \in DOMAIN res THEN res["node"] ELSE {}

\* The handlers of operations and of cleanup: by the node of the request, or
\* of the operation the request names.
OperatorPermits(rpc, p, res, rec) ==
  CASE rpc \in {"GetStatus", "ListOperations", "GetNodeCleanupStatus"} ->
         AuthorizeInfrastructureRead(p, NodeNamed(res))
    [] rpc = "GetOperation" -> AuthorizeInfrastructureRead(p, {rec})
    [] rpc \in {"SubmitOperation", "RetryNodeCleanup"} ->
         AuthorizeInfrastructureWrite(p, NodeNamed(res))
    [] OTHER -> AuthorizeInfrastructureWrite(p, {rec})

DeploymentPermits(rpc, p) ==
  IF rpc = "VerifyDeployment" THEN AuthorizeRead(p) ELSE AuthorizeOperator(p)

AgentPermits(p, res) == AuthorizeAgent(p, NodeNamed(res))

\* A rollout is begun under the source policy, or in a manager that started
\* closed under the loaded target policy; it is then controlled by the
\* principal recorded for it alone.
RolloutPermits(rpc, p, res, rec, open) ==
  CASE rpc = "BeginManagerRollout" ->
         /\ p.kind \in {"human", "service"}
         /\ IF open THEN AuthorizesRollout(p, res["manager"])
            ELSE PrevalidateRolloutClaims(p, res["manager"]) /\ rec = "own"
    [] rpc = "GetManagerRollout" ->
         /\ \A m \in Named("manager") : AllowsCollectionItem(rpc, p, m)
         /\ open \/ rec = "own"
    [] OTHER -> rec = "own"

\* The owner of a stored routing rule, or engine, is looked up by its identifier.
RulePermits(p, rec) ==
  rec # Unset => AllowsCollectionItem("DeleteRoutingRule", p, [d \in {"namespace"} |-> {rec}])

EnginePermits(p, rec) == rec # Unset => rec = p.node

PolicyPermits(rpc, p) ==
  IF rpc = "GetWorkloadSnapshot" THEN AuthorizeProxy(p) ELSE AuthorizeEnrolled(p)

\* The dispatch of the node service: proxies and engines, then node agents.
NodePermits(rpc, p, res, rec) ==
  CASE rpc \in AgentRpcs -> AgentPermits(p, res)
    [] rpc \in EngineReports -> EnginePermits(p, rec)
    [] OTHER -> TRUE

\* The dispatch of the infrastructure service.
InfrastructurePermits(rpc, p, res, rec, open) ==
  CASE rpc \in NodeReads \cup OperationWrites -> OperatorPermits(rpc, p, res, rec)
    [] rpc \in DeploymentWrites -> DeploymentPermits(rpc, p)
    [] OTHER -> RolloutPermits(rpc, p, res, rec, open)

HandlerPermits(rpc, p, res, rec, open) ==
  CASE rpc \in NodeRpcs -> NodePermits(rpc, p, res, rec)
    [] rpc \in InfrastructureRpcs -> InfrastructurePermits(rpc, p, res, rec, open)
    [] rpc = "DeleteRoutingRule" -> RulePermits(p, rec)
    [] rpc \in PolicyRpcs \cup {"GetLifecycleStatus"} -> PolicyPermits(rpc, p)
    [] OTHER -> TRUE

\* The handlers that hold an admission guard while they work.
Guarded ==
  Rpcs \ (ClusterReads \cup EngineReports \cup AllowedWhileClosed \cup
          {"ListSecrets", "ListSchedules", "DeleteRoutingRule", "DeregisterProxy"})

\* What a response lists: the items the filters of its wrapper and handler keep.
ListDimensions ==
  [ListEngines |-> {"namespace", "node"}, GetRoutingTable |-> {"namespace"},
   ListManagers |-> {"manager"}, ListSecrets |-> {"namespace"},
   ListSchedules |-> {"namespace"}, GetStatus |-> {"node"},
   ListOperations |-> {"node"}, ListJobQueues |-> {"queue"}]

Items(rpc) ==
  IF rpc \in DOMAIN ListDimensions
  THEN [ListDimensions[rpc] -> {{v} : v \in Values}] ELSE {}

SelectedBy(res, item) == \A d \in DOMAIN res \cap DOMAIN item : item[d] = res[d]

\* The status keeps what the handler's node grants cover.
StatusShown(p, item) == AuthorizeInfrastructureRead(p, item["node"])

\* A list of operations is filtered by the handler, then by the wrapper.
OperationsShown(p, item) ==
  /\ AuthorizeInfrastructureRead(p, item["node"])
  /\ AllowsCollectionItem("ListOperations", p, item)

Shown(rpc, p, res) ==
  {item \in Items(rpc) :
     /\ SelectedBy(res, item)
     /\ CASE rpc = "ListJobQueues" -> InJobQueueFilter(p, item)
          [] rpc = "GetStatus" -> StatusShown(p, item)
          [] rpc = "ListOperations" -> OperationsShown(p, item)
          [] OTHER -> AllowsCollectionItem(rpc, p, item)}

-----------------------------------------------------------------------------
(* Calls *)

Idle == [pc |-> "idle"]

Init ==
  /\ principal \in Principals
  /\ gate \in BOOLEAN
  /\ call = Idle

\* ManagerAuthorizer::authorize, called by the wrapper: the row first, then
\* the gate.
Authorize(rpc) ==
  /\ call = Idle
  /\ \E res \in Resources(rpc), rec \in Records(rpc) :
       call' = [pc |-> CASE ~AuthorizeRow(rpc, principal, res) -> "denied"
                         [] AuthorizeRow(rpc, principal, res) /\ ~gate
                              /\ rpc \notin AllowedWhileClosed -> "closed"
                         [] OTHER -> "admitted",
                rpc |-> rpc, res |-> res, rec |-> rec, shown |-> {}]
  /\ UNCHANGED <<principal, gate>>

\* The handler: its admission guard, its own check, and the response.
Handle ==
  /\ call.pc = "admitted"
  /\ call' =
       IF call.rpc \in Guarded /\ ~gate
       THEN [call EXCEPT !.pc = "closed"]
       ELSE IF HandlerPermits(call.rpc, principal, call.res, call.rec, gate)
       THEN [call EXCEPT !.pc = "served", !.shown = Shown(call.rpc, principal, call.res)]
       ELSE [call EXCEPT !.pc = "refused"]
  /\ UNCHANGED <<principal, gate>>

Reply ==
  /\ call.pc \in {"denied", "closed", "refused", "served"}
  /\ call' = Idle
  /\ UNCHANGED <<principal, gate>>

\* A rollout closes the gate of a manager and a later one opens it.
MoveGate ==
  /\ call.pc \in {"idle", "admitted"}
  /\ gate' = ~gate
  /\ UNCHANGED <<principal, call>>

Next == (\E rpc \in Rpcs : Authorize(rpc)) \/ Handle \/ Reply \/ MoveGate

Spec == Init /\ [][Next]_vars

-----------------------------------------------------------------------------
(* Properties *)

\* The resource of a call, completed with the owner of the record it names.
Whole ==
  IF call.rec \in Values
  THEN [d \in {IF call.rpc = "DeleteRoutingRule" THEN "namespace" ELSE "node"} |-> {call.rec}]
  ELSE call.res

\* The two decisions agree: a handler serves an admitted call exactly when the
\* table of rows grants the RPC on the record the call turned out to be about.
\* A role list in a handler that is narrower than its row would refuse callers
\* the table promises to serve, and a wider one would make the row mean
\* nothing for calls that name a record by identifier.  (Calls about rollouts,
\* which belong to one principal, are the subject of ControllerKeepsControl.
\* GetWorkloadSnapshot is left out: roles_for_row grants it to people and
\* service accounts with the rest of its service, its row says "W:proxy", and
\* the handler serves proxies alone.)
HandlersAgree ==
  /\ call.pc \in {"served", "refused"}
  /\ call.rpc \notin RolloutControl \cup {"GetManagerRollout", "GetWorkloadSnapshot"}
  => (call.pc = "served") = AuthorizeRow(call.rpc, principal, Whole)

\* The call that asks for one item of a list by name.
ByName(rpc) == IF rpc = "ListJobQueues" THEN "ListJobs" ELSE rpc

\* Lists and single reads agree: an item is in the list a principal gets without
\* a selector exactly when the principal may ask for it by name.  The lists are
\* filtered by wrapper and handler with three different readings of the
\* scopes (one assignment for the whole tuple, node grants, a union of queues).
ListsAgree ==
  /\ call.pc = "served"
  /\ call.rpc \in {"ListSecrets", "ListSchedules", "GetStatus", "ListOperations",
                   "ListJobQueues"}
  /\ call.res = NoResource
  => \A item \in Items(call.rpc) :
       (item \in call.shown) = AuthorizeRow(ByName(call.rpc), principal, item)

\* A rollout's principal keeps control of it: whoever the prevalidation of a
\* target policy accepts is not turned away, by a manager that runs this
\* policy, from advancing, resetting or reading the rollout recorded for them,
\* whether admission is open or closed.  Otherwise a rollout that closed
\* admission could be left with nobody able to finish or reset it.
ControllerKeepsControl ==
  /\ call.pc \in {"denied", "closed", "refused"}
  /\ call.rpc \in {"AdvanceManagerRollout", "ResetFailedManagerRollout", "GetManagerRollout"}
  /\ call.rec = "own"
  => ~PrevalidateRolloutClaims(principal, Values)
=============================================================================
