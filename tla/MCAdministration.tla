-------------------------- MODULE MCAdministration --------------------------
(***************************************************************************)
(* What managers, databases and operators keep and look at, a part at a    *)
(* time: guest sessions on a pool of connections, migrations of one        *)
(* namespace, provisioning of two, the authority of a manager's handlers,  *)
(* the policy snapshots an agent consumes, the administration of jobs, and *)
(* the status of a cluster.                                                *)
(***************************************************************************)
EXTENDS DatabaseSession, TenantMigration, TenantProvisioning, ManagerAuthority,
        PolicySnapshot, JobAdmin, ClusterStatus, TLC

CONSTANTS g1, g2, v1, v2, v3, peer, ma, mb, pol1, pol2, pol3, MaxTime,
          n1, n2, s1, s2, e1, e2, f1, p1, p2, q1, mgr, mod1, mod2

VARIABLE part   \* the part that is run

-----------------------------------------------------------------------------
MigrationFile(version, text) == [version |-> version, text |-> text]

\* Two runs of the same bundle, and one whose first file has other contents.
Bundles ==
    LET same == <<MigrationFile(1, "x"), MigrationFile(2, "x")>>
    IN (v1 :> same) @@ (v2 :> same) @@ (v3 :> <<MigrationFile(1, "y")>>)

Manifest(generation, digest, subject, namespaces) ==
    [generation |-> generation, digest |-> digest, subject |-> subject,
     namespaces |-> namespaces]

\* A first generation, a second one, and one with another certificate subject.
ManifestList ==
    (v1 :> Manifest(1, "x", "s", {"n", "o"})) @@ (v2 :> Manifest(2, "y", "s", {"n"}))
      @@ (v3 :> Manifest(1, "z", "t", {"o"}))

-----------------------------------------------------------------------------
(* A first policy, and two of the next generation that withdraw a peer.    *)

Gens == pol1 :> 1 @@ pol3 :> 2 @@ pol2 :> 2
Enrolments == pol1 :> {peer} @@ pol3 :> {} @@ pol2 :> {}
Skews == ma :> 1 @@ mb :> -1

JobRow(st) ==
    [Fresh(1, 1) EXCEPT !.st = st, !.attempt = IF st = "pending" THEN 0 ELSE 1,
                        !.error = st = "dead"]

\* Two dead jobs and one to be submitted, with engines that stay; or three
\* jobs of the same age and engines that come and go.
JobsInit ==
    \/ AdminInit([j \in Jobs |-> IF j = Max(Jobs) THEN Absent ELSE JobRow("dead")], MaxFaults)
    \/ AdminInit([j \in Jobs |-> JobRow(IF j = Max(Jobs) THEN "pending" ELSE "dead")], 0)

-----------------------------------------------------------------------------
(* Two nodes of one slot each.  Both revisions put module mod1 in the      *)
(* slots; revision 2 adds module mod2 to the first.  The cluster starts    *)
(* healthy, and the second node only suffers: its engine and its proxy may *)
(* fall silent.                                                            *)

NodeOfSlot == s1 :> n1 @@ s2 :> n2
SlotOfEngine == e1 :> s1 @@ e2 :> s1 @@ f1 :> s2
HomeOfProxy == p1 :> n1 @@ p2 :> n1 @@ q1 :> n2
Inventories == <<s1 :> {mod1} @@ s2 :> {mod1}, s1 :> {mod1, mod2} @@ s2 :> {mod1}>>

GoodReport == [life |-> "ready", open |-> TRUE, routing |-> "current",
               via |-> mgr, breakers |-> "closed"]

Reports ==
    {GoodReport,
     [GoodReport EXCEPT !.life = "stopping", !.open = FALSE],
     [GoodReport EXCEPT !.open = FALSE],
     [GoodReport EXCEPT !.routing = "behind", !.breakers = "partial"],
     [GoodReport EXCEPT !.routing = "none", !.via = Nobody, !.breakers = "open"]}

Serving == [rev |-> 1, fresh |-> TRUE, beat |-> [i \in Modules |-> "fresh"],
            route |-> [i \in Modules |-> "healthy"]]

StatusInit ==
    /\ engineRow = [e \in EngineIds |-> IF e = e2 THEN Nobody ELSE Serving]
    /\ slotOwner = s1 :> e1 @@ s2 :> f1
    /\ authority = [s \in Slots |-> 1]
    /\ committed = [n \in Nodes |-> 1]
    /\ staged = [n \in Nodes |-> 0]
    /\ operation = [n \in Nodes |-> Nobody]
    /\ inventory = [p \in ProxyIds |->
           IF p = p2 THEN [row |-> "absent", rev |-> 0, report |-> Nobody, fresh |-> FALSE]
           ELSE [row |-> "present", rev |-> 1, report |-> GoodReport, fresh |-> TRUE]]
    /\ sent = {Request(p1, "register", 1)}
    /\ member = [i \in ManagerIds |-> TRUE]
    /\ cleanup = [n \in Nodes |-> "clean"]
    /\ changes = 0

StatusNext ==
    \/ \E e \in {e1, e2} :
         \/ RegisterEngine(e)
         \/ \E healthy \in {{mod1}, {mod1, mod2}} : Heartbeat(e, healthy)
         \/ \E i \in Modules : Lapse(e, i)
         \/ Reap(e)
    \/ NodeStep(n1)
    \/ SwitchAuthority(s1)
    \/ Lapse(f1, mod1)
    \/ ReportLapses(q1)
    \/ \E p \in {p1, p2} :
         \/ \E r \in Revisions : SendRegister(p, r)
         \/ \E report \in Reports : SendReport(p, report)
         \/ SendDeregister(p)
         \/ PurgeTombstone(p)
         \/ ReportLapses(p)
    \/ \E q \in sent : Deliver(q)
    \/ Surroundings

-----------------------------------------------------------------------------
NoGuests ==
    /\ conn = [i \in Conns |-> Clean("pool")] /\ tx = [i \in Guests |-> NoTx]
    /\ cur = [i \in Guests |-> "none"] /\ issued = [i \in Guests |-> 0]
    /\ live = {} /\ durable = {} /\ promised = {} /\ void = {}

NoRuns ==
    /\ ledger = [v \in Versions |-> <<>>] /\ approvals = {} /\ lock = "none"
    /\ backend = {} /\ applied = {} /\ crashes = 0 /\ ready = {} /\ receipts = {}
    /\ run = [r \in Runners |-> [pc |-> "done", file |-> 1, outcome |-> "none"]]

NoProvisioning ==
    /\ published = [n \in Namespaces |-> Unpublished]
    /\ roles = {} /\ converged = [n \in Namespaces |-> {}]
    /\ ident = {} /\ loaded = {} /\ verified = {} /\ backup = {} /\ holder = "none"
    /\ prov = [p \in Provisioners |-> [pc |-> "done", todo |-> {}]]

NoCaller == principal = Unset /\ gate = FALSE /\ call = Idle

NoSnapshots == SnapshotInit([i \in Managers |-> pol1])

NoJobs == AdminInit([j \in Jobs |-> Absent], MaxFaults)

NoCluster ==
    /\ engineRow = [e \in EngineIds |-> Nobody] /\ slotOwner = [s \in Slots |-> Nobody]
    /\ authority = [s \in Slots |-> 0]
    /\ committed = [n \in Nodes |-> 0] /\ staged = committed
    /\ operation = [n \in Nodes |-> Nobody]
    /\ inventory = [p \in ProxyIds |->
           [row |-> "absent", rev |-> 0, report |-> Nobody, fresh |-> FALSE]]
    /\ sent = {} /\ member = [i \in ManagerIds |-> TRUE]
    /\ cleanup = [n \in Nodes |-> "clean"] /\ changes = MaxChanges

Parts == {"sessions", "migrations", "provisioning", "authority", "snapshots", "jobs", "status"}

MCInit ==
    /\ part \in Parts
    /\ IF part = "sessions" THEN DbInit ELSE NoGuests
    /\ IF part = "migrations" THEN MigrationInit ELSE NoRuns
    /\ IF part = "provisioning" THEN ProvInit ELSE NoProvisioning
    /\ IF part = "authority" THEN Init ELSE NoCaller
    /\ NoSnapshots
    /\ IF part = "jobs" THEN JobsInit ELSE NoJobs
    /\ IF part = "status" THEN StatusInit ELSE NoCluster

databases == <<dbVars, migrationVars, provVars>>

managers == <<vars, snapshotVars, adminVars, statusVars>>

MCNext ==
    /\ UNCHANGED part
    /\ \/ /\ part = "sessions" /\ DbNext
          /\ UNCHANGED <<migrationVars, provVars, managers>>
       \/ /\ part = "migrations" /\ MigrationNext
          /\ UNCHANGED <<dbVars, provVars, managers>>
       \/ /\ part = "provisioning" /\ ProvNext
          /\ UNCHANGED <<dbVars, migrationVars, managers>>
       \/ /\ part = "authority" /\ Next
          /\ UNCHANGED <<databases, snapshotVars, adminVars, statusVars>>
       \/ /\ part = "snapshots" /\ SnapshotNext /\ now' <= MaxTime
          /\ UNCHANGED <<databases, vars, adminVars, statusVars>>
       \/ /\ part = "jobs" /\ AdminNext
          /\ UNCHANGED <<databases, vars, snapshotVars, statusVars>>
       \/ /\ part = "status" /\ StatusNext
          /\ UNCHANGED <<databases, vars, snapshotVars, adminVars>>

MCSpec == MCInit /\ [][MCNext]_<<part, databases, managers>>
=============================================================================
