---------------------------- MODULE RoutingCache ----------------------------
(***************************************************************************)
(* How proxies follow the manager's routing table.                         *)
(*                                                                         *)
(* GetRoutingTable runs two statements outside a transaction: it reads the *)
(* version, and only then the rules (wr-manager/src/db.rs).  A write may   *)
(* commit between the two, so an answer can carry rules newer than its     *)
(* label.  A proxy runs two synchronizations at once, the periodic poll    *)
(* and the convergence loop of a lifecycle call, both against one cache    *)
(* that installs an answer only when its label is strictly newer           *)
(* (wr-proxy/src/routing.rs).                                              *)
(*                                                                         *)
(* The registry below may be asked for any transaction at any time, in any *)
(* order, by any owner, which covers every order of late, lost and         *)
(* repeated requests a proxy or a node agent could produce.                *)
(***************************************************************************)
EXTENDS EngineRegistry, Sequences

CONSTANTS
    Proxies,
    Syncs,       \* the synchronizations one proxy runs concurrently
    MaxVersion,  \* bound on the routing version explored
    MaxOps       \* bound on the node operations explored

VARIABLES
    cache,       \* CachedRoutingTable of each proxy
    sync,        \* sync_once calls in progress
    hist         \* history: the serving routes at each version, hist[v + 1]

vars == <<registry, cache, sync, hist>>

Idle == [st |-> "idle", known |-> 0, ver |-> 0, up |-> {}]

Empty == [ver |-> 0, up |-> {}]

Init ==
    /\ RegistryInit
    /\ cache = [p \in Proxies |-> Empty]
    /\ sync = [p \in Proxies |-> [k \in Syncs |-> Idle]]
    /\ hist = <<{}>>

-----------------------------------------------------------------------------

(* UpsertRoutingRule and DeleteRoutingRule write rules of their own and    *)
(* bump the version; the engines' default routes are left alone.           *)
AdminTxn ==
    /\ Bump(TRUE)
    /\ UNCHANGED <<route, row, owner, selected, current, live>>

RegistryStep ==
    \/ \E e \in Acts : \/ RegisterTxn(e)
                       \/ \E h \in {"ok", "failing"} : PublishTxn(e, owner.gen, h)
                       \/ DrainTxn(e, owner.gen)
                       \/ DeregisterTxn(e, owner.gen)
                       \/ BeatAges(e)
                       \/ ModuleAges(e)
    \/ SwitchTxn
    \/ \E r \in Revs \cup {0} : live.op < MaxOps /\ OperationStarts(r)
    \/ OperationRestores
    \/ OperationEnds
    \/ OperationCommits
    \/ MonitorTxn
    \/ AdminTxn

Registry ==
    /\ RegistryStep
    /\ version' <= MaxVersion
    /\ hist' = IF version' = version THEN hist ELSE Append(hist, Serving')
    /\ UNCHANGED <<cache, sync>>

-----------------------------------------------------------------------------

(* sync_once reads the installed version and asks a manager. *)
SyncStarts(p, k) ==
    /\ sync[p][k].st = "idle"
    /\ sync' = [sync EXCEPT ![p][k] = [Idle EXCEPT !.st = "asked",
                                                   !.known = cache[p].ver]]
    /\ UNCHANGED <<registry, cache, hist>>

\* Defect: any table not newer than the manager's counts as up to date.
ReadVersionLenient(p, k) ==
    /\ sync[p][k].st = "asked"
    /\ sync' = [sync EXCEPT ![p][k] =
                  IF sync[p][k].known # 0 /\ sync[p][k].known <= version
                  THEN Idle
                  ELSE [@ EXCEPT !.st = "labelled", !.ver = version]]
    /\ UNCHANGED <<registry, cache, hist>>

(* get_routing_table, first statement: an up-to-date caller is answered    *)
(* with no table; otherwise the version just read becomes the label.       *)
ReadVersion(p, k) ==
    /\ sync[p][k].st = "asked"
    /\ sync' = [sync EXCEPT ![p][k] =
                  IF sync[p][k].known # 0 /\ sync[p][k].known = version
                  THEN Idle
                  ELSE [@ EXCEPT !.st = "labelled", !.ver = version]]
    /\ UNCHANGED <<registry, cache, hist>>

\* Defect: the rules are read first and the version afterwards.
ReadRulesFirst(p, k) ==
    /\ sync[p][k].st = "labelled"
    /\ sync' = [sync EXCEPT ![p][k].st = "answered",
                            ![p][k].ver = version,
                            ![p][k].up = hist[sync[p][k].ver + 1]]
    /\ UNCHANGED <<registry, cache, hist>>

(* get_routing_table, second statement: the rules as they are by now. *)
ReadRules(p, k) ==
    /\ sync[p][k].st = "labelled"
    /\ sync' = [sync EXCEPT ![p][k].st = "answered", ![p][k].up = Serving]
    /\ UNCHANGED <<registry, cache, hist>>

(* CachedRoutingTable::replace, under its refresh lock. *)
Install(p, k) ==
    /\ sync[p][k].st = "answered"
    /\ cache' = IF sync[p][k].ver > cache[p].ver
                THEN [cache EXCEPT ![p] = [ver |-> sync[p][k].ver,
                                           up |-> sync[p][k].up]]
                ELSE cache
    /\ sync' = [sync EXCEPT ![p][k] = Idle]
    /\ UNCHANGED <<registry, hist>>

(* The call fails, or its answer is lost: the caller repins and retries. *)
SyncFails(p, k) ==
    /\ sync[p][k].st # "idle"
    /\ sync' = [sync EXCEPT ![p][k] = Idle]
    /\ UNCHANGED <<registry, cache, hist>>

(* A proxy process restarts with an empty table and nothing in progress. *)
ProxyRestarts(p) ==
    /\ cache[p].ver > 0
    /\ cache' = [cache EXCEPT ![p] = Empty]
    /\ sync' = [sync EXCEPT ![p] = [k \in Syncs |-> Idle]]
    /\ UNCHANGED <<registry, hist>>

Proxy ==
    \E p \in Proxies :
        \/ \E k \in Syncs : \/ SyncStarts(p, k)
                            \/ ReadVersion(p, k)
                            \/ ReadRules(p, k)
                            \/ Install(p, k)
                            \/ SyncFails(p, k)
        \/ ProxyRestarts(p)

Next == Registry \/ Proxy

Spec == Init /\ [][Next]_vars

-----------------------------------------------------------------------------

TypeOK ==
    /\ version \in Nat
    /\ route \in [Acts -> {"none", "unhealthy", "healthy"}]
    /\ row \in [Acts -> RowType]
    /\ owner \in OwnerType
    /\ selected \in Revs \cup {0}
    /\ current \in Revs \cup {0}
    /\ live \in [op : Nat, st : {"none", "active"}, rev : Revs \cup {0}]
    /\ cache \in [Proxies -> [ver : Nat, up : SUBSET Acts]]
    /\ sync \in [Proxies -> [Syncs ->
                   [st : {"idle", "asked", "labelled", "answered"},
                    known : Nat, ver : Nat, up : SUBSET Acts]]]
    /\ hist \in Seq(SUBSET Acts)

(* A serving route belongs to the activation that owns the slot, still     *)
(* holds its authority, is registered and not draining, and runs the       *)
(* revision selected for the slot, if one is: register, drain, deregister  *)
(* and switch_authority withdraw in the same transaction what they take    *)
(* the authority from, so a takeover never leaves two activations serving  *)
(* one slot.  (Without a selection the committed revision is authoritative *)
(* too; committing a removal can outdate a route published on that ground, *)
(* and only the next update_route_health withdraws it.)                    *)
ServingIsOwned ==
    \A e \in Serving :
        /\ row[e].st = "live"
        /\ owner.act = e
        /\ owner.held = "yes"
        /\ selected \in {RevOf[e], 0}

(* No route starts or stops serving without the version moving on, so a    *)
(* proxy that holds the current version never misses a withdrawal; and the *)
(* version never skips or goes back (increment_version after every change).*)
VersionCoversChange ==
    [][/\ version' \in {version, version + 1}
       /\ Serving' # Serving => version' = version + 1]_registry

(* A cached table is never older than its label: it equals the table at    *)
(* the label's version or at a later one.  get_routing_table reads the     *)
(* version before the rules, without a transaction around the two; in the  *)
(* other order a proxy could hold withdrawn routes under the current       *)
(* version and would be told it is up to date.                             *)
TableNotOlderThanLabel ==
    \A p \in Proxies : cache[p].ver > 0 =>
        \E w \in cache[p].ver .. version : cache[p].up = hist[w + 1]

(* What a drain acknowledgement rests on: a proxy whose label has      *)
(* reached the current version sends nothing to an activation that may not *)
(* serve (CachedRoutingTable after converge_to_version).                   *)
CurrentLabelIsCurrentTable ==
    \A p \in Proxies :
        cache[p].ver = version /\ version > 0 => cache[p].up = Serving

-----------------------------------------------------------------------------

(* A proxy's poll runs forever; a call may fail, but not every time. *)
FairSync(p, k) ==
    /\ WF_vars(SyncStarts(p, k))
    /\ SF_vars(ReadVersion(p, k))
    /\ SF_vars(ReadRules(p, k))
    /\ SF_vars(Install(p, k))

FairSpec == Spec /\ \A p \in Proxies, k \in Syncs : FairSync(p, k)

(* Once the registry stops changing, every proxy keeps coming to hold      *)
(* exactly the serving routes, however often it restarts or a call fails   *)
(* (sync_routing_table, sync_once and the label check of replace).         *)
ProxiesConverge ==
    \A v \in 1 .. MaxVersion :
        <>[](version = v) =>
            \A p \in Proxies : []<>(cache[p] = [ver |-> v, up |-> Serving])

=============================================================================
