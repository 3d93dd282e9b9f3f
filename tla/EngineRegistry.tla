--------------------------- MODULE EngineRegistry ---------------------------
(***************************************************************************)
(* The manager's durable record of one engine slot: who owns the slot,     *)
(* which revision has authority over it, which engine activations are      *)
(* registered, whether their heartbeats are fresh, and which of their      *)
(* routes are serving.  Every operator ending in Txn is one database       *)
(* transaction of wr-manager/src/db.rs or operations.rs.  All of them take *)
(* the row lock of wr_manager_lock first, so they are atomic and totally   *)
(* ordered, and any manager of the cluster may run any of them.            *)
(*                                                                         *)
(* An activation is one engine process: engine_id and activation_id are    *)
(* both drawn when the process starts.  It advertises one module, so it    *)
(* has one default route.  Timestamps are abstracted to fresh or stale.    *)
(***************************************************************************)
EXTENDS Naturals, FiniteSets

CONSTANTS
    Acts,       \* engine activations that may register in the slot
    NoAct,      \* the owner of a slot nobody registered in
    RevOf       \* the deployment revision each activation was built from

ASSUME RegistryAssumption ==
    /\ NoAct \notin Acts
    /\ RevOf \in [Acts -> Nat \ {0}]

VARIABLES
    version,    \* wr_manager_lock.version, the routing table version
    route,      \* wr_routing_rules: the default route of each activation
    row,        \* wr_engines and wr_module_heartbeats of each activation
    owner,      \* wr_node_slot_owners of the slot
    selected,   \* revision with wr_node_slot_authority.authoritative, or 0
    current,    \* wr_nodes.current_revision, or 0 if it lacks the slot
    live        \* the active node operation and the revision it admits

registry == <<version, route, row, owner, selected, current, live>>

Revs == {RevOf[e] : e \in Acts}

RowType == [st : {"none", "live", "draining"},
            beat : {"fresh", "stale"},
            mod : {"none", "fresh", "stale"}]

OwnerType == [act : Acts \cup {NoAct}, op : Nat, gen : Nat, held : {"yes", "no"}]

NoRow == [st |-> "none", beat |-> "stale", mod |-> "none"]

RegistryInit ==
    /\ version = 0
    /\ route = [e \in Acts |-> "none"]
    /\ row = [e \in Acts |-> NoRow]
    /\ owner = [act |-> NoAct, op |-> 0, gen |-> 0, held |-> "no"]
    /\ selected = 0
    /\ current = 0
    /\ live = [op |-> 0, st |-> "none", rev |-> 0]

(* The activations whose route a proxy would be given as serving. *)
Serving == {e \in Acts : route[e] = "healthy"}

(* require_owner_fence: the request names the slot's current owner. *)
FenceHeld(e, g) ==
    /\ owner.act = e
    /\ owner.gen = g
    /\ owner.held = "yes"

(* The authority predicate shared by readiness publication and the health  *)
(* monitor: the owner row holds route authority, and the revision is the   *)
(* selected one, or the committed one while no revision is selected.       *)
Authoritative(e) ==
    /\ owner.act = e
    /\ owner.held = "yes"
    /\ \/ selected = RevOf[e]
       \/ selected = 0 /\ RevOf[e] = current

(* Make the routes of the given activations non-serving.  The version      *)
(* moves with a change: the transactions count the rows they update.       *)
Withdraw(gone) ==
    [e \in Acts |-> IF e \in gone /\ route[e] = "healthy" THEN "unhealthy"
                                                        ELSE route[e]]

Bump(changed) == version' = IF changed THEN version + 1 ELSE version

-----------------------------------------------------------------------------

(* register_engine_and_routes.  The active operation must admit the        *)
(* revision.  A replay of the owner's own registration keeps its           *)
(* generation; any other registration takes the slot over, withdraws the   *)
(* previous owner's routes and drops its module heartbeats.  The route is  *)
(* written unhealthy, and the module heartbeat of the activation is        *)
(* cleared, on every registration.                                         *)
Replay(e) == owner.act = e /\ owner.op = live.op

RegisteredRow == [st |-> "live", beat |-> "fresh", mod |-> "none"]

RegisterAllowed(e) == live.st = "active" /\ live.rev = RevOf[e]

\* Defect: taking the slot over leaves the previous owner's routes alone.
RegisterKeepingRoutes(e) ==
    /\ RegisterAllowed(e)
    /\ route' = [route EXCEPT ![e] = "unhealthy"]
    /\ row' = [row EXCEPT ![e] = RegisteredRow]
    /\ owner' = [act |-> e, op |-> live.op, held |-> "yes",
                 gen |-> IF Replay(e) THEN owner.gen ELSE owner.gen + 1]
    /\ Bump(TRUE)
    /\ UNCHANGED <<selected, current, live>>

RegisterTxn(e) ==
    /\ RegisterAllowed(e)
    /\ LET old == IF Replay(e) THEN {} ELSE {owner.act} \cap Acts
       IN /\ route' = [Withdraw(old) EXCEPT ![e] = "unhealthy"]
          /\ row' = [f \in Acts |->
                       IF f = e
                       THEN RegisteredRow
                       ELSE IF f \in old THEN [row[f] EXCEPT !.mod = "none"]
                       ELSE row[f]]
          /\ owner' = [act |-> e, op |-> live.op, held |-> "yes",
                       gen |-> IF Replay(e) THEN owner.gen ELSE owner.gen + 1]
          /\ Bump(TRUE)
          /\ UNCHANGED <<selected, current, live>>

(* publish_engine_readiness: refused without the fence or while draining.  *)
(* It refreshes the engine heartbeat and the heartbeat of every module     *)
(* reported healthy.  An authoritative activation's reported route becomes *)
(* serving; a non-authoritative one loses its routes.                      *)
PublishAllowed(e, g) == FenceHeld(e, g) /\ row[e].st = "live"

PublishTxn(e, g, health) ==
    /\ PublishAllowed(e, g)
    /\ row' = [row EXCEPT ![e] = [st |-> @.st, beat |-> "fresh",
                                  mod |-> IF health = "ok" THEN "fresh" ELSE @.mod]]
    /\ route' = IF ~Authoritative(e) THEN Withdraw({e})
                ELSE IF health = "ok" /\ route[e] = "unhealthy"
                     THEN [route EXCEPT ![e] = "healthy"]
                     ELSE route
    /\ Bump(route' # route)
    /\ UNCHANGED <<owner, selected, current, live>>

(* begin_engine_drain: fence later publication, withdraw the routes. *)
DrainAllowed(e, g) == FenceHeld(e, g) /\ row[e].st # "none"

\* Defect: the withdrawal does not move the routing version.
DrainSilently(e, g) ==
    /\ DrainAllowed(e, g)
    /\ row' = [row EXCEPT ![e].st = "draining"]
    /\ route' = Withdraw({e})
    /\ UNCHANGED <<version, owner, selected, current, live>>

DrainTxn(e, g) ==
    /\ DrainAllowed(e, g)
    /\ row' = [row EXCEPT ![e].st = "draining"]
    /\ route' = Withdraw({e})
    /\ Bump(route' # route)
    /\ UNCHANGED <<owner, selected, current, live>>

(* deregister_engine: withdraw, give up ownership, delete the engine. *)
DeregisterTxn(e, g) ==
    /\ FenceHeld(e, g)
    /\ route' = Withdraw({e})
    /\ owner' = [owner EXCEPT !.held = "no"]
    /\ row' = [row EXCEPT ![e] = NoRow]
    /\ Bump(route' # route)
    /\ UNCHANGED <<selected, current, live>>

(* update_route_health, run by every manager's monitor: a route is serving *)
(* exactly when its engine is not draining, is authoritative and both of   *)
(* its heartbeats are fresh.                                               *)
\* Defect: the monitor looks at authority and forgets the heartbeats.
BackedByAuthority(e) == row[e].st = "live" /\ Authoritative(e)

Backed(e) ==
    /\ row[e].st = "live"
    /\ Authoritative(e)
    /\ row[e].beat = "fresh"
    /\ row[e].mod = "fresh"

MonitorTxn ==
    /\ route' = [e \in Acts |->
                   IF route[e] = "none" THEN "none"
                   ELSE IF Backed(e) THEN "healthy" ELSE "unhealthy"]
    /\ Bump(route' # route)
    /\ UNCHANGED <<row, owner, selected, current, live>>

(* switch_authority: select the revision the operation wants in the slot   *)
(* (none for a removal) and withdraw every serving route of a registered   *)
(* engine of another revision.                                             *)
SwitchTxn ==
    /\ live.st = "active"
    /\ selected' = live.rev
    /\ route' = Withdraw({e \in Acts : row[e].st # "none" /\ RevOf[e] # live.rev})
    /\ Bump(route' # route)
    /\ UNCHANGED <<row, owner, current, live>>

(* The operation around the slot, as far as the registry depends on it.    *)
(* Submitting one admits registrations of the revision it wants in the     *)
(* slot: a new revision, the committed one (a restart), or none (the new   *)
(* revision does not declare the slot).  Turning it to restoration admits  *)
(* the committed revision, or nobody, instead.  It commits once the slot   *)
(* is switched, or ends after a restart or a restoration.                  *)
OperationStarts(r) ==
    /\ live.st = "none"
    /\ live' = [op |-> live.op + 1, st |-> "active", rev |-> r]
    /\ UNCHANGED <<version, route, row, owner, selected, current>>

OperationRestores ==
    /\ live.st = "active"
    /\ live' = [live EXCEPT !.rev = current]
    /\ UNCHANGED <<version, route, row, owner, selected, current>>

OperationEnds ==
    /\ live.st = "active"
    /\ live.rev = current
    /\ live' = [live EXCEPT !.st = "none", !.rev = 0]
    /\ UNCHANGED <<version, route, row, owner, selected, current>>

OperationCommits ==
    /\ live.st = "active"
    /\ selected = live.rev
    /\ current' = live.rev
    /\ live' = [live EXCEPT !.st = "none", !.rev = 0]
    /\ UNCHANGED <<version, route, row, owner, selected>>

(* Time passes: a heartbeat leaves its freshness window. *)
BeatAges(e) ==
    /\ row[e].beat = "fresh"
    /\ row' = [row EXCEPT ![e].beat = "stale"]
    /\ UNCHANGED <<version, route, owner, selected, current, live>>

ModuleAges(e) ==
    /\ row[e].mod = "fresh"
    /\ row' = [row EXCEPT ![e].mod = "stale"]
    /\ UNCHANGED <<version, route, owner, selected, current, live>>

=============================================================================
