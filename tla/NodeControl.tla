---------------------------- MODULE NodeControl -----------------------------
(***************************************************************************)
(* The life of the engine processes of one slot, seen from the engine      *)
(* (wr-engine/src/main.rs), the node-local proxy it talks to               *)
(* (wr-proxy/src/node_service.rs) and the managers' registry.              *)
(*                                                                         *)
(* The proxy serves one lifecycle call of a slot at a time: the forward    *)
(* lock is held across the manager call and the routing convergence that   *)
(* follows it.  A manager request may outlive its caller: the call fails   *)
(* by timeout or transport failure while a manager still executes it, now  *)
(* or much later.  Registrations and heartbeats are then sent once more to *)
(* another manager; drains and deregistrations are not.                    *)
(*                                                                         *)
(* Convergence installs the current table in one step: RoutingCache shows  *)
(* that what a proxy installs under a label is never older than the label. *)
(***************************************************************************)
EXTENDS EngineRegistry

CONSTANTS
    MaxVersion,   \* bound on the routing version explored
    MaxOps,       \* bound on the node operations
    MaxWire,      \* bound on manager requests under way at once
    Reports,      \* the module health an engine may report: "ok", "failing"
    Ageing,       \* the activations whose heartbeats may go stale
    MaxRestarts   \* bound on proxy restarts

VARIABLES
    proc,         \* each engine process: control point and ownership fence
    slot,         \* EngineState of the proxy's NodeAgent
    call,         \* the lifecycle call holding the slot's forward lock
    wire,         \* manager requests sent and not executed yet
    flush,        \* a heartbeat flush waiting for the forward lock
    cache,        \* the proxy's CachedRoutingTable
    restarts,     \* proxy restarts so far
    revived       \* history: registrations executed for a process past joining

node == <<proc, slot, call, wire, flush, cache, restarts, revived>>

nodeVars == <<registry, node>>

NoSlot == [act |-> NoAct, gen |-> 0, phase |-> "tombstoned", mods |-> "failing"]

NoFlush == [act |-> NoAct, gen |-> 0, mods |-> "failing"]

NoCall == [kind |-> "none", act |-> NoAct, gen |-> 0, mods |-> "failing",
           try |-> 0, at |-> "idle", ver |-> 0]

UpStates == {"joining", "loaded", "ready", "stopping", "failed", "acked", "unacked",
            "leaving"}

NodeInit ==
    /\ RegistryInit
    /\ proc = [e \in Acts |-> [st |-> "off", gen |-> 0, ack |-> "no"]]
    /\ slot = NoSlot
    /\ call = NoCall
    /\ wire = {}
    /\ flush = NoFlush
    /\ cache = [ver |-> 0, up |-> {}]
    /\ restarts = 0
    /\ revived = {}

(* The exploration stops where the version would pass its bound, except    *)
(* that withdrawing a route is always possible.                            *)
Bounded == version' <= MaxVersion \/ (Serving' # Serving /\ Serving' \subseteq Serving)

-----------------------------------------------------------------------------
(* Requests to the managers *)

Message(c) == [kind |-> c.kind, act |-> c.act, gen |-> c.gen,
               mods |-> c.mods, try |-> c.try]

(* The lock is taken and the request of the call goes out. *)
Send(c) ==
    /\ call.kind = "none"
    /\ Cardinality(wire) < MaxWire
    /\ call' = c
    /\ wire' = wire \cup {Message(c)}

Asking(kind, e, g, mods) ==
    [kind |-> kind, act |-> e, gen |-> g, mods |-> mods, try |-> 1,
     at |-> "waiting", ver |-> 0]

(* The answer reaches the caller if it still waits for this very request. *)
Awaited(m) == call.at = "waiting" /\ Message(call) = m

Answer(m, c) == call' = IF Awaited(m) THEN c ELSE call

(* A manager executes a request: a transaction of the registry that        *)
(* commits, or a refusal.                                                  *)
ExecuteRegister(m) ==
    /\ m.kind = "register"
    /\ \/ /\ RegisterTxn(m.act)
          /\ Answer(m, [call EXCEPT !.at = "granted", !.gen = owner'.gen])
          /\ revived' = IF proc[m.act].st = "joining" THEN revived
                        ELSE revived \cup {<<m.act, proc[m.act].st>>}
       \/ /\ ~RegisterAllowed(m.act)
          /\ Answer(m, [call EXCEPT !.at = "refused"])
          /\ UNCHANGED <<registry, revived>>

ExecuteBeat(m) ==
    /\ m.kind \in {"beat", "flush"}
    /\ \/ /\ PublishTxn(m.act, m.gen, m.mods)
          /\ Answer(m, [call EXCEPT !.at = "granted", !.ver = version'])
       \/ /\ ~PublishAllowed(m.act, m.gen)
          /\ Answer(m, [call EXCEPT !.at = "refused"])
          /\ UNCHANGED registry
    /\ UNCHANGED revived

ExecuteDrain(m) ==
    /\ m.kind = "drain"
    /\ \/ /\ DrainTxn(m.act, m.gen)
          /\ Answer(m, [call EXCEPT !.at = "granted", !.ver = version'])
       \/ /\ ~DrainAllowed(m.act, m.gen)
          /\ Answer(m, [call EXCEPT !.at = "refused"])
          /\ UNCHANGED registry
    /\ UNCHANGED revived

ExecuteDeregister(m) ==
    /\ m.kind = "deregister"
    /\ \/ /\ DeregisterTxn(m.act, m.gen)
          /\ Answer(m, [call EXCEPT !.at = "granted"])
       \/ /\ ~FenceHeld(m.act, m.gen)
          /\ Answer(m, [call EXCEPT !.at = "refused"])
          /\ UNCHANGED registry
    /\ UNCHANGED revived

Execute(m) ==
    /\ \/ ExecuteRegister(m)
       \/ ExecuteBeat(m)
       \/ ExecuteDrain(m)
       \/ ExecuteDeregister(m)
    /\ Bounded
    /\ wire' = wire \ {m}
    /\ UNCHANGED <<proc, slot, flush, cache, restarts>>

(* A request no one waits for any more never reaches a manager. *)
Vanish(m) ==
    /\ ~Awaited(m)
    /\ wire' = wire \ {m}
    /\ UNCHANGED <<registry, proc, slot, call, flush, cache, restarts, revived>>

(* The call fails in transport or times out; its request stays behind.     *)
(* Registrations and heartbeats are replayed once on a repinned manager.   *)
CallFails ==
    /\ call.at = "waiting"
    /\ \/ /\ call.kind \in {"register", "beat", "flush"}
          /\ call.try = 1
          /\ Cardinality(wire) < MaxWire
          /\ call' = [call EXCEPT !.try = 2]
          /\ wire' = wire \cup {Message([call EXCEPT !.try = 2])}
       \/ /\ call' = [call EXCEPT !.at = "refused"]
          /\ wire' = wire
    /\ UNCHANGED <<registry, proc, slot, flush, cache, restarts, revived>>

-----------------------------------------------------------------------------
(* The engine process and the proxy's handlers.  A handler that ends       *)
(* without a manager answer releases the forward lock and leaves the slot  *)
(* as it is by then.                                                       *)

GoesTo(e, st) == proc' = [proc EXCEPT ![e].st = st]

(* run_service, run_engine_shutdown: where an engine continues when a call *)
(* fails or its deadline passes.  A failed withdrawal or deregistration is *)
(* noted and the shutdown goes on; a failed start deregisters and exits.   *)
AfterError == [joining |-> "gone", loaded |-> "failed", failed |-> "gone",
               stopping |-> "unacked", unacked |-> "gone", acked |-> "gone",
               leaving |-> "gone"]

(* The control point at which an engine waits for each kind of call. *)
WaitsAt == [register |-> "joining", beat |-> "loaded", drain |-> "stopping",
            deregister |-> "leaving", flush |-> "none", none |-> "none"]

Waits(e) == call.act = e /\ WaitsAt[call.kind] = proc[e].st

(* The caller learns that its call failed.  A registration is tried again  *)
(* up to ten times, with the same activation, and a readiness publication  *)
(* a few times: how often is not counted.  Equal requests under way are    *)
(* one element of wire.                                                    *)
CallerFails(e) ==
    \/ ~Waits(e) /\ proc' = proc
    \/ Waits(e) /\ GoesTo(e, AfterError[proc[e].st])
    \/ Waits(e) /\ call.kind \in {"register", "beat"} /\ proc' = proc

(* The manager did not answer, refused, or answered with a version the     *)
(* local table does not reach within the convergence budget.               *)
Fruitless ==
    \/ call.at = "refused"
    \/ call.at = "granted" /\ cache.ver < call.ver

UpEngines == {e \in Acts : proc[e].st \in UpStates}

(* The supervisor runs one process per unit. *)
ProcStarts(e) ==
    /\ proc[e].st = "off"
    /\ UpEngines = {}
    /\ GoesTo(e, "joining")
    /\ UNCHANGED <<registry, slot, call, wire, flush, cache, restarts, revived>>

RegisterCall(e) ==
    /\ proc[e].st = "joining"
    /\ Send(Asking("register", e, 0, "failing"))
    /\ UNCHANGED <<registry, proc, slot, flush, cache, restarts, revived>>

(* The fence must not be older than the slot's; the slot is taken over. *)
RegisterDone ==
    /\ call.kind = "register"
    /\ call.at \in {"granted", "refused"}
    /\ LET e == call.act
           ok == call.at = "granted" /\ call.gen >= slot.gen
       IN /\ slot' = IF ok THEN [act |-> e, gen |-> call.gen, phase |-> "registered",
                                 mods |-> "failing"]
                           ELSE slot
          /\ IF ok /\ Waits(e)
             THEN proc' = [proc EXCEPT ![e].st = "loaded", ![e].gen = call.gen]
             ELSE CallerFails(e)
    /\ call' = NoCall
    /\ UNCHANGED <<registry, wire, flush, cache, restarts, revived>>

(* NodeAgent::heartbeat.  A ready slot only remembers the report; otherwise *)
(* readiness is published, and a slot lost in a proxy restart recovered.    *)
Known(e) == slot.act = e /\ slot.phase \in {"registered", "ready"} /\ slot.gen = proc[e].gen

(* The engine publishes with all modules healthy at startup and reports    *)
(* periodically afterwards; a report begun before the stop still goes out. *)
Beats(e, mods) ==
    \/ proc[e].st = "loaded" /\ mods = "ok"
    \/ proc[e].st \in UpStates \ {"joining", "loaded", "failed"}

HeartbeatCall(e, mods) ==
    /\ Beats(e, mods)
    /\ call.kind = "none"
    /\ \/ /\ Known(e)
          /\ slot' = [slot EXCEPT !.mods = mods]
          /\ IF slot.phase = "ready" THEN UNCHANGED <<call, wire>>
             ELSE Send(Asking("beat", e, proc[e].gen, mods))
          /\ IF slot.phase = "ready" /\ proc[e].st = "loaded" THEN GoesTo(e, "ready")
             ELSE proc' = proc
       \/ /\ slot.act = NoAct
          /\ Send(Asking("beat", e, proc[e].gen, mods))
          /\ UNCHANGED <<slot, proc>>
       \/ /\ ~Known(e) /\ slot.act # NoAct
          /\ IF proc[e].st = "loaded" THEN GoesTo(e, "failed") ELSE proc' = proc
          /\ UNCHANGED <<slot, call, wire>>
    /\ UNCHANGED <<registry, flush, cache, restarts, revived>>

(* Readiness takes effect once the local table contains the publication. *)
HeartbeatDone ==
    /\ call.kind = "beat"
    /\ LET e == call.act
       IN \/ /\ call.at = "granted" /\ cache.ver >= call.ver
             /\ slot' = [act |-> e, gen |-> call.gen, phase |-> "ready", mods |-> call.mods]
             /\ IF proc[e].st = "loaded" THEN GoesTo(e, "ready") ELSE proc' = proc
          \/ /\ Fruitless
             /\ slot' = slot
             /\ CallerFails(e)
    /\ call' = NoCall
    /\ UNCHANGED <<registry, wire, flush, cache, restarts, revived>>

(* flush_engine_heartbeat: the proxy repeats the last report on its own.   *)
(* The report is read first; the lock is awaited, and the phase and the    *)
(* fence are looked at again.                                              *)
FlushTick ==
    /\ flush = NoFlush
    /\ slot.phase = "ready"
    /\ flush' = [act |-> slot.act, gen |-> slot.gen, mods |-> slot.mods]
    /\ UNCHANGED <<registry, proc, slot, call, wire, cache, restarts, revived>>

FlushCall ==
    /\ flush # NoFlush
    /\ call.kind = "none"
    /\ IF slot.phase = "ready" /\ slot.act = flush.act /\ slot.gen = flush.gen
       THEN Send(Asking("flush", flush.act, flush.gen, flush.mods))
       ELSE UNCHANGED <<call, wire>>
    /\ flush' = NoFlush
    /\ UNCHANGED <<registry, proc, slot, cache, restarts, revived>>

FlushDone ==
    /\ call.kind = "flush"
    /\ call.at \in {"granted", "refused"}
    /\ call' = NoCall
    /\ UNCHANGED <<registry, proc, slot, wire, flush, cache, restarts, revived>>

(* begin_engine_drain: publication is fenced locally before the manager is *)
(* asked, and stays fenced if the call fails.                              *)
DrainCall(e) ==
    /\ proc[e].st = "stopping"
    /\ call.kind = "none"
    /\ \/ /\ slot.act = e /\ slot.gen = proc[e].gen /\ slot.phase # "tombstoned"
          /\ slot' = [slot EXCEPT !.phase = "draining", !.mods = "failing"]
          /\ Send(Asking("drain", e, slot.gen, "failing"))
          /\ proc' = proc
       \/ /\ ~(slot.act = e /\ slot.gen = proc[e].gen /\ slot.phase # "tombstoned")
          /\ GoesTo(e, "unacked")
          /\ UNCHANGED <<slot, call, wire>>
    /\ UNCHANGED <<registry, flush, cache, restarts, revived>>

\* Defect: the drain is acknowledged before the local table contains it.
DrainAcksEarly ==
    /\ call.kind = "drain"
    /\ call.at \in {"granted", "refused"}
    /\ proc' = IF Waits(call.act) /\ call.at = "granted"
               THEN [proc EXCEPT ![call.act].st = "acked", ![call.act].ack = "yes"]
               ELSE proc
    /\ call' = NoCall
    /\ UNCHANGED <<registry, slot, wire, flush, cache, restarts, revived>>

DrainDone ==
    /\ call.kind = "drain"
    /\ LET e == call.act
       IN \/ /\ call.at = "granted" /\ cache.ver >= call.ver
             /\ proc' = IF proc[e].st = "stopping"
                        THEN [proc EXCEPT ![e].st = "acked", ![e].ack = "yes"]
                        ELSE proc
          \/ /\ Fruitless
             /\ CallerFails(e)
    /\ call' = NoCall
    /\ UNCHANGED <<registry, slot, wire, flush, cache, restarts, revived>>

(* deregister_engine, the engine's last call before it exits. *)
DeregisterCall(e) ==
    /\ proc[e].st \in {"acked", "unacked", "failed"}
    /\ call.kind = "none"
    /\ \/ /\ slot.act = e /\ slot.gen = proc[e].gen
          /\ slot' = [slot EXCEPT !.phase = "tombstoned", !.mods = "failing"]
          /\ Send(Asking("deregister", e, slot.gen, "failing"))
          /\ GoesTo(e, "leaving")
       \/ /\ ~(slot.act = e /\ slot.gen = proc[e].gen)
          /\ GoesTo(e, "gone")
          /\ UNCHANGED <<slot, call, wire>>
    /\ UNCHANGED <<registry, flush, cache, restarts, revived>>

DeregisterDone ==
    /\ call.kind = "deregister"
    /\ call.at \in {"granted", "refused"}
    /\ CallerFails(call.act)
    /\ call' = NoCall
    /\ UNCHANGED <<registry, slot, wire, flush, cache, restarts, revived>>

(* SIGTERM. *)
Stop(e) ==
    /\ proc[e].st = "ready"
    /\ GoesTo(e, "stopping")
    /\ UNCHANGED <<registry, slot, call, wire, flush, cache, restarts, revived>>

(* The process dies; a handler serving it may be cancelled with it. *)
Crash(e) ==
    /\ proc[e].st \in UpStates
    /\ GoesTo(e, "crashed")
    /\ \/ call' = call
       \/ call.act = e /\ call.kind # "flush" /\ call' = NoCall
    /\ UNCHANGED <<registry, slot, flush, wire, cache, restarts, revived>>

(* The engine's deadline passes, whether its call holds the lock, waits    *)
(* for it or was never sent; its handler is cancelled.                     *)
GivesUp(e) ==
    /\ proc[e].st \in DOMAIN AfterError
    /\ GoesTo(e, AfterError[proc[e].st])
    /\ call' = IF Waits(e) THEN NoCall ELSE call
    /\ UNCHANGED <<registry, slot, flush, wire, cache, restarts, revived>>

-----------------------------------------------------------------------------

(* sync_once of the poll or of a convergence loop. *)
Sync ==
    /\ version > cache.ver
    /\ cache' = [ver |-> version, up |-> Serving]
    /\ UNCHANGED <<registry, proc, slot, call, wire, flush, restarts, revived>>

(* A new proxy process knows no engine and no route. *)
ProxyRestart ==
    /\ restarts < MaxRestarts
    /\ restarts' = restarts + 1
    /\ slot' = NoSlot
    /\ call' = NoCall
    /\ cache' = [ver |-> 0, up |-> {}]
    /\ IF call.kind = "none" THEN proc' = proc ELSE CallerFails(call.act)
    /\ flush' = NoFlush
    /\ UNCHANGED <<registry, wire, revived>>

Background ==
    /\ \/ MonitorTxn
       \/ \E e \in Ageing : BeatAges(e) \/ ModuleAges(e)
       \/ \E r \in Revs : live.op < MaxOps /\ OperationStarts(r)
       \/ SwitchTxn
       \/ OperationRestores
       \/ OperationEnds
       \/ OperationCommits
    /\ Bounded
    /\ UNCHANGED node

NodeNext ==
    \/ Background
    \/ \E m \in wire : Execute(m) \/ Vanish(m)
    \/ CallFails
    \/ \E e \in Acts :
          \/ ProcStarts(e) \/ RegisterCall(e)
          \/ \E mods \in Reports : HeartbeatCall(e, mods)
          \/ Stop(e) \/ DrainCall(e) \/ DeregisterCall(e)
          \/ Crash(e) \/ GivesUp(e)
    \/ RegisterDone \/ HeartbeatDone \/ DrainDone \/ DeregisterDone
    \/ FlushTick \/ FlushCall \/ FlushDone
    \/ Sync \/ ProxyRestart

NodeSpec == NodeInit /\ [][NodeNext]_nodeVars

(* What the schedulers guarantee: the managers' monitor keeps running and  *)
(* time passes, the proxy keeps polling and flushing, a call ends, and a   *)
(* request does not stay under way for ever.                               *)
FairNodeSpec ==
    /\ NodeSpec
    /\ WF_nodeVars(MonitorTxn /\ Bounded /\ UNCHANGED node)
    /\ \A e \in Ageing : WF_nodeVars(BeatAges(e) /\ UNCHANGED node)
    /\ WF_nodeVars(\E m \in wire : Execute(m) \/ Vanish(m))
    /\ WF_nodeVars(CallFails)
    /\ WF_nodeVars(RegisterDone) /\ WF_nodeVars(HeartbeatDone) /\ WF_nodeVars(DrainDone)
    /\ WF_nodeVars(DeregisterDone) /\ WF_nodeVars(FlushDone)
    /\ WF_nodeVars(FlushTick) /\ WF_nodeVars(FlushCall)
    /\ WF_nodeVars(Sync)

-----------------------------------------------------------------------------

NodeTypeOK ==
    /\ version \in 0..MaxVersion + 1
    /\ route \in [Acts -> {"none", "unhealthy", "healthy"}]
    /\ row \in [Acts -> RowType]
    /\ owner \in OwnerType
    /\ proc \in [Acts -> [st : UpStates \cup {"off", "gone", "crashed"},
                         gen : Nat, ack : {"yes", "no"}]]
    /\ slot.act \in Acts \cup {NoAct} /\ slot.gen \in Nat
    /\ slot.phase \in {"registered", "ready", "draining", "tombstoned"}
    /\ call.kind = "none" <=> call.at = "idle"
    /\ Cardinality(wire) <= MaxWire
    /\ cache.ver \in 0..version /\ cache.up \subseteq Acts

(* "BeginEngineDrain prevents later heartbeat publication, makes routes    *)
(* non-serving": once the proxy has acknowledged an engine's drain, neither *)
(* the registry nor the node's own table serves it, whatever heartbeats,   *)
(* flushes and retries are still under way, unless a copy of its           *)
(* registration was executed after the engine began to stop.               *)
DrainHolds ==
    \A e \in Acts :
        /\ proc[e].ack = "yes"
        /\ \A late \in revived : late[1] = e => late[2] \in {"loaded", "ready"}
        => e \notin Serving /\ e \notin cache.up

(* A running engine that opened its admission owns its slot under the      *)
(* fence it holds: no request a predecessor left behind takes the slot     *)
(* away from it, unless a registration was executed for a process that had *)
(* stopped waiting for it.                                                 *)
ReadyOwns ==
    revived = {} =>
        \A e \in Acts : proc[e].st = "ready" => FenceHeld(e, proc[e].gen)

(* Once the proxy has fenced an engine's publication, for a drain or for a *)
(* deregistration, the engine stops serving even if no manager ever        *)
(* executes the request: the flushes stop and the heartbeat goes stale.    *)
(* A proxy that restarts forgets the fence, and a heartbeat the stopping   *)
(* engine sent before may make it publish the engine again.                *)
FencedEngineLeaves ==
    \A e \in Acts :
        slot.act = e /\ slot.phase \in {"draining", "tombstoned"}
            ~> e \notin Serving \/ restarts > 0

-----------------------------------------------------------------------------
(* Statements the code does not keep; README.md says how to see each fail. *)

(* docs/grpc-api.md: the proxy "serializes those operations per engine so  *)
(* an older heartbeat cannot undo a drain or recreate a deregistered       *)
(* route".  A copy of the registration that a manager executes late clears *)
(* the draining mark and restores the authority of the same generation.    *)
DrainIsFinal ==
    \A e \in Acts : proc[e].ack = "yes" => e \notin Serving

(* update_route_health: "A stale engine fails all its rules".  An engine   *)
(* process that died should be stale after the heartbeat timeout; the      *)
(* proxy keeps repeating its last report.                                  *)
CrashedEngineLeaves ==
    \A e \in Acts : proc[e].st = "crashed" ~> e \notin Serving

=============================================================================
