------------------------------ MODULE NodeAgent ------------------------------
(***************************************************************************)
(* One node operation carried out: the managers' transactions of           *)
(* NodeOperation, the node agent of wr-cli/src/cmd/node_agent.rs, its      *)
(* systemd backend of node_backend.rs, and the engines it starts and       *)
(* stops, as far as the operation looks at them.                           *)
(*                                                                         *)
(* One agent process runs at a time; its activation number changes when it *)
(* dies and systemd restarts it.  An effect is done in the steps between   *)
(* which the agent may lose its lease or die.  A systemd job the agent     *)
(* asked for goes on without it.                                           *)
(***************************************************************************)
EXTENDS NodeOperation

CONSTANT
    Plans       \* operations to carry out, each with the faults it meets

Kinds == {"crash", "loss", "lapse", "error", "fail", "forced", "resume",
          "cancel", "late", "age"}

MaxFaults == plan.faults    \* how often each fault or operator request happens
Releases == plan.releases   \* "yes" if systemd may drop a stopped InvocationID

VARIABLES
    db,         \* the operation and the registry, as the managers store them
    receipts,   \* wr_node_operation_result_receipts
    late,       \* whether the forward deadline has passed
    ag,         \* the agent process
    host,       \* the release selection and the systemd unit of each target
    faults      \* how often each kind of fault has happened

vars == <<plan, db, receipts, late, ag, host, faults>>

Executing == {"exec", "stopping", "starting", "restopping", "reselect", "restarting"}

EvType == [st : {"none", "running", "exited", "error"}, rev : Nat, inst : Nat,
           ready : {"yes", "no"}, bad : {"yes", "no"}, clean : {"yes", "no"}]

NoEv == [st |-> "none", rev |-> 0, inst |-> 0, ready |-> "no", bad |-> "no",
         clean |-> "no"]

(* The type of every variable. *)
TypeOK ==
    /\ db \in DbType
    /\ \A q \in receipts : q.ev \in EvType /\ q.t \in Targets
    /\ late \in BOOLEAN
    /\ ag.act \in Nat /\ ag.pc \in Executing \cup {"idle", "result", "observe"}
    /\ ag.ins.t \in Targets /\ ag.ins.step \in Steps \cup {"none", "inspect"}
    /\ ag.ev \in EvType
    /\ host \in [Targets -> [sel : Revs \cup {0}, code : Revs \cup {0}, n : Nat,
                             run : {"running", "stopping", "exited", "failed"},
                             id : {"yes", "no"}, ready : {"yes", "no"},
                             clean : {"yes", "no"}]]
    /\ \A k \in Kinds : faults[k] \in 0..MaxFaults[k]

Activation(a) == [act |-> a, pc |-> "idle", ins |-> NoIns, ev |-> NoEv]

InstalledAt(r) ==
    IF r = 0
    THEN [sel |-> 0, code |-> 0, n |-> 0, run |-> "exited", id |-> "no",
          ready |-> "no", clean |-> "yes"]
    ELSE [sel |-> r, code |-> r, n |-> 1, run |-> "running", id |-> "yes",
          ready |-> "yes", clean |-> "yes"]

Init ==
    /\ plan \in Plans /\ Accepted
    /\ db = Submitted
    /\ receipts = {}
    /\ late = FALSE
    /\ ag = Activation(1)
    /\ host = [t \in Targets |-> InstalledAt(Source[t])]
    /\ faults = [k \in Kinds |-> 0]

Fault(k) == faults[k] < MaxFaults[k] /\ faults' = [faults EXCEPT ![k] = @ + 1]

-----------------------------------------------------------------------------
(* What the agent sees of the host: inspect_slot, inspect_proxy and        *)
(* parse_systemd_observation.  A unit that never ran, or that systemd      *)
(* released, has no identity; one that is stopping, or that failed and     *)
(* waits for its restart, is inconclusive; a slot without a selection is   *)
(* unknown, a proxy without one is absent.                                 *)
View(t, h) ==
    IF h.sel = 0 THEN [NoEv EXCEPT !.st = IF t = Proxy THEN "exited" ELSE "error"]
    ELSE IF h.run \in {"stopping", "failed"} THEN [NoEv EXCEPT !.st = "error", !.rev = h.sel]
    ELSE [NoEv EXCEPT !.st = h.run, !.rev = h.sel,
                      !.inst = IF h.id = "yes" THEN h.n ELSE 0,
                      !.ready = IF h.run = "running" THEN h.ready ELSE "no"]

Inspect(t) == View(t, host[t])

Failure(ins) == [NoEv EXCEPT !.rev = ins.rev, !.bad = "yes"]

(* The effect is over: its result is pending, unless it was an inspection  *)
(* of a slot, which is only reported as an observation.                    *)
Finish(ev) ==
    ag' = [ag EXCEPT !.ev = ev,
                     !.pc = IF ag.ins.step = "inspect" /\ ag.ins.t # Proxy
                            THEN "observe" ELSE "result"]

Goto(pc) == ag' = [ag EXCEPT !.pc = pc]

StopUnit(t) == host' = [host EXCEPT ![t].run = "stopping", ![t].ready = "no"]

(* A unit runs what is selected when it starts; one that runs is left.     *)
Started(h) == [h EXCEPT !.run = "running", !.n = @ + 1, !.id = "yes",
                        !.code = h.sel, !.ready = "no"]

StartUnit(t) ==
    host' = [host EXCEPT ![t] = IF @.run \in {"exited", "failed"} THEN Started(@) ELSE @]

Selected(t, r) == host' = [host EXCEPT ![t].sel = r]

Quiet == UNCHANGED <<plan, db, receipts, late, faults>>

(* The read-only steps. *)
ReadyNow(t, r) ==
    LET ev == Inspect(t)
    IN ev.st = "running" /\ ev.rev = r /\ ev.ready = "yes" /\ ev.inst # 0

ExecInspect ==
    /\ ag.pc = "exec" /\ ag.ins.step = "inspect"
    /\ Finish(Inspect(ag.ins.t))
    /\ UNCHANGED host /\ Quiet

ExecVerify ==
    /\ ag.pc = "exec"
    /\ \/ ag.ins.step = "verify_release"
          /\ Finish([NoEv EXCEPT !.rev = ag.ins.rev])
       \/ ag.ins.step \in {"verify_target", "verify_proxy"}
          /\ Finish(IF ReadyNow(ag.ins.t, ag.ins.rev) THEN Inspect(ag.ins.t)
                                                     ELSE Failure(ag.ins))
    /\ UNCHANGED host /\ Quiet

(* StopBackend: only the pinned instance is stopped. *)
ExecStop ==
    /\ ag.pc = "exec" /\ ag.ins.step = "stop"
    /\ LET ev == Inspect(ag.ins.t)
       IN \/ /\ ev.st = "error" \/ ev.inst # ag.ins.pin \/ ev.st # "running"
             /\ Finish(Failure(ag.ins)) /\ UNCHANGED host
          \/ /\ ev.st = "running" /\ ev.inst = ag.ins.pin
             /\ StopUnit(ag.ins.t) /\ Goto("stopping")
    /\ Quiet

StopDone ==
    /\ ag.pc = "stopping" /\ host[ag.ins.t].run = "exited"
    /\ Finish([NoEv EXCEPT !.st = "exited", !.rev = ag.ins.rev, !.inst = ag.ins.pin,
                           !.clean = host[ag.ins.t].clean])
    /\ UNCHANGED host /\ Quiet

(* SelectRelease writes the selection and inspects what it selected. *)
ExecSelect ==
    /\ ag.pc = "exec" /\ ag.ins.step = "select"
    /\ Selected(ag.ins.t, ag.ins.rev)
    /\ Finish(View(ag.ins.t, host'[ag.ins.t]))
    /\ Quiet

(* StartBackend: systemd ignores the start of a unit that runs. *)
ExecStart ==
    /\ ag.pc = "exec" /\ ag.ins.step = "start"
    /\ host[ag.ins.t].run # "stopping"
    /\ StartUnit(ag.ins.t) /\ Goto("starting")
    /\ Quiet

StartDone ==
    /\ ag.pc = "starting" /\ ReadyNow(ag.ins.t, ag.ins.rev)
    /\ LET ev == Inspect(ag.ins.t)
       IN Finish(IF ag.ins.step = "start" /\ ag.ins.pin # 0 /\ ev.inst = ag.ins.pin
                 THEN Failure(ag.ins) ELSE ev)
    /\ UNCHANGED host /\ Quiet

(* RestoreSource: stop what is not the source, then select and start the   *)
(* source, or clear the selection if there was none.  A slot is only       *)
(* touched once its instance is known.                                     *)
Known(ev) == ev.st \in {"running", "exited"} /\ ev.inst # 0

ExecRestore ==
    /\ ag.pc = "exec" /\ ag.ins.step = "restore"
    /\ LET t == ag.ins.t
           ev == Inspect(t)
           blind == IF t = Proxy THEN ev.st = "error" ELSE ~Known(ev)
       IN \/ blind /\ Finish([ev EXCEPT !.st = "error"]) /\ UNCHANGED host
          \/ /\ ~blind /\ ev.st = "running" /\ ev.rev # ag.ins.rev
             /\ StopUnit(t) /\ Goto("restopping")
          \/ /\ ~blind /\ (ev.st = "exited" \/ ev.rev = ag.ins.rev)
             /\ Goto(IF ev.st = "running" /\ t # Proxy THEN "starting" ELSE "reselect")
             /\ UNCHANGED host
    /\ Quiet

RestopDone ==
    /\ ag.pc = "restopping" /\ host[ag.ins.t].run = "exited"
    /\ Goto("reselect")
    /\ UNCHANGED host /\ Quiet

Reselect ==
    /\ ag.pc = "reselect"
    /\ LET t == ag.ins.t
           ev == Inspect(t)
       IN IF ag.ins.rev # 0
          THEN Selected(t, ag.ins.rev) /\ Goto("restarting")
          ELSE IF t # Proxy /\ (ev.st # "exited" \/ ev.inst = 0)
          THEN Finish([ev EXCEPT !.st = "error"]) /\ UNCHANGED host
          ELSE /\ Selected(t, 0)
               /\ Finish([NoEv EXCEPT !.st = "exited",
                                      !.inst = IF t = Proxy THEN 0 ELSE ev.inst])
    /\ Quiet

Restart ==
    /\ ag.pc = "restarting"
    /\ StartUnit(ag.ins.t) /\ Goto("starting")
    /\ Quiet

(* A command fails or runs out of its budget. *)
HostStepFails ==
    /\ ag.pc \in Executing /\ ag.ins.step # "inspect"
    /\ Fault("error")
    /\ Finish(Failure(ag.ins))
    /\ UNCHANGED <<plan, db, receipts, late, host>>

-----------------------------------------------------------------------------
(* The agent's calls.  A reply may be lost after the call was executed. *)

Claim ==
    /\ ag.pc = "idle"
    /\ LET c == Claimed(db, ag.act, late)
       IN /\ db' = c.db
          /\ \/ /\ ag' = IF c.ins = NoIns THEN ag
                         ELSE [ag EXCEPT !.pc = "exec", !.ins = c.ins]
                /\ UNCHANGED faults
             \/ c.ins # NoIns /\ Fault("loss") /\ UNCHANGED ag
    /\ UNCHANGED <<plan, receipts, late, host>>

Request == [agent |-> ag.act, epoch |-> ag.ins.epoch, step |-> ag.ins.step,
            t |-> ag.ins.t, ev |-> ag.ev]

Idling == [ag EXCEPT !.pc = "idle", !.ins = NoIns, !.ev = NoEv]

AfterResult == IF ag.ins.t # Proxy /\ ag.ev.st # "none"
               THEN [ag EXCEPT !.pc = "observe"] ELSE Idling

(* A pending result is sent until it is answered.  A rejected one ends the *)
(* process.                                                                *)
ReportResult ==
    /\ ag.pc = "result"
    /\ LET r == StepReported(db, receipts, Request, late)
       IN /\ db' = r.db /\ receipts' = r.receipts
          /\ \/ /\ ag' = CASE r.reply = "ok" -> AfterResult
                          [] r.reply = "retry" -> ag
                          [] r.reply = "rejected" -> Activation(ag.act + 1)
                /\ UNCHANGED faults
             \/ Fault("loss") /\ UNCHANGED ag
    /\ UNCHANGED <<plan, late, host>>

(* A pending observation is sent next.  If that fails the agent asks for   *)
(* its instruction again: the same one keeps the observation pending, none *)
(* drops it, and a different one ends the process.                         *)
Reconcile(d) ==
    LET c == Claimed(d, ag.act, late)
    IN /\ db' = c.db
       /\ ag' = IF c.ins = NoIns THEN Idling
                ELSE IF c.ins.epoch = ag.ins.epoch /\ c.ins.step = ag.ins.step THEN ag
                ELSE Activation(ag.act + 1)

ReportObservation ==
    /\ ag.pc = "observe"
    /\ LET accepted == Fenced(db, ag.act, ag.ins.epoch)
           after == IF accepted THEN Observed(db, ag.ins.t, ag.ins.epoch, ag.ev, late)
                    ELSE db
       IN \/ /\ accepted /\ ~Late(db, late)
             /\ db' = after /\ ag' = Idling /\ UNCHANGED faults
          \/ ~accepted /\ Reconcile(db) /\ UNCHANGED faults
          \/ accepted /\ Late(db, late) /\ Reconcile(after) /\ UNCHANGED faults
          \/ accepted /\ ~Late(db, late) /\ Fault("loss") /\ Reconcile(after)
    /\ UNCHANGED <<plan, receipts, late, host>>

(* execute_fenced: renewal runs beside the effect.  A lease that cannot be *)
(* renewed, or a passed deadline, abandons the effect without a report.    *)
Renew ==
    /\ ag.pc \in Executing
    /\ \/ /\ Fenced(db, ag.act, ag.ins.epoch) /\ Late(db, late)
          /\ db' = EnterRestoration(db, "failed") /\ UNCHANGED faults
       \/ /\ ~Fenced(db, ag.act, ag.ins.epoch)
          /\ UNCHANGED <<db, faults>>
       \/ ag.ins.phase = "forward" /\ late /\ UNCHANGED <<db, faults>>
       \/ Fault("loss") /\ UNCHANGED db
    /\ ag' = Idling
    /\ UNCHANGED <<plan, receipts, late, host>>

AgentDies ==
    /\ Fault("crash")
    /\ ag' = Activation(ag.act + 1)
    /\ UNCHANGED <<plan, db, receipts, late, host>>

-----------------------------------------------------------------------------
(* The lease, the deadline and the operator *)

(* A lease lapses when its holder is gone, or cannot reach a manager.      *)
LeaseLapses ==
    /\ db.st = "running" /\ db.lease = "held"
    /\ db' = [db EXCEPT !.lease = "lapsed"]
    /\ IF db.agent # ag.act THEN UNCHANGED faults ELSE Fault("lapse")
    /\ UNCHANGED <<plan, receipts, late, ag, host>>

DeadlinePasses ==
    /\ ~late /\ Fault("late") /\ late' = TRUE
    /\ UNCHANGED <<plan, db, receipts, ag, host>>

Cancel ==
    /\ Active(db) /\ Fault("cancel")
    /\ db' = Cancelled(db)
    /\ UNCHANGED <<plan, receipts, late, ag, host>>

-----------------------------------------------------------------------------
(* The units and the engines in them *)

ProxyUp == host[Proxy].run = "running" /\ host[Proxy].ready = "yes"

(* The registration admission of db.rs: a slot of an operation under way,  *)
(* at the revision that operation wants.                                   *)
Admits(s, r) ==
    /\ Active(db) /\ s \in Affected
    /\ IF db.phase = "restoring" THEN r = Source[s] ELSE r = Target[s]

(* A unit that was started gets ready: the proxy by itself, an engine by   *)
(* registering through the proxy, which takes the slot's routes over.      *)
ProxyReady ==
    /\ host[Proxy].run = "running" /\ host[Proxy].ready = "no"
    /\ host' = [host EXCEPT ![Proxy].ready = "yes"]
    /\ UNCHANGED <<plan, db, receipts, late, ag, faults>>

EngineJoins(s) ==
    /\ host[s].run = "running" /\ host[s].ready = "no" /\ ProxyUp
    /\ Admits(s, host[s].code)
    /\ host' = [host EXCEPT ![s].ready = "yes"]
    /\ db' = [db EXCEPT !.rows[s][host[s].code] = @ \cup {"fresh"}, !.serving[s] = 0]
    /\ UNCHANGED <<plan, receipts, late, ag, faults>>

(* The heartbeats of a ready engine keep its registration fresh, and its   *)
(* publication makes the authoritative revision serve.  A proxy that was   *)
(* restarted takes the engine over with its next heartbeat.                *)
EnginePublishes(s) ==
    LET r == host[s].code
    IN /\ host[s].run = "running" /\ host[s].ready = "yes" /\ ProxyUp
       /\ "late" \in db.rows[s][r] \/ (db.auth[s] = r /\ db.serving[s] # r)
       /\ db' = [db EXCEPT
                   !.rows[s][r] = IF "late" \in @ THEN (@ \ {"late"}) \cup {"fresh"} ELSE @,
                   !.serving[s] = IF db.auth[s] = r THEN r ELSE @]
       /\ UNCHANGED <<plan, receipts, late, ag, host, faults>>

(* What an engine leaves in the registry when it ends without removing its *)
(* registration.                                                           *)
Orphaned(rows) ==
    (rows \ {"fresh", "late"})
    \cup (IF "fresh" \in rows THEN {"dead"} ELSE {})
    \cup (IF "late" \in rows THEN {"stale"} ELSE {})

AfterDeath(t) ==
    IF t = Proxy THEN db ELSE [db EXCEPT !.rows[t][host[t].code] = Orphaned(@)]

(* A stopping unit exits.  A clean engine exit removes its registration    *)
(* through the proxy; a forced one leaves it behind.                       *)
UnitExits(t) ==
    /\ host[t].run = "stopping"
    /\ \E clean \in {"yes", "no"} :
         /\ IF clean = "yes" THEN UNCHANGED faults ELSE Fault("forced")
         /\ host' = [host EXCEPT ![t].run = "exited", ![t].clean = clean]
         /\ db' = IF t = Proxy \/ clean = "no" \/ ~ProxyUp THEN AfterDeath(t)
                  ELSE [db EXCEPT !.rows[t][host[t].code] = @ \ {"fresh", "late"},
                                  !.serving[t] = 0]
    /\ UNCHANGED <<plan, receipts, late, ag>>

(* A process ends by itself: it crashes, or its engine gives registration  *)
(* up.  The unit says Restart=on-failure, so systemd starts it again after *)
(* a pause, with what is selected by then and a new InvocationID.          *)
UnitFails(t) ==
    /\ host[t].run = "running" /\ Fault("fail")
    /\ host' = [host EXCEPT ![t].run = "failed", ![t].ready = "no", ![t].clean = "no"]
    /\ db' = AfterDeath(t)
    /\ UNCHANGED <<plan, receipts, late, ag>>

UnitRestarts(t) ==
    /\ host[t].run = "failed"
    /\ host' = [host EXCEPT ![t] = Started(@)]
    /\ UNCHANGED <<plan, db, receipts, late, ag, faults>>

(* A registration leaves its freshness window and its route is withdrawn:  *)
(* the one of a dead engine, and a living one's while no proxy forwards    *)
(* its heartbeats.                                                         *)
RowAges(s) ==
    \E r \in Revs :
        /\ \/ /\ "dead" \in db.rows[s][r]
              /\ db' = [db EXCEPT !.rows[s][r] = (@ \ {"dead"}) \cup {"stale"},
                     !.serving[s] = IF @ = r /\ "fresh" \notin db.rows[s][r] THEN 0 ELSE @]
           \/ /\ "fresh" \in db.rows[s][r] /\ ~ProxyUp
              /\ db' = [db EXCEPT !.rows[s][r] = (@ \ {"fresh"}) \cup {"late"},
                                  !.serving[s] = IF @ = r THEN 0 ELSE @]
        /\ UNCHANGED <<plan, receipts, late, ag, host, faults>>

(* systemd drops an inactive unit, and its InvocationID with it. *)
UnitReleased(t) ==
    /\ Releases = "yes"
    /\ host[t].run = "exited" /\ host[t].clean = "yes" /\ host[t].id = "yes"
    /\ host' = [host EXCEPT ![t].id = "no"]
    /\ UNCHANGED <<plan, db, receipts, late, ag, faults>>

(* An observation leaves its freshness window. *)
ObservationAges(s) ==
    /\ db.obs[s].age = "fresh" /\ Fault("age")
    /\ db' = [db EXCEPT !.obs[s].age = "old"]
    /\ UNCHANGED <<plan, receipts, late, ag, host>>

Units == ProxyReady \/ (\E s \in Slots : EngineJoins(s) \/ EnginePublishes(s))
         \/ (\E t \in Targets : UnitExits(t) \/ UnitRestarts(t))

(* The operator resumes a paused operation; a patient one waits until the  *)
(* units and the engines on the node have come to rest.                    *)
Resume ==
    /\ db.st = "paused" /\ Fault("resume")
    /\ plan.operator = "patient" => ~ENABLED Units
    /\ db' = Resumed(db)
    /\ UNCHANGED <<plan, receipts, late, ag, host>>

-----------------------------------------------------------------------------
Execute ==
    ExecInspect \/ ExecVerify \/ ExecStop \/ StopDone \/ ExecSelect \/ ExecStart
    \/ StartDone \/ ExecRestore \/ RestopDone \/ Reselect \/ Restart

Agent == Claim \/ ReportResult \/ ReportObservation \/ Execute

Next ==
    \/ Agent \/ Units
    \/ HostStepFails \/ Renew \/ AgentDies
    \/ LeaseLapses \/ DeadlinePasses \/ Resume \/ Cancel
    \/ \E s \in Slots : RowAges(s) \/ ObservationAges(s)
    \/ \E t \in Targets : UnitFails(t) \/ UnitReleased(t)

Spec == Init /\ [][Next]_vars

(* The agent polls, engines heartbeat, systemd finishes its jobs, leases   *)
(* of dead agents lapse, and a patient operator resumes what was paused.   *)
Patient == plan.operator = "patient"

FairSpec == /\ Spec
            /\ WF_vars(Patient /\ Agent) /\ WF_vars(Patient /\ Units)
            /\ WF_vars(Patient /\ LeaseLapses) /\ WF_vars(Patient /\ Resume)

-----------------------------------------------------------------------------
(* A target the agent may have changed on the host is recorded: as long as *)
(* the operation is not over, every target whose selection is not the      *)
(* source's, or whose process is being stopped, is marked changed or       *)
(* ambiguous, whatever crashed or was lost on the way.                     *)
ChangeIsRecorded ==
    Active(db) => \A t \in Targets :
        host[t].sel # Source[t] \/ host[t].run = "stopping"
            => t \in db.changed \cup db.ambiguous

(* The recorded outcome of an operation is what the host runs.  One that   *)
(* failed or was cancelled has left every target as it was: the source is  *)
(* selected, runs if there is one and no unit failed by itself, and is     *)
(* authoritative.  One that succeeded has its target selected and          *)
(* authoritative, and any process is one of the target's                   *)
(* (reconcile of operations.rs).                                           *)
OutcomeIsReal ==
    /\ db.st \in {"failed", "cancelled"} => \A t \in Targets :
         /\ host[t].sel = Source[t]
         /\ IF Source[t] = 0 THEN host[t].run = "exited"
            ELSE /\ host[t].run = "running" \/ faults["fail"] > 0
                 /\ host[t].code = Source[t]
         /\ t \in Slots => db.auth[t] = Source[t]
    /\ db.st = "succeeded" => \A t \in Affected :
         /\ Target[t] # 0 => host[t].sel = Target[t]
         /\ host[t].run # "exited" => host[t].code = Target[t]
         /\ t \in Slots => db.auth[t] = Target[t]

(* The stop of a source is authorised only if that leaves a slot serving,  *)
(* but it is carried out later: in an operation that may not cause         *)
(* downtime, from the first authorised stop until the plan is done or      *)
(* given up some slot serves, unless a unit fails by itself.  The          *)
(* replacement of the proxy, which is not checked, comes before            *)
(* (stop_preserves_availability of operations.rs).                         *)
NeverDark ==
    (/\ db.phase = "forward" /\ AllowDowntime = "no" /\ faults["fail"] = 0
     /\ \E s \in Slots : Source[s] # 0 /\ db.pin[s] # 0)
        => \E s \in Slots : db.serving[s] # 0

(* An inspection of the proxy: its result is refused as a stale step, and  *)
(* it is the only instruction an ambiguous proxy gets.                     *)
ProxyInDoubt == ag.ins.t = Proxy /\ ag.ins.step = "inspect"

(* The operation ends although the agent died or replies were lost, if a   *)
(* patient operator resumes it as often as it is paused, unless that       *)
(* struck in the middle of an effect on the proxy.  A restart, which       *)
(* leaves the proxy alone, always ends (run_activation of node_agent.rs,   *)
(* claim and resume of operations.rs).                                     *)
OperationEnds ==
    Patient => <>(db.st \in {"succeeded", "failed", "cancelled"}
                   \/ (~IsRestart /\ ProxyInDoubt))
-----------------------------------------------------------------------------
(* Statements the code does not keep; README.md says how to see each fail. *)

(* The result of an instruction, an inspection included, is accepted while *)
(* its lease is held: "a replacement agent instead receives fresh backend  *)
(* inspection work" (docs/grpc-api.md:116-117).                            *)
ResultFits ==
    (ag.pc = "result" /\ Fenced(db, ag.act, ag.ins.epoch) /\ ~Late(db, late))
        => StepReported(db, receipts, Request, late).reply = "ok"

(* A lost reply never restarts the agent: transient transport failures     *)
(* "never restart the process" (node_agent.rs, run_activation).            *)
SameActivation ==
    (\A k \in Kinds \ {"loss"} : faults[k] = 0) => ag.act = 1

(* Resuming retries: a resumed restoration is not paused again by the very *)
(* next claim, before the host was looked at.                              *)
ResumeRetries ==
    (db.st = "queued" /\ db.phase = "restoring")
        => Claimed(db, ag.act, late).db.st # "paused"

(* The restoration of a slot never fails by itself, with every command     *)
(* succeeding and no process lost.                                         *)
RestorationWorks ==
    (/\ \A k \in Kinds \ {"cancel"} : faults[k] = 0
     /\ ag.pc = "result" /\ ag.ins.step = "restore")
        => ~BadEvidence(db, ag.ins.t, "restore", ag.ev)

(* Before every destructive stop, restoration's included, availability is  *)
(* looked at: no stop takes the last serving slot down.                    *)
EveryStopIsChecked == [][
    \A s \in Slots :
        (AllowDowntime = "no" /\ host[s].run = "running" /\ host'[s].run = "stopping")
            => \E c \in Slots \ {s} : db.serving[c] # 0]_vars

(* A delivered effect is delivered again only on an observation made after *)
(* its delivery.                                                           *)
RedeliveryHasNewEvidence == [][
    \A s \in Slots :
        (/\ s \in db.delivered /\ s \notin db'.delivered
         /\ db'.step[s] = db.step[s] /\ db'.phase = db.phase)
            => db'.obs[s].post = "yes"]_vars

=============================================================================
