---------------------------- MODULE ServiceProcess ----------------------------
(***************************************************************************)
(* One proxy process from start to exit (wr-proxy/src/main.rs): the        *)
(* lifecycle state it publishes (process_lifecycle.rs), its three task     *)
(* groups (task_group.rs), the signal that stops it (signal.rs), the       *)
(* inventory reporter (reporting.rs) and the admission gate in front of    *)
(* its requests.  run_service is the thread that opens and closes the gate *)
(* and waits for it to empty; stores are visible at once here.             *)
(***************************************************************************)
EXTENDS AdmissionGate

CONSTANTS
    GroupOf     \* the long-lived tasks and the group that owns each

Tasks == DOMAIN GroupOf

Groups == {"reporting", "data", "background"}

ASSUME ProcAssumption == \A t \in Tasks : GroupOf[t] \in Groups

InGroup(g) == {t \in Tasks : GroupOf[t] = g}

VARIABLES
    pc,         \* where run_service is
    life,       \* the published ProcessState
    task,       \* what became of each task
    cancelled,  \* the groups whose cancellation was sent
    failure,    \* the first failure, kept for the exit status: "none", "some"
    inventory,  \* what the managers hold of this process: "none", "registered"
    reporter,   \* run_service has a reporter
    late,       \* the shutdown deadline has passed
    signal      \* SIGTERM or SIGINT: "none", "sent", "taken"

procVars == <<pc, life, task, cancelled, failure, inventory, reporter, late, signal>>

ProcInit ==
    /\ memory = "ordered"
    /\ pc = "connect" /\ life = "Starting"
    /\ task = [t \in Tasks |-> "none"]
    /\ cancelled = {} /\ failure = "none"
    /\ inventory = "none" /\ reporter = "no"
    /\ late = "no" /\ signal = "none"

(* LifecycleOwner::transition: Stopping is final, a repeated state is Ok. *)
MayBecome(state) == ~(state = "Ready" /\ life = "Stopping")

Published(state) == IF MayBecome(state) THEN state ELSE life

Ended == {"exited", "killed"}

Alive == pc \notin Ended

-----------------------------------------------------------------------------
(* Background tasks and listeners; the reporter comes after registration. *)
Spawned == [t \in Tasks |-> IF GroupOf[t] = "reporting" THEN "none" ELSE "running"]

(* Discovery, the first routing table and policy snapshot and the          *)
(* listeners: any failure ends the process, and only then are tasks        *)
(* spawned.                                                                *)
Connect ==
    /\ pc = "connect"
    /\ \/ pc' = "exited" /\ failure' = "some" /\ UNCHANGED task
       \/ /\ pc' = "register"
          /\ task' = Spawned
          /\ UNCHANGED failure
    /\ UNCHANGED <<life, cancelled, inventory, reporter, late, signal, vars>>

(* Reporter::register: a failed answer may hide a registration that was    *)
(* made; the process then has no reporter to take it back.                 *)
Register ==
    /\ pc = "register"
    /\ \/ /\ inventory' = "registered" /\ reporter' = "yes" /\ pc' = "open"
          /\ task' = [t \in Tasks |-> IF GroupOf[t] = "reporting" THEN "running" ELSE task[t]]
          /\ UNCHANGED <<failure, life>>
       \/ /\ inventory' \in {"none", "registered"}
          /\ failure' = "some" /\ life' = Published("Stopping") /\ pc' = "stop"
          /\ UNCHANGED <<task, reporter>>
    /\ UNCHANGED <<cancelled, late, signal, vars>>

Open ==
    /\ pc = "open"
    /\ OpenGate /\ pc' = "ready"
    /\ UNCHANGED <<memory, life, task, cancelled, failure, inventory, reporter, late, signal>>

(* mark_ready, READY=1 to the supervisor, the immediate report: the        *)
(* report may fail, the notification may not.                              *)
MarkReady ==
    /\ pc = "ready"
    /\ life' = Published("Ready")
    /\ pc' = "notify"
    /\ UNCHANGED <<task, cancelled, failure, inventory, reporter, late, signal, vars>>

Notify ==
    /\ pc = "notify"
    /\ \/ pc' = "report" /\ UNCHANGED <<failure, life>>
       \/ pc' = "stop" /\ failure' = "some" /\ life' = Published("Stopping")
    /\ UNCHANGED <<task, cancelled, inventory, reporter, late, signal, vars>>

FirstReport ==
    /\ pc = "report"
    /\ pc' = "await"
    /\ UNCHANGED <<life, task, cancelled, failure, inventory, reporter, late, signal, vars>>

-----------------------------------------------------------------------------
(* A signal before the handlers are installed, which is when run_service   *)
(* starts to wait for one, ends the process on the spot.                   *)
Signal ==
    /\ Alive /\ signal = "none"
    /\ IF pc \in {"connect", "register", "open", "ready", "notify", "report"}
       THEN pc' = "killed" /\ signal' = "taken"
       ELSE signal' = "sent" /\ UNCHANGED pc
    /\ UNCHANGED <<life, task, cancelled, failure, inventory, reporter, late, vars>>

(* wait_for_proxy_shutdown_trigger *)
Trigger ==
    /\ pc = "await"
    /\ \/ signal = "sent" /\ signal' = "taken" /\ UNCHANGED failure
       \/ /\ \E t \in Tasks : task[t] \notin {"none", "running"}
          /\ failure' = "some" /\ UNCHANGED signal
    /\ life' = Published("Stopping") /\ pc' = "stop"
    /\ UNCHANGED <<task, cancelled, inventory, reporter, late, vars>>

(* A required task ends although nobody cancelled it. *)
TaskFails(t) ==
    /\ Alive /\ task[t] = "running"
    /\ task' = [task EXCEPT ![t] = "failed"]
    /\ UNCHANGED <<pc, life, cancelled, failure, inventory, reporter, late, signal, vars>>

(* A cancelled task ends; a listener first waits for its connections. *)
TaskEnds(t) ==
    /\ Alive /\ task[t] = "running" /\ GroupOf[t] \in cancelled
    /\ GroupOf[t] = "data" => \A r \in Reqs : req[r] = "out"
    /\ task' = [task EXCEPT ![t] = "cancelled"]
    /\ UNCHANGED <<pc, life, cancelled, failure, inventory, reporter, late, signal, vars>>

-----------------------------------------------------------------------------
(* The shutdown: close the gate, then the groups one after the other, all  *)
(* under one deadline.                                                     *)
CloseFirst ==
    /\ pc = "stop"
    /\ IF closer = "serving" THEN Close /\ UNCHANGED memory ELSE UNCHANGED vars
    /\ pc' = "reporting" /\ cancelled' = cancelled \cup {"reporting"}
    /\ UNCHANGED <<life, task, failure, inventory, reporter, late, signal>>

Expire ==
    /\ pc \notin {"connect", "register", "open", "ready", "notify", "report", "await", "stop"} \cup Ended
    /\ late = "no" /\ late' = "yes"
    /\ UNCHANGED <<pc, life, task, cancelled, failure, inventory, reporter, signal, vars>>

Unfinished(g) == {t \in InGroup(g) : task[t] = "running"}

\* Defect: the outcomes of the tasks that had to be aborted are not looked at.
IsCleanIfJoined(g, final) == \A t \in InGroup(g) : final[t] # "failed"

(* TaskShutdownReport::is_clean *)
IsClean(g, final) == \A t \in InGroup(g) : final[t] \in {"none", "cancelled"}

(* TaskGroup::shutdown returns when every task was joined; past the        *)
(* deadline what still runs is aborted and joined.                         *)
Joined(g, next) ==
    /\ pc = g
    /\ \/ Unfinished(g) = {} /\ UNCHANGED task
       \/ /\ late = "yes" /\ Unfinished(g) # {}
          /\ task' = [t \in Tasks |-> IF t \in Unfinished(g) THEN "aborted" ELSE task[t]]
    /\ failure' = IF IsClean(g, task') THEN failure ELSE "some"
    /\ pc' = next

ShutdownReporting ==
    /\ Joined("reporting", "final_report")
    /\ UNCHANGED <<life, cancelled, inventory, reporter, late, signal, vars>>

(* The STOPPING report is best effort and ends with the deadline. *)
FinalReport ==
    /\ pc = "final_report"
    /\ pc' = "data" /\ cancelled' = cancelled \cup {"data"}
    /\ UNCHANGED <<life, task, failure, inventory, reporter, late, signal, vars>>

ShutdownDataPlane ==
    /\ Joined("data", "idle")
    /\ UNCHANGED <<life, cancelled, inventory, reporter, late, signal, vars>>

(* wait_for_idle, or its deadline. *)
WaitIdle ==
    /\ pc = "idle"
    /\ \/ closer = "starting" /\ pc' = "deregister" /\ UNCHANGED <<failure, vars>>
       \/ closer = "idle" /\ pc' = "deregister" /\ UNCHANGED <<failure, vars>>
       \/ closer = "late" /\ pc' = "deregister" /\ failure' = "some" /\ UNCHANGED vars
       \/ Wait /\ UNCHANGED <<memory, pc, failure>>
       \/ late = "yes" /\ Deadline /\ UNCHANGED <<memory, pc, failure>>
    /\ UNCHANGED <<life, task, cancelled, inventory, reporter, late, signal>>

(* Deregistration is sent once; its outcome may stay unknown. *)
Deregister ==
    /\ pc = "deregister"
    /\ inventory' \in IF reporter = "yes" THEN {inventory, "none"} ELSE {inventory}
    /\ failure' \in {failure, "some"}           \* STOPPING=1 to the supervisor
    /\ pc' = "background" /\ cancelled' = cancelled \cup {"background"}
    /\ UNCHANGED <<life, task, reporter, late, signal, vars>>

ShutdownBackground ==
    /\ Joined("background", "exited")
    /\ UNCHANGED <<life, cancelled, inventory, reporter, late, signal, vars>>

-----------------------------------------------------------------------------
(* Requests come in through a listener that accepts; the ones inside go on *)
(* until they are done or dropped with their connection.                   *)
Accepting == Alive /\ \E t \in InGroup("data") : task[t] = "running"

Request(r) ==
    /\ \/ Accepting /\ Enter(r)
       \/ Alive /\ Exit(r)
    /\ UNCHANGED <<memory, procVars>>

Proceed ==
    \/ Connect \/ Register \/ Open \/ MarkReady \/ Notify \/ FirstReport \/ Trigger
    \/ CloseFirst \/ ShutdownReporting \/ FinalReport \/ ShutdownDataPlane \/ WaitIdle
    \/ Deregister \/ ShutdownBackground

ProcNext ==
    \/ Proceed \/ Signal \/ Expire
    \/ \E t \in Tasks : TaskFails(t) \/ TaskEnds(t)
    \/ \E r \in Reqs : Request(r)

ProcSpec == Init /\ ProcInit /\ [][ProcNext]_<<vars, procVars>>

(* The runtime keeps running run_service, the clock goes on, and a request *)
(* that was counted gets to its next check.  Nothing else is promised: a   *)
(* task may ignore its cancellation, a request may never finish.           *)
ProcFairness ==
    /\ WF_<<vars, procVars>>(Proceed)
    /\ WF_<<vars, procVars>>(Expire)
    /\ \A r \in Reqs : WF_<<vars, procVars>>(Request(r) /\ req[r] \in {"looked", "counted", "leaving", "notifying"})

-----------------------------------------------------------------------------
(* "Deadline escalation aborts and joins named leftovers and exits         *)
(* non-zero" (docs, wruntime-maintainer/invariants.md): a process that     *)
(* exits with status zero was asked to stop by a signal, every one of its  *)
(* tasks ended on its cancellation, and no request was cut off.            *)
OkExitIsClean ==
    (pc = "exited" /\ failure = "none") =>
        /\ signal = "taken" /\ life = "Stopping"
        /\ \A t \in Tasks : task[t] = "cancelled"
        /\ \A r \in Reqs : req[r] # "admitted"

(* However a task or a request hangs, a process told to stop exits: every  *)
(* wait of the shutdown is bounded by the one deadline.                    *)
StopEnds == (signal = "sent" /\ pc = "await") ~> (pc = "exited")

=============================================================================
