--------------------------- MODULE ForegroundRunner ---------------------------
(***************************************************************************)
(* `wr dev run` (wr-cli/src/cmd/foreground_runner.rs): the command starts  *)
(* a manager, then the proxies, then the engines of a local topology,      *)
(* completes their managed deployment, waits until every proxy has the     *)
(* routes, runs an optional scenario command, and takes everything down    *)
(* again in the opposite order.  Its children run, fail, hang and die at   *)
(* their own pace; the operator may interrupt at any time, and a second    *)
(* interrupt skips the grace periods.                                      *)
(***************************************************************************)
EXTENDS Integers, FiniteSets

CONSTANTS
    ProxyNames, EngineNames,    \* the configured services besides the manager
    MaxSignals,                 \* bound: interrupts the operator sends
    MaxClaims                   \* bound: claims of the deployment operation (128)

Children == {"manager"} \cup ProxyNames \cup EngineNames

VARIABLES
    stage,      \* where run() is
    child,      \* the operating system's view of each service
    held,       \* ManagedProcess: "none", "owned", or how it was reaped
    start,      \* the result of start_one
    stop,       \* where stop_and_reap is
    scenario,   \* the scenario command: its leader, its group, its stop
    claims,     \* claims made by complete_foreground_operation
    ack,        \* the proxies the routing barrier has seen up to date
    interrupts, \* sent: by the operator; wanted: not yet taken; count: recorded
    primary,    \* the error that ended the run, and
    unclean     \*     whether cleaning up failed

runnerVars == <<stage, child, held, start, stop, scenario, claims, ack, interrupts, primary, unclean>>

NoScenario == [leader |-> "none", direct |-> "none", others |-> FALSE, stop |-> "idle"]

RunnerInit ==
    /\ stage = "start_manager"
    /\ child = [c \in Children |-> "none"]
    /\ held = [c \in Children |-> "none"]
    /\ start = [c \in Children |-> "pending"]
    /\ stop = [c \in Children |-> "idle"]
    /\ scenario = NoScenario
    /\ claims = 0 /\ ack = {}
    /\ interrupts = [sent |-> 0, wanted |-> FALSE, count |-> 0]
    /\ primary = "none" /\ unclean = FALSE

Wave == [start_manager |-> {"manager"}, start_proxies |-> ProxyNames, start_engines |-> EngineNames,
         stop_engines |-> EngineNames, stop_proxies |-> ProxyNames, stop_manager |-> {"manager"}]

(* SignalTracker: signal_is_recorded *)
Interrupted == interrupts.count > 0

Over == {"exit_ok", "exit_error"}

Running == {"booting", "ready", "draining"}

(* finish_owned: the scenario first, then the services. *)
Ending(error) ==
    /\ primary' = error
    /\ stage' = IF scenario.leader = "none" /\ scenario.direct = "none"
                THEN "stop_engines" ELSE "stop_scenario"

Continue(next) == stage' = next /\ UNCHANGED primary

-----------------------------------------------------------------------------
(* The services: they come up, fail, stop on a signal if they get to it,   *)
(* and die of SIGKILL.                                                     *)
ChildMoves(c) ==
    /\ \/ child[c] = "booting" /\ child' \in {[child EXCEPT ![c] = s] : s \in {"ready", "exit_error"}}
       \/ child[c] \in {"ready", "draining"} /\ child' \in {[child EXCEPT ![c] = s] : s \in Over}
    /\ UNCHANGED <<stage, held, start, stop, scenario, claims, ack, interrupts, primary, unclean>>

ChildDies(c) ==
    /\ child[c] = "killed"
    /\ child' = [child EXCEPT ![c] = "exit_error"]
    /\ UNCHANGED <<stage, held, start, stop, scenario, claims, ack, interrupts, primary, unclean>>

Terminated(s) == IF s \in {"booting", "ready"} THEN "draining" ELSE s

(* An interrupt from the terminal reaches the services too, which share    *)
(* the runner's process group; the scenario has a session of its own.      *)
Interrupt(terminal) ==
    /\ interrupts.sent < MaxSignals /\ stage # "returned"
    /\ interrupts' = [interrupts EXCEPT !.sent = @ + 1, !.wanted = TRUE]
    /\ child' = IF terminal THEN [c \in Children |-> Terminated(child[c])] ELSE child
    /\ UNCHANGED <<stage, held, start, stop, scenario, claims, ack, primary, unclean>>

(* The tracker task counts it; interrupts it did not get to are one.       *)
Track ==
    /\ interrupts.wanted /\ stage # "returned"
    /\ interrupts' = [interrupts EXCEPT !.wanted = FALSE, !.count = @ + 1]
    /\ UNCHANGED <<stage, child, held, start, stop, scenario, claims, ack, primary, unclean>>

-----------------------------------------------------------------------------
(* start_one: no process is spawned once a signal is recorded; a service   *)
(* whose endpoint is taken, or that cannot be executed, is an error.       *)
Spawn(c) ==
    /\ stage \in {"start_manager", "start_proxies", "start_engines"} /\ c \in Wave[stage]
    /\ start[c] = "pending" /\ held[c] = "none"
    /\ \/ Interrupted /\ start' = [start EXCEPT ![c] = "interrupted"] /\ UNCHANGED <<child, held>>
       \/ ~Interrupted /\ start' = [start EXCEPT ![c] = "error"] /\ UNCHANGED <<child, held>>
       \/ /\ ~Interrupted
          /\ child' = [child EXCEPT ![c] = "booting"] /\ held' = [held EXCEPT ![c] = "owned"]
          /\ UNCHANGED start
    /\ UNCHANGED <<stage, stop, scenario, claims, ack, interrupts, primary, unclean>>

Reaped(c) == held' = [held EXCEPT ![c] = child[c]]

(* wait_ready: an exit, STOPPING or another activation on the endpoint is  *)
(* an error, so is the startup deadline; only READY completes.             *)
WaitReady(c) ==
    /\ start[c] = "pending" /\ held[c] = "owned"
    /\ \/ Interrupted /\ start' = [start EXCEPT ![c] = "interrupted"] /\ UNCHANGED held
       \/ child[c] \in Over /\ start' = [start EXCEPT ![c] = "error"] /\ Reaped(c)
       \/ child[c] = "ready" /\ start' = [start EXCEPT ![c] = "completed"] /\ UNCHANGED held
       \/ start' = [start EXCEPT ![c] = "error"] /\ UNCHANGED held
    /\ UNCHANGED <<stage, child, stop, scenario, claims, ack, interrupts, primary, unclean>>

NextStage == [start_manager |-> "admission", start_proxies |-> "prepare", start_engines |-> "operate"]

(* start_wave joins every start before it looks at the results. *)
WaveStarted ==
    /\ stage \in DOMAIN NextStage
    /\ \A c \in Wave[stage] : start[c] # "pending"
    /\ LET results == {start[c] : c \in Wave[stage]}
       IN  IF "error" \in results THEN Ending("error")
           ELSE IF "interrupted" \in results \/ Interrupted THEN Ending("none")
           ELSE Continue(NextStage[stage])
    /\ UNCHANGED <<child, held, start, stop, scenario, claims, ack, interrupts, unclean>>

-----------------------------------------------------------------------------
(* Between the waves the runner calls the manager; these calls look at no  *)
(* signal.                                                                 *)
Call(from, next) ==
    /\ stage = from
    /\ \/ child["manager"] \in Running /\ Continue(next)
       \/ Ending("error")
    /\ UNCHANGED <<child, held, start, stop, scenario, claims, ack, interrupts, unclean>>

WaitForManagerAdmission == Call("admission", "start_proxies")

PrepareManagedEngineConfigs == Call("prepare", "start_engines")

(* complete_foreground_operation plays the node agent: claim a step,       *)
(* report it, until the manager has none left and says Succeeded.  An      *)
(* aborted or unavailable claim counts as one of the claims.               *)
CompleteForegroundOperation ==
    /\ stage = "operate"
    /\ \/ claims < MaxClaims /\ claims' = claims + 1 /\ UNCHANGED <<stage, primary>>
       \/ 0 < claims /\ claims < MaxClaims /\ child["manager"] \in Running
             /\ Continue("activate") /\ UNCHANGED claims
       \/ Ending("error") /\ UNCHANGED claims
    /\ UNCHANGED <<child, held, start, stop, scenario, ack, interrupts, unclean>>

ActivateForegroundRoutes == Call("activate", "capture")

(* The version to wait for, unless a signal came first. *)
CaptureVersion ==
    /\ stage = "capture"
    /\ \/ Interrupted /\ Ending("none")
       \/ ~Interrupted /\ child["manager"] \in Running /\ Continue("barrier")
       \/ Ending("error")
    /\ UNCHANGED <<child, held, start, stop, scenario, claims, ack, interrupts, unclean>>

(* wait_for_routing_or_signal: rounds over the proxies, each asked for its *)
(* version until it is recent enough.  A proxy that cannot be asked, is    *)
(* another activation or goes back to an older version ends the barrier.   *)
Barrier ==
    /\ stage = "barrier"
    /\ \/ Interrupted /\ Ending("none") /\ UNCHANGED ack
       \/ \E p \in ProxyNames \ ack :
             child[p] \in Running /\ ack' = ack \cup {p} /\ UNCHANGED <<stage, primary>>
       \/ ack = ProxyNames /\ ~Interrupted /\ Continue("activate_scenario") /\ UNCHANGED ack
       \/ Ending("error") /\ UNCHANGED ack
    /\ UNCHANGED <<child, held, start, stop, scenario, claims, interrupts, unclean>>

-----------------------------------------------------------------------------
(* monitor_active: start the scenario, then poll. *)
StartScenario(wanted) ==
    /\ stage = "activate_scenario"
    /\ \/ Interrupted /\ Ending("none") /\ UNCHANGED scenario
       \/ ~Interrupted /\ wanted /\ Ending("error") /\ UNCHANGED scenario
       \/ /\ ~Interrupted /\ Continue("monitor")
          /\ scenario' = IF wanted THEN [scenario EXCEPT !.leader = "running"] ELSE scenario
    /\ UNCHANGED <<child, held, start, stop, claims, ack, interrupts, unclean>>

(* The scenario starts processes of its own and ends; what it started may  *)
(* outlive it, and may ignore SIGTERM but not SIGKILL.                     *)
ScenarioMoves ==
    /\ \/ /\ scenario.leader = "running" /\ scenario.stop # "kill"
          /\ \/ scenario' = [scenario EXCEPT !.others = TRUE]
             \/ \E s \in Over : scenario' = [scenario EXCEPT !.leader = s]
       \/ scenario.others /\ scenario' = [scenario EXCEPT !.others = FALSE]
       \/ /\ scenario.stop = "kill" /\ scenario.leader = "running"
          /\ scenario' = [scenario EXCEPT !.leader = "exit_error", !.others = FALSE]
    /\ UNCHANGED <<stage, child, held, start, stop, claims, ack, interrupts, primary, unclean>>

UnexpectedExit(c) ==
    /\ stage = "monitor" /\ held[c] = "owned" /\ child[c] \in Over
    /\ Reaped(c) /\ Ending("error")
    /\ UNCHANGED <<child, start, stop, scenario, claims, ack, interrupts, unclean>>

ScenarioOver ==
    /\ stage = "monitor" /\ scenario.leader \in Over
    /\ Ending(IF scenario.leader = "exit_ok" THEN "none" ELSE "error")
    /\ scenario' = [scenario EXCEPT !.direct = scenario.leader, !.leader = "none"]
    /\ UNCHANGED <<child, held, start, stop, claims, ack, interrupts, unclean>>

MonitorSignal ==
    /\ stage = "monitor" /\ Interrupted
    /\ Ending("none")
    /\ UNCHANGED <<child, held, start, stop, scenario, claims, ack, interrupts, unclean>>

-----------------------------------------------------------------------------
(* terminate_and_reap of the scenario: SIGTERM to its group, SIGKILL after *)
(* the grace period or the second signal, and no end before the leader was *)
(* reaped and the group is gone.                                           *)
SignalScenario ==
    /\ stage = "stop_scenario"
    /\ \/ /\ scenario.stop = "idle"
          /\ scenario' = [scenario EXCEPT !.stop = IF interrupts.count >= 2 THEN "kill" ELSE "term"]
          /\ unclean' = (unclean \/ interrupts.count >= 2)
       \/ /\ scenario.stop = "term"
          /\ scenario' = [scenario EXCEPT !.stop = "kill"]
          /\ unclean' \in {unclean, TRUE}
    /\ UNCHANGED <<stage, child, held, start, stop, claims, ack, interrupts, primary>>

\* Defect: the scenario's own exit is enough; what it started is not waited for.
LeaderGone == scenario.leader \in Over \cup {"none"}

(* The leader was reaped and kill(-pgid, 0) finds nobody. *)
ScenarioGone == scenario.leader \in Over \cup {"none"} /\ ~scenario.others

ScenarioStopped ==
    /\ stage = "stop_scenario" /\ scenario.stop # "idle" /\ ScenarioGone
    /\ scenario' = [scenario EXCEPT !.leader = "none",
                       !.direct = IF @ = "none" THEN scenario.leader ELSE @]
    /\ Continue("stop_engines")
    /\ UNCHANGED <<child, held, start, stop, claims, ack, interrupts, unclean>>

-----------------------------------------------------------------------------
Stopping(c) == stage \in {"stop_engines", "stop_proxies", "stop_manager"} /\ c \in Wave[stage]

(* stop_and_reap: SIGTERM; a service already reaped is only judged. *)
Term(c) ==
    /\ Stopping(c) /\ stop[c] = "idle" /\ held[c] # "none"
    /\ IF held[c] = "owned"
       THEN /\ child' = [child EXCEPT ![c] = Terminated(@)]
            /\ stop' = [stop EXCEPT ![c] = "term"] /\ UNCHANGED unclean
       ELSE /\ stop' = [stop EXCEPT ![c] = "done"]
            /\ unclean' = (unclean \/ held[c] # "exit_ok") /\ UNCHANGED child
    /\ UNCHANGED <<stage, held, start, scenario, claims, ack, interrupts, primary>>

\* Defect: only a second signal escalates to SIGKILL.
KillIfRepeated(c) ==
    /\ Stopping(c) /\ stop[c] \in {"term", "kill"} /\ interrupts.count >= 2
    /\ stop' = [stop EXCEPT ![c] = IF @ = "term" THEN "kill" ELSE "latched"]
    /\ child' = [child EXCEPT ![c] = IF @ \in Running THEN "killed" ELSE @]
    /\ UNCHANGED <<stage, held, start, scenario, claims, ack, interrupts, primary, unclean>>

(* SIGKILL after the grace periods, or at once after a second signal; past *)
(* the last deadline the runner only waits for the reap.                   *)
Kill(c) ==
    /\ Stopping(c) /\ stop[c] \in {"term", "kill"}
    /\ stop' = [stop EXCEPT ![c] = IF @ = "term" THEN "kill" ELSE "latched"]
    /\ child' = [child EXCEPT ![c] = IF @ \in Running THEN "killed" ELSE @]
    /\ UNCHANGED <<stage, held, start, scenario, claims, ack, interrupts, primary, unclean>>

Reap(c) ==
    /\ Stopping(c) /\ stop[c] \in {"term", "kill", "latched"} /\ child[c] \in Over
    /\ Reaped(c) /\ stop' = [stop EXCEPT ![c] = "done"]
    /\ unclean' \in {unclean \/ stop[c] # "term" \/ child[c] # "exit_ok", TRUE}
    /\ UNCHANGED <<stage, child, start, scenario, claims, ack, interrupts, primary>>

AfterWave == [stop_engines |-> "stop_proxies", stop_proxies |-> "stop_manager", stop_manager |-> "returned"]

WaveStopped ==
    /\ stage \in DOMAIN AfterWave
    /\ \A c \in Wave[stage] : held[c] = "none" \/ stop[c] = "done"
    /\ Continue(AfterWave[stage])
    /\ UNCHANGED <<child, held, start, stop, scenario, claims, ack, interrupts, unclean>>

-----------------------------------------------------------------------------
Calls ==
    \/ WaitForManagerAdmission \/ PrepareManagedEngineConfigs \/ CompleteForegroundOperation
    \/ ActivateForegroundRoutes \/ CaptureVersion \/ Barrier

Cleanup ==
    \/ SignalScenario \/ ScenarioStopped \/ WaveStopped
    \/ \E c \in Children : Term(c) \/ Kill(c) \/ Reap(c)

Runs ==
    \/ Calls \/ WaveStarted \/ MonitorSignal \/ ScenarioOver \/ Cleanup
    \/ \E c \in Children : Spawn(c) \/ WaitReady(c) \/ UnexpectedExit(c)
    \/ \E wanted \in BOOLEAN : StartScenario(wanted)

RunnerNext ==
    \/ Runs \/ Track \/ ScenarioMoves
    \/ \E c \in Children : ChildMoves(c) \/ ChildDies(c)
    \/ \E terminal \in BOOLEAN : Interrupt(terminal)

RunnerSpec == RunnerInit /\ [][RunnerNext]_runnerVars

(* The runner keeps polling and every call it makes has a deadline or a    *)
(* bounded number of attempts; the tracker runs; SIGKILL kills.  A service *)
(* or a scenario may hang as long as it likes.                             *)
RunnerFairness ==
    /\ WF_runnerVars(Runs /\ stage \notin {"barrier", "monitor"}) /\ WF_runnerVars(MonitorSignal)
    /\ WF_runnerVars(Barrier /\ stage' # "barrier") /\ WF_runnerVars(Track)
    /\ \A c \in Children : WF_runnerVars(ChildDies(c))
    /\ WF_runnerVars(ScenarioMoves /\ scenario.stop = "kill")

-----------------------------------------------------------------------------
(* "Owns" every process it started: whatever failed or hung, and however   *)
(* often it was interrupted, the command does not return while a service   *)
(* it spawned is not reaped or a process of the scenario's group is alive. *)
ReturnLeavesNothing ==
    stage = "returned" =>
        /\ \A c \in Children : held[c] \in {"none"} \cup Over
        /\ \A c \in Children : child[c] \in {"none"} \cup Over
        /\ scenario.leader = "none" /\ ~scenario.others

(* Exit status zero means that all services ended cleanly on SIGTERM, none *)
(* was killed or found dead with an error; and, if nobody interrupted,     *)
(* that the topology came up, every proxy had the routes and the scenario  *)
(* succeeded.                                                              *)
SuccessIsEarned ==
    (stage = "returned" /\ primary = "none" /\ ~unclean) =>
        /\ \A c \in Children : held[c] \in {"none", "exit_ok"} /\ stop[c] \in {"idle", "done"}
        /\ ~Interrupted => /\ scenario.direct = "exit_ok" /\ ack = ProxyNames
                           /\ \A c \in Children : start[c] = "completed"

(* An interrupt that was recorded ends the run, without the operator       *)
(* having to repeat it: no stage of it waits for a service that hangs.     *)
InterruptEndsRun == Interrupted ~> (stage = "returned")

=============================================================================
