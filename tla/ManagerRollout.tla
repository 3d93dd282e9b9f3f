--------------------------- MODULE ManagerRollout ---------------------------
(***************************************************************************)
(* Replacing the authorization policy of the manager set.  The wr-cli      *)
(* deploy-set executor drives one durable rollout record through its       *)
(* phases; every manager process has an observer which reads that record   *)
(* and opens or closes its own admission gate; the phases wait for the     *)
(* acknowledgements of the observers.  The point of the protocol is that   *)
(* privileged mutations are never admitted under two policies at once.     *)
(*                                                                         *)
(* A manager is identified with its host.  A policy stands for its         *)
(* generation and digest, and enrolls the managers it may be rolled out    *)
(* to.  The closed admission states differ only in what status shows, so   *)
(* a gate and a wr_managers row are open or closed.  A live process keeps  *)
(* its heartbeat fresh: partitions from the database are not modelled.     *)
(***************************************************************************)
EXTENDS Naturals, FiniteSets, FiniteSetsExt

CONSTANTS
    Managers,       \* manager ids, naturals: hosts are visited in order
    Nobody,         \* no manager
    Policies,       \* authorization policies
    NoPolicy,       \* no policy
    Gen,            \* generation of each policy
    Enrolled,       \* managers each policy enrolls
    FirstPolicy,    \* of the managers installed by hand
    Submitted,      \* policies the operator writes manifests for
    Settled,        \* rollouts only begin when every manager has settled
    MaxRollouts,    \* rollouts begun
    MaxCrashes,     \* manager processes killed or stopped
    MaxDeaths       \* deploy-set executors that die or give up

ASSUME RolloutAssumption ==
    /\ Managers \subseteq Nat
    /\ Gen \in [Policies -> Nat \ {0}]
    /\ Enrolled \in [Policies -> (SUBSET Managers) \ {{}}]
    /\ NoPolicy \notin Policies /\ Nobody \notin Managers
    /\ FirstPolicy \in Policies /\ Submitted \subseteq Policies
    /\ Settled \in BOOLEAN

VARIABLES
    guard,      \* wr_manager_rollout_guard
    ro,         \* the latest row of wr_manager_rollouts
    ack,        \* wr_manager_rollout_members: admission_state by role
    row,        \* wr_managers
    proc,       \* the manager process of each host
    obs,        \* the rollout observer of each process
    host,       \* what each host has installed
    cli,        \* the deploy-set or reset-failed-rollout executor
    faults      \* crashes and executor deaths so far

vars == <<guard, ro, ack, row, proc, obs, host, cli, faults>>

BeforeClose == {"Prepared", "Staging"}
AfterClose == {"OldClosed", "StartingTarget", "TargetReadyClosed", "ActivatingTarget"}
Failed == {"FailedPreClose", "FailedClosed"}
Phases == BeforeClose \cup {"ClosingOld"} \cup AfterClose \cup {"Completed"} \cup Failed

NotSeen == [id |-> 0, phase |-> "none"]

Down == [st |-> "down", pol |-> NoPolicy, gate |-> "closed",
         plan |-> "closed", seen |-> NotSeen]

Quiet == [pc |-> "idle", want |-> "closed", role |-> "none", seen |-> NotSeen]

NoCli == [pc |-> "none", todo |-> {}, ep |-> Nobody, pol |-> NoPolicy]

(* The managers of a first policy are installed by hand. *)
InitOf(first) ==
    /\ guard = [acc |-> NoPolicy, active |-> "no", permit |-> "no"]
    /\ ro = [id |-> 0, phase |-> "Completed", pol |-> NoPolicy,
             src |-> {}, tgt |-> {}, recovery |-> "no"]
    /\ ack = [source |-> [m \in Managers |-> "none"],
              target |-> [m \in Managers |-> "none"]]
    /\ row = [m \in Managers |-> "absent"]
    /\ proc = [m \in Managers |-> Down]
    /\ obs = [m \in Managers |-> Quiet]
    /\ host = [m \in Managers |->
                 [pol |-> IF m \in Enrolled[first] THEN first ELSE NoPolicy, masked |-> "no"]]
    /\ cli = NoCli
    /\ faults = [crash |-> 0, death |-> 0]

Init == InitOf(FirstPolicy)

(* The live managers whose row says admission is open, and all live ones.  *)
LiveOpen == {m \in Managers : row[m] = "open"}
Live == {m \in Managers : row[m] \in {"open", "closed"}}

Running(m) == proc[m].st \in {"starting", "up", "draining"}

-----------------------------------------------------------------------------
(* The manager process: wr-manager/src/main.rs run_service.                *)

(* register_manager keeps the admission state of the row that a killed     *)
(* process left.                                                           *)
Registered(state) == IF state \in {"open", "staleopen"} THEN "open" ELSE "closed"

(* bootstrap_initial_manager_policy_state: before any rollout, the first   *)
(* manager's policy becomes the accepted one.                              *)
Bootstrapped(pol) == IF guard.acc = NoPolicy /\ ro.id = 0 THEN pol ELSE guard.acc

(* What initialize_manager_policy_state decides from the guard it reads.   *)
OpenAtStartup(pol) ==
    IF guard.active = "no" /\ guard.permit = "no" /\ Bootstrapped(pol) = pol
    THEN "open" ELSE "closed"

(* The three calls of a start are taken as one step: what a rollout that   *)
(* begins between them could change is excluded by Settled.                *)
Start(m) ==
    /\ proc[m].st = "down" /\ host[m].pol # NoPolicy /\ host[m].masked = "no"
    /\ row' = [row EXCEPT ![m] = Registered(@)]
    /\ guard' = [guard EXCEPT !.acc = Bootstrapped(host[m].pol)]
    /\ proc' = [proc EXCEPT ![m] =
          [Down EXCEPT !.st = "booting", !.pol = host[m].pol,
                       !.plan = OpenAtStartup(host[m].pol)]]
    /\ UNCHANGED <<ro, ack, obs, host, cli, faults>>

(* The write half of initialize_manager_policy_state; then the tasks,      *)
(* the observer among them, are spawned.                                   *)
Installed(m) ==
    /\ proc[m].st = "booting"
    /\ proc' = [proc EXCEPT ![m].st = "starting"]
    /\ row' = [row EXCEPT ![m] = proc[m].plan]
    /\ UNCHANGED <<guard, ro, ack, obs, host, cli, faults>>

(* admission.open() when open_at_startup, mark_ready and READY=1.          *)
Ready(m) ==
    /\ proc[m].st = "starting"
    /\ proc' = [proc EXCEPT ![m].st = "up",
                            ![m].gate = IF proc[m].plan = "open" THEN "open" ELSE @]
    /\ UNCHANGED <<guard, ro, ack, row, obs, host, cli, faults>>

(* SIGTERM: the gate is closed first; the observer keeps running until     *)
(* in-flight mutations are done and the manager has deregistered.          *)
Draining(p, m) == [p EXCEPT ![m] = [@ EXCEPT !.st = "draining", !.gate = "closed"]]

Drained(m) ==
    /\ proc[m].st = "draining"
    /\ proc' = [proc EXCEPT ![m] = Down]
    /\ row' = [row EXCEPT ![m] = "absent"]
    /\ obs' = [obs EXCEPT ![m] = Quiet]
    /\ UNCHANGED <<guard, ro, ack, host, cli, faults>>

(* A host is shut down or its unit stopped.  *)
Stop(m) ==
    /\ faults.crash < MaxCrashes /\ proc[m].st = "up"
    /\ faults' = [faults EXCEPT !.crash = @ + 1]
    /\ proc' = Draining(proc, m)
    /\ UNCHANGED <<guard, ro, ack, row, obs, host, cli>>

(* A process is killed: its row stays until its heartbeat is too old.      *)
Crash(m) ==
    /\ faults.crash < MaxCrashes /\ proc[m].st # "down"
    /\ faults' = [faults EXCEPT !.crash = @ + 1]
    /\ proc' = [proc EXCEPT ![m] = Down]
    /\ obs' = [obs EXCEPT ![m] = Quiet]
    /\ UNCHANGED <<guard, ro, ack, row, host, cli>>

(* The heartbeat of a dead process leaves the liveness window, and the     *)
(* reaper deletes the row long after that.  A closed row of a dead process *)
(* has no reader, so it is taken as deleted.                               *)
BeatAges(m) ==
    /\ proc[m].st = "down" /\ row[m] \in {"open", "closed"}
    /\ row' = [row EXCEPT ![m] = IF @ = "open" THEN "staleopen" ELSE "absent"]
    /\ UNCHANGED <<guard, ro, ack, proc, obs, host, cli, faults>>

Reap(m) ==
    /\ row[m] = "staleopen"
    /\ row' = [row EXCEPT ![m] = "absent"]
    /\ UNCHANGED <<guard, ro, ack, proc, obs, host, cli, faults>>

-----------------------------------------------------------------------------
(* The observer, observe_manager_rollout: one read of the guard, then the  *)
(* gate and the lifecycle endpoint, then the manager's row, then its       *)
(* member row, with no transaction around them.                            *)

(* A manager that loaded the target policy is a target of the rollout if   *)
(* it is enrolled; any other manager is at most a source.                  *)
Role(m) ==
    IF proc[m].pol = ro.pol THEN IF m \in ro.tgt THEN "target" ELSE "none"
    ELSE IF m \in ro.src THEN "source" ELSE "none"

\* Defect: targets open as soon as the old managers are closed.
OpensEarly(m) ==
    IF guard.active = "no"
    THEN guard.permit = "no" /\ proc[m].pol = guard.acc
    ELSE \/ Role(m) = "source" /\ ro.phase \in BeforeClose
         \/ Role(m) = "target" /\ ro.phase \in AfterClose

Opens(m) ==
    IF guard.active = "no"
    THEN guard.permit = "no" /\ proc[m].pol = guard.acc
    ELSE \/ Role(m) = "source" /\ ro.phase \in BeforeClose
         \/ Role(m) = "target" /\ ro.phase = "ActivatingTarget"

Observe(m) ==
    /\ Running(m) /\ obs[m].pc = "idle"
    /\ obs' = [obs EXCEPT ![m] =
         [pc |-> "gate",
          want |-> IF Opens(m) THEN "open" ELSE "closed",
          role |-> IF guard.active = "yes" THEN Role(m) ELSE "none",
          seen |-> IF guard.active = "yes" THEN [id |-> ro.id, phase |-> ro.phase]
                                           ELSE NotSeen]]
    /\ UNCHANGED <<guard, ro, ack, row, proc, host, cli, faults>>

ObserveGate(m) ==
    /\ obs[m].pc = "gate"
    /\ proc' = [proc EXCEPT ![m] = [@ EXCEPT !.gate = obs[m].want, !.seen = obs[m].seen]]
    /\ obs' = [obs EXCEPT ![m].pc = "row"]
    /\ UNCHANGED <<guard, ro, ack, row, host, cli, faults>>

ObserveRow(m) ==
    /\ obs[m].pc = "row"
    /\ row' = [row EXCEPT ![m] = IF @ = "absent" THEN @ ELSE obs[m].want]
    /\ obs' = [obs EXCEPT ![m] = IF @.role = "none" THEN Quiet ELSE [@ EXCEPT !.pc = "ack"]]
    /\ UNCHANGED <<guard, ro, ack, proc, host, cli, faults>>

ObserveAck(m) ==
    /\ obs[m].pc = "ack"
    /\ ack' = IF obs[m].seen.id = ro.id THEN [ack EXCEPT ![obs[m].role][m] = obs[m].want] ELSE ack
    /\ obs' = [obs EXCEPT ![m] = Quiet]
    /\ UNCHANGED <<guard, ro, row, proc, host, cli, faults>>

-----------------------------------------------------------------------------
(* The rollout record: begin_manager_rollout, advance_manager_rollout and  *)
(* reset_failed_manager_rollout of wr-manager/src/db.rs.                   *)

Up(m) == m \in Managers /\ proc[m].st = "up"

(* The checks of begin_manager_rollout_inner and begin_manager_rollout: a  *)
(* closed manager only takes a Begin under the recovery permit, and only   *)
(* if its own policy enrolls the same managers.                            *)
BeginAllowed(m, p) ==
    /\ Up(m) /\ guard.acc # NoPolicy /\ guard.active = "no"
    /\ proc[m].gate = "closed" =>
          guard.permit = "yes" /\ Enrolled[proc[m].pol] = Enrolled[p]
    /\ Gen[p] >= Gen[guard.acc] /\ (Gen[p] = Gen[guard.acc] => p = guard.acc)

(* The manifest's sources must be exactly the live open managers. *)
BeginTxn(m, p) ==
    /\ BeginAllowed(m, p)
    /\ ro' = [id |-> ro.id + 1, phase |-> "Prepared", pol |-> p, src |-> LiveOpen,
              tgt |-> Enrolled[p], recovery |-> guard.permit]
    /\ ack' = [source |-> [n \in Managers |-> IF n \in LiveOpen THEN "open" ELSE "none"],
               target |-> [n \in Managers |-> "none"]]
    /\ guard' = [guard EXCEPT !.active = "yes", !.permit = "no"]

\* Defect: the old managers are taken as closed without acknowledgement.
ClosedUnchecked(next) ==
    /\ next = "TargetReadyClosed" =>
          /\ \A t \in ro.tgt : ack.target[t] # "open"
          /\ LiveOpen = {}
    /\ next = "Completed" =>
          /\ \A t \in ro.tgt : ack.target[t] # "closed"
          /\ Live \subseteq ro.tgt

(* The barriers.  A target that never acknowledged has NULL columns: the   *)
(* inequalities of the last two barriers do not count it.  The terms on    *)
(* host_action_outcome are left out: the executor sends the outcomes of    *)
(* all members with the very call that is to pass the barrier, which       *)
(* stores them before it counts.                                           *)
Barrier(next) ==
    /\ next = "OldClosed" => \A s \in ro.src : ack.source[s] = "closed"
    /\ next = "TargetReadyClosed" =>
          /\ \A t \in ro.tgt : ack.target[t] # "open"
          /\ LiveOpen = {}
    /\ next = "Completed" =>
          /\ \A t \in ro.tgt : ack.target[t] # "closed"
          /\ Live \subseteq ro.tgt

(* A compare-and-set on the phase; a replay of a committed one succeeds.   *)
AdvanceTxn(from, next) ==
    \/ /\ ro.phase = from /\ guard.active = "yes" /\ Barrier(next)
       /\ ro' = [ro EXCEPT !.phase = next]
       /\ guard' = [guard EXCEPT
                      !.active = IF next \in {"Completed", "FailedPreClose"} THEN "no" ELSE @,
                      !.acc = IF next = "Completed" THEN ro.pol ELSE @]
    \/ /\ ro.phase = next
       /\ UNCHANGED <<ro, guard>>

(* One FAILED_CLOSED rollout may be reset; accepted policy is unchanged. *)
ResetTxn ==
    /\ ro.phase = "FailedClosed" /\ guard.active = "yes"
    /\ guard' = [guard EXCEPT !.active = "no", !.permit = "yes"]
    /\ UNCHANGED ro

-----------------------------------------------------------------------------
(* The deploy-set executor, manager_deploy_set.rs run.  cli.pc is its next *)
(* step; every rollout call goes to the manager cli.ep.                    *)

Goto(pc) == cli' = [cli EXCEPT !.pc = pc]

(* A fleet has settled when nothing is starting or stopping, every gate    *)
(* that is open, or that an observer is about to open, has a row that says *)
(* so, and no dead manager still looks live and open.                      *)
FleetSettled ==
    \A m \in Managers :
        /\ proc[m].st \in {"down", "up"}
        /\ m \in LiveOpen => proc[m].st = "up"
        /\ (proc[m].gate = "open" \/ obs[m].want = "open") => m \in LiveOpen

(* The conjunct on Settled is not the code's, which begins a rollout at    *)
(* any time: it restricts what is explored, see README.md.                 *)
Begin(m, p) ==
    /\ cli.pc = "none" /\ ro.id < MaxRollouts /\ p \in Submitted
    /\ Settled => FleetSettled
    /\ BeginTxn(m, p)
    /\ cli' = [pc |-> "stage", todo |-> {}, ep |-> m, pol |-> p]
    /\ UNCHANGED <<row, proc, obs, host, faults>>

(* The same manifest again: Begin returns the receipt of the record, in    *)
(* phase PREPARED, and the first advance succeeds only if it still is in   *)
(* that phase or in the next one.                                          *)
Rerun(m) ==
    /\ cli.pc = "none" /\ guard.active = "yes" /\ ro.phase \in BeforeClose
    /\ Up(m) /\ (proc[m].gate = "open" \/ proc[m].pol = ro.pol)
    /\ cli' = [pc |-> "stage", todo |-> {}, ep |-> m, pol |-> ro.pol]
    /\ UNCHANGED <<guard, ro, ack, row, proc, obs, host, faults>>

Step(from, next, pc) ==
    /\ Up(cli.ep) /\ AdvanceTxn(from, next)
    /\ Goto(pc)
    /\ UNCHANGED <<ack, row, proc, obs, host, faults>>

CliStage == cli.pc = "stage" /\ Step("Prepared", "Staging", "close")

CliStagingFails ==
    /\ cli.pc = "close" /\ faults.death < MaxDeaths /\ Up(cli.ep)
    /\ AdvanceTxn("Staging", "FailedPreClose")
    /\ cli' = NoCli
    /\ faults' = [faults EXCEPT !.death = @ + 1]
    /\ UNCHANGED <<ack, row, proc, obs, host>>

CliClose == cli.pc = "close" /\ Step("Staging", "ClosingOld", "closed")

CliClosed == cli.pc = "closed" /\ Step("ClosingOld", "OldClosed", "start")

CliStart ==
    /\ cli.pc = "start" /\ Up(cli.ep)
    /\ AdvanceTxn("OldClosed", "StartingTarget")
    /\ cli' = [cli EXCEPT !.pc = "activate", !.todo = ro.tgt]
    /\ UNCHANGED <<ack, row, proc, obs, host, faults>>

(* manager_activation_command on each target in turn: stop and mask the    *)
(* unit, install the staged selection, unmask and start it.  systemctl     *)
(* start returns when the manager has notified READY.                      *)
CliActivate ==
    /\ cli.pc = "activate" /\ cli.todo # {}
    /\ LET t == Min(cli.todo)
       IN /\ proc' = IF Running(t) THEN Draining(proc, t)
                     ELSE [proc EXCEPT ![t] = Down]
          /\ obs' = IF Running(t) THEN obs ELSE [obs EXCEPT ![t] = Quiet]
          /\ host' = [host EXCEPT ![t].masked = "yes"]
    /\ Goto("install")
    /\ UNCHANGED <<guard, ro, ack, row, faults>>

CliInstall ==
    /\ cli.pc = "install"
    /\ LET t == Min(cli.todo)
       IN /\ proc[t].st = "down"
          /\ host' = [host EXCEPT ![t] = [pol |-> cli.pol, masked |-> "no"]]
    /\ Goto("await")
    /\ UNCHANGED <<guard, ro, ack, row, proc, obs, faults>>

CliAwait ==
    /\ cli.pc = "await" /\ Up(Min(cli.todo))
    /\ LET rest == cli.todo \ {Min(cli.todo)}
       IN cli' = [cli EXCEPT !.todo = rest,
                             !.pc = IF rest = {} THEN "control" ELSE "activate"]
    /\ UNCHANGED <<guard, ro, ack, row, proc, obs, host, faults>>

(* establish_target_control: some target that observed the rollout in this *)
(* phase, with its gate closed, becomes the manager the executor talks to. *)
Controls(t) ==
    /\ Up(t) /\ proc[t].pol = ro.pol /\ proc[t].gate = "closed"
    /\ proc[t].seen = [id |-> ro.id, phase |-> "StartingTarget"]

CliControl(t) ==
    /\ cli.pc = "control" /\ t \in ro.tgt /\ Controls(t)
    /\ cli' = [cli EXCEPT !.pc = "deactivate", !.ep = t, !.todo = ro.src \ ro.tgt]
    /\ UNCHANGED <<guard, ro, ack, row, proc, obs, host, faults>>

(* deactivate_source: stop the sources no target replaced, and mask them.  *)
CliDeactivate ==
    /\ cli.pc = "deactivate" /\ cli.todo # {}
    /\ LET s == Min(cli.todo)
       IN /\ proc' = IF Running(s) THEN Draining(proc, s)
                     ELSE [proc EXCEPT ![s] = Down]
          /\ obs' = IF Running(s) THEN obs ELSE [obs EXCEPT ![s] = Quiet]
          /\ host' = [host EXCEPT ![s].masked = "yes"]
    /\ Goto("stopped")
    /\ UNCHANGED <<guard, ro, ack, row, faults>>

CliStopped ==
    /\ cli.pc = "stopped" /\ proc[Min(cli.todo)].st = "down"
    /\ cli' = [cli EXCEPT !.pc = "deactivate", !.todo = @ \ {Min(@)}]
    /\ UNCHANGED <<guard, ro, ack, row, proc, obs, host, faults>>

CliReady ==
    /\ cli.pc = "deactivate" /\ cli.todo = {}
    /\ Step("StartingTarget", "TargetReadyClosed", "activating")

CliActivating == cli.pc = "activating" /\ Step("TargetReadyClosed", "ActivatingTarget", "complete")

CliComplete ==
    /\ cli.pc = "complete" /\ Up(cli.ep)
    /\ AdvanceTxn("ActivatingTarget", "Completed")
    /\ cli' = NoCli
    /\ UNCHANGED <<ack, row, proc, obs, host, faults>>

(* A host action or a barrier fails: mark_failed_closed records it through *)
(* the endpoint or any target that answers, or not at all.                 *)
GivesUpAt == {"activate", "install", "await", "control", "deactivate", "stopped", "complete"}

CliGivesUp ==
    /\ cli.pc \in GivesUpAt /\ faults.death < MaxDeaths
    /\ faults' = [faults EXCEPT !.death = @ + 1]
    /\ cli' = NoCli
    /\ IF Up(cli.ep) \/ \E t \in ro.tgt : Up(t)
       THEN AdvanceTxn(IF cli.pc = "complete" THEN "ActivatingTarget" ELSE "StartingTarget",
                       "FailedClosed")
       ELSE UNCHANGED <<guard, ro>>
    /\ UNCHANGED <<ack, row, proc, obs, host>>

(* The executor dies, or one of the calls it does not guard fails.  *)
CliDies ==
    /\ cli.pc # "none" /\ faults.death < MaxDeaths
    /\ faults' = [faults EXCEPT !.death = @ + 1]
    /\ cli' = NoCli
    /\ UNCHANGED <<guard, ro, ack, row, proc, obs, host>>

(* reset_failed_rollout: fetch the declaration, inspect every declared     *)
(* host for a stopped process and one uniform policy, and submit.  cli.pol *)
(* is the policy of the hosts inspected so far.                            *)
ResetFetch(m) ==
    /\ cli.pc = "none" /\ Up(m)
    /\ ro.phase = "FailedClosed" /\ guard.active = "yes"
    /\ cli' = [pc |-> "inspect", todo |-> ro.src \cup ro.tgt, ep |-> m, pol |-> NoPolicy]
    /\ UNCHANGED <<guard, ro, ack, row, proc, obs, host, faults>>

(* canonical_reset_request holds the evidence to the same rule. *)
StoppedUniformly(h) ==
    /\ proc[h].st = "down" /\ host[h].pol # NoPolicy
    /\ cli.pol \in {NoPolicy, host[h].pol}

ResetInspect ==
    /\ cli.pc = "inspect" /\ cli.todo # {}
    /\ LET h == Min(cli.todo)
       IN /\ StoppedUniformly(h)
          /\ cli' = [cli EXCEPT !.todo = @ \ {h}, !.pol = host[h].pol]
    /\ UNCHANGED <<guard, ro, ack, row, proc, obs, host, faults>>

ResetSubmit ==
    /\ cli.pc = "inspect" /\ cli.todo = {} /\ Up(cli.ep)
    /\ ResetTxn
    /\ cli' = NoCli
    /\ UNCHANGED <<ack, row, proc, obs, host, faults>>

-----------------------------------------------------------------------------
(* The operator repairs hosts after a failed rollout: systemctl stop, and  *)
(* the configuration of a stopped host, as restore-config does.            *)

OperatorStops(m) ==
    /\ guard.active = "yes" /\ ro.phase = "FailedClosed" /\ Up(m)
    /\ proc' = Draining(proc, m)
    /\ UNCHANGED <<guard, ro, ack, row, obs, host, cli, faults>>

OperatorInstalls(m) ==
    /\ guard.active = "yes" /\ ro.phase = "FailedClosed"
    /\ proc[m].st = "down" /\ host[m].pol # NoPolicy
    /\ \E p \in {guard.acc, ro.pol} :
          /\ host[m] # [pol |-> p, masked |-> "no"]
          /\ host' = [host EXCEPT ![m] = [pol |-> p, masked |-> "no"]]
    /\ UNCHANGED <<guard, ro, ack, row, proc, obs, cli, faults>>

Manager(m) ==
    \/ Start(m) \/ Installed(m) \/ Ready(m) \/ Drained(m)
    \/ BeatAges(m) \/ Reap(m)
    \/ Observe(m) \/ ObserveGate(m) \/ ObserveRow(m) \/ ObserveAck(m)

Executor ==
    \/ CliStage \/ CliClose \/ CliClosed \/ CliStart
    \/ CliActivate \/ CliInstall \/ CliAwait
    \/ \E t \in Managers : CliControl(t)
    \/ CliDeactivate \/ CliStopped \/ CliReady \/ CliActivating \/ CliComplete

Next ==
    \/ \E m \in Managers : Manager(m) \/ Crash(m) \/ Stop(m)
    \/ \E m \in Managers, p \in Policies : Begin(m, p)
    \/ \E m \in Managers : Rerun(m) \/ ResetFetch(m)
    \/ Executor \/ CliStagingFails \/ CliGivesUp \/ CliDies
    \/ ResetInspect \/ ResetSubmit
    \/ \E m \in Managers : OperatorStops(m) \/ OperatorInstalls(m)

Spec == Init /\ [][Next]_vars

(* Processes are scheduled, systemd starts what is not masked, and the     *)
(* executor is a running command, as long as nothing crashes or dies;      *)
(* crashes, deaths and repairs happen or not.                              *)
Undisturbed == faults.crash = 0 /\ faults.death = 0

Fairness ==
    /\ \A m \in Managers :
          /\ WF_vars(Undisturbed /\ (Start(m) \/ Installed(m) \/ Ready(m) \/ Drained(m)))
          /\ WF_vars(Undisturbed /\ BeatAges(m))
          /\ SF_vars(Undisturbed /\ (Observe(m) \/ ObserveGate(m) \/ ObserveRow(m) \/ ObserveAck(m)))
    /\ SF_vars(Undisturbed /\ Executor)

FairSpec == Spec /\ Fairness

-----------------------------------------------------------------------------
Gates == {"open", "closed"}

SeenType == [id : 0..MaxRollouts, phase : Phases \cup {"none"}]

(* Guard, record, members, rows, processes, observers, hosts and executor  *)
(* hold only the values the tables, systemd and the code give them.        *)
TypeOK ==
    /\ guard \in [acc : Policies \cup {NoPolicy}, active : {"yes", "no"}, permit : {"yes", "no"}]
    /\ ro \in [id : 0..MaxRollouts, phase : Phases, pol : Policies \cup {NoPolicy},
               src : SUBSET Managers, tgt : SUBSET Managers, recovery : {"yes", "no"}]
    /\ ack \in [{"source", "target"} -> [Managers -> Gates \cup {"none"}]]
    /\ row \in [Managers -> {"absent", "staleopen"} \cup Gates]
    /\ proc \in [Managers -> [st : {"down", "booting", "starting", "up", "draining"},
                              pol : Policies \cup {NoPolicy}, gate : Gates,
                              plan : Gates, seen : SeenType]]
    /\ obs \in [Managers -> [pc : {"idle", "gate", "row", "ack"}, want : Gates,
                             role : {"none", "source", "target"}, seen : SeenType]]
    /\ host \in [Managers -> [pol : Policies \cup {NoPolicy}, masked : {"yes", "no"}]]
    /\ cli \in [pc : {"none", "stage", "close", "closed", "start", "activating", "inspect"}
                       \cup GivesUpAt,
                todo : SUBSET Managers, ep : Managers \cup {Nobody},
                pol : Policies \cup {NoPolicy}]
    /\ faults \in [crash : 0..MaxCrashes, death : 0..MaxDeaths]

(* The one policy the phases of advance_manager_rollout let managers admit  *)
(* under: the accepted one until the closing of the old managers, nobody   *)
(* from OLD_CLOSED on, the target's once ACTIVATING_TARGET is reached.     *)
Permitted ==
    IF guard.active = "no" \/ ro.phase \notin AfterClose \cup {"FailedClosed"} THEN {guard.acc}
    ELSE IF ro.phase \in {"ActivatingTarget", "FailedClosed"} THEN {ro.pol}
    ELSE {}

(* Privileged mutations are admitted under the permitted policy alone, so  *)
(* never under two at once, never under the old one after the barrier of   *)
(* OLD_CLOSED, and never under the target's before the barriers that       *)
(* protect it: an acknowledgement means that the AdmissionGate is and      *)
(* stays closed, although observers write gate, row and acknowledgement    *)
(* one after the other.                                                    *)
AdmitsAsPermitted ==
    {proc[m].pol : m \in {n \in Managers : proc[n].gate = "open"}} \subseteq Permitted

(* A rollout that nothing disturbs completes: every barrier of             *)
(* advance_manager_rollout is met by what the observers write.             *)
RolloutCompletes ==
    guard.active = "yes" ~> (guard.active = "no" /\ ro.phase = "Completed") \/ ~Undisturbed

-----------------------------------------------------------------------------
(* Statements the code does not keep; README.md says how to see each fail. *)

(* "Targets reach READY_CLOSED before remaining sources are ... stopped":  *)
(* once the barrier of TARGET_READY_CLOSED let the rollout pass, every     *)
(* target's observer has acknowledged it.                                  *)
TargetsAcknowledged ==
    guard.active = "yes" /\ ro.phase \in {"TargetReadyClosed", "ActivatingTarget"}
        => \A t \in ro.tgt : ack.target[t] # "none"

(* "Post-closure ambiguity become[s] durable FAILED_CLOSED": a rollout no  *)
(* executor drives any more can be run again (before the closing of the    *)
(* old managers) or reset (recorded as failed).                            *)
AmbiguityIsFailed ==
    guard.active = "yes" /\ cli.pc = "none"
        => ro.phase \in BeforeClose \cup {"FailedClosed"}

(* "Drain closes the relevant admission before teardown": a manager that   *)
(* received SIGTERM admits no further mutations.                           *)
DrainStaysClosed ==
    \A m \in Managers : proc[m].st = "draining" => proc[m].gate = "closed"

(* "Evidence ... proves every process stopped": when a reset is accepted,  *)
(* no declared source or target of the failed rollout is running.          *)
ResetProvesStopped ==
    [][guard.permit = "no" /\ guard'.permit = "yes"
          => \A m \in ro.src \cup ro.tgt : proc[m].st = "down"]_vars

(* "A distinct successful fresh rollout must consume the permit": a        *)
(* recovery rollout that failed before it closed anything leaves the       *)
(* permit for the next one.                                                *)
PermitOutlivesFailure ==
    ro.recovery = "yes" /\ ro.phase = "FailedPreClose" => guard.permit = "yes"

(* "target policy generation must be strictly newer" than the accepted.    *)
StrictlyNewer ==
    [][ro'.id # ro.id => Gen[ro'.pol] > Gen[guard.acc]]_vars

=============================================================================
