# wruntime: TLA+ models, model checking and proofs

wruntime runs WebAssembly modules on a cluster. This directory keeps the TLA+
models of the parts of it that are hard to test, the TLC configurations that
check them on small instances, and the proofs, checked by TLAPS, of what holds
for every size. `PROJECT.json` lists components, runs, hazards and theorems, and
maps every definition to the source lines it models.

## The system

- **wr-manager** (`wr-manager/src`): stateless, active-active processes over one
  PostgreSQL database. Every transaction on the registry and on node operations
  first locks the row `wr_manager_lock`, so those transactions are totally
  ordered whichever manager runs them. A manager also runs a health monitor, a
  scheduler loop and an observer of policy rollouts, and decides who may call it.
- **wr-engine** (`wr-engine/src`): runs modules, registers itself through the
  proxy of its node, takes jobs from a queue in PostgreSQL, and gives its guests
  database sessions and streamed completions.
- **wr-proxy** (`wr-proxy/src`): forwards lifecycle calls of its engines to a
  manager, caches the routing table, routes requests and reports on itself.
- **node agent** (`wr-cli/src/cmd/node_agent.rs`, `node_backend.rs`): carries out
  node operations on a host through systemd, under a lease of the managers.
- **wr-cli** (`wr-cli/src`): the operator's commands: deployment, rollouts of
  manager policies, tenant databases, cluster status, jobs, and the foreground
  runner of a local topology.
- **wr-common** (`wr-common/src`): what they share: the admission gate, task
  groups, manager discovery, policy snapshots, connection pools.

They meet in the database. An engine registers and publishes readiness through
its proxy; a manager writes the route; every proxy polls the table. A node
operation moves slots from one revision to another; the agent does each step on
the host and reports evidence; the manager switches route authority and commits.
Former releases are then deleted by cleanup work. A policy rollout closes the
admission of all old managers before the new ones open theirs.

## Modules

| module | models | main source |
| --- | --- | --- |
| `JobQueue` | the job table, its SQL statements, worker loops, LISTEN/NOTIFY, recovery | `worker.rs`, `job_admin_queue.rs` |
| `JobLedger` | what the queue promises: attempts, executions, one winner | abstract |
| `Scheduler` | the schedules and the scheduler loops of all managers | `scheduler.rs`, `db.rs` |
| `JobAdmin` | submitters and operators of a queue: answers, paged listing, retries | `job_admin.rs`, `worker_http.rs` |
| `EngineRegistry` | the transactions on one engine slot: owner, authority, heartbeats, route | `wr-manager/src/db.rs` |
| `RoutingCache` | `EngineRegistry` and the proxies that follow its routing table | `db.rs`, `wr-proxy/src/routing.rs` |
| `NodeControl` | `EngineRegistry`, the engine processes of a slot and the proxy between them | `node_service.rs`, `wr-engine/src/main.rs` |
| `ProxyRequests` | a request through one or two proxies: selection, circuit breakers, index replacement | `indexed_routing.rs`, `circuit_breaker.rs`, `layers/` |
| `ManagerClients` | how the tasks of a proxy keep finding managers | `discovery.rs`, `manager_client.rs` |
| `PolicySnapshot` | how a workload learns, and forgets, who may call it | `snapshot_consumer.rs` |
| `ManagerAuthority` | the two decisions every manager RPC goes through | `auth.rs`, `service.rs` |
| `ManagerRollout` | a policy rollout: guard, record, observers, processes, executor, reset | `db.rs`, `main.rs`, `manager_deploy_set.rs` |
| `ClusterStatus` | what status concludes from rows of different ages | `status.rs`, `cluster.rs`, `reporting.rs` |
| `NodeOperation` | the durable record of a node operation and its transactions | `operations.rs` |
| `NodeAgent` | `NodeOperation`, the agent that carries it out, systemd and the engines | `node_agent.rs`, `node_backend.rs` |
| `NodeDeployment` | the commands that put a release on a host, and their remote scripts | `node.rs` |
| `ReleaseCleanup` | allocation, commit and deletion of the releases of a node | `operations.rs`, `node.rs`, `node_backend.rs` |
| `AdmissionGate` | the gate in front of a process's work, access by access | `lifecycle_service.rs` |
| `ServiceProcess` | `AdmissionGate` and the proxy process around it, from start to exit | `wr-proxy/src/main.rs`, `task_group.rs` |
| `LifecycleWait` | a command that waits for a process to reach a state | `cmd/lifecycle.rs` |
| `ForegroundRunner` | `wr dev run` and its children | `foreground_runner.rs` |
| `GuestRequests` | requests through an engine's channel, instance pool, guest and body | `engine.rs`, `runtime.rs`, `server.rs` |
| `CompletionStream` | a streamed completion between provider, host and guest | `llm.rs` |
| `DatabaseSession` | transactions and cursors of guests on pooled connections | `wr-engine/src/db`, `pool.rs` |
| `TenantMigration` | migrations of a tenant namespace, their ledger and receipts | `postgres/migration.rs`, `tenant_db.rs` |
| `TenantProvisioning` | provisioning of namespaces and the certificate map | `postgres/mod.rs` |
| `*Proofs` | theorems and proofs | |
| `MC*` | instances for TLC | |

A `Txn` operator or a transaction function is one database transaction. A step
elsewhere is one SQL statement, one await point or one atomic access: whatever
another process can see a difference between. Definitions marked *Defect* are
faulty variants of the definition that follows; each is what one property must
catch, and no specification uses them.

### Jobs

In `JobQueue`, `job` is the table, `worker` the control point of every loop with
the job and claim it holds, `engine` the life of each engine, `inbox` the module
channel and `notes` the notifications under way. A claim is two steps
(`ClaimSelect` locks the row; `ClaimCommit`, `ClaimAnswerLost` or `ClaimError` end
the statement), so claims overlap as they do under `FOR UPDATE SKIP LOCKED`. A
handler may finish after its worker gave up on it. Claim ids are UUIDs in the code
and a counter here; a lease has run out or has not, by the database clock alone.
`JobLedger` knows nothing of leases, loops or channels: a job is open, complete or
dead, deliveries spend attempts, and the winner is the delivery made last, which
was executed. `ImplementsLedger` maps the queue's rows onto it.

In `Scheduler` time is counted in submission timeouts, and a manager whose gate is
closed simply does not claim. `JobAdmin` gives the queue's users their own view of
the table: a submission may be lost on either side of its commit, and a page of a
listing is one statement between which rows change.

### Registry, routes and requests

`EngineRegistry` has one operator per transaction on a slot. `RoutingCache` lets
any of them happen at any time, in any order, by any owner, which covers every
late, lost or repeated request, and adds proxies whose `sync_once` reads the
version and the rules in two statements (`ReadVersion`, `ReadRules`) and installs
an answer only under a strictly newer label. `hist` is a history variable: the
serving set at each version.

`NodeControl` restricts who asks for what: the engine process (`proc`), its slot
in the proxy (`slot`, `call` under the forward lock, `flush`), and the manager
requests under way (`wire`), which may be executed after their caller gave up and
which are sent once more to another manager for registrations and heartbeats
only; the engine itself repeats a failed registration or readiness publication.
Its convergence step installs the current table at once, which `RoutingCache`
justifies (`TableNotOlderThanLabel`).

In `ProxyRequests` a request is a stack of pending calls, one per proxy it went
through. A breaker is an object: a request keeps the one it selected even when a
newer index no longer has it. `ManagerClients` differs by task: each pins one
manager of the list it saw, and does something else when none answers.

### Managers

`PolicySnapshot` has one consumer, managers with skewed clocks, and answers that
arrive late. `ManagerAuthority` has the table of RPC rows and the handlers' own
role checks as two separate operators, so that their agreement is a property and
not an assumption. In `ManagerRollout` one executor runs at a time, partitions
from the database are not modelled, a live process keeps its heartbeat fresh, and
`Drained` merges deregistration with the end of the tasks, as `Start` does the
three database calls of a start. The barriers' terms on `host_action_outcome` are
left out: the call that is to pass a barrier stores the outcomes it counts.
`Settled = TRUE` is a restriction of what is explored, not a guard of the code:
rollouts begin only when no manager is starting or stopping and no dead one
still looks open. `ClusterStatus` has the rows that status reads as variables, and
status itself as operators on them: severities are computed, never stored.

### Nodes

`NodeOperation` writes every transaction of `operations.rs` as a function of the
database record `db`. `plan` is the submitted operation, fixed in `Init`, and one
that `submit` accepts (`Accepted`): the restart of one slot, which leaves the
proxy alone, or a deployment, which moves the proxy and every slot. A slot's
registrations (`rows`) are told apart by whether their engine lives and whether
their last heartbeat is inside the freshness window.
`NodeAgent` adds the agent (`ag`), the host (`host`) and the faults each plan may
meet: agent crash, lost reply, lapsed lease, command error, unit failure,
forced stop, missed deadline, ageing observation, and the operator's resume and
cancel. An effect is done in the steps between which the agent may die. A
systemd job goes on without the agent. A unit whose process failed, the proxy's
included, is started again by systemd (`Restart=on-failure`) with what is selected
by then; while no proxy is up, engines cannot heartbeat and their rows age.

`NodeDeployment` keeps the command (`cli`) and the remote script it started
(`script`) apart: the script survives the command, and two scripts share the
upload, the staging directory and the release. In `ReleaseCleanup` a release is
its revision, and *finalized* stands for the comparison of digests. A removal that
is cut short leaves the release in `broken`; an agent whose renewal failed awaits
the deletion and reports nothing (`ResultDropped`).

### Processes and guests

In `AdmissionGate` the store of `close` may sit in the closing thread's store
buffer (`memory = "buffered"`). `ServiceProcess` runs the same gate from
`run_service`, with stores visible at once. `ForegroundRunner` tells what a child
does (`child`) from what the runner has seen of it (`held`).

`GuestRequests` has the two tasks of a request (the serving stage and the guest's
task), the one-shot channels between them and the body pipe, each with its own
end. `DatabaseSession` tells what PostgreSQL did (`conn`, `durable`) from what the
guest was told (`promised`, `void`). `TenantMigration` and `TenantProvisioning`
take a step per statement or file operation, and a runner or provisioner may stop
between any two.

## Runs

| run | instance | checks |
| --- | --- | --- |
| `jobs` | two engines of different versions and one job with two attempts, or one attempt and a stop, a crash or a retry; or two managers, two schedules, lease 3, two edits, one error | `FiredMeansEnqueued`, `ImplementsLedger`, `EventuallySettled`, `DueIsFired` |
| `routing` | two activations of two revisions, one proxy, two operations, versions up to 3 | `ServingIsOwned`, `TableNotOlderThanLabel`, `VersionCoversChange`, `ProxiesConverge` |
| `node_control` | two processes of one revision, two requests under way | `DrainHolds` |
| `fenced_engine_leaves` | one process, failing and healthy reports, ageing heartbeat, one proxy restart | `FencedEngineLeaves` |
| `node_operation` | eight operations on one or two slots and the proxy (below) | `OutcomeIsReal`, `NeverDark`, `OperationEnds` |
| `release_cleanup` | four revisions, retention 1, one policy, one fault | `NeededIsKept`, `AbandonedClaimIsWithdrawn` |
| `rollout` | two managers that stay and one rollout, or manager 2 replacing manager 1 and a second rollout after the executor's death; one fault | `AdmitsAsPermitted`, `RolloutCompletes` |
| `rollout_targets` | both managers stay, nothing fails | `TargetsAcknowledged`, which is violated |
| `processes` | the gate with two handlers and both memories; a proxy process; the runner with a manager, a proxy and an engine, two interrupts; a wait across two processes; two or three deployment commands, one killed | `QuietAfterIdle`, `OkExitIsClean`, `ReturnLeavesNothing`, `VerdictStands`, `AcceptedIsDeployable`, `InterruptEndsRun`, `DrainIsNoticed` |
| `requests` | two requests through one or two proxies across four tables; or three tasks and three manager addresses | `PublishedIsRegistered`, `BreakersRecover`, `RoutesStayFed` |
| `guests` | two wire requests and a nested one on one or two instances; or two completions of two events | `CleanEndIsComplete`, `EndFollowsStop`, `RequestsSettle` |
| `administration` | two guests on two connections; three migration runners; three provisioners; every principal and RPC over two values; two managers and three policies; three jobs, two engines, one retry; two nodes of one slot | `CommitTellsTruth`, `ReadyIsMigrated`, `PublishedIsUsable`, `HandlersAgree`, `RevocationTakesHold`, `NeverBackward`, `WalkIsComplete`, `AnswersTellTruth`, `HealthyIsServed`, `DeregisteredStaysGone` |

`tlc -config <cfg> <module>` runs one of them in this directory. The `MC` modules
of `jobs`, `processes`, `requests`, `guests` and `administration` hold several
models: the initial state chooses one, and the others rest, so the run is the sum
of its parts, not their product.

**Why the bounds are enough.** They are chosen so that the interesting case
happens at least once. One job with two attempts and two loops gives a stale
claimant beside its successor, and the retry puts a dead row back; more jobs only
add independent rows, which the proofs cover. Two activations give a predecessor
and a successor of a slot, and version 3 is reached after a takeover and a switch.
Four revisions are a current, a former, a superseded and a staged release. Two
managers are a source and a target, or two sources; the second rollout is the
recovery. Two runs of the same bundle and one of a changed bundle give a migration
that is repeated, resumed and refused; three manifests a newer generation and a
conflicting one. Three policies are one that enrols a peer and two that do not, of
the same generation, so that both replacement and conflict happen. Four tables
withdraw and bring back an engine while two requests hold its breaker. The eight
operations of `node_operation` are: a restart and a deployment, each meeting a crash
and a lost reply with a patient operator; deployments with crash, error, cancel and
resume, with lease lapse, ageing and missed deadline, and with a unit failure, a
forced stop and a cancel; a first deployment; and, without downtime, the restart of
one of two slots and a deployment that keeps one and removes the other. All but the
restarts replace the proxy too, and restore it when they are given up. Fault bounds
count how often each happens, never when.

**What the properties except.** Some hold only beside a hazard stated below as
failing, and say so in their text: `DrainHolds` leaves out a registration executed
after its process stopped waiting for it (`DrainIsFinal`), `FencedEngineLeaves`
ends at a proxy restart, which forgets the fence, `RolloutCompletes` is about
rollouts nothing disturbs, `OperationEnds` about the patient operator and an
operation whose proxy is not in doubt (`ResultFits`: the only instruction for a proxy
whose effect was cut off is an inspection, whose result is refused for ever),
`NeverDark` about the time from the first authorised stop to the end of the forward
phase and units that do not fail by themselves,
`QuietAfterIdle` about the ordered memory, `AcceptedIsDeployable` leaves out
overlapping rollbacks (`FinalizedIsComplete`), `HandlersAgree` the snapshot RPC,
which has no row of its own, `CommitTellsTruth` guests that send their own
transaction control (`Raw`), and the rollout runs assume `Settled`.

**Deadlock** is checked in `routing`. The others may really stop: a process that
exited, an ended operation, or all bounded faults and requests used up. Where
stopping early would be a fault, a liveness property says so.

## Fairness

- *Jobs*: tokio polls every loop and timers elapse; systemd starts a stopped
  engine again; leases run out; a claim that is tried again and again commits at
  last (strong fairness: the database does not fail for ever), and so does
  recovery. Scheduler loops run and time passes; a due row is not skipped for
  ever, as it is locked by short transactions only.
- *Routing*: the poll keeps running, and a call that is repeated for ever succeeds
  at last.
- *Node control*: the monitor and the flush tick, calls end by an answer or by
  their timeout, requests under way are executed or lost. Nothing forces a
  manager call to succeed.
- *Node operation*: for the plans with a patient operator, the agent, systemd and
  the engines keep working, an expired lease is noticed, and the operator resumes
  what is paused once the units have come to rest. No fairness is assumed of the
  other plans.
- *Release cleanup*: for a claim held by a dead agent, its lease runs out and
  some manager reconciles. Nothing else is fair.
- *Rollout*: as long as nothing crashes, processes run and the executor's command
  continues. Strong fairness of the observers and of the executor stands for
  their retry loops.
- *Processes*: a request that is entering or leaving goes on, the shutdown path
  runs and deadlines pass; a killed child dies, and the runner's task is polled. In
  the gate's own model a request that was admitted is finished, and the deadline may
  never come; in the process around it a request may be served for ever and the
  deadline passes. A child may ignore SIGTERM.
- *Requests*: requests keep arriving and engines answer, with success or failure;
  breakers' waits elapse; the index task refreshes; the clients' periodic tasks
  run and leases of dead managers lapse. Which managers are up is nobody's duty.
- *Guests*: the receiving loop, the handler task, the guest's timeout and the
  polling of the body are scheduled. A guest need not end and a caller need not
  stay.

## Proofs

TLAPS checks the theorems for every value of the constants, under the named
`ASSUME`s of the modules (which TLC evaluates in the runs). Every proof of an
invariant has the same shape: a strengthening that TLC has checked too, a lemma for
the initial states, one per action or per group of actions that touch the same
state, and a last step for the temporal rule. Where one record changes, a lemma
says that the others still fit, so that an action's proof is about its own record.

| module | theorems | the argument |
| --- | --- | --- |
| `JobProofs` | `TypeCorrect`, `FencedCompletion`, `ConstraintsHold`, `QueueImplementsLedger`, `FiredIsEnqueued` | below |
| `RequestProofs` | `TypeCorrect`, `OnlyTheOwnerServes`, `EveryChangeIsVersioned`, `CachesNotOlder`, `ConvergedMeansCurrent`, `RevocationHolds`, `SnapshotsOnlyAdvance`, `CleanEndWasComplete`, `StreamEndFollowsStop` | below |
| `ProcessProofs` | `QuietWhenOrdered`, `OkExitWasClean`, `WaitVerdictStands`, `RunnerReturnsClean`, `AcknowledgedDrainHolds` | The count of the gate is the number of handlers inside, and its flag stays down after the close (`GateInv`). A process that kept no failure was stopped by a signal, and each group behind its shutdown ended on its cancellation (`ProcInv`). An answer was true when given and a process only goes on (`WaitInv`). The runner has a handle for every process there is and passes a stop wave only when nothing of it is left (`RunnerInv`). Drains: below. |
| `DeploymentProofs` | `AcceptedWasDeployable`, `CleanupTakesNothingNeeded`, `OneOpenAllocation` | below |
| `DataPathProofs` | `PublishedWasRegistered`, `BreakersSurvived`, `CommitWasTrue`, `RollbackHeld` | below |
| `ManagerProofs` | `ReadyWasMigrated`, `ExecutorsExclude`, `PublishedWasActivated`, `UnverifiedWasBackedUp`, `HandlersAgreed` | A success in the ledger was written after its SQL committed, and the executor of a runner under the lock is the only one (`MigrationInv`). Every published manifest is covered by roles, databases and each copy of the map that a crash or restore can leave in force (`ProvInv`). Row by row, the table's decision on the completed resource is the handler's (`AuthorityInv` and a lemma per group of RPCs). |
| `AdministrationProofs` | `AnswersWereTrue`, `WalksWereComplete`, `DeregisteredWasGone`, `HealthyWasServed` | Rows are sound, and what a caller was told follows from the row or from the retry's position (`AdminInv`). Behind the cursor of a walk lies everything seen, past it everything that matched all along and was not (`WalkInv`); a page has a least element because naturals are well founded. Every healthy route is owned under the slot's authority, and a purged proxy has no request under way (`ClusterInv`). |
| `RolloutProofs` | `AdmitsUnderOnePolicy` | below |

**The job queue.** `WinnerIsLatest` is not inductive: a worker about to complete
must be known to hold the row's own claim and the row's claim to be the last
granted. `IndInv` adds that claims in use were issued (`ClaimsIssued`), that the
claim of a running row is the latest (`RunningClaimIsLatest`), that a locked row is
pending and locked once (`LockedRowsPending`, `LocksExclusive`), that a loop holding
a claim was granted it and a loop that completes saw its handler answer
(`HoldersConsistent`), and that absent rows are blank. The refinement uses the same
invariant: a step maps to a delivery, an execution, a completion, a burial, a
reopening or a stutter. For the schedules (`FiringInv`), what a manager may still
record is a claim it holds, and a success it is about to record was accepted.

**Routes.** The invariant ties `hist` to the registry (`HistOK`: one entry per
version, the last being the present), and says of every cache and every answer
under way that its rules are those of a version between its label and now
(`CacheOK`, `SyncOK`). The argument rests on one fact per transaction: the serving
set changes only if the version moves. **Snapshots**: a policy retained as fresh
expires a validity after its stamp, and `lastRun` bounds the stamps of the
snapshots that enrol a peer. **Guests** (`GuestInv`): a completion that reports a
regular end is the guest's, and a request is in the channel once. **Completions**
(`StreamInv`): from the moment the producer decides to return, a stop or an error
is on its way to the guest or there.

**Drains** (`DrainInv`). An engine drains only when it is past joining and serving
for good; the proxy's table is the registry's at its version or older; and an
executed drain keeps the engine out of the registry and out of every table as new
as the drain, unless a registration of it was executed since. All transactions but
a registration leave a withdrawn engine withdrawn (`Upholds`).

**Breakers** (`IndexInv`). A proxy prepares one index at a time, publishes it, and
evicts the breakers of addresses it no longer names. Throughout, for every address
of the published index and of the one prepared, the registry holds the breaker that
index forwards through; so a preparation that meets a published address takes over
its breaker. The order of candidates, a fold over sequences, does not matter to it:
only which addresses a list names does.
**Database sessions** (`DbInv`): the acknowledged statements of an open transaction
are in the work of the session it runs on. The theorems assume `Raw = {}`, guests
that use wr-sdk.

**Deployment** (`DeployInv`): what is recorded for a token is deployable, by the
checks of the command for deployments and by the uniqueness of the staging
directory for rollbacks that do not overlap. **Cleanup** (`CleanupInv`): an
authority names only releases that were spent when it was issued, and a spent
release stays spent: it is neither current nor kept for rollback, no operation
moves to it, and no open allocation has it.

**Rollouts** (`RolloutInv`). A manager is *hot* when its gate is open, when its
observer has read that it may open, or when a running process has an open row. The
invariant says which managers may be hot in each phase, and that a source has
acknowledged its closing only when it is not hot. `AdmitsUnderOnePolicy` assumes
`Settled`, and fails without it (below).

**Only model-checked.** Liveness, as fairness and ENABLED are outside the prover:
`EventuallySettled`, `DueIsFired`, `ProxiesConverge`, `FencedEngineLeaves`,
`OperationEnds`, `AbandonedClaimIsWithdrawn`, `RolloutCompletes`,
`InterruptEndsRun`, `DrainIsNoticed`, `BreakersRecover`, `RoutesStayFed`,
`RequestsSettle`. Of the safety properties of the runs, `OutcomeIsReal` and `NeverDark` of
`NodeAgent`: their invariant would have to describe, for every effect of an
operation, its evidence in the record, in the agent and on the host at each of the
points where the agent may die, and `NeverDark` rests on the same description.

Where a leaf names a backend, that is the one that finds it: Zenon where records and
sets of records are only compared.

## What the code does not keep

`rollout_targets` is a run of its own: the barriers of `TARGET_READY_CLOSED` and
`COMPLETED` compare nullable columns with `!=` (`db.rs:3523-3544`), so a target
that never acknowledged does not hold the rollout back, although the documents say
that targets reach `READY_CLOSED` first.

The definitions below state what a document, a comment or the design says, and
fail in the model. To see one fail, put it in place of the properties of the
configuration named, with the constants given.

| definition | where the code departs | configuration |
| --- | --- | --- |
| `AmbiguityIsFailed` | `manager_deploy_set.rs:1229`: an executor that dies after the closing leaves a record that can be neither rerun nor reset | `ManagerRollout` |
| `DrainStaysClosed` | `wr-manager/src/main.rs:456`: the observer opens the gate of a draining manager again | `ManagerRollout` |
| `ResetProvesStopped` | `manager_deploy_set.rs:1130`: a reset is submitted through a running member, after hosts were inspected one by one | `ManagerRollout` |
| `PermitOutlivesFailure` | `db.rs:3354`: a recovery rollout that fails before closing has used up the permit | `ManagerRollout`, `MaxCrashes = 0`, `MaxDeaths = 2`, `MaxFaults = 2`, `MaxRollouts = 3` |
| `StrictlyNewer`, `RolloutCompletes` | `db.rs:3310`: the accepted policy itself is accepted as a target, and its rollout never completes | `ManagerRollout`, `Again = TRUE`, `MaxFaults = 0` |
| `AdmitsAsPermitted` | `main.rs:402`: a starting manager opens its gate after a rollout began; `db.rs:2781`: a killed target that still looks open becomes a source of the recovery | `ManagerRollout`, `Settled = FALSE` |
| `DrainIsFinal` | `db.rs:547`: a registration executed late revives a drained engine | `NodeControl_safety` without symmetry, `Acts = {a}`, `MaxVersion = 3`, `MaxWire = 3` |
| `CrashedEngineLeaves` | `node_service.rs:107`: the proxy repeats the last report of a dead engine | `NodeControl_live` |
| `ResultFits` | `operations.rs:3703`: the result of inspecting a proxy whose effect is ambiguous is refused | `NodeAgent` |
| `SameActivation` | `node_agent.rs:775`: a lost observation reply ends the agent process | `NodeAgent` |
| `ResumeRetries` | `operations.rs:2143`: a resumed restoration is paused by the next claim | `NodeAgent` |
| `RestorationWorks` | `node_backend.rs:1472`: a slot whose unit has no InvocationID (never started, or released by systemd) cannot be restored | `NodeAgent` |
| `EveryStopIsChecked` | `node_backend.rs:1482`: restoration stops the last serving slot unchecked | `NodeAgent` |
| `RedeliveryHasNewEvidence` | `operations.rs:2170`: restoration is delivered again on an observation that predates it | `NodeAgent` |
| `IssuedIsUnprotected` | `operations.rs:4653`: raising the retention does not fence an issued deletion | `ReleaseCleanup`, `MaxRev = 3`, `Retentions <- KeepOneOrTwo`, `MaxPolicies = 2` |
| `FailureClearsTarget` | `operations.rs:2736`: a failed operation leaves its staged target, and `abandon_deployment` refuses a submitted allocation (`db.rs:1543`): nothing that the commands call lets another deployment be allocated | `ReleaseCleanup` |
| `SubmitsUnderLease` | `scheduler.rs:82`: a batch longer than the lease is taken over while it is submitted | `Jobs`, `Schedules = {s1, s2, s3}`, `Lease = 2`, `MaxEdits = 3` |
| `AlwaysQuietAfterIdle` | `lifecycle_service.rs:52`: Release store before Acquire load does not order the two | `Processes` |
| `FinalizedIsComplete` | the rollback script of `node.rs`: two that overlap finalize a partial copy (docs/grpc-api.md:94) | `Processes` |
| `IdleIsQuiet` | `server.rs`: a caller that resets before the headers frees its admission while its guest runs (docs/configuration.md:277) | `Guests` |
| `NothingAfterStop` | `llm.rs:100-168`: an error may follow the stop (docs/host-bindings.md:233) | `Guests` |
| `ConflictNeedsHigher` | `snapshot_consumer.rs:381`: a snapshot of the retained policy ends a conflict | `Administration` |
| `FailedIsRolledBack` | `migration.rs:415`: a deadline during COMMIT is recorded as a confirmed rollback | `Administration` |
| `CommitTellsTruth` | `transaction.rs:235`: for a guest without wr-sdk, a failed commit that is repeated reports success (docs/host-bindings.md:69) | `Administration`, `Raw = {g1}` |
| `ExactVersionServed` | `identity.rs:304`: a bare version is read as a caret range (docs/architecture.md:199) | `Requests`, `Plans <- OneCaller`, `Rules <- TwoVersions`, `Wanted <- NamedVersion` |
| `HeartbeatsGetThrough` | `manager_client.rs`: heartbeats stay with the managers listed at registration | `Requests`, as above |

Modelling also met these, which no definition states: SIGTERM during the start
of a proxy kills it without a drain; on its deadline connection tasks are aborted
and not joined; a lost reply to its registration leaves a proxy listed that never
reports; a wait for a named new instance fails at once while the old process still
answers; `--fail-on unknown` always fails (docs/deployment.md:306), and a service's
health compares counts (docs/grpc-api.md:197); a late report overwrites a newer
one; a retry answered `internal` may have been applied; the replay check of a
generation is skipped for a namespace whose database is unreachable; after a
guest's timeout its task keeps its permit until the caller read or dropped the body
(docs/configuration.md:397).

## Further statements that hold

Checked with the configuration of their run and left out of it, as others imply
them or rest on the same argument: `TypeOK` of `NodeAgent`,
`ReleaseCleanup` and `ManagerRollout`, `NodeTypeOK`; `WinnerIsLatest`, `VersionRespected`,
`ExecutionsBounded` (`Jobs`); `ReadyOwns` (`NodeControl`);
`ChangeIsRecorded` (`NodeAgent`); `StopEnds`, `SuccessIsEarned` and
`FinalizedIsStaged` (`Processes`); `BreakersSurvive` (`Requests`); `ListsAgree` and
`ControllerKeepsControl` (`Administration`).

## Not modelled

`PROJECT.json` names every part left out with the reason. The HTTP layers of the
proxy (`ingress.rs`, `egress.rs`, header filtering, transcoding) transform one
request and share no state; the command line's rendering, configuration files,
certificates and bundle formats are pure; telemetry has no effect. Payloads,
digests, file formats, tracing and the wording of errors are left out everywhere:
no property is about them.
