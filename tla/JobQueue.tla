------------------------------ MODULE JobQueue ------------------------------
(***************************************************************************)
(* The durable job queue of wr-engine: the table wr__jobs.jobs, the SQL    *)
(* statements of worker.rs and job_admin_queue.rs that change it, the      *)
(* worker loops that claim and dispatch jobs, the LISTEN task that wakes   *)
(* them, and the recovery coordinator.                                     *)
(*                                                                         *)
(* A step is one SQL statement, or one await point of a worker loop.  Any  *)
(* statement may fail before it commits, or commit and lose its answer; an *)
(* engine may stop at any point.  Claim identifiers are UUIDs in the code  *)
(* and a counter here.  A lease is compared with the database clock only,  *)
(* and nothing else the queue does is timed by that clock (the worker's    *)
(* own job_timeout is a separate setting), so the time left on a lease is  *)
(* abstracted to whether it has run out.                                   *)
(***************************************************************************)
EXTENDS Naturals, FiniteSets

CONSTANTS
    Jobs,          \* the jobs that may be submitted; their order is created_at
    Engines,       \* engine processes, each with one worker module
    Workers,       \* worker loops (concurrency slots) of all engines
    EngineOf,      \* the engine a worker loop belongs to
    VersionOf,     \* the module version an engine runs
    Versions,      \* module versions a submission may name
    AnyVersion,    \* worker_version = '': any version may claim the job
    AttemptLimits, \* max_attempts values of submissions, after defaulting
    MaxRetries,    \* bound on administrative retries of dead jobs
    MaxStops       \* bound on engine stops and crashes

ASSUME JobsAssumption == Jobs \subseteq Nat \ {0}
ASSUME WorkersAssumption == EngineOf \in [Workers -> Engines]
ASSUME VersionsAssumption ==
    /\ VersionOf \in [Engines -> Versions]
    /\ AnyVersion \notin Versions
ASSUME AttemptsAssumption == AttemptLimits \subseteq Nat \ {0}
ASSUME BoundsAssumption == MaxRetries \in Nat /\ MaxStops \in Nat

VARIABLES
    job,       \* wr__jobs.jobs: one row per job
    worker,    \* the worker loops: control point, job and claim held
    engine,    \* lifecycle of the engine processes
    inbox,     \* requests in the module channel of each engine
    notes,     \* engines with an undelivered NOTIFY
    nextClaim, \* the next fresh claim_id
    \* history, for the properties
    lastClaim, \* the latest claim granted on each job
    effects,   \* <<job, claim>> pairs whose handler ran to a 2xx response
    retries,   \* administrative retries so far
    stops      \* engine stops so far

vars == <<job, worker, engine, inbox, notes, nextClaim,
          lastClaim, effects, retries, stops>>

rowVars == <<job, nextClaim, lastClaim, retries>>

NoClaim == 0

JobState == {"pending", "running", "complete", "dead"}

\* A row: lease and claim_id are set together; result holds the claim that
\* produced it; error abstracts error_message.
Row == [status : JobState \cup {"absent"}, attempt : Nat, max : Nat,
        version : Versions \cup {AnyVersion}, claim : Nat,
        lease : {"none", "live", "expired"}, result : Nat, error : {"empty", "recorded"}]

WorkerState == [pc : {"down", "waiting", "ready", "locked", "dispatching",
                      "awaiting", "completing", "failing"},
                job : Jobs \cup {NoClaim}, claim : Nat]

EngineState == {"down", "starting", "ready", "stopping"}

TypeOK ==
    /\ job \in [Jobs -> Row]
    /\ worker \in [Workers -> WorkerState]
    /\ engine \in [Engines -> EngineState]
    /\ inbox \in [Engines -> SUBSET (Jobs \X Nat)]
    /\ notes \subseteq Engines
    /\ nextClaim \in Nat \ {0}
    /\ lastClaim \in [Jobs -> Nat]
    /\ effects \subseteq Jobs \X Nat
    /\ retries \in Nat
    /\ stops \in Nat

Absent == [status |-> "absent", attempt |-> 0, max |-> 0,
           version |-> AnyVersion, claim |-> NoClaim, lease |-> "none",
           result |-> NoClaim, error |-> "empty"]

Idle(pc) == [pc |-> pc, job |-> NoClaim, claim |-> NoClaim]

Init ==
    /\ job = [j \in Jobs |-> Absent]
    /\ worker = [w \in Workers |-> Idle("down")]
    /\ engine = [e \in Engines |-> "down"]
    /\ inbox = [e \in Engines |-> {}]
    /\ notes = {}
    /\ nextClaim = 1
    /\ lastClaim = [j \in Jobs |-> NoClaim]
    /\ effects = {}
    /\ retries = 0
    /\ stops = 0

-----------------------------------------------------------------------------
(* Row operators: what one statement does to one row.                      *)

Released(r) == [r EXCEPT !.claim = NoClaim, !.lease = "none"]

Pending(limit, version) ==
    [Absent EXCEPT !.status = "pending", !.max = limit, !.version = version]

Claimed(r, c) ==
    [r EXCEPT !.status = "running", !.attempt = r.attempt + 1,
              !.claim = c, !.lease = "live"]

Completed(r, c) == [Released(r) EXCEPT !.status = "complete", !.result = c]

\* The CASE of fail_job and recover_stale_jobs: back to the queue while
\* attempts are left, otherwise dead; an error message is always recorded.
Requeued(r) ==
    [Released(r) EXCEPT
        !.status = IF r.attempt < r.max THEN "pending" ELSE "dead",
        !.error = "recorded"]

Retried(r) ==
    [Released(r) EXCEPT !.status = "pending", !.attempt = 0,
                        !.result = NoClaim]

-----------------------------------------------------------------------------
(* Engines and notifications.                                              *)

Up(e) == engine[e] # "down"

WorkersOf(e) == {w \in Workers : EngineOf[w] = e}

\* The row's version is the worker's own, or empty.
Matches(e, j) == job[j].version \in {VersionOf[e], AnyVersion}

\* An engine LISTENs on the channel of its own version and on the
\* unversioned one.
Listening(version) ==
    {e \in Engines : Up(e) /\ version \in {VersionOf[e], AnyVersion}}

StartEngine(e) ==
    /\ engine[e] = "down"
    /\ engine' = [engine EXCEPT ![e] = "starting"]
    /\ worker' = [w \in Workers |->
                    IF w \in WorkersOf(e) THEN Idle("waiting") ELSE worker[w]]
    /\ UNCHANGED <<rowVars, inbox, notes, effects, stops>>

\* Startup ends by opening the worker admission gate.
EngineReady(e) ==
    /\ engine[e] = "starting"
    /\ engine' = [engine EXCEPT ![e] = "ready"]
    /\ UNCHANGED <<rowVars, worker, inbox, notes, effects, stops>>

\* fence_claims: the worker admission gate closes, no claim starts after it.
FenceClaims(e) ==
    /\ engine[e] = "ready"
    /\ stops < MaxStops
    /\ stops' = stops + 1
    /\ engine' = [engine EXCEPT ![e] = "stopping"]
    /\ UNCHANGED <<rowVars, worker, inbox, notes, effects>>

\* The process ends: after its drain, at the drain deadline (the remaining
\* tasks are aborted), or by a crash.  Claims in progress are abandoned.
StopEngine(e) ==
    /\ Up(e)
    /\ \/ engine[e] = "stopping" /\ stops' = stops
       \/ engine[e] # "stopping" /\ stops < MaxStops /\ stops' = stops + 1
    /\ engine' = [engine EXCEPT ![e] = "down"]
    /\ worker' = [w \in Workers |->
                    IF w \in WorkersOf(e) THEN Idle("down") ELSE worker[w]]
    /\ inbox' = [inbox EXCEPT ![e] = {}]
    /\ notes' = notes \ {e}
    /\ UNCHANGED <<rowVars, effects>>

\* notify_waiters wakes the loops that wait at this moment, and no others.
DeliverNote(e) ==
    /\ e \in notes
    /\ notes' = notes \ {e}
    /\ worker' = [w \in Workers |->
                    IF w \in WorkersOf(e) /\ worker[w].pc = "waiting"
                    THEN Idle("ready") ELSE worker[w]]
    /\ UNCHANGED <<rowVars, engine, inbox, effects, stops>>

\* The LISTEN connection drops; the notification is not sent again.
LoseNote(e) ==
    /\ e \in notes
    /\ notes' = notes \ {e}
    /\ UNCHANGED <<rowVars, worker, engine, inbox, effects, stops>>

-----------------------------------------------------------------------------
(* Submission and administration.                                          *)

\* insert_job and the insert trigger.  Rows are created in the order of
\* their created_at.
Submit(j, limit, version) ==
    /\ \E e \in Engines : engine[e] = "ready"
    /\ job[j].status = "absent"
    /\ \A k \in Jobs : k < j => job[k].status # "absent"
    /\ job' = [job EXCEPT ![j] = Pending(limit, version)]
    /\ notes' = notes \cup Listening(version)
    /\ UNCHANGED <<worker, engine, inbox, nextClaim, lastClaim, effects,
                   retries, stops>>

Retriable(j) == job[j].status = "dead"

\* retry_dead_job: only a dead row, in one transaction with its NOTIFY.
RetryDead(j) ==
    /\ \E e \in Engines : engine[e] \in {"starting", "ready"}
    /\ Retriable(j)
    /\ retries < MaxRetries
    /\ retries' = retries + 1
    /\ job' = [job EXCEPT ![j] = Retried(@)]
    /\ notes' = notes \cup Listening(job[j].version)
    /\ UNCHANGED <<worker, engine, inbox, nextClaim, lastClaim, effects,
                   stops>>

-----------------------------------------------------------------------------
(* The worker loop.                                                        *)

At(w, pc) == worker[w].pc = pc

Move(w, pc) == worker' = [worker EXCEPT ![w].pc = pc]

Rest(w, pc) == worker' = [worker EXCEPT ![w] = Idle(pc)]

\* The poll interval elapses.
PollWake(w) ==
    /\ At(w, "waiting")
    /\ Rest(w, "ready")
    /\ UNCHANGED <<rowVars, engine, inbox, notes, effects, stops>>

\* admission.try_enter() refuses: back to waiting.
Refused(w) ==
    /\ At(w, "ready")
    /\ engine[EngineOf[w]] # "ready"
    /\ Rest(w, "waiting")
    /\ UNCHANGED <<rowVars, engine, inbox, notes, effects, stops>>

RowLocked(j) == \E w \in Workers : At(w, "locked") /\ worker[w].job = j

\* Rows the inner SELECT of claim_job can return; SKIP LOCKED leaves out the
\* row another claim statement has locked.
Claimable(e, j) ==
    /\ job[j].status = "pending"
    /\ Matches(e, j)
    /\ ~RowLocked(j)

\* claim_job, its inner SELECT: lock the oldest claimable row.
ClaimSelect(w, j) ==
    /\ At(w, "ready")
    /\ engine[EngineOf[w]] = "ready"
    /\ Claimable(EngineOf[w], j)
    /\ \A k \in Jobs : Claimable(EngineOf[w], k) => j <= k
    /\ worker' = [worker EXCEPT ![w].pc = "locked", ![w].job = j]
    /\ UNCHANGED <<rowVars, engine, inbox, notes, effects, stops>>

\* claim_job finds nothing.
ClaimNone(w) ==
    /\ At(w, "ready")
    /\ engine[EngineOf[w]] = "ready"
    /\ \A j \in Jobs : ~Claimable(EngineOf[w], j)
    /\ Rest(w, "waiting")
    /\ UNCHANGED <<rowVars, engine, inbox, notes, effects, stops>>

\* The UPDATE of claim_job commits on the row w has locked.
CommitClaim(w) ==
    LET j == worker[w].job IN
    /\ job' = [job EXCEPT ![j] = Claimed(@, nextClaim)]
    /\ lastClaim' = [lastClaim EXCEPT ![j] = nextClaim]
    /\ nextClaim' = nextClaim + 1

ClaimCommit(w) ==
    /\ At(w, "locked")
    /\ CommitClaim(w)
    /\ worker' = [worker EXCEPT ![w].pc = "dispatching",
                                ![w].claim = nextClaim]
    /\ UNCHANGED <<engine, inbox, notes, effects, retries, stops>>

\* The claim fails before it commits: the lock goes, nothing changes.
ClaimError(w) ==
    /\ At(w, "locked")
    /\ Rest(w, "waiting")
    /\ UNCHANGED <<rowVars, engine, inbox, notes, effects, stops>>

\* The claim commits and its answer is lost: the row runs for nobody.
ClaimAnswerLost(w) ==
    /\ At(w, "locked")
    /\ CommitClaim(w)
    /\ Rest(w, "waiting")
    /\ UNCHANGED <<engine, inbox, notes, effects, retries, stops>>

\* dispatch_job puts the request in the module channel.
Send(w) ==
    LET e == EngineOf[w] IN
    /\ At(w, "dispatching")
    /\ inbox' = [inbox EXCEPT ![e] = @ \cup {<<worker[w].job, worker[w].claim>>}]
    /\ Move(w, "awaiting")
    /\ UNCHANGED <<rowVars, engine, notes, effects, stops>>

\* The request cannot be built, or the module channel is closed.
SendFails(w) ==
    /\ At(w, "dispatching")
    /\ Move(w, "failing")
    /\ UNCHANGED <<rowVars, engine, inbox, notes, effects, stops>>

\* handle_inbound: the module takes a request from its channel, whether or
\* not the worker still waits for the answer.
Handle(e, m) ==
    /\ m \in inbox[e]
    /\ inbox' = [inbox EXCEPT ![e] = @ \ {m}]
    /\ effects' = effects \cup {m}
    /\ UNCHANGED <<rowVars, worker, engine, notes, stops>>

\* The module traps, is out of instances, or answers with an error.
HandleFails(e, m) ==
    /\ m \in inbox[e]
    /\ inbox' = [inbox EXCEPT ![e] = @ \ {m}]
    /\ UNCHANGED <<rowVars, worker, engine, notes, effects, stops>>

\* The oneshot channel carries a 2xx answer only once the handler ran.
Answered(w) == <<worker[w].job, worker[w].claim>> \in effects

ResponseOk(w) ==
    /\ At(w, "awaiting")
    /\ Answered(w)
    /\ Move(w, "completing")
    /\ UNCHANGED <<rowVars, engine, inbox, notes, effects, stops>>

\* Any other status, a dropped or oversized answer, or job_timeout, which
\* may fire while the request is queued, running or answered.
ResponseErr(w) ==
    /\ At(w, "awaiting")
    /\ Move(w, "failing")
    /\ UNCHANGED <<rowVars, engine, inbox, notes, effects, stops>>

HoldsUnfenced(w) == job[worker[w].job].status = "running"

\* The fence of complete_job and fail_job.
Holds(w) ==
    /\ job[worker[w].job].status = "running"
    /\ job[worker[w].job].claim = worker[w].claim

\* complete_job; affects no row (Finalization::Stale) if the claim is not
\* the active one.  An answer lost after the commit looks the same.
Complete(w) ==
    LET j == worker[w].job IN
    /\ At(w, "completing")
    /\ job' = IF Holds(w)
              THEN [job EXCEPT ![j] = Completed(@, worker[w].claim)] ELSE job
    /\ Rest(w, "ready")
    /\ UNCHANGED <<engine, inbox, notes, nextClaim, lastClaim, effects,
                   retries, stops>>

\* finalize_failure / fail_job.
Fail(w) ==
    LET j == worker[w].job IN
    /\ At(w, "failing")
    /\ job' = IF Holds(w) THEN [job EXCEPT ![j] = Requeued(@)] ELSE job
    /\ Rest(w, "ready")
    /\ UNCHANGED <<engine, inbox, notes, nextClaim, lastClaim, effects,
                   retries, stops>>

\* The finalising statement fails: logged, and the row is left running.
FinalizeError(w) ==
    /\ worker[w].pc \in {"completing", "failing"}
    /\ Rest(w, "ready")
    /\ UNCHANGED <<rowVars, engine, inbox, notes, effects, stops>>

-----------------------------------------------------------------------------
(* Leases and recovery.                                                    *)

LeaseExpires(j) ==
    /\ job[j].lease = "live"
    /\ job' = [job EXCEPT ![j].lease = "expired"]
    /\ UNCHANGED <<worker, engine, inbox, notes, nextClaim, lastClaim,
                   effects, retries, stops>>

StaleWithBudget(j) ==
    /\ job[j].status = "running"
    /\ job[j].lease = "expired"
    /\ job[j].attempt < job[j].max

Stale(j) == job[j].status = "running" /\ job[j].lease = "expired"

\* recover_stale_jobs on a set of stale rows: one statement, atomic for all
\* of them; a row locked by a concurrent statement is left for a later scan.
\* It sends no NOTIFY.
Recover(S) ==
    /\ \E e \in Engines : Up(e)
    /\ S # {}
    /\ \A j \in S : Stale(j)
    /\ job' = [j \in Jobs |-> IF j \in S THEN Requeued(job[j]) ELSE job[j]]
    /\ UNCHANGED <<worker, engine, inbox, notes, nextClaim, lastClaim,
                   effects, retries, stops>>

-----------------------------------------------------------------------------
Next ==
    \/ \E e \in Engines : \/ StartEngine(e) \/ EngineReady(e)
                          \/ FenceClaims(e) \/ StopEngine(e)
                          \/ DeliverNote(e) \/ LoseNote(e)
                          \/ \E m \in inbox[e] : Handle(e, m) \/ HandleFails(e, m)
    \/ \E j \in Jobs : \/ \E limit \in AttemptLimits,
                             version \in Versions \cup {AnyVersion} :
                                Submit(j, limit, version)
                       \/ RetryDead(j)
                       \/ LeaseExpires(j)
    \/ \E S \in SUBSET Jobs : Recover(S)
    \/ \E w \in Workers : \/ PollWake(w) \/ Refused(w)
                          \/ \E j \in Jobs : ClaimSelect(w, j)
                          \/ ClaimNone(w) \/ ClaimCommit(w)
                          \/ ClaimError(w) \/ ClaimAnswerLost(w)
                          \/ Send(w) \/ SendFails(w)
                          \/ ResponseOk(w) \/ ResponseErr(w)
                          \/ Complete(w) \/ Fail(w) \/ FinalizeError(w)

Spec == Init /\ [][Next]_vars

\* What the runtime keeps going: tokio polls every worker loop, the poll
\* interval and job_timeout elapse; a stopped engine is restarted and a
\* draining one stops at its deadline.
WorkerLoop(w) ==
    \/ PollWake(w) \/ Refused(w) \/ ClaimNone(w) \/ \E j \in Jobs : ClaimSelect(w, j)
    \/ Send(w) \/ ResponseErr(w) \/ Complete(w) \/ Fail(w)

EngineLoop(e) ==
    StartEngine(e) \/ EngineReady(e) \/ (engine[e] = "stopping" /\ StopEngine(e))

\* Leases run out and every engine scans for them.  A statement that is tried
\* again and again succeeds again and again (the database is not down for ever).
Recovers(j) == \E S \in SUBSET Jobs : j \in S /\ Recover(S)

WeakFairness ==
    /\ \A e \in Engines : WF_vars(EngineLoop(e))
    /\ \A j \in Jobs : WF_vars(LeaseExpires(j))
    /\ \A w \in Workers : WF_vars(WorkerLoop(w))

Fairness ==
    /\ WeakFairness
    /\ \A j \in Jobs : SF_vars(Recovers(j))
    /\ \A w \in Workers : SF_vars(ClaimCommit(w))

FairSpec == Spec /\ Fairness

-----------------------------------------------------------------------------
(* Properties.                                                             *)

\* The row a finished job keeps is the work of the claim granted last: a
\* claimant whose lease expired and whose job was handed out again never
\* writes its result (complete_job's claim fence).
WinnerIsLatest ==
    \A j \in Jobs : job[j].status = "complete" => job[j].result = lastClaim[j]

\* A job is reported complete only if the handler answered 2xx under the very
\* claim recorded as the winner (at-least-once delivery).
CompleteMeansExecuted ==
    \A j \in Jobs :
        job[j].status = "complete" => <<j, job[j].result>> \in effects

\* Every job in the queue has an attempt left, so that the claim UPDATE can
\* never be refused by the table's attempt <= max_attempts constraint and
\* block the head of the queue.
PendingHasBudget ==
    \A j \in Jobs : job[j].status = "pending" => job[j].attempt < job[j].max

\* The CHECK constraints of wr__jobs.jobs and the lifecycle validation of
\* job_admin_queue::detail hold of every row the statements produce.
RowLifecycleValid ==
    \A j \in Jobs :
        LET r == job[j] IN
        /\ r.attempt <= r.max
        /\ (r.status = "running") <=> (r.claim # NoClaim)
        /\ (r.status = "running") <=> (r.lease # "none")
        /\ (r.status = "complete") <=> (r.result # NoClaim)
        /\ r.status = "dead" => r.attempt = r.max /\ r.error = "recorded"
        /\ r.status \in {"running", "complete", "dead"} => r.attempt > 0

\* A request for a job that names a module version only ever waits in the
\* channel of a module of that version, also after the job was requeued,
\* recovered by an engine of another version, or retried.
VersionRespected == \A e \in Engines : \A m \in inbox[e] : Matches(e, m[1])

\* The handler of a job succeeds at most max_attempts times for every time
\* the job was put in the queue, counting handlers that finish after their
\* worker gave up on them.
ExecutionsBounded ==
    \A j \in Jobs :
        Cardinality({m \in effects : m[1] = j}) <= (retries + 1) * job[j].max

Settled(j) == job[j].status \in {"complete", "dead"}

\* Every submitted job is completed or declared dead, through lost claim
\* answers, failed finalisations, lost notifications and engine restarts.
EventuallySettled ==
    \A j \in Jobs : (job[j].status \in {"pending", "running"}) ~> Settled(j)

-----------------------------------------------------------------------------
(* The queue implements the ledger.                                        *)

StageOf(status) == IF status \in {"pending", "running"} THEN "open" ELSE status

Ledger == INSTANCE JobLedger WITH
    Budgets <- AttemptLimits,
    stage <- [j \in Jobs |-> StageOf(job[j].status)],
    budget <- [j \in Jobs |-> job[j].max],
    spent <- [j \in Jobs |-> job[j].attempt],
    latest <- lastClaim,
    winner <- [j \in Jobs |-> job[j].result],
    executed <- effects,
    fresh <- nextClaim

\* Claims, leases, fences, recovery scans and administrative retries together
\* implement the delivery discipline of JobLedger.
ImplementsLedger == Ledger!Spec
=============================================================================
