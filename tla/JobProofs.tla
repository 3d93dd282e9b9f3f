----------------------------- MODULE JobProofs ------------------------------
(***************************************************************************)
(* Proofs about the job queue of JobQueue, for any number of jobs, engines *)
(* and workers, and about the schedules of Scheduler that feed it, for any *)
(* number of managers and any lease.                                       *)
(***************************************************************************)
EXTENDS JobQueue, Scheduler, TLAPS

(* The queue.                                                              *)

(* The steps of a worker that holds a claim.                               *)
Holding == {"dispatching", "awaiting", "completing", "failing"}

\* Every claim identifier in use was handed out before nextClaim.
ClaimsIssued ==
    /\ \A j \in Jobs : lastClaim[j] < nextClaim
    /\ \A w \in Workers : worker[w].claim < nextClaim
    /\ \A e \in Engines : \A m \in inbox[e] : 0 < m[2] /\ m[2] < nextClaim

\* A running row carries the claim granted last on it.
RunningClaimIsLatest ==
    \A j \in Jobs : job[j].status = "running" =>
        job[j].claim = lastClaim[j] /\ job[j].claim # NoClaim

\* A row locked by a claim statement is pending until the statement ends.
LockedRowsPending ==
    \A w \in Workers : At(w, "locked") =>
        worker[w].job \in Jobs /\ job[worker[w].job].status = "pending"

\* No two claim statements lock the same row.
LocksExclusive ==
    \A v, w \in Workers :
        At(v, "locked") /\ At(w, "locked") /\ worker[v].job = worker[w].job
            => v = w

\* A worker past its claim holds a job and a claim identifier, and it is
\* about to complete the job only after its handler succeeded.
HoldersConsistent ==
    \A w \in Workers :
        /\ worker[w].pc \in Holding =>
              worker[w].job \in Jobs /\ worker[w].claim # NoClaim
        /\ At(w, "completing") => <<worker[w].job, worker[w].claim>> \in effects

\* A row that was not inserted yet is blank.
AbsentRows == \A j \in Jobs : job[j].status = "absent" => job[j] = Absent

IndInv ==
    /\ TypeOK
    /\ AbsentRows
    /\ ClaimsIssued
    /\ RunningClaimIsLatest
    /\ LockedRowsPending
    /\ LocksExclusive
    /\ HoldersConsistent
    /\ RowLifecycleValid
    /\ PendingHasBudget
    /\ WinnerIsLatest
    /\ CompleteMeansExecuted

-----------------------------------------------------------------------------
(* Type correctness.                                                       *)

\* What one statement does to a row yields a row.
LEMMA RowOperatorTypes ==
    ASSUME NEW r \in Row, NEW c \in Nat
    PROVE  /\ Claimed(r, c) \in Row
           /\ Completed(r, c) \in Row
           /\ Requeued(r) \in Row
           /\ Retried(r) \in Row
<1>1. Released(r) \in Row
  BY Zenon DEF Row, Released, NoClaim
<1>2. Claimed(r, c) \in Row
  <2>1. r.attempt + 1 \in Nat
    BY DEF Row
  <2> QED
    BY <2>1, Zenon DEF Row, JobState, Claimed
<1>3. Completed(r, c) \in Row
  BY <1>1, Zenon DEF Row, JobState, Completed
<1>4. Requeued(r) \in Row
  BY <1>1, Zenon DEF Row, JobState, Requeued
<1>5. Retried(r) \in Row
  BY <1>1, Zenon DEF Row, JobState, Retried, NoClaim
<1> QED
  BY <1>2, <1>3, <1>4, <1>5, Zenon

\* A submitted row is a row.
LEMMA PendingType ==
    ASSUME NEW l \in AttemptLimits, NEW v \in Versions \cup {AnyVersion}
    PROVE  Pending(l, v) \in Row
  BY AttemptsAssumption, Zenon DEF Pending, Absent, Row, JobState, NoClaim

\* An idle worker is a worker state.
LEMMA IdleType ==
    ASSUME NEW pc \in {"down", "waiting", "ready"}
    PROVE  Idle(pc) \in WorkerState
  BY Zenon DEF Idle, WorkerState, NoClaim

\* Committing a claim yields a row, and a fresh identifier.
LEMMA CommitClaimType ==
    ASSUME TypeOK, NEW w \in Workers, worker[w].job \in Jobs, CommitClaim(w)
    PROVE  /\ job' \in [Jobs -> Row]
           /\ lastClaim' \in [Jobs -> Nat]
           /\ nextClaim' \in Nat \ {0}
<1>1. nextClaim \in Nat /\ nextClaim' \in Nat \ {0}
  BY DEF TypeOK, CommitClaim
<1>2. Claimed(job[worker[w].job], nextClaim) \in Row
  BY <1>1, RowOperatorTypes, Zenon DEF TypeOK
<1>3. job' \in [Jobs -> Row]
  BY <1>2, Zenon DEF TypeOK, CommitClaim
<1>4. lastClaim' \in [Jobs -> Nat]
  BY <1>1, Zenon DEF TypeOK, CommitClaim
<1> QED
  BY <1>1, <1>3, <1>4, Zenon

\* One step keeps every variable in its type.
LEMMA TypeStep ==
    ASSUME IndInv, [Next]_vars
    PROVE  TypeOK'
<1> USE DEF TypeOK
<1>a. TypeOK
  BY Zenon DEF IndInv
<1>b. LockedRowsPending
  BY Zenon DEF IndInv
<1>c. HoldersConsistent
  BY Zenon DEF IndInv
<1>1. ASSUME NEW e \in Engines, StartEngine(e) PROVE TypeOK'
  BY <1>a, <1>1, IdleType, Zenon DEF StartEngine, EngineState, rowVars
<1>2. ASSUME NEW e \in Engines, EngineReady(e) PROVE TypeOK'
  BY <1>a, <1>2, Zenon DEF EngineReady, EngineState, rowVars
<1>3. ASSUME NEW e \in Engines, FenceClaims(e) PROVE TypeOK'
  BY <1>a, <1>3 DEF FenceClaims, EngineState, rowVars
<1>4. ASSUME NEW e \in Engines, StopEngine(e) PROVE TypeOK'
  BY <1>a, <1>4, IdleType DEF StopEngine, EngineState, rowVars
<1>5. ASSUME NEW e \in Engines, DeliverNote(e) PROVE TypeOK'
  BY <1>a, <1>5, IdleType, Zenon DEF DeliverNote, rowVars
<1>6. ASSUME NEW e \in Engines, LoseNote(e) PROVE TypeOK'
  BY <1>a, <1>6, Zenon DEF LoseNote, rowVars
<1>7. ASSUME NEW e \in Engines, NEW m \in inbox[e], Handle(e, m) PROVE TypeOK'
  BY <1>a, <1>7, Zenon DEF Handle, rowVars
<1>8. ASSUME NEW e \in Engines, NEW m \in inbox[e], HandleFails(e, m) PROVE TypeOK'
  BY <1>a, <1>8, Zenon DEF HandleFails, rowVars
<1>9. ASSUME NEW j \in Jobs, NEW l \in AttemptLimits,
             NEW v \in Versions \cup {AnyVersion}, Submit(j, l, v)
      PROVE TypeOK'
  BY <1>a, <1>9, PendingType, Zenon DEF Submit, Listening
<1>10. ASSUME NEW j \in Jobs, RetryDead(j) PROVE TypeOK'
  BY <1>a, <1>10, RowOperatorTypes DEF RetryDead, Listening
<1>11. ASSUME NEW j \in Jobs, LeaseExpires(j) PROVE TypeOK'
  BY <1>a, <1>11 DEF LeaseExpires, Row
<1>12. ASSUME NEW S \in SUBSET Jobs, Recover(S) PROVE TypeOK'
  BY <1>a, <1>12, RowOperatorTypes, Zenon DEF Recover
<1>13. ASSUME NEW w \in Workers, PollWake(w) PROVE TypeOK'
  BY <1>a, <1>13, IdleType, Zenon DEF PollWake, Rest, rowVars
<1>14. ASSUME NEW w \in Workers, Refused(w) PROVE TypeOK'
  BY <1>a, <1>14, IdleType, Zenon DEF Refused, Rest, rowVars
<1>15. ASSUME NEW w \in Workers, NEW j \in Jobs, ClaimSelect(w, j) PROVE TypeOK'
  BY <1>a, <1>15 DEF ClaimSelect, WorkerState, rowVars
<1>16. ASSUME NEW w \in Workers, ClaimNone(w) PROVE TypeOK'
  BY <1>a, <1>16, IdleType, Zenon DEF ClaimNone, Rest, rowVars
<1>17. ASSUME NEW w \in Workers, ClaimCommit(w) PROVE TypeOK'
  <2>1. worker[w].job \in Jobs
    BY <1>b, <1>17, Zenon DEF ClaimCommit, LockedRowsPending
  <2>2. /\ job' \in [Jobs -> Row]
        /\ lastClaim' \in [Jobs -> Nat]
        /\ nextClaim' \in Nat \ {0}
    BY <1>a, <1>17, <2>1, CommitClaimType, Zenon DEF ClaimCommit
  <2>3. worker' \in [Workers -> WorkerState]
    BY <1>a, <1>17 DEF ClaimCommit, WorkerState
  <2> QED
    BY <1>a, <1>17, <2>1, <2>2, <2>3, Zenon DEF ClaimCommit
<1>18. ASSUME NEW w \in Workers, ClaimError(w) PROVE TypeOK'
  BY <1>a, <1>18, IdleType, Zenon DEF ClaimError, Rest, rowVars
<1>19. ASSUME NEW w \in Workers, ClaimAnswerLost(w) PROVE TypeOK'
  <2>1. worker[w].job \in Jobs
    BY <1>b, <1>19, Zenon DEF ClaimAnswerLost, LockedRowsPending
  <2>2. /\ job' \in [Jobs -> Row]
        /\ lastClaim' \in [Jobs -> Nat]
        /\ nextClaim' \in Nat \ {0}
    BY <1>a, <1>19, <2>1, CommitClaimType, Zenon DEF ClaimAnswerLost
  <2>3. worker' \in [Workers -> WorkerState]
    BY <1>a, <1>19, IdleType, Zenon DEF ClaimAnswerLost, Rest
  <2> QED
    BY <1>a, <1>19, <2>1, <2>2, <2>3, Zenon DEF ClaimAnswerLost
<1>20. ASSUME NEW w \in Workers, Send(w) PROVE TypeOK'
  <2>1. worker' \in [Workers -> WorkerState]
    BY <1>a, <1>20 DEF Send, Move, WorkerState
  <2>2. <<worker[w].job, worker[w].claim>> \in Jobs \X Nat
    BY <1>a, <1>c, <1>20, Zenon DEF Send, WorkerState, HoldersConsistent, Holding, At
  <2>3. inbox' \in [Engines -> SUBSET (Jobs \X Nat)]
    BY <1>a, <1>20, <2>2, Zenon DEF Send
  <2> QED
    BY <1>a, <1>20, <2>1, <2>3, Zenon DEF Send, rowVars
<1>21. ASSUME NEW w \in Workers, SendFails(w) PROVE TypeOK'
  BY <1>a, <1>21, Zenon DEF SendFails, Move, WorkerState, rowVars
<1>22. ASSUME NEW w \in Workers, ResponseOk(w) PROVE TypeOK'
  BY <1>a, <1>22, Zenon DEF ResponseOk, Move, WorkerState, rowVars
<1>23. ASSUME NEW w \in Workers, ResponseErr(w) PROVE TypeOK'
  BY <1>a, <1>23, Zenon DEF ResponseErr, Move, WorkerState, rowVars
<1>24. ASSUME NEW w \in Workers, Complete(w) PROVE TypeOK'
  BY <1>a, <1>24, IdleType, RowOperatorTypes, Zenon DEF Complete, Rest, WorkerState
<1>25. ASSUME NEW w \in Workers, Fail(w) PROVE TypeOK'
  BY <1>a, <1>25, IdleType, RowOperatorTypes, Zenon DEF Fail, Rest
<1>26. ASSUME NEW w \in Workers, FinalizeError(w) PROVE TypeOK'
  BY <1>a, <1>26, IdleType, Zenon DEF FinalizeError, Rest, rowVars
<1>27. CASE UNCHANGED vars
  BY <1>a, <1>27, Zenon DEF vars
<1> QED
  BY <1>1, <1>2, <1>3, <1>4, <1>5, <1>6, <1>7, <1>8, <1>9, <1>10, <1>11,
     <1>12, <1>13, <1>14, <1>15, <1>16, <1>17, <1>18, <1>19, <1>20, <1>21,
     <1>22, <1>23, <1>24, <1>25, <1>26, <1>27, Zenon DEF Next

-----------------------------------------------------------------------------
(* The invariant.                                                          *)

\* Steps that leave the rows alone and send workers to rest at most.
LEMMA RestingStep ==
    ASSUME IndInv, TypeOK', UNCHANGED rowVars, effects \subseteq effects',
           \A e \in Engines : inbox'[e] \subseteq inbox[e],
           \A w \in Workers : \/ worker'[w] = worker[w]
                              \/ \E pc \in {"down", "waiting", "ready"} :
                                    worker'[w] = Idle(pc)
    PROVE  IndInv'
<1> USE DEF IndInv, rowVars, At
<1>1. \A w \in Workers : \/ worker'[w] = worker[w]
                         \/ /\ worker'[w].pc \in {"down", "waiting", "ready"}
                            /\ worker'[w].claim = 0
  BY DEF Idle, NoClaim
<1>2. ClaimsIssued'
  BY <1>1 DEF ClaimsIssued, TypeOK
<1>3. RunningClaimIsLatest' /\ AbsentRows'
  BY Zenon DEF RunningClaimIsLatest, AbsentRows
<1>4. LockedRowsPending'
  BY <1>1, Zenon DEF LockedRowsPending
<1>5. LocksExclusive'
  BY <1>1, Zenon DEF LocksExclusive
<1>6. HoldersConsistent'
  BY <1>1, Zenon DEF HoldersConsistent, Holding
<1>7. RowLifecycleValid' /\ PendingHasBudget' /\ WinnerIsLatest'
  BY Zenon DEF RowLifecycleValid, PendingHasBudget, WinnerIsLatest
<1>8. CompleteMeansExecuted'
  BY Zenon DEF CompleteMeansExecuted
<1> QED
  BY <1>2, <1>3, <1>4, <1>5, <1>6, <1>7, <1>8, Zenon

\* A worker past its claim goes from one await point to the next.
LEMMA DispatchStep ==
    ASSUME IndInv, TypeOK', UNCHANGED rowVars, effects' = effects,
           NEW w \in Workers, NEW pc \in Holding, worker[w].pc \in Holding,
           worker' = [worker EXCEPT ![w].pc = pc],
           pc = "completing" => Answered(w),
           \A e \in Engines : \A m \in inbox'[e] :
              m \in inbox[e] \/ m = <<worker[w].job, worker[w].claim>>
    PROVE  IndInv'
<1> USE DEF IndInv, rowVars, At
<1>1. /\ \A v \in Workers : v # w => worker'[v] = worker[v]
      /\ worker'[w].pc = pc
      /\ worker'[w].job = worker[w].job
      /\ worker'[w].claim = worker[w].claim
  BY DEF TypeOK, WorkerState
<1>2. worker[w].job \in Jobs /\ worker[w].claim \in Nat \ {0}
  BY Zenon DEF HoldersConsistent, TypeOK, WorkerState, NoClaim
<1>3. ClaimsIssued'
  <2>1. \A e \in Engines : \A m \in inbox'[e] : 0 < m[2] /\ m[2] < nextClaim
    BY <1>2 DEF ClaimsIssued
  <2> QED
    BY <1>1, <2>1, Zenon DEF ClaimsIssued
<1>4. RunningClaimIsLatest' /\ AbsentRows'
  BY Zenon DEF RunningClaimIsLatest, AbsentRows
<1>5. LockedRowsPending' /\ LocksExclusive'
  BY <1>1 DEF LockedRowsPending, LocksExclusive, Holding
<1>6. HoldersConsistent'
  BY <1>1, <1>2 DEF HoldersConsistent, Holding, Answered, NoClaim
<1>7. RowLifecycleValid' /\ PendingHasBudget' /\ WinnerIsLatest'
  BY Zenon DEF RowLifecycleValid, PendingHasBudget, WinnerIsLatest
<1>8. CompleteMeansExecuted'
  BY Zenon DEF CompleteMeansExecuted
<1> QED
  BY <1>3, <1>4, <1>5, <1>6, <1>7, <1>8, Zenon

\* The part of the invariant that is about row r of job j.
RowGood(r, j) ==
    /\ r.attempt <= r.max
    /\ (r.status = "running") <=> (r.claim # NoClaim)
    /\ (r.status = "running") <=> (r.lease # "none")
    /\ (r.status = "complete") <=> (r.result # NoClaim)
    /\ r.status = "dead" => r.attempt = r.max /\ r.error = "recorded"
    /\ r.status \in {"running", "complete", "dead"} => r.attempt > 0
    /\ r.status = "pending" => r.attempt < r.max
    /\ r.status = "complete" => r.result = lastClaim[j] /\ <<j, r.result>> \in effects
    /\ r.status = "running" => r.claim = lastClaim[j]
    /\ r.status = "absent" => r = Absent

(* Every row of the jobs table is a good row.                              *)
LEMMA RowsGood == ASSUME IndInv PROVE \A j \in Jobs : RowGood(job[j], j)
  BY Zenon DEF IndInv, RowGood, RowLifecycleValid, PendingHasBudget, WinnerIsLatest,
         CompleteMeansExecuted, RunningClaimIsLatest, AbsentRows

\* Steps that rewrite rows no claim statement has locked, grant no claim and
\* send workers to rest at most.
LEMMA RowStep ==
    ASSUME IndInv, TypeOK', UNCHANGED <<lastClaim, nextClaim, effects, inbox>>,
           \A w \in Workers : \/ worker'[w] = worker[w]
                              \/ worker'[w] = Idle("ready"),
           \A j \in Jobs : \/ job'[j] = job[j]
                           \/ job[j].status # "pending" /\ RowGood(job'[j], j)
    PROVE  IndInv'
<1> USE DEF IndInv, At
<1>1. \A w \in Workers : \/ worker'[w] = worker[w]
                         \/ worker'[w].pc = "ready" /\ worker'[w].claim = 0
  BY DEF Idle, NoClaim
<1>2. \A j \in Jobs : RowGood(job'[j], j)
  BY RowsGood, Zenon
<1>3. ClaimsIssued'
  BY <1>1 DEF ClaimsIssued, TypeOK
<1>4. RunningClaimIsLatest' /\ AbsentRows'
  BY <1>2, Zenon DEF RunningClaimIsLatest, AbsentRows, RowGood
<1>5. LockedRowsPending'
  BY <1>1, Zenon DEF LockedRowsPending
<1>6. LocksExclusive'
  BY <1>1, Zenon DEF LocksExclusive
<1>7. HoldersConsistent'
  BY <1>1, Zenon DEF HoldersConsistent, Holding
<1>8. RowLifecycleValid' /\ PendingHasBudget'
  BY <1>2, Zenon DEF RowLifecycleValid, PendingHasBudget, RowGood
<1>9. WinnerIsLatest' /\ CompleteMeansExecuted'
  BY <1>2, Zenon DEF WinnerIsLatest, CompleteMeansExecuted, RowGood
<1> QED
  BY <1>3, <1>4, <1>5, <1>6, <1>7, <1>8, <1>9, Zenon

\* A claim is granted: the locked row becomes the claimant's, or nobody's.
LEMMA ClaimStep ==
    ASSUME IndInv, TypeOK', NEW w \in Workers, At(w, "locked"), CommitClaim(w),
           effects' = effects, inbox' = inbox,
           \A v \in Workers : v # w => worker'[v] = worker[v],
           \/ worker'[w] = Idle("waiting")
           \/ /\ worker'[w].pc = "dispatching"
              /\ worker'[w].job = worker[w].job
              /\ worker'[w].claim = nextClaim
    PROVE  IndInv'
<1> DEFINE i == worker[w].job
<1> USE DEF IndInv, At
<1>1. i \in Jobs /\ job[i].status = "pending"
  BY Zenon DEF LockedRowsPending
<1>2. job[i] \in Row /\ job[i].attempt < job[i].max /\ job[i].result = 0
  BY <1>1, Zenon DEF TypeOK, PendingHasBudget, RowLifecycleValid, NoClaim
<1>3. /\ job'[i].status = "running" /\ job'[i].claim = nextClaim
      /\ job'[i].lease = "live" /\ job'[i].attempt = job[i].attempt + 1
      /\ job'[i].max = job[i].max /\ job'[i].result = 0
  BY <1>1, <1>2 DEF CommitClaim, Claimed, TypeOK, Row
<1>4. \A j \in Jobs : j # i => job'[j] = job[j] /\ lastClaim'[j] = lastClaim[j]
  BY <1>1, Zenon DEF CommitClaim, TypeOK
<1>5. lastClaim'[i] = nextClaim /\ nextClaim' = nextClaim + 1 /\ nextClaim \in Nat \ {0}
  BY <1>1, Zenon DEF CommitClaim, TypeOK
<1>6. \A v \in Workers : \/ v # w /\ worker'[v] = worker[v]
                         \/ v = w /\ worker'[v].pc = "waiting" /\ worker'[v].claim = 0
                         \/ /\ v = w /\ worker'[v].pc = "dispatching"
                            /\ worker'[v].job = i /\ worker'[v].claim = nextClaim
  BY DEF Idle, NoClaim
<1>7. ClaimsIssued'
  <2>1. \A j \in Jobs : lastClaim'[j] < nextClaim'
    BY <1>4, <1>5 DEF ClaimsIssued, TypeOK
  <2>2. \A v \in Workers : worker'[v].claim < nextClaim'
    BY <1>5, <1>6 DEF ClaimsIssued, TypeOK, WorkerState
  <2>3. \A e \in Engines : \A m \in inbox'[e] : 0 < m[2] /\ m[2] < nextClaim'
    BY <1>5 DEF ClaimsIssued, TypeOK
  <2> QED
    BY <2>1, <2>2, <2>3, Zenon DEF ClaimsIssued
<1>8. RunningClaimIsLatest' /\ AbsentRows'
  BY <1>3, <1>4, <1>5 DEF RunningClaimIsLatest, AbsentRows, NoClaim
<1>9. LockedRowsPending'
  BY <1>1, <1>4, <1>6 DEF LockedRowsPending, LocksExclusive
<1>10. LocksExclusive'
  BY <1>6 DEF LocksExclusive
<1>11. HoldersConsistent'
  BY <1>1, <1>5, <1>6, Zenon DEF HoldersConsistent, Holding, NoClaim
<1>12. RowLifecycleValid' /\ PendingHasBudget'
  <2>1. \A j \in Jobs : j # i => job'[j] = job[j]
    BY <1>4, Zenon
  <2>2. job[i].attempt + 1 <= job[i].max /\ job[i].attempt + 1 > 0
    BY <1>2 DEF Row
  <2>3. RowLifecycleValid'
    BY <1>3, <1>5, <2>1, <2>2 DEF RowLifecycleValid, NoClaim
  <2> QED
    BY <1>3, <2>1, <2>3, Zenon DEF PendingHasBudget
<1>13. WinnerIsLatest' /\ CompleteMeansExecuted'
  BY <1>3, <1>4 DEF WinnerIsLatest, CompleteMeansExecuted
<1> QED
  BY <1>7, <1>8, <1>9, <1>10, <1>11, <1>12, <1>13, Zenon

\* A running row that is requeued is still a good row.
LEMMA RequeuedGood ==
    ASSUME NEW j \in Jobs, NEW r \in Row, RowGood(r, j), r.status = "running"
    PROVE  RowGood(Requeued(r), j)
  BY DEF RowGood, Requeued, Released, Row, NoClaim

\* A dead row that is retried is a good row: its budget is not zero.
LEMMA RetriedGood ==
    ASSUME NEW j \in Jobs, NEW r \in Row, RowGood(r, j), r.status = "dead"
    PROVE  RowGood(Retried(r), j)
<1>1. r.max > 0
  BY Zenon DEF RowGood, Row
<1>2. /\ Retried(r).status = "pending" /\ Retried(r).attempt = 0
      /\ Retried(r).max = r.max /\ Retried(r).claim = NoClaim
      /\ Retried(r).lease = "none" /\ Retried(r).result = NoClaim
  BY Zenon DEF Retried, Released, Row
<1> QED
  BY <1>1, <1>2 DEF RowGood, Row, NoClaim

\* A running row completed under its own claim is a good row.
LEMMA CompletedGood ==
    ASSUME NEW j \in Jobs, NEW r \in Row, RowGood(r, j), r.status = "running",
           <<j, r.claim>> \in effects
    PROVE  RowGood(Completed(r, r.claim), j)
<1> DEFINE d == Completed(r, r.claim)
<1>1. /\ d.status = "complete" /\ d.attempt = r.attempt
      /\ d.max = r.max /\ d.claim = NoClaim
      /\ d.lease = "none" /\ d.result = r.claim
  BY Zenon DEF Completed, Released, Row
<1> QED
  BY <1>1, Zenon DEF RowGood, Row, NoClaim

\* A claim statement locks a row that nobody else has locked.
LEMMA SelectStep ==
    ASSUME IndInv, TypeOK', NEW w \in Workers, NEW j \in Jobs, ClaimSelect(w, j)
    PROVE  IndInv'
<1> USE DEF IndInv, rowVars, At
<1>1. /\ \A v \in Workers : v # w => worker'[v] = worker[v]
      /\ worker'[w].pc = "locked"
      /\ worker'[w].job = j
      /\ worker'[w].claim = worker[w].claim
  BY DEF ClaimSelect, TypeOK, WorkerState
<1>2. job[j].status = "pending" /\ ~RowLocked(j)
  BY Zenon DEF ClaimSelect, Claimable
<1>3. UNCHANGED <<job, nextClaim, lastClaim, effects, inbox>>
  BY Zenon DEF ClaimSelect
<1>4. ClaimsIssued'
  BY <1>1, <1>3, Zenon DEF ClaimsIssued
<1>5. RunningClaimIsLatest' /\ AbsentRows'
  BY <1>3, Zenon DEF RunningClaimIsLatest, AbsentRows
<1>6. LockedRowsPending'
  BY <1>1, <1>2, <1>3, Zenon DEF LockedRowsPending
<1>7. LocksExclusive'
  BY <1>1, <1>2 DEF LocksExclusive, RowLocked
<1>8. HoldersConsistent'
  BY <1>1, <1>3, Zenon DEF HoldersConsistent, Holding
<1>9. RowLifecycleValid' /\ PendingHasBudget' /\ WinnerIsLatest' /\ CompleteMeansExecuted'
  BY <1>3, Zenon DEF RowLifecycleValid, PendingHasBudget, WinnerIsLatest, CompleteMeansExecuted
<1> QED
  BY <1>4, <1>5, <1>6, <1>7, <1>8, <1>9, Zenon


\* One step of the queue preserves the invariant.
LEMMA InvStep ==
    ASSUME IndInv, [Next]_vars
    PROVE  IndInv'
<1>a. TypeOK /\ TypeOK'
  BY TypeStep, Zenon DEF IndInv
<1>b. \A j \in Jobs : RowGood(job[j], j) /\ job[j] \in Row
  BY <1>a, RowsGood, Zenon DEF TypeOK
<1>1. ASSUME NEW e \in Engines, StartEngine(e) PROVE IndInv'
  BY <1>a, <1>1, RestingStep, Zenon DEF StartEngine, TypeOK
<1>2. ASSUME NEW e \in Engines, EngineReady(e) PROVE IndInv'
  BY <1>a, <1>2, RestingStep, Zenon DEF EngineReady, TypeOK
<1>3. ASSUME NEW e \in Engines, FenceClaims(e) PROVE IndInv'
  BY <1>a, <1>3, RestingStep, Zenon DEF FenceClaims, TypeOK
<1>4. ASSUME NEW e \in Engines, StopEngine(e) PROVE IndInv'
  BY <1>a, <1>4, RestingStep, Zenon DEF StopEngine, TypeOK
<1>5. ASSUME NEW e \in Engines, DeliverNote(e) PROVE IndInv'
  BY <1>a, <1>5, RestingStep, Zenon DEF DeliverNote, TypeOK
<1>6. ASSUME NEW e \in Engines, LoseNote(e) PROVE IndInv'
  BY <1>a, <1>6, RestingStep, Zenon DEF LoseNote, TypeOK
<1>7. ASSUME NEW e \in Engines, NEW m \in inbox[e], Handle(e, m) PROVE IndInv'
  BY <1>a, <1>7, RestingStep, Zenon DEF Handle, TypeOK
<1>8. ASSUME NEW e \in Engines, NEW m \in inbox[e], HandleFails(e, m) PROVE IndInv'
  BY <1>a, <1>8, RestingStep, Zenon DEF HandleFails, TypeOK
<1>9. ASSUME NEW j \in Jobs, NEW l \in AttemptLimits,
             NEW v \in Versions \cup {AnyVersion}, Submit(j, l, v)
      PROVE IndInv'
  <2>1. RowGood(Pending(l, v), j)
    BY AttemptsAssumption DEF RowGood, Pending, Absent, NoClaim
  <2> QED
    BY <1>a, <1>9, <2>1, RowStep, Zenon DEF Submit, TypeOK
<1>10. ASSUME NEW j \in Jobs, RetryDead(j) PROVE IndInv'
  <2>1. RowGood(Retried(job[j]), j)
    BY <1>b, <1>10, RetriedGood, Zenon DEF RetryDead, Retriable
  <2> QED
    BY <1>a, <1>10, <2>1, RowStep, Zenon DEF RetryDead, Retriable, TypeOK
<1>11. ASSUME NEW j \in Jobs, LeaseExpires(j) PROVE IndInv'
  <2>1. job'[j] = [job[j] EXCEPT !.lease = "expired"]
    BY <1>a, <1>11, Zenon DEF LeaseExpires, TypeOK
  <2>2. RowGood(job'[j], j) /\ job[j].status # "pending"
    BY <1>b, <2>1, <1>11 DEF LeaseExpires, RowGood, Row
  <2> QED
    BY <1>a, <1>11, <2>2, RowStep, Zenon DEF LeaseExpires, TypeOK
<1>12. ASSUME NEW S \in SUBSET Jobs, Recover(S) PROVE IndInv'
  <2>1. \A j \in S : RowGood(Requeued(job[j]), j) /\ job[j].status # "pending"
    BY <1>b, <1>12, RequeuedGood, Zenon DEF Recover, Stale
  <2> QED
    BY <1>a, <1>12, <2>1, RowStep, Zenon DEF Recover, TypeOK
<1>13. ASSUME NEW w \in Workers, PollWake(w) PROVE IndInv'
  BY <1>a, <1>13, RestingStep, Zenon DEF PollWake, Rest, TypeOK
<1>14. ASSUME NEW w \in Workers, Refused(w) PROVE IndInv'
  BY <1>a, <1>14, RestingStep, Zenon DEF Refused, Rest, TypeOK
<1>15. ASSUME NEW w \in Workers, ClaimNone(w) PROVE IndInv'
  BY <1>a, <1>15, RestingStep, Zenon DEF ClaimNone, Rest, TypeOK
<1>16. ASSUME NEW w \in Workers, ClaimError(w) PROVE IndInv'
  BY <1>a, <1>16, RestingStep, Zenon DEF ClaimError, Rest, TypeOK
<1>17. ASSUME NEW w \in Workers, FinalizeError(w) PROVE IndInv'
  BY <1>a, <1>17, RestingStep, Zenon DEF FinalizeError, Rest, TypeOK
<1>18. ASSUME NEW w \in Workers, NEW j \in Jobs, ClaimSelect(w, j) PROVE IndInv'
  BY <1>a, <1>18, SelectStep, Zenon
<1>19. ASSUME NEW w \in Workers, ClaimCommit(w) PROVE IndInv'
  <2>1. /\ \A v \in Workers : v # w => worker'[v] = worker[v]
        /\ worker'[w].pc = "dispatching"
        /\ worker'[w].job = worker[w].job
        /\ worker'[w].claim = nextClaim
    BY <1>a, <1>19 DEF ClaimCommit, TypeOK, WorkerState
  <2> QED
    BY <1>a, <1>19, <2>1, ClaimStep, Zenon DEF ClaimCommit
<1>20. ASSUME NEW w \in Workers, ClaimAnswerLost(w) PROVE IndInv'
  BY <1>a, <1>20, ClaimStep, Zenon DEF ClaimAnswerLost, Rest, TypeOK
<1>21. ASSUME NEW w \in Workers, Send(w) PROVE IndInv'
  <2>1. \A e \in Engines : \A m \in inbox'[e] :
           m \in inbox[e] \/ m = <<worker[w].job, worker[w].claim>>
    BY <1>a, <1>21, Zenon DEF Send, TypeOK
  <2> QED
    BY <1>a, <1>21, <2>1, DispatchStep, Zenon DEF Send, Move, At, Holding
<1>22. ASSUME NEW w \in Workers, SendFails(w) PROVE IndInv'
  BY <1>a, <1>22, DispatchStep, Zenon DEF SendFails, Move, At, Holding
<1>23. ASSUME NEW w \in Workers, ResponseOk(w) PROVE IndInv'
  BY <1>a, <1>23, DispatchStep, Zenon DEF ResponseOk, Move, At, Holding
<1>24. ASSUME NEW w \in Workers, ResponseErr(w) PROVE IndInv'
  BY <1>a, <1>24, DispatchStep, Zenon DEF ResponseErr, Move, At, Holding
<1>25. ASSUME NEW w \in Workers, Complete(w) PROVE IndInv'
  <2>1. worker[w].job \in Jobs /\ worker[w].claim \in Nat \ {0} /\ Answered(w)
    BY <1>a, <1>25, Zenon DEF IndInv, HoldersConsistent, Holding, Complete, At, Answered,
                   TypeOK, WorkerState, NoClaim
  <2>2. Holds(w) => RowGood(Completed(job[worker[w].job], worker[w].claim), worker[w].job)
    BY <1>b, <2>1, CompletedGood, Zenon DEF Holds, Answered
  <2> QED
    BY <1>a, <1>25, <2>1, <2>2, RowStep, Zenon DEF Complete, Holds, Rest, TypeOK
<1>26. ASSUME NEW w \in Workers, Fail(w) PROVE IndInv'
  <2>1. worker[w].job \in Jobs
    BY <1>26, Zenon DEF IndInv, HoldersConsistent, Holding, Fail, At
  <2>2. Holds(w) => RowGood(Requeued(job[worker[w].job]), worker[w].job)
    BY <1>b, <2>1, RequeuedGood, Zenon DEF Holds
  <2> QED
    BY <1>a, <1>26, <2>1, <2>2, RowStep, Zenon DEF Fail, Holds, Rest, TypeOK
<1>27. CASE UNCHANGED vars
  BY <1>a, <1>27, RestingStep, Zenon DEF vars, rowVars
<1> QED
  BY <1>1, <1>2, <1>3, <1>4, <1>5, <1>6, <1>7, <1>8, <1>9, <1>10, <1>11,
     <1>12, <1>13, <1>14, <1>15, <1>16, <1>17, <1>18, <1>19, <1>20, <1>21,
     <1>22, <1>23, <1>24, <1>25, <1>26, <1>27, Zenon DEF Next

\* The invariant holds in every reachable state.
LEMMA Invariance == Spec => []IndInv
<1>1. Init => IndInv
  <2> SUFFICES ASSUME Init PROVE IndInv
    BY Zenon
  <2>1. TypeOK
    BY IdleType DEF Init, TypeOK, Absent, Row, NoClaim, EngineState
  <2>2. ClaimsIssued /\ LockedRowsPending /\ LocksExclusive /\ HoldersConsistent
    BY DEF Init, ClaimsIssued, LockedRowsPending, LocksExclusive,
           HoldersConsistent, Holding, At, Idle, NoClaim
  <2>3. /\ RunningClaimIsLatest /\ RowLifecycleValid /\ PendingHasBudget
        /\ WinnerIsLatest /\ CompleteMeansExecuted /\ AbsentRows
    BY DEF Init, RunningClaimIsLatest, AbsentRows, RowLifecycleValid, PendingHasBudget,
           WinnerIsLatest, CompleteMeansExecuted, Absent, NoClaim
  <2> QED
    BY <2>1, <2>2, <2>3, Zenon DEF IndInv
<1>2. IndInv /\ [Next]_vars => IndInv'
  BY InvStep, Zenon
<1> QED
  BY <1>1, <1>2, PTL DEF Spec

\* Every variable keeps its type: no step of a worker, an engine, an
\* administrator or the recovery scan leaves the tables of the schema.
THEOREM TypeCorrect == Spec => []TypeOK
<1>1. IndInv => TypeOK
  BY Zenon DEF IndInv
<1> QED
  BY <1>1, Invariance, PTL

\* complete_job's fence: the result kept is that of the claim granted last,
\* and its handler did succeed, for any number of jobs, workers and engines.
THEOREM FencedCompletion == Spec => [](WinnerIsLatest /\ CompleteMeansExecuted)
<1>1. IndInv => WinnerIsLatest /\ CompleteMeansExecuted
  BY Zenon DEF IndInv
<1> QED
  BY <1>1, Invariance, PTL

\* No statement of the queue is ever refused by a CHECK constraint of the
\* jobs table, and a queued job always has an attempt left.
THEOREM ConstraintsHold == Spec => [](RowLifecycleValid /\ PendingHasBudget)
<1>1. IndInv => RowLifecycleValid /\ PendingHasBudget
  BY Zenon DEF IndInv
<1> QED
  BY <1>1, Invariance, PTL

-----------------------------------------------------------------------------
(* The queue implements the ledger.                                        *)

\* Steps that change neither stages nor budgets, attempts, claims, results
\* and effects are invisible to the ledger.
LEMMA LedgerStutter ==
    ASSUME UNCHANGED <<lastClaim, nextClaim, effects>>,
           \A j \in Jobs : /\ StageOf(job'[j].status) = StageOf(job[j].status)
                           /\ job'[j].max = job[j].max
                           /\ job'[j].attempt = job[j].attempt
                           /\ job'[j].result = job[j].result
    PROVE  UNCHANGED Ledger!vars
  BY Zenon DEF Ledger!vars

\* Granting a claim delivers the job.
LEMMA ClaimDelivers ==
    ASSUME IndInv, NEW w \in Workers, At(w, "locked"), CommitClaim(w),
           effects' = effects
    PROVE  Ledger!Next
<1> USE DEF IndInv
<1>1. PICK i \in Jobs : i = worker[w].job /\ job[i].status = "pending"
  BY Zenon DEF LockedRowsPending
<1>2. job[i] \in Row /\ job[i].attempt < job[i].max
  BY <1>1, Zenon DEF TypeOK, PendingHasBudget
<1>3. /\ job'[i].status = "running" /\ job'[i].attempt = job[i].attempt + 1
      /\ job'[i].max = job[i].max /\ job'[i].result = job[i].result
  BY <1>1, <1>2, Zenon DEF CommitClaim, Claimed, TypeOK, Row
<1>4. \A j \in Jobs : j # i => job'[j] = job[j]
  BY <1>1, Zenon DEF CommitClaim, TypeOK
<1>5. lastClaim' = [lastClaim EXCEPT ![i] = nextClaim] /\ nextClaim' = nextClaim + 1
  BY <1>1, Zenon DEF CommitClaim
<1>6. Ledger!Deliver(i)
  BY <1>1, <1>2, <1>3, <1>4, <1>5, Zenon DEF Ledger!Deliver, StageOf
<1> QED
  BY <1>6, Zenon DEF Ledger!Next

\* Requeuing rewrites only the status, the claim, the lease and the error.
LEMMA RequeuedFields ==
    ASSUME NEW r \in Row
    PROVE  /\ Requeued(r).max = r.max
           /\ Requeued(r).attempt = r.attempt
           /\ Requeued(r).result = r.result
           /\ Requeued(r).status = IF r.attempt < r.max THEN "pending" ELSE "dead"
  BY Zenon DEF Requeued, Released, Row

\* Requeuing a set of running rows buries those whose budget is spent.
LEMMA RequeueBuries ==
    ASSUME IndInv, NEW S \in SUBSET Jobs, \A j \in S : job[j].status = "running",
           UNCHANGED <<lastClaim, nextClaim, effects>>,
           job' = [j \in Jobs |-> IF j \in S THEN Requeued(job[j]) ELSE job[j]]
    PROVE  Ledger!Next \/ UNCHANGED Ledger!vars
<1> DEFINE D == {j \in S : ~(job[j].attempt < job[j].max)}
<1>1. \A j \in Jobs : /\ job[j] \in Row
                      /\ job[j].attempt <= job[j].max
                      /\ job'[j].max = job[j].max
                      /\ job'[j].attempt = job[j].attempt
                      /\ job'[j].result = job[j].result
  BY RequeuedFields, Zenon DEF IndInv, TypeOK, RowLifecycleValid
<1>2. \A j \in Jobs : StageOf(job'[j].status) =
                        IF j \in D THEN "dead" ELSE StageOf(job[j].status)
  BY <1>1, RequeuedFields, Zenon DEF StageOf
<1>3. CASE D = {}
  BY <1>1, <1>2, <1>3, LedgerStutter, Zenon
<1>4. CASE D # {}
  <2>1. \A j \in D : job[j].attempt = job[j].max
    BY <1>1 DEF Row
  <2>2. Ledger!Bury(D)
    BY <1>1, <1>2, <1>4, <2>1, Zenon DEF Ledger!Bury, StageOf
  <2> QED
    BY <2>2, Zenon DEF Ledger!Next
<1> QED
  BY <1>3, <1>4, Zenon

\* One step of the queue is a step of the ledger or invisible to it.
LEMMA LedgerStep ==
    ASSUME IndInv, [Next]_vars
    PROVE  Ledger!Next \/ UNCHANGED Ledger!vars
<1>a. TypeOK
  BY Zenon DEF IndInv
<1>1. ASSUME NEW e \in Engines, StartEngine(e)
      PROVE Ledger!Next \/ UNCHANGED Ledger!vars
  BY <1>1, LedgerStutter, Zenon DEF StartEngine, rowVars
<1>2. ASSUME NEW e \in Engines, EngineReady(e)
      PROVE Ledger!Next \/ UNCHANGED Ledger!vars
  BY <1>2, LedgerStutter, Zenon DEF EngineReady, rowVars
<1>3. ASSUME NEW e \in Engines, FenceClaims(e)
      PROVE Ledger!Next \/ UNCHANGED Ledger!vars
  BY <1>3, LedgerStutter, Zenon DEF FenceClaims, rowVars
<1>4. ASSUME NEW e \in Engines, StopEngine(e)
      PROVE Ledger!Next \/ UNCHANGED Ledger!vars
  BY <1>4, LedgerStutter, Zenon DEF StopEngine, rowVars
<1>5. ASSUME NEW e \in Engines, DeliverNote(e)
      PROVE Ledger!Next \/ UNCHANGED Ledger!vars
  BY <1>5, LedgerStutter, Zenon DEF DeliverNote, rowVars
<1>6. ASSUME NEW e \in Engines, LoseNote(e)
      PROVE Ledger!Next \/ UNCHANGED Ledger!vars
  BY <1>6, LedgerStutter, Zenon DEF LoseNote, rowVars
<1>7. ASSUME NEW e \in Engines, NEW m \in inbox[e], Handle(e, m)
      PROVE Ledger!Next \/ UNCHANGED Ledger!vars
  <2>1. m \in Jobs \X Nat /\ 0 < m[2] /\ m[2] < nextClaim /\ nextClaim \in Nat
    BY <1>a, Zenon DEF IndInv, TypeOK, ClaimsIssued
  <2>2. m[1] \in Jobs /\ m[2] \in 1..(nextClaim - 1) /\ m = <<m[1], m[2]>>
    BY <2>1
  <2>3. Ledger!Execute(m[1], m[2])
    BY <1>7, <2>2, Zenon DEF Handle, rowVars, Ledger!Execute
  <2> QED
    BY <2>2, <2>3, Zenon DEF Ledger!Next
<1>8. ASSUME NEW e \in Engines, NEW m \in inbox[e], HandleFails(e, m)
      PROVE Ledger!Next \/ UNCHANGED Ledger!vars
  BY <1>8, LedgerStutter, Zenon DEF HandleFails, rowVars
<1>9. ASSUME NEW j \in Jobs, NEW l \in AttemptLimits,
             NEW v \in Versions \cup {AnyVersion}, Submit(j, l, v)
      PROVE Ledger!Next \/ UNCHANGED Ledger!vars
  <2>0. job[j] = Absent
    BY <1>9, Zenon DEF Submit, IndInv, AbsentRows
  <2>1. /\ job'[j].status = "pending" /\ job'[j].max = l
        /\ job'[j].attempt = job[j].attempt /\ job'[j].result = job[j].result
    BY <1>a, <1>9, <2>0, Zenon DEF Submit, Pending, Absent, TypeOK
  <2>2. \A k \in Jobs : k # j => job'[k] = job[k]
    BY <1>a, <1>9, Zenon DEF Submit, TypeOK
  <2>3. UNCHANGED <<lastClaim, nextClaim, effects>> /\ job[j].status = "absent"
    BY <1>9, Zenon DEF Submit
  <2>4. Ledger!Open(j, l)
    BY <2>1, <2>2, <2>3, Zenon DEF StageOf, Ledger!Open
  <2> QED
    BY <2>4, Zenon DEF Ledger!Next
<1>10. ASSUME NEW j \in Jobs, RetryDead(j)
      PROVE Ledger!Next \/ UNCHANGED Ledger!vars
  <2>1. /\ job'[j].status = "pending" /\ job'[j].attempt = 0
        /\ job'[j].max = job[j].max /\ job'[j].result = job[j].result
    BY <1>a, <1>10 DEF RetryDead, Retriable, Retried, Released, TypeOK, Row, IndInv,
                   RowLifecycleValid, NoClaim
  <2>2. \A k \in Jobs : k # j => job'[k] = job[k]
    BY <1>a, <1>10, Zenon DEF RetryDead, TypeOK
  <2>3. UNCHANGED <<lastClaim, nextClaim, effects>> /\ job[j].status = "dead"
    BY <1>10, Zenon DEF RetryDead, Retriable
  <2>4. Ledger!Reopen(j)
    BY <2>1, <2>2, <2>3, Zenon DEF StageOf, Ledger!Reopen
  <2> QED
    BY <2>4, Zenon DEF Ledger!Next
<1>11. ASSUME NEW j \in Jobs, LeaseExpires(j)
      PROVE Ledger!Next \/ UNCHANGED Ledger!vars
  BY <1>a, <1>11, LedgerStutter, Zenon DEF LeaseExpires, TypeOK, Row
<1>12. ASSUME NEW S \in SUBSET Jobs, Recover(S)
      PROVE Ledger!Next \/ UNCHANGED Ledger!vars
  BY <1>12, RequeueBuries, Zenon DEF Recover, Stale
<1>13. ASSUME NEW w \in Workers, PollWake(w)
      PROVE Ledger!Next \/ UNCHANGED Ledger!vars
  BY <1>13, LedgerStutter, Zenon DEF PollWake, rowVars
<1>14. ASSUME NEW w \in Workers, Refused(w)
      PROVE Ledger!Next \/ UNCHANGED Ledger!vars
  BY <1>14, LedgerStutter, Zenon DEF Refused, rowVars
<1>15. ASSUME NEW w \in Workers, ClaimNone(w)
      PROVE Ledger!Next \/ UNCHANGED Ledger!vars
  BY <1>15, LedgerStutter, Zenon DEF ClaimNone, rowVars
<1>16. ASSUME NEW w \in Workers, ClaimError(w)
      PROVE Ledger!Next \/ UNCHANGED Ledger!vars
  BY <1>16, LedgerStutter, Zenon DEF ClaimError, rowVars
<1>17. ASSUME NEW w \in Workers, FinalizeError(w)
      PROVE Ledger!Next \/ UNCHANGED Ledger!vars
  BY <1>17, LedgerStutter, Zenon DEF FinalizeError, rowVars
<1>18. ASSUME NEW w \in Workers, Send(w)
      PROVE Ledger!Next \/ UNCHANGED Ledger!vars
  BY <1>18, LedgerStutter, Zenon DEF Send, rowVars
<1>19. ASSUME NEW w \in Workers, SendFails(w)
      PROVE Ledger!Next \/ UNCHANGED Ledger!vars
  BY <1>19, LedgerStutter, Zenon DEF SendFails, rowVars
<1>20. ASSUME NEW w \in Workers, ResponseOk(w)
      PROVE Ledger!Next \/ UNCHANGED Ledger!vars
  BY <1>20, LedgerStutter, Zenon DEF ResponseOk, rowVars
<1>21. ASSUME NEW w \in Workers, ResponseErr(w)
      PROVE Ledger!Next \/ UNCHANGED Ledger!vars
  BY <1>21, LedgerStutter, Zenon DEF ResponseErr, rowVars
<1>22. ASSUME NEW w \in Workers, NEW j \in Jobs, ClaimSelect(w, j)
      PROVE Ledger!Next \/ UNCHANGED Ledger!vars
  BY <1>22, LedgerStutter, Zenon DEF ClaimSelect, rowVars
<1>23. ASSUME NEW w \in Workers, ClaimCommit(w)
      PROVE Ledger!Next \/ UNCHANGED Ledger!vars
  BY <1>23, ClaimDelivers, Zenon DEF ClaimCommit
<1>24. ASSUME NEW w \in Workers, ClaimAnswerLost(w)
      PROVE Ledger!Next \/ UNCHANGED Ledger!vars
  BY <1>24, ClaimDelivers, Zenon DEF ClaimAnswerLost
<1>25. ASSUME NEW w \in Workers, Complete(w)
      PROVE Ledger!Next \/ UNCHANGED Ledger!vars
  <2>1. CASE ~Holds(w)
    BY <1>25, <2>1, LedgerStutter, Zenon DEF Complete
  <2>2. CASE Holds(w)
    <3>1. PICK i \in Jobs : i = worker[w].job /\ <<i, worker[w].claim>> \in effects
      BY <1>25, Zenon DEF IndInv, HoldersConsistent, Holding, Complete, At
    <3>2. worker[w].claim = lastClaim[i] /\ job[i].status = "running" /\ job[i] \in Row
      BY <1>a, <2>2, <3>1, Zenon DEF Holds, IndInv, RunningClaimIsLatest, TypeOK
    <3>3. /\ job'[i].status = "complete" /\ job'[i].result = worker[w].claim
          /\ job'[i].max = job[i].max /\ job'[i].attempt = job[i].attempt
      BY <1>a, <1>25, <2>2, <3>1, <3>2, Zenon DEF Complete, Completed, Released, TypeOK, Row
    <3>4. \A k \in Jobs : k # i => job'[k] = job[k]
      BY <1>a, <1>25, <2>2, <3>1, Zenon DEF Complete, TypeOK
    <3>5. UNCHANGED <<lastClaim, nextClaim, effects>>
      BY <1>25, Zenon DEF Complete
    <3>6. Ledger!Finish(i)
      BY <3>1, <3>2, <3>3, <3>4, <3>5, Zenon DEF StageOf, Ledger!Finish
    <3> QED
      BY <3>6, Zenon DEF Ledger!Next
  <2> QED
    BY <2>1, <2>2, Zenon
<1>26. ASSUME NEW w \in Workers, Fail(w)
      PROVE Ledger!Next \/ UNCHANGED Ledger!vars
  <2>1. CASE ~Holds(w)
    BY <1>26, <2>1, LedgerStutter, Zenon DEF Fail
  <2>2. CASE Holds(w)
    <3>1. worker[w].job \in Jobs
      BY <1>26, Zenon DEF IndInv, HoldersConsistent, Holding, Fail, At
    <3>2. job' = [j \in Jobs |-> IF j \in {worker[w].job} THEN Requeued(job[j]) ELSE job[j]]
      BY <1>a, <1>26, <2>2, <3>1, Zenon DEF Fail, TypeOK
    <3> QED
      BY <1>26, <2>2, <3>1, <3>2, RequeueBuries DEF Fail, Holds
  <2> QED
    BY <2>1, <2>2, Zenon
<1>27. CASE UNCHANGED vars
  BY <1>27, LedgerStutter, Zenon DEF vars
<1> QED
  BY <1>1, <1>2, <1>3, <1>4, <1>5, <1>6, <1>7, <1>8, <1>9, <1>10, <1>11,
     <1>12, <1>13, <1>14, <1>15, <1>16, <1>17, <1>18, <1>19, <1>20, <1>21,
     <1>22, <1>23, <1>24, <1>25, <1>26, <1>27, Zenon DEF Next

\* The queue implements JobLedger for any number of jobs, workers and engines:
\* claims, leases, fences, recovery and retries deliver every job within its
\* budget and finish it by its last delivery only.
THEOREM QueueImplementsLedger == Spec => ImplementsLedger
<1>1. Init => Ledger!Init
  BY DEF Init, Absent, StageOf, NoClaim, Ledger!Init
<1>2. IndInv /\ [Next]_vars => [Ledger!Next]_(Ledger!vars)
  BY LedgerStep, Zenon
<1> QED
  BY <1>1, <1>2, Invariance, PTL DEF Spec, ImplementsLedger, Ledger!Spec

-----------------------------------------------------------------------------

(* The schedules.                                                          *)

(* A loop that is not at rest works on one schedule that it holds.         *)
HoldsOne(q) == q.pc # "idle" => \E s \in Schedules : q.cur = {s} /\ q.held[s] # Unclaimed

BusyHolds == \A m \in Mgrs : HoldsOne(mgr[m])

(* A loop about to record a success had its job accepted.                  *)
SuccessIsAccepted ==
    \A m \in Mgrs : mgr[m].pc = "succeeded" => mgr[m].held[Current(m)] \in enqueued

(* The inductive invariant of the schedules: what a manager may still      *)
(* record is a claim it holds, and a recorded success was accepted.        *)
FiringInv == ScheduleTypeOK /\ BusyHolds /\ SuccessIsAccepted /\ FiredMeansEnqueued

(* The schedule a busy loop works on is the one element of cur.            *)
LEMMA CurrentIsHeld ==
    ASSUME BusyHolds, NEW m \in Mgrs, mgr[m].pc # "idle"
    PROVE  /\ Current(m) \in Schedules /\ mgr[m].cur = {Current(m)}
           /\ mgr[m].held[Current(m)] # Unclaimed
  <1>1. PICK s \in Schedules : mgr[m].cur = {s} /\ mgr[m].held[s] # Unclaimed
    BY Zenon DEF BusyHolds, HoldsOne
  <1>2. Current(m) = s
    BY <1>1, Zenon DEF Current
  <1> QED BY <1>1, <1>2, Zenon

(* What a loop goes on with is one of the schedules it was given, or       *)
(* nothing.                                                                *)
LEMMA BatchIsHeld ==
    ASSUME NEW held \in [Schedules -> Ids], NEW b \in Batch(held)
    PROVE  b \in Loops /\ HoldsOne(b) /\ b.pc # "succeeded"
  <1> DEFINE left == {s \in Schedules : held[s] # Unclaimed}
  <1>1. CASE left = {}
    <2>1. b = Resting
      BY <1>1, Zenon DEF Batch
    <2>2. Resting \in Loops /\ Resting.pc = "idle"
      BY Zenon DEF Resting, Loops, Ids
    <2> QED BY <2>1, <2>2, Zenon DEF HoldsOne
  <1>2. CASE left # {}
    <2>1. PICK s \in left : b = [pc |-> "submit", held |-> held, late |-> "no", cur |-> {s}]
      BY <1>2, Zenon DEF Batch
    <2> QED BY <2>1, Zenon DEF Loops, HoldsOne
  <1> QED BY <1>1, <1>2, Zenon

(* A claim that is still referred to is not forgotten.                     *)
LEMMA KnownKeeps ==
    ASSUME NEW E, NEW x \in E, x # Unclaimed,
           \/ \E s \in Schedules : x = row'[s].fired
           \/ \E m \in Mgrs, s \in Schedules : x = mgr'[m].held[s]
    PROVE  x \in Known(E)
  BY DEF Known, Referenced

(* Forgetting claims leaves claim identifiers.                             *)
LEMMA KnownType == ASSUME NEW E \in SUBSET Ids PROVE Known(E) \subseteq Ids
  BY Zenon DEF Known

(* Counting a fault.                                                       *)
LEMMA SpendType ==
    ASSUME ScheduleTypeOK, NEW what \in {"edit", "error"}, Spend(what)
    PROVE  faults' \in [edit : Nat, error : Nat]
  BY DEF ScheduleTypeOK, Spend

(* A loop that is left alone keeps its accepted claim, if a claim in use   *)
(* is not forgotten.                                                       *)
LEMMA OthersKeep ==
    ASSUME FiringInv, NEW m \in Mgrs, mgr' \in [Mgrs -> Loops], mgr'[m] = mgr[m],
           mgr[m].pc = "succeeded", enqueued' = enqueued \/ enqueued' = Known(enqueued)
    PROVE  mgr'[m].held[Current(m)'] \in enqueued'
  <1>1. Current(m)' = Current(m)
    BY Zenon DEF Current
  <1>2. Current(m) \in Schedules /\ mgr[m].held[Current(m)] # Unclaimed
    BY CurrentIsHeld, Zenon DEF FiringInv
  <1>3. mgr[m].held[Current(m)] \in enqueued
    BY Zenon DEF FiringInv, SuccessIsAccepted
  <1> QED BY <1>1, <1>2, <1>3, KnownKeeps

(* A row's steps that leave fired alone or empty it, with the loops as     *)
(* they are.                                                               *)
LEMMA RowsOnly ==
    ASSUME FiringInv, UNCHANGED mgr, ScheduleTypeOK',
           \A s \in Schedules : row'[s].fired \in {row[s].fired, Unclaimed},
           enqueued' = enqueued \/ enqueued' = Known(enqueued)
    PROVE  FiringInv'
  <1>1. BusyHolds'
    BY Zenon DEF FiringInv, BusyHolds, HoldsOne
  <1>2. FiredMeansEnqueued'
    BY KnownKeeps, Zenon DEF FiringInv, FiredMeansEnqueued
  <1>3. SuccessIsAccepted'
    BY OthersKeep, Zenon DEF SuccessIsAccepted, ScheduleTypeOK
  <1> QED BY <1>1, <1>2, <1>3, Zenon DEF FiringInv

(* A loop takes up a new batch, goes on to the next schedule or rests;     *)
(* meanwhile a row may come to have fired under an accepted claim.         *)
LEMMA LoopMoves ==
    ASSUME FiringInv, NEW m \in Mgrs, NEW b \in Loops, HoldsOne(b), b.pc # "succeeded",
           mgr' = [mgr EXCEPT ![m] = b],
           row' \in [Schedules -> Rows], enqueued' = Known(enqueued), voided' = Known(voided),
           faults' \in [edit : Nat, error : Nat],
           \A s \in Schedules : row'[s].fired = row[s].fired \/ row'[s].fired \in enqueued
    PROVE  FiringInv'
  <1>1. mgr' \in [Mgrs -> Loops] /\ \A n \in Mgrs : mgr'[n] = IF n = m THEN b ELSE mgr[n]
    BY Zenon DEF FiringInv, ScheduleTypeOK
  <1>2. ScheduleTypeOK'
    BY <1>1, KnownType, Zenon DEF FiringInv, ScheduleTypeOK
  <1>3. BusyHolds'
    BY <1>1, Zenon DEF FiringInv, BusyHolds, HoldsOne
  <1>4. FiredMeansEnqueued'
    BY KnownKeeps, Zenon DEF FiringInv, FiredMeansEnqueued
  <1>5. SuccessIsAccepted'
    BY <1>1, OthersKeep, Zenon DEF SuccessIsAccepted
  <1> QED BY <1>2, <1>3, <1>4, <1>5, Zenon DEF FiringInv

(* claim_due_schedules: the claimed rows get a lease and an id.            *)
LEMMA ClaimPreserves ==
    ASSUME FiringInv, NEW m \in Mgrs, Claim(m)
    PROVE  FiringInv'
  <1>1. PICK S \in SUBSET Schedules :
           /\ FreshIds(S) \in [S -> ClaimIds]
           /\ row' = [s \in Schedules |->
                        IF s \in S THEN [row[s] EXCEPT !.lease = Lease, !.claim = FreshIds(S)[s]]
                        ELSE row[s]]
           /\ \E b \in Batch([s \in Schedules |-> IF s \in S THEN FreshIds(S)[s] ELSE Unclaimed]) :
                mgr' = [mgr EXCEPT ![m] = b]
    BY Zenon DEF Claim
  <1> DEFINE ids == FreshIds(S)
             held == [s \in Schedules |-> IF s \in S THEN ids[s] ELSE Unclaimed]
  <1>2. PICK b \in Batch(held) : mgr' = [mgr EXCEPT ![m] = b]
    BY <1>1, Zenon
  <1>3. ids \in [S -> ClaimIds]
    BY <1>1, Zenon
  <1>4. row' = [s \in Schedules |->
                  IF s \in S THEN [row[s] EXCEPT !.lease = Lease, !.claim = ids[s]] ELSE row[s]]
    BY <1>1, Zenon
  <1> HIDE DEF ids
  <1>5. held \in [Schedules -> Ids]
    BY <1>3, Zenon DEF Ids
  <1> HIDE DEF held
  <1>6. b \in Loops /\ HoldsOne(b) /\ b.pc # "succeeded"
    BY <1>5, BatchIsHeld, Zenon
  <1>7. row' \in [Schedules -> Rows] /\ \A s \in Schedules : row'[s].fired = row[s].fired
    <2>1. ASSUME NEW s \in Schedules
          PROVE  row'[s] \in Rows /\ row'[s].fired = row[s].fired
      <3>1. row[s] \in Rows
        BY Zenon DEF FiringInv, ScheduleTypeOK
      <3>2. CASE s \in S
        <4>1. row'[s] = [row[s] EXCEPT !.lease = Lease, !.claim = ids[s]]
          BY <1>4, <3>2, Zenon
        <4>2. Lease \in 0..Lease /\ ids[s] \in Ids
          BY <1>3, <3>2, SchedulerAssumption DEF Ids
        <4> QED BY <3>1, <4>1, <4>2, Zenon DEF Rows
      <3>3. CASE s \notin S
        BY <1>4, <3>1, <3>3, Zenon
      <3> QED BY <3>2, <3>3, Zenon
    <2> QED BY <1>4, <2>1, Zenon
  <1>8. enqueued' = Known(enqueued) /\ voided' = Known(voided) /\ UNCHANGED faults
    BY Zenon DEF Claim
  <1> QED BY <1>2, <1>6, <1>7, <1>8, LoopMoves, Zenon DEF FiringInv, ScheduleTypeOK

(* submit_job: a claim is accepted before its loop knows.                  *)
LEMMA SubmitPreserves ==
    ASSUME FiringInv, NEW m \in Mgrs, NEW pc \in {"succeeded", "failed"}, NEW accepted \in BOOLEAN,
           SubmitJob(m, pc, accepted), pc = "succeeded" => accepted,
           faults' \in [edit : Nat, error : Nat]
    PROVE  FiringInv'
  <1>1. mgr[m].pc = "submit" /\ UNCHANGED <<row, voided>> /\ enqueued \subseteq enqueued'
    BY Zenon DEF SubmitJob
  <1>2. /\ mgr' \in [Mgrs -> Loops]
        /\ \A n \in Mgrs : /\ mgr'[n].cur = mgr[n].cur /\ mgr'[n].held = mgr[n].held
                           /\ mgr'[n].pc = IF n = m THEN pc ELSE mgr[n].pc
    BY DEF FiringInv, ScheduleTypeOK, Loops, SubmitJob
  <1>3. Current(m) \in Schedules /\ mgr[m].held[Current(m)] \in Ids
    BY <1>1, CurrentIsHeld, Zenon DEF FiringInv, ScheduleTypeOK, Loops
  <1>4. ScheduleTypeOK'
    BY <1>1, <1>2, <1>3, Zenon DEF FiringInv, ScheduleTypeOK, SubmitJob
  <1>5. BusyHolds'
    BY <1>1, <1>2 DEF FiringInv, BusyHolds, HoldsOne
  <1>6. FiredMeansEnqueued'
    BY <1>1, Zenon DEF FiringInv, FiredMeansEnqueued
  <1>7. \A n \in Mgrs : Current(n)' = Current(n)
    BY <1>2, Zenon DEF Current
  <1>8. pc = "succeeded" => mgr[m].held[Current(m)] \in enqueued'
    BY Zenon DEF SubmitJob
  <1>9. SuccessIsAccepted'
    BY <1>1, <1>2, <1>7, <1>8, Zenon DEF FiringInv, SuccessIsAccepted
  <1> QED BY <1>4, <1>5, <1>6, <1>9, Zenon DEF FiringInv

(* mark_schedule_succeeded and mark_schedule_failed, fenced by the claim.  *)
LEMMA MarksPreserve ==
    ASSUME FiringInv, NEW m \in Mgrs, MarkSucceeded(m) \/ MarkFailed(m)
    PROVE  FiringInv'
  <1> DEFINE s == Current(m)
             held == [mgr[m].held EXCEPT ![s] = Unclaimed]
  <1>1. /\ mgr[m].pc # "idle" /\ enqueued' = Known(enqueued) /\ voided' = Known(voided)
        /\ UNCHANGED faults /\ \E b \in Batch(held) : mgr' = [mgr EXCEPT ![m] = b]
    BY Zenon DEF MarkSucceeded, MarkFailed, NextInBatch
  <1>2. s \in Schedules /\ mgr[m].held[s] # Unclaimed
    BY <1>1, CurrentIsHeld, Zenon DEF FiringInv
  <1>3. PICK b \in Batch(held) : mgr' = [mgr EXCEPT ![m] = b]
    BY <1>1, Zenon
  <1>4. held \in [Schedules -> Ids]
    BY Zenon DEF FiringInv, ScheduleTypeOK, Loops, Ids
  <1>5. b \in Loops /\ HoldsOne(b) /\ b.pc # "succeeded"
    <2> HIDE DEF held
    <2> QED BY <1>4, BatchIsHeld, Zenon
  <1>6. row \in [Schedules -> Rows] /\ Unclaimed \in Ids /\ 0 \in 0..Lease
    BY SchedulerAssumption DEF FiringInv, ScheduleTypeOK, Ids
  <1>7. /\ row' \in [Schedules -> Rows]
        /\ \A t \in Schedules : row'[t].fired = row[t].fired \/ row'[t].fired \in enqueued
    <2> HIDE DEF s, held
    <2>1. CASE ~Finalizes(s, mgr[m].held[s])
      BY <1>6, <2>1, Zenon DEF MarkSucceeded, MarkFailed, s
    <2>2. CASE Finalizes(s, mgr[m].held[s]) /\ MarkFailed(m)
      <3>1. row' = [row EXCEPT ![s] = [row[s] EXCEPT !.due = "retry", !.lease = 0, !.claim = Unclaimed]]
        BY <2>2, Zenon DEF MarkFailed, s
      <3> QED BY <1>2, <1>6, <3>1 DEF Rows
    <2>3. CASE Finalizes(s, mgr[m].held[s]) /\ MarkSucceeded(m)
      <3>1. row' = [row EXCEPT ![s] = [row[s] EXCEPT !.due = "no", !.lease = 0,
                                         !.claim = Unclaimed, !.fired = row[s].claim]]
        BY <2>3, Zenon DEF MarkSucceeded, s
      <3>2. row[s].claim \in enqueued
        BY <2>3, Zenon DEF MarkSucceeded, Finalizes, FiringInv, SuccessIsAccepted, s
      <3> QED BY <1>2, <1>6, <3>1, <3>2 DEF Rows
    <2> QED BY <2>1, <2>2, <2>3, Zenon
  <1> QED BY <1>1, <1>3, <1>5, <1>7, LoopMoves, Zenon DEF FiringInv, ScheduleTypeOK

(* A tick that fails and a crash leave the batch to its leases.            *)
LEMMA RestPreserves ==
    ASSUME FiringInv, NEW m \in Mgrs, TickFails(m) \/ Crash(m)
    PROVE  FiringInv'
  <1>1. /\ mgr' = [mgr EXCEPT ![m] = Resting] /\ UNCHANGED row /\ Spend("error")
        /\ enqueued' = Known(enqueued) /\ voided' = Known(voided)
    BY Zenon DEF TickFails, Crash
  <1>2. Resting \in Loops /\ HoldsOne(Resting) /\ Resting.pc # "succeeded"
    BY Zenon DEF Loops, Resting, HoldsOne, Ids
  <1>3. faults' \in [edit : Nat, error : Nat]
    BY <1>1, SpendType, Zenon DEF FiringInv
  <1>4. row' \in [Schedules -> Rows] /\ \A s \in Schedules : row'[s].fired = row[s].fired
    BY <1>1, Zenon DEF FiringInv, ScheduleTypeOK
  <1> QED BY <1>1, <1>2, <1>3, <1>4, LoopMoves, Zenon

(* Time passes: leases run down, submissions under way get late.           *)
LEMMA TickPreserves ==
    ASSUME FiringInv, Tick
    PROVE  FiringInv'
  <1>1. row' \in [Schedules -> Rows] /\ \A s \in Schedules : row'[s].fired = row[s].fired
    <2>1. row' = [s \in Schedules |-> [row[s] EXCEPT !.lease = IF @ > 0 THEN @ - 1 ELSE 0]]
      BY Zenon DEF Tick
    <2>2. ASSUME NEW s \in Schedules
          PROVE  row'[s] \in Rows /\ row'[s].fired = row[s].fired
      <3>1. row[s] \in Rows
        BY Zenon DEF FiringInv, ScheduleTypeOK
      <3>2. (IF row[s].lease > 0 THEN row[s].lease - 1 ELSE 0) \in 0..Lease
        BY <3>1, SchedulerAssumption DEF Rows
      <3> QED BY <2>1, <3>1, <3>2, Zenon DEF Rows
    <2> QED BY <2>1, <2>2, Zenon
  <1>2. /\ mgr' \in [Mgrs -> Loops]
        /\ \A m \in Mgrs : /\ mgr'[m].pc = mgr[m].pc /\ mgr'[m].held = mgr[m].held
                           /\ mgr'[m].cur = mgr[m].cur
    <2>1. mgr' = [m \in Mgrs |-> IF mgr[m].pc = "submit" THEN [mgr[m] EXCEPT !.late = "yes"]
                                ELSE mgr[m]]
      BY Zenon DEF Tick
    <2>2. ASSUME NEW m \in Mgrs
          PROVE  /\ mgr'[m] \in Loops
                 /\ mgr'[m].pc = mgr[m].pc /\ mgr'[m].held = mgr[m].held
                 /\ mgr'[m].cur = mgr[m].cur
      <3>1. mgr[m] \in Loops
        BY Zenon DEF FiringInv, ScheduleTypeOK
      <3> QED BY <2>1, <3>1, Zenon DEF Loops
    <2> QED BY <2>1, <2>2, Zenon
  <1>3. ScheduleTypeOK'
    BY <1>1, <1>2, Zenon DEF Tick, FiringInv, ScheduleTypeOK
  <1>4. BusyHolds'
    BY <1>2 DEF FiringInv, BusyHolds, HoldsOne
  <1>5. FiredMeansEnqueued'
    <2>1. enqueued' = enqueued
      BY Zenon DEF Tick
    <2> QED BY <1>1, <2>1, Zenon DEF FiringInv, FiredMeansEnqueued
  <1>6. \A m \in Mgrs : Current(m)' = Current(m)
    BY <1>2, Zenon DEF Current
  <1>7. SuccessIsAccepted'
    BY <1>2, <1>6, Zenon DEF Tick, FiringInv, SuccessIsAccepted
  <1> QED BY <1>3, <1>4, <1>5, <1>7, Zenon DEF FiringInv

(* The invariant is inductive. *)
LEMMA FiringStep ==
    ASSUME FiringInv, [ScheduleNext]_scheduleVars
    PROVE  FiringInv'
  <1>1. ASSUME NEW s \in Schedules, Upsert(s) \/ Delete(s) \/ FallsDue(s)
        PROVE  FiringInv'
    <2>1. row \in [Schedules -> Rows] /\ Unclaimed \in Ids /\ 0 \in 0..Lease
      BY SchedulerAssumption DEF FiringInv, ScheduleTypeOK, Ids
    <2>2. row' \in [Schedules -> Rows] /\ \A t \in Schedules : row'[t].fired \in {row[t].fired, Unclaimed}
      <3>1. CASE Upsert(s)
        <4>1. PICK due \in {"yes", "no"} :
                 row' = [row EXCEPT ![s] = [row[s] EXCEPT !.st = "on", !.due = due,
                                              !.lease = 0, !.claim = Unclaimed]]
          BY <3>1, Zenon DEF Upsert, Upserted
        <4> QED BY <2>1, <4>1 DEF Rows
      <3>2. CASE Delete(s)
        BY <2>1, <3>2, Zenon DEF Delete, Rows, NoRow
      <3>3. CASE FallsDue(s)
        BY <2>1, <3>3, Zenon DEF FallsDue, Rows
      <3> QED BY <1>1, <3>1, <3>2, <3>3, Zenon
    <2>3. faults' \in [edit : Nat, error : Nat]
      BY <1>1, SpendType, Zenon DEF Upsert, Delete, FallsDue, FiringInv, ScheduleTypeOK
    <2>4. /\ UNCHANGED mgr
          /\ enqueued' = enqueued \/ enqueued' = Known(enqueued)
          /\ \/ voided' = voided
             \/ voided' = Known(voided \cup {row[s].claim})
      BY <1>1, Zenon DEF Upsert, Delete, FallsDue
    <2>5. row[s].claim \in Ids
      BY <2>1, Zenon DEF Rows
    <2>6. ScheduleTypeOK'
      BY <2>2, <2>3, <2>4, <2>5, KnownType, Zenon DEF FiringInv, ScheduleTypeOK
    <2> QED BY <2>2, <2>4, <2>6, RowsOnly, Zenon
  <1>2. ASSUME NEW m \in Mgrs,
               SubmitAccepted(m) \/ SubmitLost(m) \/ SubmitRefused(m)
        PROVE  FiringInv'
    <2>1. faults' \in [edit : Nat, error : Nat]
      BY <1>2, SpendType, Zenon DEF SubmitAccepted, SubmitLost, SubmitRefused, FiringInv, ScheduleTypeOK
    <2> QED BY <1>2, <2>1, SubmitPreserves, Zenon DEF SubmitAccepted, SubmitLost, SubmitRefused
  <1>3. CASE UNCHANGED scheduleVars
    <2>1. \A m \in Mgrs : Current(m)' = Current(m)
      BY <1>3, Zenon DEF scheduleVars, Current
    <2> QED BY <1>3, <2>1, Zenon DEF scheduleVars, FiringInv, ScheduleTypeOK, BusyHolds, HoldsOne,
                             SuccessIsAccepted, FiredMeansEnqueued
  <1> QED BY <1>1, <1>2, <1>3, ClaimPreserves, MarksPreserve, RestPreserves, TickPreserves, Zenon
          DEF ScheduleNext, Loop

(* No schedule has fired at first.                                         *)
LEMMA FiringStarts == ScheduleInit(0) => FiringInv
  <1> SUFFICES ASSUME ScheduleInit(0) PROVE FiringInv
    BY Zenon
  <1>1. NoRow \in Rows /\ Resting \in Loops
    BY SchedulerAssumption DEF NoRow, Rows, Resting, Loops, Ids
  <1>2. ScheduleTypeOK
    BY <1>1, Zenon DEF ScheduleInit, ScheduleTypeOK
  <1> QED BY <1>2, Zenon DEF ScheduleInit, FiringInv, BusyHolds, HoldsOne, SuccessIsAccepted,
                       FiredMeansEnqueued, NoRow, Resting

(* The scheduler moves a schedule on by a whole interval only for a job    *)
(* that an engine accepted (mark_schedule_succeeded in db.rs, fenced by    *)
(* claim_id): with any number of managers and schedules, any lease, and    *)
(* edits, crashes, lost answers and failed finalizations at any time.      *)
THEOREM FiredIsEnqueued == ScheduleSpec => []FiredMeansEnqueued
  <1>1. FiringInv /\ [ScheduleNext]_scheduleVars => FiringInv'
    BY FiringStep, Zenon
  <1>2. FiringInv => FiredMeansEnqueued
    BY Zenon DEF FiringInv
  <1> QED BY <1>1, <1>2, FiringStarts, PTL DEF ScheduleSpec
=============================================================================
