------------------------ MODULE AdministrationProofs ------------------------
(***************************************************************************)
(* Proofs about what operators see and do: the job administration of       *)
(* JobAdmin and the cluster status of ClusterStatus, for any number of     *)
(* jobs, calls, nodes, engines and proxies.                                *)
(***************************************************************************)
EXTENDS JobAdmin, ClusterStatus, FiniteSetTheorems, TLAPS

(* Job administration.                                                     *)

(* A row of the jobs table, and what its caller has been told, by type.    *)
JobRows ==
    [st : {"pending", "running", "complete", "dead", "absent", "inserting"},
     created : Nat, attempt : Nat, limit : Nat,
     claimed : BOOLEAN, result : BOOLEAN, error : BOOLEAN]

CallerRows ==
    [answer : {"none", "refused", "ok", "failed"},
     seen : {"none", "pending", "running", "complete", "dead"}]

(* A retry on its way through the manager, by type.                        *)
RetryCalls ==
    [at : {"idle", "sent", "given_up", "executed", "over"}, job : Jobs \cup {0},
     engine : Engines \cup {0},
     code : {"none", "unavailable", "permission_denied", "not_found",
             "failed_precondition", "ok", "internal"},
     told : {"none", "not_registered", "no_delegate", "not_dispatched", "unknown",
             "permission_denied", "not_found", "failed_precondition", "ok", "internal"},
     applied : Nat]

(* What a row of the jobs table keeps to: the checks that Detail and the   *)
(* wire form make before they answer.                                      *)
SoundRow(row) ==
    /\ row.st = "absent" => row = Absent
    /\ row.st # "absent" => row.attempt <= row.limit /\ row.limit # 0
    /\ row.st = "inserting" => row.attempt = 0
    /\ row.st \in {"pending", "inserting"} => row.attempt < row.limit
    /\ row.st \in {"running", "complete", "dead"} => row.attempt # 0
    /\ row.st = "dead" => row.attempt = row.limit /\ row.error
    /\ row.st # "absent" => (row.claimed <=> row.st = "running")
    /\ row.st # "absent" => (row.result <=> row.st = "complete")

(* What the caller of a job has been told about the row.                   *)
ToldTruth(told, row) ==
    /\ row.st = "inserting" => told.answer = "none"
    /\ told.answer = "refused" => row.st = "absent"
    /\ told.answer = "ok" => row.st \in States
    /\ told.seen # "none" => told.answer = "ok"
    /\ told.seen = "complete" => row.st = "complete"

(* What has been applied, and told, at each point of a retry.              *)
CallFits(rec) ==
    /\ rec.at \in {"idle", "sent", "given_up"} => rec.applied = 0
    /\ rec.at \in {"sent", "given_up"} => rec.job \in Jobs
    /\ rec.at \in {"idle", "sent", "executed"} => rec.told = "none"
    /\ rec.at = "given_up" => rec.told = "unknown"
    /\ rec.applied <= 1
    /\ rec.at = "executed" =>
         /\ rec.code = "ok" => rec.applied = 1
         /\ rec.code \notin {"ok", "internal"} => rec.applied = 0
    /\ rec.told = "ok" => rec.applied = 1
    /\ rec.told \notin {"none", "ok", "unknown", "internal"} => rec.applied = 0

(* The inductive invariant of the job administration: every row is sound,  *)
(* and what callers and operators were told is still so.                   *)
AdminInv ==
    /\ jobRow \in [Jobs -> JobRows]
    /\ caller \in [Jobs -> CallerRows]
    /\ retrying \in [Calls -> RetryCalls]
    /\ clock \in Nat
    /\ \A j \in Jobs : SoundRow(jobRow[j]) /\ ToldTruth(caller[j], jobRow[j])
    /\ \A c \in Calls : CallFits(retrying[c])

(* A set of naturals has a least element.                                  *)
LEMMA NatHasLeast ==
    ASSUME NEW T, T \subseteq Nat, T # {}
    PROVE  \E x \in T : \A y \in T : x <= y
  <1>1. PICK x \in T : \A y \in T : ~ (<<y, x>> \in OpToRel(<, Nat))
    BY NatLessThanWellFounded, WFMin, Zenon
  <1>2. \A y \in T : ~(y < x)
    BY <1>1, Zenon DEF OpToRel
  <1> QED BY <1>2

(* The first of the fresh delegates is one of them.                        *)
LEMMA FirstIsFresh ==
    ASSUME FreshDelegates # {}
    PROVE  FirstDelegate \in FreshDelegates
  <1>1. FreshDelegates \subseteq Nat
    BY AdminAssumption, Zenon DEF FreshDelegates, ListedDelegates
  <1>2. \E e \in FreshDelegates : \A x \in FreshDelegates : e <= x
    BY <1>1, NatHasLeast, Zenon
  <1> QED BY <1>2, Zenon DEF FirstDelegate

(* A step that writes one job's row and tells its caller keeps AdminInv    *)
(* when the new row is sound and the caller is told the truth.             *)
LEMMA JobMoves ==
    ASSUME AdminInv, NEW j \in Jobs, NEW row \in JobRows, NEW told \in CallerRows,
           jobRow' = [jobRow EXCEPT ![j] = row],
           caller' = [caller EXCEPT ![j] = told],
           clock' \in Nat, SoundRow(row), ToldTruth(told, row),
           retrying' \in [Calls -> RetryCalls],
           \A c \in Calls : CallFits(retrying'[c])
    PROVE  AdminInv'
  <1>1. jobRow' \in [Jobs -> JobRows] /\ caller' \in [Jobs -> CallerRows]
    BY Zenon DEF AdminInv
  <1>2. ASSUME NEW x \in Jobs PROVE SoundRow(jobRow'[x]) /\ ToldTruth(caller'[x], jobRow'[x])
    <2>1. CASE x = j
      BY <2>1, Zenon DEF AdminInv
    <2>2. CASE x # j
      BY <2>2, Zenon DEF AdminInv
    <2> QED BY <2>1, <2>2, Zenon
  <1> QED BY <1>1, <1>2, Zenon DEF AdminInv

(* A step that only writes one job's row keeps AdminInv when the row is    *)
(* sound and what the caller was told stays true of it.                    *)
LEMMA RowMoves ==
    ASSUME AdminInv, NEW j \in Jobs, NEW row \in JobRows, Put(j, row), SoundRow(row),
           ToldTruth(caller[j], row), UNCHANGED <<caller, clock, retrying>>
    PROVE  AdminInv'
  <1>1. /\ jobRow' = [jobRow EXCEPT ![j] = row] /\ caller' = [caller EXCEPT ![j] = caller[j]]
        /\ caller[j] \in CallerRows /\ clock' \in Nat
        /\ retrying' \in [Calls -> RetryCalls] /\ \A c \in Calls : CallFits(retrying'[c])
    BY Zenon DEF Put, AdminInv
  <1> QED BY <1>1, JobMoves, Zenon

(* A step that moves one retry keeps the retries' invariant.               *)
LEMMA CallMoves ==
    ASSUME AdminInv, NEW c \in Calls, NEW rec \in RetryCalls, CallFits(rec),
           retrying' = [retrying EXCEPT ![c] = rec]
    PROVE  retrying' \in [Calls -> RetryCalls] /\ \A x \in Calls : CallFits(retrying'[x])
  <1>1. retrying' \in [Calls -> RetryCalls]
    BY Zenon DEF AdminInv
  <1>2. ASSUME NEW x \in Calls PROVE CallFits(retrying'[x])
    BY Zenon DEF AdminInv
  <1> QED BY <1>1, <1>2, Zenon

(* Submitting, reading, claiming, completing and failing a job keep        *)
(* AdminInv (worker_http.rs and the queue it writes).                      *)
LEMMA JobStepKeeps ==
    ASSUME AdminInv, NEW j \in Jobs,
           \/ RefuseSubmit(j) \/ BeginSubmit(j) \/ InsertJob(j) \/ GetJobStatus(j)
           \/ ClaimJob(j) \/ CompleteJob(j) \/ FailJob(j)
    PROVE  AdminInv'
  <1>0. /\ jobRow[j] \in JobRows /\ caller[j] \in CallerRows /\ SoundRow(jobRow[j])
        /\ ToldTruth(caller[j], jobRow[j]) /\ clock \in Nat
        /\ retrying \in [Calls -> RetryCalls] /\ \A c \in Calls : CallFits(retrying[c])
        /\ jobRow = [jobRow EXCEPT ![j] = jobRow[j]]
    BY Zenon DEF AdminInv
  <1>00. Absent \in JobRows /\ SoundRow(Absent)
    BY Zenon DEF Absent, JobRows, SoundRow
  <1>1. CASE RefuseSubmit(j)
    <2> DEFINE told == [caller[j] EXCEPT !.answer = "refused"]
    <2>1. told \in CallerRows /\ told.answer = "refused" /\ told.seen = caller[j].seen
      BY <1>0, Zenon DEF CallerRows
    <2>2. /\ caller' = [caller EXCEPT ![j] = told] /\ jobRow' = [jobRow EXCEPT ![j] = jobRow[j]]
          /\ jobRow[j].st = "absent" /\ caller[j].answer = "none"
          /\ UNCHANGED <<clock, retrying>>
      BY <1>0, <1>1 DEF RefuseSubmit, Absent
    <2> HIDE DEF told
    <2>3. ToldTruth(told, jobRow[j])
      BY <1>0, <2>1, <2>2, Zenon DEF ToldTruth
    <2> QED BY <1>0, <2>1, <2>2, <2>3, JobMoves, Zenon
  <1>2. CASE BeginSubmit(j)
    <2>1. PICK t \in {clock, clock + 1}, limit \in {AttemptsOf(q) : q \in {x \in Requests : Routed(x)}} :
            clock' = t /\ Put(j, [Fresh(t, limit) EXCEPT !.st = "inserting"])
      BY <1>2, Zenon DEF BeginSubmit
    <2>2. limit \in Nat /\ limit # 0
      BY <2>1, AdminAssumption DEF AttemptsOf, Requests
    <2>3. t \in Nat
      BY <1>0, <2>1
    <2> DEFINE row == [Fresh(t, limit) EXCEPT !.st = "inserting"]
    <2>4. /\ row \in JobRows /\ row.st = "inserting" /\ row.attempt = 0 /\ row.limit = limit
          /\ row.claimed = FALSE /\ row.result = FALSE
      BY <2>2, <2>3, Zenon DEF Fresh, Absent, JobRows
    <2>5. /\ jobRow' = [jobRow EXCEPT ![j] = row] /\ caller' = [caller EXCEPT ![j] = caller[j]]
          /\ caller[j].answer = "none" /\ clock' \in Nat /\ UNCHANGED retrying
      BY <1>2, <2>1, <2>3, Zenon DEF BeginSubmit, Put, AdminInv
    <2> HIDE DEF row
    <2>6. SoundRow(row)
      BY <2>2, <2>4 DEF SoundRow, JobRows
    <2>7. ToldTruth(caller[j], row)
      BY <1>0, <2>4, <2>5, Zenon DEF ToldTruth, CallerRows
    <2> QED BY <1>0, <2>4, <2>5, <2>6, <2>7, JobMoves, Zenon
  <1>3. CASE InsertJob(j)
    <2>0. /\ jobRow[j].st = "inserting" /\ caller[j].answer = "none" /\ caller[j].seen = "none"
          /\ UNCHANGED <<clock, retrying>>
      BY <1>0, <1>3, Zenon DEF InsertJob, ToldTruth
    <2>1. ASSUME NEW answer \in {"ok", "failed"}, NEW row \in JobRows, SoundRow(row),
                 row.st \in {"pending", "absent"}, answer = "ok" => row.st = "pending",
                 Put(j, row), caller' = [caller EXCEPT ![j].answer = answer]
          PROVE  AdminInv'
      <3> DEFINE told == [caller[j] EXCEPT !.answer = answer]
      <3>1. told \in CallerRows /\ told.answer = answer /\ told.seen = "none"
        BY <1>0, <2>0, Zenon DEF CallerRows
      <3>2. caller' = [caller EXCEPT ![j] = told] /\ jobRow' = [jobRow EXCEPT ![j] = row]
        BY <2>1, Zenon DEF Put
      <3> HIDE DEF told
      <3>3. ToldTruth(told, row)
        BY <2>1, <3>1, Zenon DEF ToldTruth, States
      <3> QED BY <1>0, <2>0, <2>1, <3>1, <3>2, <3>3, JobMoves, Zenon
    <2>2. ASSUME NEW answer \in {"ok", "failed"}, Put(j, [jobRow[j] EXCEPT !.st = "pending"]),
                 caller' = [caller EXCEPT ![j].answer = answer]
          PROVE  AdminInv'
      <3> DEFINE row == [jobRow[j] EXCEPT !.st = "pending"]
      <3>1. /\ row \in JobRows /\ row.st = "pending" /\ row.attempt = jobRow[j].attempt
            /\ row.limit = jobRow[j].limit /\ row.claimed = jobRow[j].claimed
            /\ row.result = jobRow[j].result
        BY <1>0, Zenon DEF JobRows
      <3>2. Put(j, row)
        BY <2>2, Zenon
      <3> HIDE DEF row
      <3>3. SoundRow(row)
        BY <1>0, <2>0, <3>1, Zenon DEF SoundRow, JobRows
      <3> QED BY <2>1, <2>2, <3>1, <3>2, <3>3, Zenon
    <2>3. CASE Put(j, Absent) /\ caller' = [caller EXCEPT ![j].answer = "failed"]
      BY <1>00, <2>1, <2>3, Zenon DEF Absent
    <2> QED BY <1>3, <2>2, <2>3, Zenon DEF InsertJob
  <1>4. CASE GetJobStatus(j)
    <2> DEFINE told == [caller[j] EXCEPT !.seen = jobRow[j].st]
    <2>1. /\ caller[j].answer = "ok" /\ jobRow[j].st \in States
          /\ ~(jobRow[j].attempt > jobRow[j].limit)
      BY <1>0, <1>4 DEF GetJobStatus, ToldTruth, SoundRow, States, JobRows
    <2>2. StatusOf(jobRow[j]) = jobRow[j].st
      BY <2>1, Zenon DEF StatusOf
    <2>3. told \in CallerRows /\ told.answer = "ok" /\ told.seen = jobRow[j].st
      BY <1>0, <2>1, Zenon DEF CallerRows, States
    <2>4. /\ caller' = [caller EXCEPT ![j] = told] /\ jobRow' = [jobRow EXCEPT ![j] = jobRow[j]]
          /\ UNCHANGED <<clock, retrying>>
      BY <1>0, <1>4, <2>2, Zenon DEF GetJobStatus
    <2> HIDE DEF told
    <2>5. ToldTruth(told, jobRow[j])
      BY <2>1, <2>3, Zenon DEF ToldTruth, States
    <2> QED BY <1>0, <2>3, <2>4, <2>5, JobMoves, Zenon
  <1>5. CASE ClaimJob(j)
    <2> DEFINE next == jobRow[j].attempt + 1
               row == [jobRow[j] EXCEPT !.st = "running", !.claimed = TRUE, !.attempt = next]
    <2>0. next \in Nat
      BY <1>0 DEF JobRows
    <2>2. Put(j, row) /\ jobRow[j].st = "pending" /\ UNCHANGED <<caller, clock, retrying>>
      BY <1>5, Zenon DEF ClaimJob
    <2> HIDE DEF next
    <2>1. /\ row \in JobRows /\ row.st = "running" /\ row.claimed = TRUE
          /\ row.attempt = next /\ row.limit = jobRow[j].limit
          /\ row.result = jobRow[j].result
      BY <1>0, <2>0, Zenon DEF JobRows
    <2> HIDE DEF row
    <2>3. SoundRow(row)
      BY <1>0, <2>1, <2>2 DEF SoundRow, JobRows, next
    <2>4. ToldTruth(caller[j], row)
      BY <1>0, <2>1, <2>2, Zenon DEF ToldTruth, States
    <2> QED BY <2>1, <2>2, <2>3, <2>4, RowMoves, Zenon
  <1>6. CASE CompleteJob(j)
    <2> DEFINE row == [jobRow[j] EXCEPT !.st = "complete", !.claimed = FALSE, !.result = TRUE]
    <2>1. /\ row \in JobRows /\ row.st = "complete" /\ row.claimed = FALSE
          /\ row.attempt = jobRow[j].attempt /\ row.limit = jobRow[j].limit
          /\ row.result = TRUE
      BY <1>0, Zenon DEF JobRows
    <2>2. Put(j, row) /\ jobRow[j].st = "running" /\ UNCHANGED <<caller, clock, retrying>>
      BY <1>6, Zenon DEF CompleteJob
    <2> HIDE DEF row
    <2>3. SoundRow(row)
      BY <1>0, <2>1, <2>2, Zenon DEF SoundRow, JobRows
    <2>4. ToldTruth(caller[j], row)
      BY <1>0, <2>1, <2>2, Zenon DEF ToldTruth, States
    <2> QED BY <2>1, <2>2, <2>3, <2>4, RowMoves, Zenon
  <1>7. CASE FailJob(j)
    <2> DEFINE st == IF jobRow[j].attempt < jobRow[j].limit THEN "pending" ELSE "dead"
               row == [jobRow[j] EXCEPT !.claimed = FALSE, !.error = TRUE, !.st = st]
    <2>1. /\ row \in JobRows /\ row.st = st /\ row.claimed = FALSE /\ row.error = TRUE
          /\ row.attempt = jobRow[j].attempt /\ row.limit = jobRow[j].limit
          /\ row.result = jobRow[j].result
      BY <1>0, Zenon DEF JobRows
    <2>2. Put(j, row) /\ jobRow[j].st = "running" /\ UNCHANGED <<caller, clock, retrying>>
      BY <1>7, Zenon DEF FailJob
    <2> HIDE DEF row
    <2>3. SoundRow(row)
      BY <1>0, <2>1, <2>2 DEF SoundRow, JobRows
    <2>4. ToldTruth(caller[j], row)
      BY <1>0, <2>1, <2>2, Zenon DEF ToldTruth, States
    <2> QED BY <2>1, <2>2, <2>3, <2>4, RowMoves, Zenon
  <1> QED BY <1>1, <1>2, <1>3, <1>4, <1>5, <1>6, <1>7, Zenon

(* Every step of a retry keeps AdminInv, with the answer lost or late      *)
(* (job_admin.rs in the manager, job_admin_queue.rs in the engine).        *)
LEMMA RetryStepKeeps ==
    ASSUME AdminInv, NEW c \in Calls,
           \/ \E j \in Jobs : StartRetry(c, j)
           \/ RefuseRetry(c) \/ RetryDeadJob(c) \/ AnswerRetry(c) \/ GiveUpRetry(c)
    PROVE  AdminInv'
  <1>0. retrying[c] \in RetryCalls /\ CallFits(retrying[c])
    BY Zenon DEF AdminInv
  <1>1. ASSUME NEW rec \in RetryCalls, CallFits(rec), retrying' = [retrying EXCEPT ![c] = rec],
               UNCHANGED <<jobRow, caller, clock>>
        PROVE  AdminInv'
    BY <1>1, CallMoves, Zenon DEF AdminInv
  <1>2. ASSUME NEW j \in Jobs, StartRetry(c, j) PROVE AdminInv'
    <2>0. UNCHANGED <<jobRow, caller, clock>>
      BY <1>2, Zenon DEF StartRetry
    <2>1. ASSUME NEW why \in {"not_registered", "no_delegate", "not_dispatched"},
                 retrying' = [retrying EXCEPT ![c] = [NoCall EXCEPT !.at = "over", !.told = why]]
          PROVE  AdminInv'
      <3> DEFINE rec == [NoCall EXCEPT !.at = "over", !.told = why]
      <3>1. rec \in RetryCalls /\ rec.at = "over" /\ rec.told = why /\ rec.applied = 0
        BY Zenon DEF NoCall, RetryCalls
      <3>2. CallFits(rec)
        <4> HIDE DEF rec
        <4> QED BY <3>1 DEF CallFits
      <3> QED BY <1>1, <2>0, <2>1, <3>1, <3>2, Zenon
    <2>2. CASE RefusalOf = "none" /\ retrying' = [retrying EXCEPT ![c] =
                 [NoCall EXCEPT !.at = "sent", !.job = j, !.engine = FirstDelegate]]
      <3> DEFINE rec == [NoCall EXCEPT !.at = "sent", !.job = j, !.engine = FirstDelegate]
      <3>1. FirstDelegate \in Engines
        BY <2>2, FirstIsFresh, Zenon DEF RefusalOf, FreshDelegates, ListedDelegates
      <3>2. /\ rec \in RetryCalls /\ rec.at = "sent" /\ rec.told = "none" /\ rec.applied = 0
            /\ rec.job = j
        BY <3>1, Zenon DEF NoCall, RetryCalls
      <3>3. CallFits(rec)
        <4> HIDE DEF rec
        <4> QED BY <3>2 DEF CallFits
      <3> QED BY <1>1, <2>0, <2>2, <3>2, <3>3, Zenon
    <2>3. RefusalOf \in {"not_registered", "no_delegate", "not_dispatched", "none"}
      BY Zenon DEF RefusalOf
    <2> QED BY <1>2, <2>1, <2>2, <2>3, Zenon DEF StartRetry
  <1>3. ASSUME NEW code \in {"unavailable", "permission_denied", "not_found",
                             "failed_precondition", "ok", "internal"},
               NEW n \in {0, 1}, Executed(c, code, n),
               retrying[c].at \in {"sent", "given_up"},
               code = "ok" => n = 1, code \notin {"ok", "internal"} => n = 0
        PROVE  \E rec \in RetryCalls : CallFits(rec) /\ retrying' = [retrying EXCEPT ![c] = rec]
    <2> DEFINE at == IF retrying[c].at = "given_up" THEN "over" ELSE "executed"
               sum == retrying[c].applied + n
               rec == [retrying[c] EXCEPT !.at = at, !.code = code, !.applied = sum]
    <2>1. sum = n
      BY <1>0, <1>3 DEF CallFits
    <2>2. retrying' = [retrying EXCEPT ![c] = rec]
      BY <1>3, Zenon DEF Executed
    <2>3. at \in {"over", "executed"} /\ sum \in Nat
      BY <2>1
    <2> HIDE DEF sum, at
    <2>4. /\ rec \in RetryCalls /\ rec.at = at /\ rec.code = code /\ rec.applied = sum
          /\ rec.told = retrying[c].told
      BY <1>0, <2>3, Zenon DEF RetryCalls
    <2> HIDE DEF rec
    <2>5. CallFits(rec)
      BY <1>0, <1>3, <2>1, <2>4 DEF CallFits, at
    <2> QED BY <2>2, <2>4, <2>5, Zenon
  <1>4. CASE RefuseRetry(c)
    BY <1>1, <1>3, <1>4, Zenon DEF RefuseRetry
  <1>5. CASE RetryDeadJob(c)
    <2> DEFINE j == retrying[c].job
    <2>0. retrying[c].at \in {"sent", "given_up"} /\ UNCHANGED <<caller, clock>> /\ j \in Jobs
      BY <1>0, <1>5, Zenon DEF RetryDeadJob, CallFits
    <2>1. ASSUME NEW code \in {"not_found", "failed_precondition", "internal"},
                 Executed(c, code, 0), UNCHANGED jobRow
          PROVE  AdminInv'
      BY <1>1, <1>3, <2>0, <2>1, Zenon
    <2>2. ASSUME NEW code \in {"ok", "internal"}, Executed(c, code, 1), jobRow[j].st = "dead",
                 Put(j, Retried(jobRow[j]))
          PROVE  AdminInv'
      <3> HIDE DEF j
      <3>0. /\ jobRow[j] \in JobRows /\ SoundRow(jobRow[j]) /\ ToldTruth(caller[j], jobRow[j])
            /\ caller[j] \in CallerRows
        BY <2>0, Zenon DEF AdminInv
      <3>1. PICK rec \in RetryCalls : CallFits(rec) /\ retrying' = [retrying EXCEPT ![c] = rec]
        BY <1>3, <2>0, <2>2, Zenon
      <3>2. retrying' \in [Calls -> RetryCalls] /\ \A x \in Calls : CallFits(retrying'[x])
        BY <3>1, CallMoves, Zenon
      <3> DEFINE row == Retried(jobRow[j])
      <3>3. /\ row \in JobRows /\ row.st = "pending" /\ row.attempt = 0
            /\ row.result = FALSE /\ row.claimed = FALSE /\ row.limit = jobRow[j].limit
        BY <3>0, Zenon DEF Retried, JobRows
      <3>4. /\ jobRow' = [jobRow EXCEPT ![j] = row] /\ caller' = [caller EXCEPT ![j] = caller[j]]
            /\ clock' \in Nat
        BY <2>0, <2>2, Zenon DEF Put, AdminInv
      <3> HIDE DEF row
      <3>5. SoundRow(row)
        BY <2>2, <3>0, <3>3 DEF SoundRow, JobRows
      <3>6. ToldTruth(caller[j], row)
        BY <2>2, <3>0, <3>3, Zenon DEF ToldTruth, States
      <3> QED BY <2>0, <3>0, <3>2, <3>3, <3>4, <3>5, <3>6, JobMoves, Zenon
    <2> QED BY <1>5, <2>1, <2>2, Zenon DEF RetryDeadJob
  <1>6. CASE AnswerRetry(c)
    <2> DEFINE told == AnswerOf(retrying[c].code)
               rec == [retrying[c] EXCEPT !.at = "over", !.told = told]
    <2>1. /\ retrying[c].at = "executed" /\ UNCHANGED <<jobRow, caller, clock>>
          /\ retrying' = [retrying EXCEPT ![c] = rec]
      BY <1>6, Zenon DEF AnswerRetry
    <2>2. /\ told \in {"none", "unknown", "permission_denied", "not_found",
                       "failed_precondition", "ok", "internal"}
          /\ told = "ok" => retrying[c].code = "ok"
          /\ told \notin {"none", "ok", "unknown", "internal"} =>
               retrying[c].code \notin {"ok", "internal"}
      BY <1>0, Zenon DEF AnswerOf, RetryCalls
    <2> HIDE DEF told
    <2>3. rec \in RetryCalls /\ rec.at = "over" /\ rec.told = told
          /\ rec.applied = retrying[c].applied
      BY <1>0, <2>2 DEF RetryCalls
    <2> HIDE DEF rec
    <2>4. CallFits(rec)
      BY <1>0, <2>1, <2>2, <2>3, Zenon DEF CallFits
    <2> QED BY <1>1, <2>1, <2>3, <2>4, Zenon
  <1>7. CASE GiveUpRetry(c)
    <2> DEFINE at == IF retrying[c].at = "sent" THEN "given_up" ELSE "over"
               rec == [retrying[c] EXCEPT !.at = at, !.told = "unknown"]
    <2>1. /\ retrying[c].at \in {"sent", "executed"} /\ UNCHANGED <<jobRow, caller, clock>>
          /\ retrying' = [retrying EXCEPT ![c] = rec]
      BY <1>7, Zenon DEF GiveUpRetry, AnswerOf
    <2>2. rec \in RetryCalls /\ rec.at = at /\ rec.told = "unknown" /\ rec.job = retrying[c].job
          /\ rec.applied = retrying[c].applied
      BY <1>0, Zenon DEF RetryCalls
    <2> HIDE DEF rec
    <2>3. CallFits(rec)
      BY <1>0, <2>1, <2>2, Zenon DEF CallFits
    <2> QED BY <1>1, <2>1, <2>2, <2>3, Zenon
  <1> QED BY <1>2, <1>4, <1>5, <1>6, <1>7, Zenon

(* An empty jobs table satisfies AdminInv.                                 *)
LEMMA AdminStarts ==
    ASSUME AdminInit([j \in Jobs |-> Absent], 0)
    PROVE  AdminInv
  <1>1. jobRow \in [Jobs -> JobRows] /\ \A j \in Jobs : jobRow[j] = Absent
    BY Zenon DEF AdminInit, Absent, JobRows
  <1>2. /\ caller \in [Jobs -> CallerRows] /\ clock \in Nat
        /\ \A j \in Jobs : caller[j].answer = "none" /\ caller[j].seen = "none"
    BY Zenon DEF AdminInit, CallerRows
  <1>3. retrying \in [Calls -> RetryCalls] /\ \A c \in Calls : CallFits(retrying[c])
    BY DEF AdminInit, NoCall, RetryCalls, CallFits
  <1>4. ASSUME NEW j \in Jobs PROVE SoundRow(jobRow[j]) /\ ToldTruth(caller[j], jobRow[j])
    BY <1>1, <1>2 DEF SoundRow, ToldTruth, Absent
  <1> QED BY <1>1, <1>2, <1>3, <1>4, Zenon DEF AdminInv

(* AdminInv is enough for the answers.                                     *)
LEMMA InvTellsTruth ==
    ASSUME AdminInv
    PROVE  AnswersTellTruth
  <1>1. ASSUME NEW j \in Jobs
        PROVE  /\ caller[j].answer = "refused" => jobRow[j] = Absent
               /\ caller[j].answer = "ok" => j \in Visible
               /\ caller[j].seen \notin {"not_found", "corrupt"}
               /\ caller[j].seen = "complete" => jobRow[j].st = "complete"
    BY Zenon DEF AdminInv, SoundRow, ToldTruth, Visible, CallerRows
  <1>2. ASSUME NEW c \in Calls
        PROVE  /\ retrying[c].applied <= 1
               /\ retrying[c].told = "ok" => retrying[c].applied = 1
               /\ retrying[c].told \notin {"none", "ok", "unknown", "internal"} =>
                    retrying[c].applied = 0
    BY Zenon DEF AdminInv, CallFits
  <1>3. ASSUME NEW j \in Visible PROVE Detail(jobRow[j]) /\ DetailWire(jobRow[j])
    <2>1. jobRow[j] \in JobRows /\ SoundRow(jobRow[j]) /\ jobRow[j].st \in States
      BY Zenon DEF AdminInv, Visible
    <2> QED BY <2>1, Zenon DEF Detail, DetailWire, ListItem, SoundRow, States, JobRows
  <1> QED BY <1>1, <1>2, <1>3, Zenon DEF AnswersTellTruth

(* Every step keeps AdminInv; listing pages and delegates that come and go *)
(* do not touch it.                                                        *)
LEMMA AdminStep ==
    ASSUME AdminInv, AdminNext \/ UNCHANGED adminVars
    PROVE  AdminInv'
  <1>1. ASSUME UNCHANGED <<jobRow, caller, clock, retrying>> PROVE AdminInv'
    BY <1>1, Zenon DEF AdminInv
  <1>2. ASSUME NEW e \in Engines, DelegateChanges(e) PROVE AdminInv'
    BY <1>1, <1>2, Zenon DEF DelegateChanges
  <1>3. ASSUME NEW status, NEW size, ListPage(status, size) PROVE AdminInv'
    BY <1>1, <1>3, Zenon DEF ListPage
  <1>4. CASE UNCHANGED adminVars
    BY <1>1, <1>4, Zenon DEF adminVars
  <1> QED BY <1>2, <1>3, <1>4, JobStepKeeps, RetryStepKeeps, Zenon DEF AdminNext, Filters

(* What callers and operators are told is so: a refused submission left no *)
(* row, an accepted one stays visible, a completion stays, a retry told Ok *)
(* was applied once, one told a refusal was not applied, and no stored row *)
(* fails the checks of the detail view (worker_http.rs, job_admin.rs,      *)
(* job_admin_queue.rs).                                                    *)
THEOREM AnswersWereTrue == AdminSpec => []AnswersTellTruth
  <1>1. AdminInv /\ [AdminNext]_adminVars => AdminInv'
    BY AdminStep, Zenon
  <1> QED BY <1>1, AdminStarts, InvTellsTruth, PTL DEF AdminSpec

(* The listing an operator walks through, by type. *)
Walks ==
    [at : {"idle", "listing", "done", "corrupt"}, status : {"any", "dead"},
     cursor : [created : Nat, job : Jobs \cup {0}, filter : {"none", "any", "dead"}],
     seen : SUBSET Jobs, twice : SUBSET Jobs, whole : SUBSET Jobs]

(* What a walk has behind it: the jobs seen lie before the cursor, and     *)
(* each job that matched all along was seen or lies past it.               *)
WalkInv ==
    /\ walk \in Walks
    /\ walk.at # "corrupt" /\ walk.twice = {}
    /\ walk.at = "idle" => walk.cursor = Start /\ walk.seen = {} /\ walk.whole = {}
    /\ \A j \in walk.seen : jobRow[j].st \in States
    /\ walk.at = "listing" =>
         /\ walk.cursor.filter = walk.status
         /\ \A j \in walk.seen : ~Past(walk.cursor, j)
         /\ \A j \in walk.whole : /\ Matches(jobRow[j], walk.status)
                                  /\ j \in walk.seen \/ Past(walk.cursor, j)
    /\ walk.at = "done" => walk.whole \subseteq walk.seen

(* The order of the listing is total: created_at, then job_id. *)
LEMMA NewerIsTotal ==
    ASSUME AdminInv
    PROVE  /\ \A i, j \in Jobs : i = j \/ Newer(i, j) \/ Newer(j, i)
           /\ \A i, j \in Jobs : Newer(i, j) => i # j /\ ~Newer(j, i)
           /\ \A i, j, k \in Jobs : Newer(i, j) /\ Newer(j, k) => Newer(i, k)
  <1>1. \A j \in Jobs : jobRow[j].created \in Nat /\ j \in Nat
    BY AdminAssumption, Zenon DEF AdminInv, JobRows
  <1> QED BY <1>1 DEF Newer

(* A page of the query that is not all there is has an oldest job, and     *)
(* what the page leaves out is older than that.                            *)
LEMMA PageIsNewest ==
    ASSUME AdminInv, NEW found, found \subseteq Jobs, NEW n \in Nat \ {0},
           found # Newest(found, n)
    PROVE  LET last == Oldest(Newest(found, n)) IN
           /\ last \in Newest(found, n)
           /\ \A j \in Newest(found, n) : j = last \/ Newer(j, last)
           /\ \A j \in found \ Newest(found, n) : Newer(last, j)
  <1> DEFINE Above(j) == {i \in found : Newer(i, j)}
             rank(j) == Cardinality(Above(j))
             page == Newest(found, n)
             last == Oldest(page)
  <1>0. IsFiniteSet(found)
    BY AdminAssumption, FS_Subset, Zenon
  <1>1. ASSUME NEW j PROVE rank(j) \in Nat /\ IsFiniteSet(Above(j))
    <2>1. IsFiniteSet(Above(j))
      BY <1>0, FS_Subset, Zenon
    <2> QED BY <2>1, FS_CardinalityType, Zenon
  <1>2. ASSUME NEW i \in found, NEW j \in found, Newer(i, j)
        PROVE  rank(i) < rank(j)
    <2>1. Above(i) \subseteq Above(j) /\ i \in Above(j) /\ i \notin Above(i)
      BY <1>2, NewerIsTotal, Zenon
    <2>2. rank(i) <= rank(j) /\ rank(i) # rank(j)
      <3> HIDE DEF Above
      <3> QED BY <1>1, <2>1, FS_Subset, Zenon
    <2>3. rank(i) \in Nat /\ rank(j) \in Nat
      BY <1>1, Zenon
    <2> HIDE DEF rank
    <2> QED BY <2>2, <2>3
  <1>3. page = {j \in found : rank(j) < n}
    BY Zenon DEF Newest
  <1>4. \A j \in found : Above(j) = {} => rank(j) = 0
    BY FS_EmptySet, Zenon
  <1>5. \A i \in found : \A j \in found : i \in Above(j) => Newer(i, j)
    BY Zenon
  <1>6. \A j \in found : Above(j) \subseteq found
    BY Zenon
  <1> HIDE DEF Above, rank, page, last
  <1>7. page # {}
    <2>1. found # {}
      BY <1>3, Zenon DEF page
    <2>2. PICK x \in {rank(j) : j \in found} : \A y \in {rank(j) : j \in found} : x <= y
      <3>1. {rank(j) : j \in found} # {} /\ {rank(j) : j \in found} \subseteq Nat
        BY <1>1, <2>1, Zenon
      <3> QED BY <3>1, NatHasLeast, Zenon
    <2>3. PICK j \in found : x = rank(j)
      BY <2>2, Zenon
    <2>4. Above(j) = {}
      <3> SUFFICES ASSUME NEW i \in Above(j) PROVE FALSE
        BY Zenon
      <3>1. i \in found /\ Newer(i, j)
        BY <1>5, <1>6, Zenon
      <3>2. rank(i) < rank(j) /\ rank(j) <= rank(i)
        BY <1>2, <2>2, <2>3, <3>1, Zenon
      <3> QED BY <1>1, <3>2
    <2>5. rank(j) = 0
      BY <1>4, <2>4, Zenon
    <2> QED BY <1>3, <2>5
  <1>8. last \in page /\ \A j \in page : j = last \/ Newer(j, last)
    <2>1. {n - rank(j) : j \in page} # {} /\ {n - rank(j) : j \in page} \subseteq Nat
      BY <1>1, <1>3, <1>7
    <2>2. PICK x \in {n - rank(j) : j \in page} : \A y \in {n - rank(j) : j \in page} : x <= y
      BY <2>1, NatHasLeast, Zenon
    <2>3. PICK j \in page : x = n - rank(j)
      BY <2>2, Zenon
    <2>4. ASSUME NEW i \in page PROVE i = j \/ Newer(i, j)
      <3>1. i \in found /\ j \in found /\ i \in Jobs /\ j \in Jobs
        BY <1>3, <2>3, Zenon
      <3>2. n - rank(j) <= n - rank(i)
        BY <2>2, <2>3, Zenon
      <3>3. ~(rank(j) < rank(i))
        BY <1>1, <3>2
      <3>4. ~Newer(j, i)
        BY <1>2, <3>1, <3>3, Zenon
      <3> QED BY <3>1, <3>4, NewerIsTotal, Zenon
    <2>5. \E k \in page : \A i \in page : i = k \/ Newer(i, k)
      BY <2>3, <2>4, Zenon
    <2> QED BY <2>5, Zenon DEF last, Oldest
  <1>9. ASSUME NEW j \in found, j \notin page PROVE Newer(last, j)
    <2>1. last \in found /\ last \in Jobs /\ j \in Jobs /\ rank(last) < n /\ ~(rank(j) < n)
      BY <1>3, <1>8, <1>9, Zenon
    <2>2. ~(rank(j) < rank(last))
      BY <1>1, <2>1
    <2>3. ~Newer(j, last) /\ j # last
      BY <1>2, <1>8, <1>9, <2>1, <2>2, Zenon
    <2> QED BY <2>1, <2>3, NewerIsTotal, Zenon
  <1> QED BY <1>8, <1>9, Zenon DEF page, last

(* A write to one row keeps WalkInv when a job that was to be seen is      *)
(* still to be seen, with the created_at it had.                           *)
LEMMA PutKeepsWalk ==
    ASSUME AdminInv, WalkInv, NEW j \in Jobs, NEW row \in JobRows, Put(j, row),
           jobRow[j].st \in States => row.st \in States /\ row.created = jobRow[j].created
    PROVE  WalkInv'
  <1>1. jobRow \in [Jobs -> JobRows] /\ jobRow' = [jobRow EXCEPT ![j] = row]
    BY Zenon DEF AdminInv, Put
  <1>2. jobRow'[j] = row /\ \A i \in Jobs : i # j => jobRow'[i] = jobRow[i]
    BY <1>1, Zenon
  <1>3. ASSUME NEW i \in Jobs, jobRow[i].st \in States
        PROVE  jobRow'[i].st \in States /\ \A cursor : Past(cursor, i)' <=> Past(cursor, i)
    <2>1. jobRow'[i].st \in States /\ jobRow'[i].created = jobRow[i].created
      BY <1>2, <1>3, Zenon
    <2> QED BY <2>1, Zenon DEF Past
  <1>4. /\ walk' \in Walks
        /\ walk'.at = walk.at /\ walk'.status = walk.status /\ walk'.cursor = walk.cursor
        /\ walk'.seen = walk.seen /\ walk'.twice = walk.twice
        /\ walk'.whole = IF Matches(row, walk.status) THEN walk.whole ELSE walk.whole \ {j}
    BY Zenon DEF Put, WalkInv, Walks
  <1>5. \A i \in walk.seen : i \in Jobs /\ jobRow[i].st \in States
    BY Zenon DEF WalkInv, Walks
  <1>6. \A i \in walk'.seen : jobRow'[i].st \in States
    BY <1>3, <1>4, <1>5, Zenon
  <1>7. ASSUME walk.at = "listing"
        PROVE  /\ \A i \in walk'.seen : ~Past(walk.cursor, i)'
               /\ \A i \in walk'.whole : /\ Matches(jobRow'[i], walk.status)
                                         /\ i \in walk'.seen \/ Past(walk.cursor, i)'
    <2>1. \A i \in walk'.seen : ~Past(walk.cursor, i)'
      BY <1>3, <1>4, <1>5, <1>7, Zenon DEF WalkInv
    <2>2. ASSUME NEW i \in walk'.whole
          PROVE  Matches(jobRow'[i], walk.status) /\ (i \in walk'.seen \/ Past(walk.cursor, i)')
      <3>1. i \in Jobs /\ i \in walk.whole
        BY <1>4, Zenon DEF WalkInv, Walks
      <3>2. Matches(jobRow[i], walk.status) /\ (i \in walk.seen \/ Past(walk.cursor, i))
        BY <1>7, <3>1, Zenon DEF WalkInv
      <3>3. Matches(jobRow'[i], walk.status)
        BY <1>2, <1>4, <3>1, <3>2, Zenon
      <3> QED BY <1>3, <1>4, <3>1, <3>2, <3>3, Zenon DEF Matches
    <2> QED BY <2>1, <2>2, Zenon
  <1>8. walk.at = "idle" => walk'.whole = {}
    BY <1>4, Zenon DEF WalkInv
  <1>9. walk.at = "done" => walk'.whole \subseteq walk.seen
    BY <1>4, Zenon DEF WalkInv
  <1> QED BY <1>4, <1>6, <1>7, <1>8, <1>9, Zenon DEF WalkInv, Past

(* A page of list_jobs keeps WalkInv: the new cursor is the oldest job of  *)
(* the page, and everything that is not shown yet lies past it.            *)
LEMMA PageKeepsWalk ==
    ASSUME AdminInv, WalkInv, NEW status \in {"any", "dead"}, NEW size \in Sizes,
           ListPage(status, size)
    PROVE  WalkInv'
  <1> DEFINE n == PageSize(size)
             found == Found(status, walk.cursor)
             page == Newest(found, n)
             last == Oldest(page)
             next == IF found # page THEN CursorOf(last, status) ELSE Start
             at == IF found # page THEN "listing" ELSE "done"
             whole == IF walk.at = "idle" THEN {j \in Jobs : Matches(jobRow[j], status)}
                      ELSE walk.whole
  <1>1. n \in Nat \ {0} /\ jobRow' = jobRow /\ walk.at \in {"idle", "listing"}
    BY AdminAssumption DEF ListPage, PageSize
  <1>2. walk.at = "listing" => status = walk.status
    <2>1. walk.cursor.filter = walk.status /\ walk.status # "none" => walk.cursor # Start
      BY DEF Start
    <2> QED BY <2>1, Zenon DEF ListPage, ForFilter, WalkInv, Walks
  <1>3. /\ found \subseteq Jobs /\ page \subseteq found
        /\ \A j \in found : Matches(jobRow[j], status) /\ Past(walk.cursor, j)
        /\ \A j \in Jobs : Matches(jobRow[j], status) /\ Past(walk.cursor, j) => j \in found
    BY Zenon DEF Found, Newest
  <1>4. ASSUME NEW j \in page PROVE ListItem(jobRow[j]) /\ jobRow[j].st \in States
    <2>1. j \in Jobs /\ jobRow[j].st \in States
      BY <1>3, Zenon DEF Matches
    <2>2. jobRow[j] \in JobRows /\ SoundRow(jobRow[j])
      BY <2>1, Zenon DEF AdminInv
    <2> QED BY <2>1, <2>2, Zenon DEF SoundRow, ListItem, States, JobRows
  <1>5. walk' = [at |-> at, status |-> status, cursor |-> next, seen |-> walk.seen \cup page,
                 twice |-> walk.twice \cup (walk.seen \cap page), whole |-> whole]
    BY <1>4, Zenon DEF ListPage
  <1>6. ASSUME found # page
        PROVE  /\ last \in page
               /\ \A j \in page : j = last \/ Newer(j, last)
               /\ \A j \in found \ page : Newer(last, j)
    BY <1>1, <1>3, <1>6, PageIsNewest, Zenon
  <1>7. walk.seen \cap page = {}
    BY <1>1, <1>3, Zenon DEF WalkInv
  <1>8. next \in [created : Nat, job : Jobs \cup {0}, filter : {"none", "any", "dead"}]
    <2>1. CASE found = page
      BY <2>1, Zenon DEF Start
    <2>2. CASE found # page
      <3>1. last \in Jobs /\ jobRow[last].created \in Nat
        BY <1>3, <1>6, <2>2, Zenon DEF AdminInv, JobRows
      <3> QED BY <2>2, <3>1, Zenon DEF CursorOf
    <2> QED BY <2>1, <2>2, Zenon
  <1>9. ASSUME found # page
        PROVE  /\ next # Start /\ next.filter = status
               /\ \A j : Past(next, j) <=> Newer(last, j)
    <2>1. next = [created |-> jobRow[last].created, job |-> last, filter |-> status]
      BY <1>9, Zenon DEF CursorOf
    <2>2. next # Start /\ next.filter = status
      BY <2>1 DEF Start
    <2>3. next.created = jobRow[last].created /\ next.job = last
      BY <2>1
    <2>4. last \in Jobs /\ last \in Nat /\ jobRow[last].created \in Nat
      BY <1>3, <1>6, <1>9, AdminAssumption, Zenon DEF AdminInv, JobRows
    <2> HIDE DEF next, last
    <2> QED BY <2>2, <2>3, Zenon DEF Past, Newer
  <1>10. walk.seen \subseteq Jobs /\ walk.whole \subseteq Jobs /\ walk.twice = {}
    BY Zenon DEF WalkInv, Walks
  <1> HIDE DEF next, found, page, last, n
  <1>11. at \in {"listing", "done"} /\ whole \subseteq Jobs
    BY <1>10, Zenon
  <1>12. at = "listing" <=> found # page
    BY Zenon
  <1>13. \A j \in whole : j \in walk.seen \/ j \in found
    <2>1. CASE walk.at = "idle"
      BY <1>1, <1>3, <2>1, Zenon DEF WalkInv, Past
    <2>2. CASE walk.at = "listing"
      BY <1>2, <1>3, <1>10, <2>2, Zenon DEF WalkInv, Past
    <2> QED BY <1>1, <2>1, <2>2, Zenon
  <1>14. ASSUME at = "listing", NEW j \in walk.seen \cup page PROVE ~Past(next, j)
    <2>1. last \in Jobs /\ j \in Jobs
      BY <1>3, <1>6, <1>10, <1>12, <1>14, Zenon
    <2>2. CASE j \in page
      <3>1. j = last \/ Newer(j, last)
        BY <1>6, <1>12, <1>14, <2>2, Zenon
      <3>2. ~Newer(last, j)
        BY <2>1, <3>1, NewerIsTotal, Zenon
      <3> QED BY <1>9, <1>12, <1>14, <3>2, Zenon
    <2>3. CASE j \in walk.seen
      <3>1. walk.at = "listing" /\ ~Past(walk.cursor, j)
        BY <1>1, <2>3, Zenon DEF WalkInv
      <3>4. Past(walk.cursor, last)
        BY <1>3, <1>6, <1>12, <1>14, Zenon
      <3>2. /\ jobRow[j].created \in Nat /\ jobRow[last].created \in Nat
            /\ j \in Nat /\ last \in Nat
        BY <2>1, AdminAssumption, Zenon DEF AdminInv, JobRows
      <3>5. walk.cursor.created \in Nat /\ walk.cursor.job \in Nat
        <4>1. walk.cursor.created \in Nat /\ walk.cursor.job \in Jobs \cup {0}
          BY Zenon DEF WalkInv, Walks
        <4>2. \A x \in Jobs \cup {0} : x \in Nat
          BY AdminAssumption
        <4> QED BY <4>1, <4>2, Zenon
      <3>3. ~Newer(last, j)
        BY <3>1, <3>2, <3>4, <3>5 DEF Past, Newer
      <3> QED BY <1>9, <1>12, <1>14, <3>3, Zenon
    <2> QED BY <1>14, <2>2, <2>3, Zenon
  <1>15. ASSUME at = "listing", NEW j \in whole
         PROVE  Matches(jobRow[j], status) /\ (j \in walk.seen \cup page \/ Past(next, j))
    <2>1. Matches(jobRow[j], status)
      BY <1>1, <1>2, <1>15, Zenon DEF WalkInv
    <2>2. j \in walk.seen \cup page \/ j \in found \ page
      BY <1>13, <1>15, Zenon
    <2> QED BY <1>6, <1>9, <1>12, <1>15, <2>1, <2>2, Zenon
  <1>16. at = "done" => whole \subseteq walk.seen \cup page
    BY <1>12, <1>13, Zenon
  <1>17. \A j \in walk.seen \cup page : jobRow[j].st \in States
    BY <1>4, Zenon DEF WalkInv
  <1> HIDE DEF at, whole
  <1>18. walk' \in Walks
    BY <1>3, <1>5, <1>7, <1>8, <1>10, <1>11, Zenon DEF Walks
  <1>19. /\ walk'.at = at /\ walk'.status = status /\ walk'.cursor = next /\ walk'.whole = whole
         /\ walk'.seen = walk.seen \cup page /\ walk'.twice = {}
    BY <1>5, <1>7, <1>10, Zenon
  <1> QED BY <1>1, <1>9, <1>11, <1>12, <1>14, <1>15, <1>16, <1>17, <1>18, <1>19, Zenon DEF WalkInv, Past

(* Every step keeps WalkInv; workers, retries and submissions leave the    *)
(* created_at of a visible job alone and keep it visible.                  *)
LEMMA WalkStep ==
    ASSUME AdminInv, WalkInv, AdminNext \/ UNCHANGED adminVars
    PROVE  WalkInv'
  <1>1. ASSUME UNCHANGED <<jobRow, walk>> PROVE WalkInv'
    BY <1>1, Zenon DEF WalkInv, Past
  <1>2. ASSUME NEW j \in Jobs, NEW row \in JobRows, Put(j, row), jobRow[j].st \notin States
        PROVE  WalkInv'
    BY <1>2, PutKeepsWalk, Zenon
  <1>3. ASSUME NEW j \in Jobs, NEW row \in JobRows, Put(j, row),
               row.st \in States, row.created = jobRow[j].created
        PROVE  WalkInv'
    BY <1>3, PutKeepsWalk, Zenon
  <1>4. ASSUME NEW j \in Jobs, BeginSubmit(j) PROVE WalkInv'
    <2>1. PICK t \in {clock, clock + 1},
               limit \in {AttemptsOf(q) : q \in {x \in Requests : Routed(x)}} :
               Put(j, [Fresh(t, limit) EXCEPT !.st = "inserting"])
      BY <1>4, Zenon DEF BeginSubmit
    <2>2. t \in Nat /\ limit \in Nat
      BY <2>1, AdminAssumption DEF AdminInv, AttemptsOf, Requests
    <2>3. [Fresh(t, limit) EXCEPT !.st = "inserting"] \in JobRows
      BY <2>2, Zenon DEF Fresh, Absent, JobRows
    <2>4. jobRow[j].st \notin States
      BY <1>4 DEF BeginSubmit, Absent, States
    <2> QED BY <1>2, <2>1, <2>3, <2>4, Zenon
  <1>5. ASSUME NEW j \in Jobs, InsertJob(j) PROVE WalkInv'
    <2>0. jobRow[j] \in JobRows /\ jobRow[j].st \notin States
      BY <1>5, Zenon DEF InsertJob, AdminInv, States
    <2>1. [jobRow[j] EXCEPT !.st = "pending"] \in JobRows /\ Absent \in JobRows
      BY <2>0, Zenon DEF JobRows, Absent
    <2>2. Put(j, [jobRow[j] EXCEPT !.st = "pending"]) \/ Put(j, Absent)
      BY <1>5, Zenon DEF InsertJob
    <2> QED BY <1>2, <2>0, <2>1, <2>2, Zenon
  <1>6. ASSUME NEW j \in Jobs, ClaimJob(j) \/ CompleteJob(j) \/ FailJob(j) PROVE WalkInv'
    <2>0. jobRow[j] \in JobRows
      BY Zenon DEF AdminInv
    <2> DEFINE up == jobRow[j].attempt + 1
               to == IF jobRow[j].attempt < jobRow[j].limit THEN "pending" ELSE "dead"
               claim == [jobRow[j] EXCEPT !.st = "running", !.claimed = TRUE, !.attempt = up]
               complete == [jobRow[j] EXCEPT !.st = "complete", !.claimed = FALSE, !.result = TRUE]
               fail == [jobRow[j] EXCEPT !.claimed = FALSE, !.error = TRUE, !.st = to]
    <2>1. up \in Nat /\ to \in {"pending", "dead"}
      BY <2>0 DEF JobRows
    <2>2. Put(j, claim) \/ Put(j, complete) \/ Put(j, fail)
      BY <1>6, Zenon DEF ClaimJob, CompleteJob, FailJob
    <2> HIDE DEF up, to
    <2>3. /\ claim \in JobRows /\ claim.st \in States /\ claim.created = jobRow[j].created
          /\ complete \in JobRows /\ complete.st \in States
          /\ complete.created = jobRow[j].created
      BY <2>0, <2>1, Zenon DEF JobRows, States
    <2>4. fail \in JobRows /\ fail.st \in States /\ fail.created = jobRow[j].created
      BY <2>0, <2>1, Zenon DEF JobRows, States
    <2> HIDE DEF claim, complete, fail
    <2> QED BY <1>3, <2>2, <2>3, <2>4, Zenon
  <1>7. ASSUME NEW c \in Calls, RetryDeadJob(c) PROVE WalkInv'
    <2> DEFINE j == retrying[c].job
               row == Retried(jobRow[j])
    <2>1. j \in Jobs
      BY <1>7, Zenon DEF RetryDeadJob, AdminInv, CallFits
    <2>2. jobRow[j] \in JobRows
      BY <2>1, Zenon DEF AdminInv
    <2>3. row \in JobRows /\ row.st \in States /\ row.created = jobRow[j].created
      BY <2>2, Zenon DEF Retried, JobRows, States
    <2>4. UNCHANGED <<jobRow, walk>> \/ Put(j, row)
      BY <1>7, Zenon DEF RetryDeadJob
    <2> HIDE DEF row, j
    <2> QED BY <1>1, <1>3, <2>1, <2>3, <2>4, Zenon
  <1>8. ASSUME NEW j \in Jobs, RefuseSubmit(j) \/ GetJobStatus(j) PROVE WalkInv'
    BY <1>1, <1>8, Zenon DEF RefuseSubmit, GetJobStatus
  <1>9. ASSUME NEW c \in Calls, \/ \E j \in Jobs : StartRetry(c, j)
                                \/ RefuseRetry(c) \/ AnswerRetry(c) \/ GiveUpRetry(c)
        PROVE  WalkInv'
    BY <1>1, <1>9, Zenon DEF StartRetry, RefuseRetry, AnswerRetry, GiveUpRetry
  <1>10. ASSUME NEW e \in Engines, DelegateChanges(e) PROVE WalkInv'
    BY <1>1, <1>10, Zenon DEF DelegateChanges
  <1>11. CASE UNCHANGED adminVars
    BY <1>1, <1>11, Zenon DEF adminVars
  <1> QED BY <1>4, <1>5, <1>6, <1>7, <1>8, <1>9, <1>10, <1>11, PageKeepsWalk, Zenon
      DEF AdminNext, Filters

(* A listing walked to its end has shown every job that matched from the   *)
(* first page to the last, none of them twice, and no page was lost to a   *)
(* row that list_item takes for corrupt (list_jobs, encode_cursor).        *)
THEOREM WalksWereComplete == AdminSpec => []WalkIsComplete
  <1>1. AdminInit([j \in Jobs |-> Absent], 0) => WalkInv
    BY DEF AdminInit, NoWalk, Start, WalkInv, Walks
  <1>2. AdminInv /\ WalkInv /\ [AdminNext]_adminVars => WalkInv'
    BY WalkStep, Zenon
  <1>3. WalkInv => WalkIsComplete
    BY Zenon DEF WalkInv, WalkIsComplete
  <1> QED BY <1>1, <1>2, <1>3, AdminStarts, AdminStep, PTL DEF AdminSpec

-----------------------------------------------------------------------------

(* Cluster status.                                                         *)

(* A row of wr_proxy_inventory. *)
InventoryRows ==
    [row : {"absent", "present", "deregistered", "purged"}, rev : Revisions \cup {0},
     report : ReportForms \cup {Nobody}, fresh : BOOLEAN]

(* The requests of the proxies that can be on the way.                     *)
RequestForms ==
    [from : ProxyIds, kind : {"register"}, body : Revisions]
      \cup [from : ProxyIds, kind : {"report"}, body : ReportForms]
      \cup [from : ProxyIds, kind : {"deregister"}, body : {Nobody}]

(* The proxies' half: a purged process has no request left on the way. *)
ProxyInv ==
    /\ inventory \in [ProxyIds -> InventoryRows]
    /\ sent \subseteq RequestForms
    /\ \A p \in ProxyIds : inventory[p].row = "purged" => \A q \in sent : q.from # p

(* A healthy route is only kept for the engine that owns its slot, at a    *)
(* revision that has the authority over it or before any has it.           *)
RouteOwned(e) ==
    Registered(e) =>
      \A m \in Modules : engineRow[e].route[m] = "healthy" =>
        /\ slotOwner[SlotOf[e]] = e
        /\ authority[SlotOf[e]] \in {0, engineRow[e].rev}

(* The engines' half of the inductive invariant: every healthy route is    *)
(* owned, through registration, readiness reports, heartbeats, expiry and  *)
(* switch_authority.                                                       *)
EngineInv ==
    /\ engineRow \in [EngineIds -> EngineRows \cup {Nobody}]
    /\ slotOwner \in [Slots -> EngineIds \cup {Nobody}]
    /\ authority \in [Slots -> Revisions \cup {0}]
    /\ committed \in [Nodes -> Revisions \cup {0}]
    /\ operation \in [Nodes -> Operations \cup {Nobody}]
    /\ \A e \in EngineIds : RouteOwned(e)

(* The two halves; the proxies' one also carries that a purged process has *)
(* no request left that could bring its row back.                          *)
ClusterInv == ProxyInv /\ EngineInv

(* A step that leaves the inventory and the requests alone keeps ProxyInv. *)
LEMMA ProxyKeeps ==
    ASSUME ProxyInv, UNCHANGED <<inventory, sent>>
    PROVE  /\ ProxyInv'
           /\ \A p \in ProxyIds : inventory[p].row \in {"deregistered", "purged"} =>
                inventory'[p].row # "present"
  BY Zenon DEF ProxyInv, InventoryRows

(* A step that writes one proxy's inventory row and sends nothing keeps    *)
(* ProxyInv when it neither revives a row nor purges one with a request on *)
(* the way.                                                                *)
LEMMA ProxyMoves ==
    ASSUME ProxyInv, NEW p \in ProxyIds, NEW row \in InventoryRows,
           inventory' = [inventory EXCEPT ![p] = row],
           sent' \subseteq sent,
           row.row = "purged" => \A q \in sent' : q.from # p,
           inventory[p].row \in {"deregistered", "purged"} => row.row # "present"
    PROVE  /\ ProxyInv'
           /\ \A x \in ProxyIds : inventory[x].row \in {"deregistered", "purged"} =>
                inventory'[x].row # "present"
  <1>1. inventory' \in [ProxyIds -> InventoryRows]
    BY Zenon DEF ProxyInv
  <1>2. /\ inventory'[p] = row
        /\ \A x \in ProxyIds : x # p => inventory'[x] = inventory[x]
    BY Zenon DEF ProxyInv
  <1>3. ASSUME NEW x \in ProxyIds, inventory'[x].row = "purged", NEW q \in sent'
        PROVE  q.from # x
    BY <1>2, <1>3, Zenon DEF ProxyInv
  <1>4. ASSUME NEW x \in ProxyIds, inventory[x].row \in {"deregistered", "purged"}
        PROVE  inventory'[x].row # "present"
    BY <1>2, <1>4, Zenon
  <1> QED BY <1>1, <1>3, <1>4, Zenon DEF ProxyInv

(* Every step keeps ProxyInv, and none brings a deregistered or purged row *)
(* back (register_proxy, replace_proxy_inventory, deregister and purge in  *)
(* db.rs).                                                                 *)
LEMMA ProxyStepKeeps ==
    ASSUME ProxyInv, ClusterNext \/ UNCHANGED statusVars
    PROVE  /\ ProxyInv'
           /\ \A p \in ProxyIds : inventory[p].row \in {"deregistered", "purged"} =>
                inventory'[p].row # "present"
  <1> DEFINE Kept == /\ ProxyInv'
                     /\ \A p \in ProxyIds : inventory[p].row \in {"deregistered", "purged"} =>
                          inventory'[p].row # "present"
  <1>1. ASSUME NEW e \in EngineIds, EngineStep(e) PROVE Kept
    BY <1>1, ProxyKeeps, Zenon DEF EngineStep, RegisterEngine, Heartbeat, Lapse, Reap, EngineChange
  <1>2. ASSUME NEW n \in Nodes, NodeStep(n) PROVE Kept
    BY <1>2, ProxyKeeps, Zenon
    DEF NodeStep, SubmitOperation, AdvanceOperation, EndOperation, OperationChange
  <1>3. ASSUME NEW s \in Slots, SwitchAuthority(s) PROVE Kept
    BY <1>3, ProxyKeeps, Zenon DEF SwitchAuthority, OperationChange
  <1>4. CASE Surroundings \/ UNCHANGED statusVars
    BY <1>4, ProxyKeeps, Zenon DEF Surroundings, statusVars, tables
  <1>5. ASSUME NEW p \in ProxyIds, ProxyStep(p) PROVE Kept
    <2>0. inventory[p] \in InventoryRows
      BY Zenon DEF ProxyInv
    <2>1. ASSUME NEW q \in RequestForms, q.from = p, sent' = sent \cup {q},
                 UNCHANGED inventory, inventory[p].row # "purged"
          PROVE  Kept
      BY <2>1, Zenon DEF ProxyInv, InventoryRows
    <2>2. ASSUME NEW r \in Revisions, SendRegister(p, r) PROVE Kept
      <3>1. Request(p, "register", r) \in RequestForms /\ Request(p, "register", r).from = p
        BY Zenon DEF Request, RequestForms
      <3> QED BY <2>1, <2>2, <3>1, Zenon DEF SendRegister
    <2>3. ASSUME NEW report \in ReportForms, SendReport(p, report) PROVE Kept
      <3>1. /\ Request(p, "report", report) \in RequestForms
            /\ Request(p, "report", report).from = p
        BY Zenon DEF Request, RequestForms
      <3> QED BY <2>1, <2>3, <3>1, Zenon DEF SendReport
    <2>4. CASE SendDeregister(p)
      <3>1. /\ Request(p, "deregister", Nobody) \in RequestForms
            /\ Request(p, "deregister", Nobody).from = p
        BY Zenon DEF Request, RequestForms
      <3> QED BY <2>1, <2>4, <3>1, Zenon DEF SendDeregister
    <2>5. CASE PurgeTombstone(p)
      <3> DEFINE row == [inventory[p] EXCEPT !.row = "purged"]
      <3>1. row \in InventoryRows /\ row.row = "purged"
        BY <2>0, Zenon DEF InventoryRows
      <3>2. /\ inventory' = [inventory EXCEPT ![p] = row]
            /\ sent' \subseteq sent /\ \A q \in sent' : q.from # p
        BY <2>5, Zenon DEF PurgeTombstone
      <3> HIDE DEF row
      <3> QED BY <3>1, <3>2, ProxyMoves, Zenon
    <2>6. CASE ReportLapses(p)
      <3> DEFINE row == [inventory[p] EXCEPT !.fresh = FALSE]
      <3>1. row \in InventoryRows /\ row.row = inventory[p].row
        BY <2>0, Zenon DEF InventoryRows
      <3>2. /\ inventory' = [inventory EXCEPT ![p] = row]
            /\ sent' \subseteq sent /\ inventory[p].row = "present"
        BY <2>6, Zenon DEF ReportLapses
      <3> HIDE DEF row
      <3> QED BY <3>1, <3>2, ProxyMoves, Zenon
    <2> QED BY <1>5, <2>2, <2>3, <2>4, <2>5, <2>6, Zenon DEF ProxyStep
  <1>6. ASSUME NEW q \in sent, Deliver(q) PROVE Kept
    <2>0. /\ q \in RequestForms /\ q.from \in ProxyIds
          /\ inventory[q.from] \in InventoryRows
          /\ q.kind = "register" => q.body \in Revisions
          /\ q.kind = "report" => q.body \in ReportForms
      BY Zenon DEF ProxyInv, RequestForms
    <2>1. inventory[q.from].row # "purged" /\ sent' \subseteq sent
      BY <1>6, <2>0, Zenon DEF ProxyInv, Deliver
    <2>2. CASE RegisterProxy(q)
      <3> DEFINE row == [row |-> "present", rev |-> q.body, report |-> Nobody, fresh |-> FALSE]
      <3>1. row \in InventoryRows /\ row.row = "present"
        BY <2>0, <2>2, Zenon DEF InventoryRows, RegisterProxy
      <3>2. inventory' = [inventory EXCEPT ![q.from] = row] /\ inventory[q.from].row = "absent"
        BY <2>1, <2>2, Zenon DEF RegisterProxy
      <3> HIDE DEF row
      <3> QED BY <2>0, <2>1, <3>1, <3>2, ProxyMoves, Zenon
    <2>3. CASE ReplaceProxyInventory(q)
      <3> DEFINE row == [inventory[q.from] EXCEPT !.report = q.body, !.fresh = TRUE]
      <3>1. row \in InventoryRows /\ row.row = inventory[q.from].row
        BY <2>0, <2>3, Zenon DEF InventoryRows, ReplaceProxyInventory
      <3>2. inventory' = [inventory EXCEPT ![q.from] = row] /\ inventory[q.from].row = "present"
        BY <2>0, <2>3, Zenon DEF ReplaceProxyInventory, ProxyInv, InventoryRows
      <3> HIDE DEF row
      <3> QED BY <2>0, <2>1, <3>1, <3>2, ProxyMoves, Zenon
    <2>4. CASE DeregisterProxy(q)
      <3> DEFINE row == [inventory[q.from] EXCEPT !.row = "deregistered"]
      <3>1. row \in InventoryRows /\ row.row = "deregistered"
        BY <2>0, Zenon DEF InventoryRows
      <3>2. inventory' = [inventory EXCEPT ![q.from] = row]
        BY <2>4, Zenon DEF DeregisterProxy
      <3> HIDE DEF row
      <3> QED BY <2>0, <2>1, <3>1, <3>2, ProxyMoves, Zenon
    <2> QED BY <1>6, <2>2, <2>3, <2>4, Zenon DEF Deliver
  <1> QED BY <1>1, <1>2, <1>3, <1>4, <1>5, <1>6, Zenon DEF ClusterNext

(* An empty inventory satisfies ProxyInv.                                  *)
LEMMA ProxiesStart == ClusterInit => ProxyInv
  BY DEF ClusterInit, ProxyInv, InventoryRows, RequestForms

(* A proxy that deregistered is never listed as present again, whatever    *)
(* registration or report of it is still on the way (register_proxy and    *)
(* replace_proxy_inventory in db.rs, for any number of proxies).           *)
THEOREM DeregisteredWasGone == ClusterSpec => DeregisteredStaysGone
  <1>1. ProxyInv /\ [ClusterNext]_statusVars => ProxyInv'
    BY ProxyStepKeeps, Zenon
  <1>2. ProxyInv /\ [ClusterNext]_statusVars =>
          [\A p \in ProxyIds : inventory[p].row \in {"deregistered", "purged"} =>
             inventory'[p].row # "present"]_statusVars
    BY ProxyStepKeeps, Zenon
  <1> QED BY <1>1, <1>2, ProxiesStart, PTL DEF ClusterSpec, DeregisteredStaysGone

(* A step that writes one engine's row keeps EngineInv when the routes it  *)
(* leaves healthy are owned.                                               *)
LEMMA EngineMoves ==
    ASSUME EngineInv, NEW e \in EngineIds, NEW row \in EngineRows \cup {Nobody},
           engineRow' \in [EngineIds -> EngineRows \cup {Nobody}],
           engineRow'[e] = row,
           \A x \in EngineIds : x # e => engineRow'[x] = engineRow[x],
           row # Nobody => \A m \in Modules : row.route[m] = "healthy" =>
             /\ slotOwner[SlotOf[e]] = e
             /\ authority[SlotOf[e]] \in {0, row.rev},
           UNCHANGED <<slotOwner, authority, committed, operation>>
    PROVE  EngineInv'
  <1>1. ASSUME NEW x \in EngineIds PROVE RouteOwned(x)'
    <2>1. CASE x = e
      BY <2>1, Zenon DEF RouteOwned, Registered
    <2>2. CASE x # e
      BY <2>2 DEF RouteOwned, Registered, EngineInv
    <2> QED BY <2>1, <2>2, Zenon
  <1> QED BY <1>1, Zenon DEF EngineInv

(* Every step keeps EngineInv: the steps that take a slot or its authority *)
(* away (register_engine_and_routes, switch_authority) withdraw the        *)
(* healthy routes of the engine that loses it in the same transaction.     *)
LEMMA EngineStepKeeps ==
    ASSUME EngineInv, ClusterNext \/ UNCHANGED statusVars
    PROVE  EngineInv'
  <1> USE DEF EngineInv
  <1>0. ASSUME UNCHANGED <<engineRow, slotOwner, authority, committed, operation>>
        PROVE  EngineInv'
    BY <1>0, Zenon DEF RouteOwned, Registered
  <1>1. ASSUME NEW e \in EngineIds, EngineStep(e) PROVE EngineInv'
    <2>0. SlotOf[e] \in Slots /\ NodeOf[SlotOf[e]] \in Nodes /\ Nobody \notin EngineRows
      BY StatusAssumption, Zenon
    <2>00. Registered(e) => engineRow[e] \in EngineRows
      BY Zenon DEF Registered
    <2>1. CASE RegisterEngine(e)
      <3> DEFINE s == SlotOf[e]
                 old == slotOwner[s]
                 r == Admitted(NodeOf[s])
      <3>1. r \in Revisions
        BY <2>0, <2>1, Zenon DEF RegisterEngine, Admitted, Operations
      <3>2. NewRow(r) \in EngineRows /\ \A m \in Modules : NewRow(r).route[m] = "unhealthy"
        BY <3>1, Zenon DEF NewRow, EngineRows
      <3>3. ASSUME NEW x \in EngineIds, Registered(x)
            PROVE  LET row == [NewRow(engineRow[x].rev) EXCEPT !.fresh = engineRow[x].fresh]
                   IN  row \in EngineRows /\ \A m \in Modules : row.route[m] = "unhealthy"
        <4>1. engineRow[x] \in EngineRows
          BY <3>3, Zenon DEF Registered
        <4> QED BY <4>1, Zenon DEF NewRow, EngineRows
      <3>4. ASSUME NEW x \in EngineIds
            PROVE  /\ engineRow'[x] \in EngineRows \cup {Nobody}
                   /\ engineRow'[x] # engineRow[x] =>
                        \A m \in Modules : engineRow'[x].route[m] = "unhealthy"
                   /\ x = old /\ Registered(x) =>
                        \A m \in Modules : engineRow'[x].route[m] = "unhealthy"
        <4>1. engineRow'[x] = IF x = e THEN NewRow(r)
                              ELSE IF x = old /\ Registered(x)
                              THEN [NewRow(engineRow[x].rev) EXCEPT !.fresh = engineRow[x].fresh]
                              ELSE engineRow[x]
          BY <2>1, Zenon DEF RegisterEngine
        <4>2. CASE x = e
          BY <4>1, <4>2, <3>2, Zenon
        <4>3. CASE x # e /\ x = old /\ Registered(x)
          BY <4>1, <4>3, <3>3, Zenon
        <4>4. CASE x # e /\ ~(x = old /\ Registered(x))
          BY <4>1, <4>4, Zenon
        <4> QED BY <4>2, <4>3, <4>4, Zenon
      <3>5. engineRow' \in [EngineIds -> EngineRows \cup {Nobody}]
        <4>1. engineRow' = [x \in EngineIds |-> engineRow'[x]]
          BY <2>1, Zenon DEF RegisterEngine
        <4> QED BY <3>4, <4>1, Zenon
      <3>6. /\ slotOwner' = [slotOwner EXCEPT ![s] = e]
            /\ UNCHANGED <<authority, committed, operation>>
        BY <2>1, Zenon DEF RegisterEngine, EngineChange
      <3>7. ASSUME NEW x \in EngineIds PROVE RouteOwned(x)'
        <4>1. CASE \A m \in Modules : engineRow'[x].route[m] = "unhealthy"
          BY <4>1, Zenon DEF RouteOwned
        <4>2. CASE engineRow'[x] = engineRow[x] /\ ~(x = old /\ Registered(x))
          <5>1. SlotOf[x] = s /\ Registered(x) =>
                  \A m \in Modules : engineRow[x].route[m] # "healthy"
            BY <4>2, Zenon DEF RouteOwned
          <5>2. SlotOf[x] # s => slotOwner'[SlotOf[x]] = slotOwner[SlotOf[x]]
            BY <2>0, <3>6, StatusAssumption, Zenon
          <5> QED BY <4>2, <5>1, <5>2, <3>6, Zenon DEF RouteOwned, Registered
        <4> QED BY <3>4, <4>1, <4>2, Zenon
      <3>8. slotOwner' \in [Slots -> EngineIds \cup {Nobody}]
        BY <3>6, <2>0, Zenon
      <3> QED BY <3>5, <3>6, <3>7, <3>8, Zenon
    <2>2. ASSUME NEW healthy \in SUBSET Modules, Heartbeat(e, healthy) PROVE EngineInv'
      <3> DEFINE beat == [m \in Modules |->
                            IF m \in healthy THEN "fresh" ELSE engineRow[e].beat[m]]
                 route == [m \in Modules |->
                            IF m \in healthy /\ AuthoritativeEngine(e)
                            THEN "healthy" ELSE "unhealthy"]
                 row == [engineRow[e] EXCEPT !.fresh = TRUE, !.beat = beat, !.route = route]
      <3>1. beat \in [Modules -> {"fresh", "STALE_MODULE_HEARTBEAT", "MISSING_MODULE_HEARTBEAT"}]
        BY <2>2, <2>00, Zenon DEF Heartbeat, EngineRows
      <3>2. /\ route \in [Modules -> {"healthy", "unhealthy"}]
            /\ \A m \in Modules : route[m] = "healthy" => AuthoritativeEngine(e)
        BY Zenon
      <3>3. engineRow' = [engineRow EXCEPT ![e] = row]
        BY <2>2, Zenon DEF Heartbeat
      <3> HIDE DEF beat, route
      <3>4. /\ row \in EngineRows /\ row.route = route /\ row.rev = engineRow[e].rev
        BY <2>2, <2>00, <3>1, <3>2, Zenon DEF Heartbeat, EngineRows
      <3>5. AuthoritativeEngine(e) => authority[SlotOf[e]] \in {0, engineRow[e].rev}
        BY Zenon DEF AuthoritativeEngine
      <3>6. slotOwner[SlotOf[e]] = e /\ UNCHANGED <<slotOwner, authority, committed, operation>>
        BY <2>2, Zenon DEF Heartbeat, EngineChange
      <3> HIDE DEF row
      <3> QED BY <3>2, <3>3, <3>4, <3>5, <3>6, EngineMoves, Zenon
    <2>3. ASSUME NEW row \in EngineRows \cup {Nobody},
                 engineRow' = [engineRow EXCEPT ![e] = row], Registered(e),
                 row # Nobody => row.rev = engineRow[e].rev,
                 row # Nobody => \A m \in Modules : row.route[m] = "healthy" =>
                   engineRow[e].route[m] = "healthy",
                 UNCHANGED <<slotOwner, authority, committed, operation>>
          PROVE  EngineInv'
      <3>1. row # Nobody => \A m \in Modules : row.route[m] = "healthy" =>
              /\ slotOwner[SlotOf[e]] = e
              /\ authority[SlotOf[e]] \in {0, row.rev}
        BY <2>3, Zenon DEF RouteOwned
      <3> QED BY <2>3, <3>1, EngineMoves, Zenon
    <2>4. ASSUME NEW m \in Modules, Lapse(e, m) PROVE EngineInv'
      <3>0. Registered(e) /\ UNCHANGED <<slotOwner, authority, committed, operation>>
        BY <2>4, Zenon DEF Lapse, EngineChange
      <3>1. CASE engineRow' = [engineRow EXCEPT ![e].fresh = FALSE]
        <4> DEFINE row == [engineRow[e] EXCEPT !.fresh = FALSE]
        <4>1. row \in EngineRows /\ row.rev = engineRow[e].rev /\ row.route = engineRow[e].route
          BY <2>00, <3>0, Zenon DEF EngineRows
        <4>2. engineRow' = [engineRow EXCEPT ![e] = row]
          BY <3>1, Zenon
        <4> HIDE DEF row
        <4> QED BY <2>3, <3>0, <4>1, <4>2, Zenon
      <3>2. CASE engineRow' = [engineRow EXCEPT ![e].beat[m] = "STALE_MODULE_HEARTBEAT"]
        <4> DEFINE beat == [engineRow[e].beat EXCEPT ![m] = "STALE_MODULE_HEARTBEAT"]
                   row == [engineRow[e] EXCEPT !.beat = beat]
        <4>1. beat \in [Modules -> {"fresh", "STALE_MODULE_HEARTBEAT", "MISSING_MODULE_HEARTBEAT"}]
          BY <2>00, <3>0, Zenon DEF EngineRows
        <4>2. engineRow' = [engineRow EXCEPT ![e] = row]
          BY <3>2, Zenon
        <4> HIDE DEF beat
        <4>3. row \in EngineRows /\ row.rev = engineRow[e].rev /\ row.route = engineRow[e].route
          BY <2>00, <3>0, <4>1, Zenon DEF EngineRows
        <4> HIDE DEF row
        <4> QED BY <2>3, <3>0, <4>2, <4>3, Zenon
      <3> QED BY <2>4, <3>1, <3>2, Zenon DEF Lapse
    <2>5. CASE Reap(e)
      <3>0. Registered(e) /\ UNCHANGED <<slotOwner, authority, committed, operation>>
        BY <2>5, Zenon DEF Reap, EngineChange
      <3>1. CASE engineRow' = [engineRow EXCEPT ![e] = Nobody]
        BY <2>3, <3>0, <3>1, Zenon
      <3>2. CASE engineRow' = [engineRow EXCEPT ![e] = Withdrawn(engineRow[e])]
        <4>1. LET row == Withdrawn(engineRow[e]) IN
              /\ row \in EngineRows /\ row.rev = engineRow[e].rev
              /\ \A m \in Modules : row.route[m] = "unhealthy"
          BY <2>00, <3>0, Zenon DEF EngineRows, Withdrawn
        <4> QED BY <2>3, <3>0, <3>2, <4>1, Zenon
      <3> QED BY <2>5, <3>1, <3>2, Zenon DEF Reap
    <2> QED BY <1>1, <2>1, <2>2, <2>4, <2>5, Zenon DEF EngineStep
  <1>2. ASSUME NEW n \in Nodes, NodeStep(n) PROVE EngineInv'
    <2>0. ASSUME UNCHANGED <<engineRow, slotOwner, authority>>,
                 committed' \in [Nodes -> Revisions \cup {0}],
                 operation' \in [Nodes -> Operations \cup {Nobody}]
          PROVE  EngineInv'
      BY <2>0, Zenon DEF RouteOwned, Registered
    <2>1. UNCHANGED <<engineRow, slotOwner, authority>>
      BY <1>2, Zenon DEF NodeStep, SubmitOperation, AdvanceOperation, EndOperation, OperationChange
    <2>2. ASSUME NEW r \in Revisions, SubmitOperation(n, r) PROVE EngineInv'
      <3> DEFINE op == [source |-> committed[n], target |-> r, restoring |-> FALSE,
                        started |-> FALSE, seen |-> Nobody, paused |-> FALSE, unsure |-> FALSE]
      <3>1. op \in Operations
        BY Zenon DEF Operations
      <3>2. operation' = [operation EXCEPT ![n] = op] /\ UNCHANGED committed
        BY <2>2, Zenon DEF SubmitOperation
      <3> HIDE DEF op
      <3> QED BY <2>0, <2>1, <3>1, <3>2, Zenon
    <2>3. CASE AdvanceOperation(n)
      <3>0. operation[n] \in Operations /\ UNCHANGED committed
        BY <2>3, Zenon DEF AdvanceOperation
      <3>1. PICK op \in Operations : operation' = [operation EXCEPT ![n] = op]
        <4>1. ASSUME NEW p \in ProxyIds \cup {Nobody},
                     operation' = [operation EXCEPT ![n].started = TRUE, ![n].seen = p]
              PROVE  \E op \in Operations : operation' = [operation EXCEPT ![n] = op]
          <5> DEFINE op == [operation[n] EXCEPT !.started = TRUE, !.seen = p]
          <5>1. op \in Operations
            BY <3>0, Zenon DEF Operations
          <5>2. operation' = [operation EXCEPT ![n] = op]
            BY <4>1, Zenon
          <5> QED BY <5>1, <5>2, Zenon
        <4>2. ASSUME NEW b \in BOOLEAN, NEW u \in BOOLEAN,
                     operation' = [operation EXCEPT ![n].paused = b, ![n].unsure = u]
              PROVE  \E op \in Operations : operation' = [operation EXCEPT ![n] = op]
          <5> DEFINE op == [operation[n] EXCEPT !.paused = b, !.unsure = u]
          <5>1. op \in Operations
            BY <3>0, Zenon DEF Operations
          <5>2. operation' = [operation EXCEPT ![n] = op]
            BY <4>2, Zenon
          <5> QED BY <5>1, <5>2, Zenon
        <4>3. CASE operation' = [operation EXCEPT ![n].restoring = TRUE, ![n].paused = FALSE]
          <5> DEFINE op == [operation[n] EXCEPT !.restoring = TRUE, !.paused = FALSE]
          <5>1. op \in Operations
            BY <3>0, Zenon DEF Operations
          <5>2. operation' = [operation EXCEPT ![n] = op]
            BY <4>3, Zenon
          <5> QED BY <5>1, <5>2, Zenon
        <4> QED BY <2>3, <4>1, <4>2, <4>3, Zenon DEF AdvanceOperation, ListedProxies
      <3> QED BY <2>0, <2>1, <3>0, <3>1, Zenon
    <2>4. CASE EndOperation(n)
      <3>1. Admitted(n) \in Revisions
        BY <2>4, Zenon DEF EndOperation, Admitted, Operations
      <3> QED BY <2>0, <2>1, <2>4, <3>1, Zenon DEF EndOperation
    <2> QED BY <1>2, <2>2, <2>3, <2>4, Zenon DEF NodeStep
  <1>3. ASSUME NEW s \in Slots, SwitchAuthority(s) PROVE EngineInv'
    <2> DEFINE r == Admitted(NodeOf[s])
    <2>1. r \in Revisions
      BY <1>3, StatusAssumption, Zenon DEF SwitchAuthority, Admitted, Operations
    <2>2. /\ authority' = [authority EXCEPT ![s] = r]
          /\ UNCHANGED <<slotOwner, committed, operation>>
      BY <1>3, Zenon DEF SwitchAuthority, OperationChange
    <2>3. ASSUME NEW x \in EngineIds, Registered(x)
          PROVE  /\ Withdrawn(engineRow[x]) \in EngineRows
                 /\ \A m \in Modules : Withdrawn(engineRow[x]).route[m] = "unhealthy"
      <3>1. engineRow[x] \in EngineRows
        BY <2>3, Zenon DEF Registered
      <3> QED BY <3>1, Zenon DEF EngineRows, Withdrawn
    <2>4. ASSUME NEW x \in EngineIds
          PROVE  engineRow'[x] = IF SlotOf[x] = s /\ Registered(x) /\ engineRow[x].rev # r
                                 THEN Withdrawn(engineRow[x]) ELSE engineRow[x]
      BY <1>3, Zenon DEF SwitchAuthority
    <2>5. engineRow' \in [EngineIds -> EngineRows \cup {Nobody}]
      <3>1. engineRow' = [x \in EngineIds |-> engineRow'[x]]
        BY <1>3, Zenon DEF SwitchAuthority
      <3> QED BY <2>3, <2>4, <3>1, Zenon
    <2>6. ASSUME NEW x \in EngineIds PROVE RouteOwned(x)'
      <3>1. CASE SlotOf[x] = s /\ Registered(x) /\ engineRow[x].rev # r
        BY <2>3, <2>4, <3>1, Zenon DEF RouteOwned
      <3>2. CASE SlotOf[x] = s /\ Registered(x) /\ engineRow[x].rev = r
        BY <2>2, <2>4, <3>2, Zenon DEF RouteOwned, Registered
      <3>3. CASE SlotOf[x] # s \/ ~Registered(x)
        <4>1. engineRow'[x] = engineRow[x]
          BY <2>4, <3>3, Zenon
        <4>2. SlotOf[x] # s => authority'[SlotOf[x]] = authority[SlotOf[x]]
          BY <2>2, StatusAssumption, Zenon
        <4> QED BY <2>2, <3>3, <4>1, <4>2 DEF RouteOwned, Registered
      <3> QED BY <3>1, <3>2, <3>3, Zenon
    <2>7. authority' \in [Slots -> Revisions \cup {0}]
      BY <2>1, <2>2, Zenon
    <2> QED BY <2>2, <2>5, <2>6, <2>7, Zenon
  <1>4. ASSUME NEW p \in ProxyIds, ProxyStep(p) PROVE EngineInv'
    BY <1>0, <1>4, Zenon
    DEF ProxyStep, SendRegister, SendReport, SendDeregister, PurgeTombstone, ReportLapses,
        ProxyChange
  <1>5. ASSUME NEW q \in sent, Deliver(q) PROVE EngineInv'
    BY <1>0, <1>5, Zenon DEF Deliver, ProxyChange
  <1>6. CASE Surroundings \/ UNCHANGED statusVars
    BY <1>0, <1>6, Zenon DEF Surroundings, statusVars, tables
  <1> QED BY <1>1, <1>2, <1>3, <1>4, <1>5, <1>6, Zenon DEF ClusterNext

(* A cluster without engines satisfies EngineInv.                          *)
LEMMA EnginesStart == ClusterInit => EngineInv
  BY DEF ClusterInit, EngineInv, RouteOwned, Registered

(* The severities of status.rs.                                            *)
Severities == {Unknown, Healthy, Degraded, Unhealthy}

(* reduce returns the worst of the severities it is given, or Unknown.     *)
LEMMA ReduceIsWorst ==
    ASSUME NEW S, S \subseteq Severities
    PROVE  /\ Reduce(S) \in S \cup {Unknown}
           /\ \A x \in S : Reduce(S) >= x
  <1> DEFINE T == S \cup {Unknown}
  <1>1. T \subseteq 0..3 /\ 0 \in T
    BY DEF Severities, Unknown, Healthy, Degraded, Unhealthy
  <1>2. \E x \in T : \A y \in T : x >= y
    <2>1. CASE 3 \in T
      BY <1>1, <2>1
    <2>2. CASE 3 \notin T /\ 2 \in T
      BY <1>1, <2>2
    <2>3. CASE 3 \notin T /\ 2 \notin T /\ 1 \in T
      BY <1>1, <2>3
    <2>4. CASE 3 \notin T /\ 2 \notin T /\ 1 \notin T
      BY <1>1, <2>4
    <2> QED BY <2>1, <2>2, <2>3, <2>4, Zenon
  <1>3. Max(T) \in T /\ \A y \in T : Max(T) >= y
    BY <1>2, Zenon DEF Max
  <1> QED BY <1>3, Zenon DEF Reduce

(* A condition other than the cluster's own is Degraded or worse.          *)
Graver(conditions) == \A c \in conditions : c[2] \in {Degraded, Unhealthy}

(* An entity is below Degraded exactly when it has no condition at all.    *)
LEMMA SeverityIsKnown ==
    ASSUME NEW conditions, Graver(conditions)
    PROVE  /\ SeverityOf(conditions) \in {Healthy, Degraded, Unhealthy}
           /\ conditions = {} <=> SeverityOf(conditions) < Degraded
  <1> DEFINE S == {c[2] : c \in conditions}
  <1>1. CASE conditions = {}
    BY <1>1 DEF SeverityOf, Healthy, Degraded
  <1>2. CASE conditions # {}
    <2>1. S \subseteq {Degraded, Unhealthy} /\ S \subseteq Severities
      BY Zenon DEF Graver, Severities
    <2>2. PICK c \in conditions : TRUE
      BY <1>2, Zenon
    <2>3. c[2] \in S
      BY <2>2, Zenon
    <2>4. /\ Reduce(S) \in S \cup {Unknown}
          /\ Reduce(S) >= c[2]
      BY <2>1, <2>3, ReduceIsWorst, Zenon
    <2>5. Reduce(S) \in {Degraded, Unhealthy}
      BY <2>1, <2>3, <2>4 DEF Unknown, Degraded, Unhealthy
    <2>6. SeverityOf(conditions) = Reduce(S)
      BY <1>2, Zenon DEF SeverityOf, ConditionSeverity
    <2> QED BY <1>2, <2>5, <2>6 DEF Healthy, Degraded, Unhealthy
  <1> QED BY <1>1, <1>2, Zenon

(* The conditions of a release cleanup are Degraded or worse.              *)
LEMMA CleanupIsGraver == ASSUME NEW n PROVE Graver(CleanupConditions(n))
  BY DEF Graver, CleanupConditions, Condition

(* The conditions of an engine are Degraded or worse.                      *)
LEMMA EngineIsGraver == ASSUME NEW e PROVE Graver(EngineConditions(e))
  <1>1. Graver(CleanupConditions(NodeOf[SlotOf[e]]))
    BY CleanupIsGraver, Zenon
  <1> QED BY <1>1 DEF Graver, EngineConditions, Condition

(* Joining conditions that are Degraded or worse adds no lighter one.      *)
LEMMA GraverJoins ==
    ASSUME NEW S, NEW T, Graver(S), Graver(T)
    PROVE  Graver(S \cup T)
  BY Zenon DEF Graver

(* The conditions read from a proxy's report are Degraded or worse.        *)
LEMMA ReportIsGraver ==
    ASSUME ProxyInv, NEW p \in ProxyIds, inventory[p].report # Nobody
    PROVE  Graver(ReportConditions(p))
  <1>1. inventory[p].report \in ReportForms
    BY Zenon DEF ProxyInv, InventoryRows
  <1>2. inventory[p].report.breakers \in {"closed", "partial", "open"}
    BY <1>1, Zenon DEF ReportForms
  <1> QED BY <1>2 DEF Graver, ReportConditions, Condition

(* The conditions of a proxy are Degraded or worse.                        *)
LEMMA ProxyIsGraver ==
    ASSUME ProxyInv, NEW p \in ProxyIds
    PROVE  Graver(ProxyConditions(p))
  <1>1. inventory[p].report # Nobody => Graver(ReportConditions(p))
    BY ReportIsGraver, Zenon
  <1> QED BY <1>1 DEF Graver, ProxyConditions, Condition

(* The conditions of a node are Degraded or worse.                         *)
LEMMA NodeIsGraver ==
    ASSUME ProxyInv, NEW n \in Nodes
    PROVE  Graver(NodeConditions(n))
  <1>1. Graver(CleanupConditions(n))
    BY CleanupIsGraver, Zenon
  <1>2. Graver(NodeProxyConditions(n))
    <2>1. \A p \in ProxyIds : Graver(ProxyConditions(p))
      BY ProxyIsGraver, Zenon
    <2> QED BY <2>1 DEF Graver, NodeProxyConditions, Condition, ListedProxies
  <1>3. \A codes : Graver({Condition(code, Unhealthy) : code \in codes})
    BY DEF Graver, Condition
  <1> QED BY <1>1, <1>2, <1>3, GraverJoins, Zenon DEF NodeConditions

(* A slot without a condition has exactly one fresh engine of the wanted   *)
(* revision, which owns the slot and serves each module that the slot      *)
(* hosts.                                                                  *)
LEMMA SlotIsServed ==
    ASSUME EngineInv, NEW s \in Slots, NEW r, Hosts[r][s] # {},
           SlotConditions(s, r) = {}
    PROVE  LET e == slotOwner[s] IN
           /\ e # Nobody /\ Registered(e)
           /\ engineRow[e].rev = r /\ engineRow[e].fresh
           /\ \A m \in Hosts[r][s] : engineRow[e].beat[m] = "fresh" /\ SlotServes(s, m)
  <1> DEFINE exact == {e \in EnginesOf(s) : engineRow[e].rev = r}
             fresh == {e \in exact : engineRow[e].fresh}
  <1>1. Cardinality(fresh) = 1 /\ ModuleConditions(CHOOSE e \in fresh : TRUE) = {}
    BY Zenon DEF SlotConditions
  <1>2. IsFiniteSet(fresh)
    <2>1. fresh \in SUBSET EngineIds
      BY Zenon DEF EnginesOf
    <2> QED BY <2>1, FS_Subset, StatusAssumption, Zenon
  <1>3. PICK e : fresh = {e}
    BY <1>1, <1>2, FS_Singleton, Zenon
  <1>4. ModuleConditions(e) = {}
    BY <1>1, <1>3, Zenon
  <1>5. /\ e \in EngineIds /\ Registered(e) /\ SlotOf[e] = s
        /\ engineRow[e].rev = r /\ engineRow[e].fresh
    BY <1>3, Zenon DEF EnginesOf
  <1>6. Advertised(e) = Hosts[r][s] /\ Hosts[r][s] \subseteq Modules
    <2>1. r \in Revisions
      BY <1>5, Zenon DEF EngineInv, Registered, EngineRows
    <2> QED BY <1>5, <2>1 DEF Advertised, Modules
  <1>7. ASSUME NEW m \in Hosts[r][s]
        PROVE  engineRow[e].beat[m] = "fresh" /\ engineRow[e].route[m] = "healthy"
    <2> DEFINE F(k) == IF engineRow[e].beat[k] # "fresh" THEN {engineRow[e].beat[k]}
                       ELSE IF engineRow[e].route[k] # "healthy" THEN {"UNHEALTHY_ROUTE"} ELSE {}
    <2>1. UNION {F(k) : k \in Advertised(e)} = {}
      BY <1>4, Zenon DEF ModuleConditions
    <2>2. m \in Advertised(e)
      BY <1>6, <1>7, Zenon
    <2>3. F(m) = {}
      <3> HIDE DEF F
      <3> QED BY <2>1, <2>2, Zenon
    <2> QED BY <2>3, Zenon
  <1>8. ASSUME NEW m \in Hosts[r][s]
        PROVE  slotOwner[s] = e /\ authority[s] \in {0, engineRow[e].rev}
    BY <1>5, <1>6, <1>7, <1>8, Zenon DEF EngineInv, RouteOwned
  <1>9. slotOwner[s] = e /\ e # Nobody
    BY <1>5, <1>8, StatusAssumption, Zenon
  <1>10. ASSUME NEW m \in Hosts[r][s] PROVE SlotServes(s, m)
    BY <1>3, <1>5, <1>6, <1>7, <1>8, <1>9, <1>10, Zenon DEF SlotServes, EnginesOf
  <1> QED BY <1>5, <1>7, <1>9, <1>10

(* A node without a condition runs its committed deployment behind a ready *)
(* proxy that routes to it: compose leaves no gap between the conditions.  *)
LEMMA NodeIsServed ==
    ASSUME ClusterInv, NEW n \in Nodes, NodeConditions(n) = {}
    PROVE  NodeServed(n)
  <1> DEFINE r == IF committed[n] # 0 THEN committed[n] ELSE staged[n]
             x == ExpectedProxy(n)
  <1>1. /\ r # 0 /\ DeploymentConditions(n, r) = {}
        /\ NodeProxyConditions(n) = {}
    <2>1. (IF r = 0 THEN {"NO_COMMITTED_DEPLOYMENT"} ELSE DeploymentConditions(n, r)) = {}
      BY Zenon DEF NodeConditions
    <2> QED BY <2>1, Zenon DEF NodeConditions
  <1>2. ASSUME NEW s \in SlotsOf(n, r)
        PROVE  LET e == slotOwner[s] IN
               /\ e # Nobody /\ Registered(e)
               /\ engineRow[e].rev = r /\ engineRow[e].fresh
               /\ \A m \in Hosts[r][s] : engineRow[e].beat[m] = "fresh" /\ SlotServes(s, m)
    <2>1. SlotConditions(s, r) = {}
      BY <1>1, <1>2, Zenon DEF DeploymentConditions
    <2>2. s \in Slots /\ Hosts[r][s] # {}
      BY <1>2, Zenon DEF SlotsOf
    <2> QED BY <2>1, <2>2, SlotIsServed, Zenon DEF ClusterInv
  <1>3. ASSUME x.rev # 0
        PROVE  \E p \in ProxyIds : /\ HomeOf[p] = n
                                   /\ inventory[p].row = "present"
                                   /\ inventory[p].rev = x.rev
                                   /\ FreshReport(p)
                                   /\ inventory[p].report.life = "ready"
                                   /\ inventory[p].report.open
    <2> DEFINE chosen == {p \in ListedProxies : HomeOf[p] = n /\ Selected(p)}
    <2>1. chosen # {} /\ UNION {ProxyConditions(p) : p \in chosen} = {}
      BY <1>1, <1>3, Zenon DEF NodeProxyConditions
    <2>2. PICK p \in chosen : TRUE
      BY <2>1, Zenon
    <2>3. /\ p \in ProxyIds /\ HomeOf[p] = n /\ inventory[p].row = "present"
          /\ Selected(p) /\ ProxyConditions(p) = {}
      BY <2>1, <2>2, Zenon DEF ListedProxies
    <2>4. p \in Candidates(n)
      BY <2>3, Zenon DEF Selected
    <2>5. FreshReport(p) /\ inventory[p].rev = x.rev
      BY <2>3, <2>4, Zenon DEF Candidates, ProxyExpected, ExactProxy
    <2>6. inventory[p].report # Nobody /\ ReportConditions(p) = {}
      BY <2>3, <2>5, Zenon DEF FreshReport, ProxyConditions
    <2>7. inventory[p].report \in ReportForms
      BY <2>3, <2>6, Zenon DEF ClusterInv, ProxyInv, InventoryRows
    <2>8. inventory[p].report.life = "ready"
      BY <2>6, <2>7, Zenon DEF ReportConditions, ReportForms
    <2>9. inventory[p].report.open
      BY <2>3, <2>6, <2>7, <2>8, Zenon DEF ReportConditions, ReportForms
    <2> QED BY <2>3, <2>5, <2>8, <2>9, Zenon
  <1> QED BY <1>1, <1>2, <1>3, Zenon DEF NodeServed

(* A route counted healthy is served by the engine that owns its slot.     *)
LEMMA HealthyRouteServes ==
    ASSUME EngineInv, NEW m \in Modules, NEW e \in HealthyRoutes(m)
    PROVE  /\ e \in EngineIds /\ SlotOf[e] \in Slots
           /\ slotOwner[SlotOf[e]] = e
           /\ SlotServes(SlotOf[e], m)
  <1>1. /\ e \in EngineIds /\ Registered(e) /\ m \in Advertised(e)
        /\ engineRow[e].route[m] = "healthy"
    BY Zenon DEF HealthyRoutes, RoutesTo
  <1>2. SlotOf[e] \in Slots /\ e \in EnginesOf(SlotOf[e])
    BY <1>1, StatusAssumption, Zenon DEF EnginesOf
  <1>3. slotOwner[SlotOf[e]] = e /\ authority[SlotOf[e]] \in {0, engineRow[e].rev}
    BY <1>1, Zenon DEF EngineInv, RouteOwned
  <1> QED BY <1>1, <1>2, <1>3, Zenon DEF SlotServes

(* A service below Degraded is served in as many slots as its deployments  *)
(* want: two healthy routes never share a slot, so counting routes counts  *)
(* slots.                                                                  *)
LEMMA ServiceIsServed ==
    ASSUME EngineInv, NEW m \in Modules, ServiceSeverity(m) < Degraded
    PROVE  /\ Cardinality({s \in Slots : SlotServes(s, m)}) >= DesiredRoutes(m)
           /\ \E s \in Slots : SlotServes(s, m)
  <1> DEFINE H == HealthyRoutes(m)
             T == {s \in Slots : SlotServes(s, m)}
             f == [e \in H |-> SlotOf[e]]
  <1>1. f \in Injection(H, T)
    <2>1. f \in [H -> T]
      BY HealthyRouteServes, Zenon
    <2>2. \A a, b \in H : f[a] = f[b] => a = b
      BY HealthyRouteServes
    <2> QED BY <2>1, <2>2, Zenon DEF Injection, IsInjective
  <1>2. IsFiniteSet(T)
    <2>1. T \in SUBSET Slots
      BY Zenon
    <2> QED BY <2>1, FS_Subset, StatusAssumption, Zenon
  <1>3. /\ IsFiniteSet(H) /\ Cardinality(H) <= Cardinality(T)
        /\ Cardinality(H) \in Nat /\ Cardinality(T) \in Nat
    <2> HIDE DEF f, H, T
    <2> QED BY <1>1, <1>2, FS_Injection, FS_CardinalityType, Zenon
  <1>4. DesiredRoutes(m) \in Nat
    <2> DEFINE D == {s \in Slots : committed[NodeOf[s]] # 0 /\ m \in Hosts[committed[NodeOf[s]]][s]}
    <2>1. D \in SUBSET Slots
      BY Zenon
    <2>2. IsFiniteSet(D)
      <3> HIDE DEF D
      <3> QED BY <2>1, FS_Subset, StatusAssumption, Zenon
    <2>3. Cardinality(D) \in Nat
      BY <2>2, FS_CardinalityType, Zenon
    <2> QED BY <2>3, Zenon DEF DesiredRoutes
  <1>5. Cardinality(H) # 0 /\ ~(Cardinality(H) < DesiredRoutes(m))
    BY DEF ServiceSeverity, Degraded, Unhealthy
  <1>6. Cardinality(T) >= DesiredRoutes(m) /\ Cardinality(T) # 0
    <2> HIDE DEF H, T
    <2> QED BY <1>3, <1>4, <1>5
  <1>7. T # {}
    <2> HIDE DEF T
    <2> QED BY <1>6, FS_EmptySet, Zenon
  <1> QED BY <1>6, <1>7, Zenon

(* `status --fail-on degraded` succeeds only when every node and service   *)
(* is served and every manager is a member.                                *)
LEMMA ClusterIsServed ==
    ASSUME ClusterInv, ~ShouldFail("degraded")
    PROVE  /\ \A n \in Nodes : NodeServed(n)
           /\ \A m \in ManagerIds : member[m]
           /\ \A m \in Services : \E s \in Slots : SlotServes(s, m)
  <1> DEFINE M == {SeverityOf(ManagerConditions(m)) : m \in ManagerIds}
             N == {NodeSeverity(n) : n \in Nodes}
             E == {SeverityOf(EngineConditions(e)) : e \in {x \in EngineIds : Registered(x)}}
             V == {ServiceSeverity(m) : m \in Services}
             C == {ConditionSeverity(ClusterConditions)}
             S == M \cup N \cup E \cup V \cup C
  <1>1. ASSUME NEW m \in ManagerIds PROVE Graver(ManagerConditions(m))
    BY DEF Graver, ManagerConditions, Condition
  <1>2. M \subseteq Severities
    BY <1>1, SeverityIsKnown, Zenon DEF Severities
  <1>3. N \subseteq Severities
    BY NodeIsGraver, SeverityIsKnown, Zenon DEF Severities, NodeSeverity, ClusterInv
  <1>4. E \subseteq Severities
    BY EngineIsGraver, SeverityIsKnown, Zenon DEF Severities
  <1>5. V \subseteq Severities
    BY Zenon DEF ServiceSeverity, Severities
  <1>6. C \subseteq Severities
    <2> DEFINE K == {c[2] : c \in ClusterConditions}
    <2>1. K \subseteq Severities
      BY DEF ClusterConditions, Condition, Severities
    <2>2. Reduce(K) \in K \cup {Unknown}
      <3> HIDE DEF K
      <3> QED BY <2>1, ReduceIsWorst, Zenon
    <2>3. Reduce(K) \in Severities
      <3> HIDE DEF K
      <3> QED BY <2>1, <2>2, Zenon DEF Severities
    <2> QED BY <2>3, Zenon DEF ConditionSeverity
  <1>7. S \subseteq Severities
    <2> HIDE DEF M, N, E, V, C
    <2> QED BY <1>2, <1>3, <1>4, <1>5, <1>6, Zenon
  <1>8. ClusterSeverity = Reduce(S) /\ ~(ClusterSeverity >= Degraded)
    BY Zenon DEF ClusterSeverity, ShouldFail
  <1>9. \A v \in S : v < Degraded
    <2> HIDE DEF S
    <2>1. Reduce(S) \in Severities /\ \A v \in S : Reduce(S) >= v
      BY <1>7, ReduceIsWorst, Zenon DEF Severities
    <2> QED BY <1>7, <1>8, <2>1 DEF Severities, Unknown, Healthy, Degraded, Unhealthy
  <1>10. ASSUME NEW n \in Nodes PROVE NodeServed(n)
    <2>1. NodeSeverity(n) < Degraded
      BY <1>9, Zenon
    <2>2. NodeConditions(n) = {}
      BY <2>1, NodeIsGraver, SeverityIsKnown, Zenon DEF NodeSeverity, ClusterInv
    <2> QED BY <2>2, NodeIsServed, Zenon
  <1>11. ASSUME NEW m \in ManagerIds PROVE member[m]
    <2>1. SeverityOf(ManagerConditions(m)) < Degraded
      BY <1>9, Zenon
    <2>2. ManagerConditions(m) = {}
      BY <2>1, <1>1, SeverityIsKnown, Zenon
    <2> QED BY <2>2, Zenon DEF ManagerConditions
  <1>12. ASSUME NEW m \in Services PROVE \E s \in Slots : SlotServes(s, m)
    <2>1. ServiceSeverity(m) < Degraded /\ m \in Modules
      BY <1>9, Zenon DEF Services
    <2> QED BY <2>1, ServiceIsServed, Zenon DEF ClusterInv
  <1> QED BY <1>10, <1>11, <1>12, Zenon

(* ClusterInv is enough for what `status` and its wait tell.               *)
LEMMA InvIsServed ==
    ASSUME ClusterInv
    PROVE  HealthyIsServed
  <1>1. ASSUME NEW n \in Nodes, WaitMatches(n, Nobody, Healthy) PROVE NodeServed(n)
    <2>1. {NodeSeverity(n)} = {Healthy}
      BY <1>1, StatusAssumption, Zenon DEF WaitMatches, Observed
    <2>2. NodeSeverity(n) < Degraded
      BY <2>1 DEF Healthy, Degraded
    <2>3. NodeConditions(n) = {}
      BY <2>2, NodeIsGraver, SeverityIsKnown, Zenon DEF NodeSeverity, ClusterInv
    <2> QED BY <2>3, NodeIsServed, Zenon
  <1>2. ASSUME NEW m \in Modules, WaitMatches(Nobody, m, Healthy)
        PROVE  Cardinality({s \in Slots : SlotServes(s, m)}) >= DesiredRoutes(m)
    <2>1. {ServiceSeverity(x) : x \in KeptServices(Nobody, m)} = {Healthy}
      BY <1>2, StatusAssumption, Zenon DEF WaitMatches, Observed
    <2>2. PICK x \in KeptServices(Nobody, m) : ServiceSeverity(x) = Healthy
      BY <2>1, Zenon
    <2>3. x = m
      BY <2>2, StatusAssumption, Zenon DEF KeptServices, Services
    <2>4. ServiceSeverity(m) < Degraded
      BY <2>2, <2>3 DEF Healthy, Degraded
    <2> QED BY <2>4, ServiceIsServed, Zenon DEF ClusterInv
  <1> QED BY <1>1, <1>2, ClusterIsServed, Zenon DEF HealthyIsServed

(* What `status` calls healthy is served: a wait for a healthy node or     *)
(* service that returns, and a `--fail-on degraded` that passes, find      *)
(* engines of the right revision owning the slots, whatever registered,    *)
(* expired or switched before (status.rs compose).                         *)
THEOREM HealthyWasServed == ClusterSpec => []HealthyIsServed
  <1>1. ClusterInit => ClusterInv
    BY ProxiesStart, EnginesStart, Zenon DEF ClusterInv
  <1>2. ClusterInv /\ [ClusterNext]_statusVars => ClusterInv'
    BY ProxyStepKeeps, EngineStepKeeps, Zenon DEF ClusterInv
  <1> QED BY <1>1, <1>2, InvIsServed, PTL DEF ClusterSpec
=============================================================================
