------------------------------ MODULE JobAdmin ------------------------------
(***************************************************************************)
(* The users of a job queue.  A caller submits jobs to the worker's engine  *)
(* and polls them (wr-engine/src/worker_http.rs); an operator lists the    *)
(* queue page by page and retries dead jobs.  The command line asks a      *)
(* manager, the manager passes the request to an engine that serves the    *)
(* queue (wr-manager/src/job_admin.rs, wr-engine/src/job_admin.rs), and    *)
(* the engine works on the jobs table (wr-engine/src/job_admin_queue.rs)   *)
(* beside the workers that use it.                                         *)
(*                                                                         *)
(* All the delegates of a queue share its database, so any of them may     *)
(* answer.  Who may call what is PolicySnapshot's and ManagerAuthority's   *)
(* subject; a delegate that refuses the manager is one that does not serve.*)
(***************************************************************************)
EXTENDS Naturals, FiniteSets

CONSTANTS
    Jobs,           \* job ids: naturals, for the order of the listing
    Engines,        \* engine ids of the queue: naturals, for the delegate order
    Calls,          \* retry commands
    PolicyLimit,    \* max_attempts of the worker's configuration
    Asked,          \* max_attempts a caller may ask for, 0 for none
    DefaultSize,    \* DEFAULT_PAGE_SIZE
    LargestSize,    \* MAX_PAGE_SIZE
    Sizes,          \* --page-size an operator may give, 0 for none
    MaxFaults       \* bound on what goes wrong with the delegates

VARIABLES
    jobRow,     \* the jobs table
    caller,     \* what the caller that submits a job has been told
    clock,      \* the database's clock, as far as created_at tells it
    delegate,   \* the engine's row, and whether the engine serves the queue
    walk,       \* the listing the operator is walking through
    retrying,   \* the retry commands
    faults

adminVars == <<jobRow, caller, clock, delegate, walk, retrying, faults>>

States == {"pending", "running", "complete", "dead"}

Absent == [st |-> "absent", created |-> 0, attempt |-> 0, limit |-> 0,
           claimed |-> FALSE, result |-> FALSE, error |-> FALSE]

Fresh(created, limit) ==
    [Absent EXCEPT !.st = "pending", !.created = created, !.limit = limit]

(* The cursor of a first page. *)
Start == [created |-> 0, job |-> 0, filter |-> "none"]

Visible == {j \in Jobs : jobRow[j].st \in States}

NoWalk == [at |-> "idle", status |-> "any", cursor |-> Start, seen |-> {}, twice |-> {},
           whole |-> {}]

NoCall == [at |-> "idle", job |-> 0, engine |-> 0, code |-> "none",
           told |-> "none", applied |-> 0]

(* A queue as it is found, after so many of the faults. *)
AdminInit(rows, past) ==
    /\ jobRow = rows
    /\ caller = [j \in Jobs |-> [answer |-> "none", seen |-> "none"]]
    /\ clock = 1
    /\ delegate = [e \in Engines |-> [listed |-> TRUE, fresh |-> TRUE, serves |-> TRUE]]
    /\ walk = NoWalk
    /\ retrying = [c \in Calls |-> NoCall]
    /\ faults = past

---------------------------------------------------------------------------
(* Submission and the workers. *)

Matches(row, status) == row.st \in States /\ status \in {"any", row.st}

(* Write one row; a walk keeps account of the jobs that matched all along. *)
Put(j, row) ==
    /\ jobRow' = [jobRow EXCEPT ![j] = row]
    /\ walk' = IF Matches(row, walk.status) THEN walk
               ELSE [walk EXCEPT !.whole = @ \ {j}]

(* handle_worker_http_request: a request is for the worker it was routed   *)
(* to, and for that worker's version if it names one.  A body that is too  *)
(* long or does not decode is refused as well.                             *)
Requests == [worker : {"routed", "other", "missing"}, version : {"routed", "other", "none"},
             body : {"ok", "bad"}, attempts : Asked]

Routed(request) ==
    /\ request.body = "ok"
    /\ request.worker = "routed"
    /\ request.version \in {"routed", "none"}

AttemptsOf(request) == IF request.attempts > 0 THEN request.attempts ELSE PolicyLimit

RefuseSubmit(j) ==
    /\ jobRow[j] = Absent /\ caller[j].answer = "none"
    /\ \E request \in Requests : ~Routed(request)
    /\ caller' = [caller EXCEPT ![j].answer = "refused"]
    /\ UNCHANGED <<jobRow, walk, clock, delegate, retrying, faults>>

(* handle_submit_job: insert_job, whose created_at is when the transaction *)
(* starts.                                                                 *)
BeginSubmit(j) ==
    /\ jobRow[j] = Absent /\ caller[j].answer = "none"
    /\ \E t \in {clock, clock + 1}, limit \in {AttemptsOf(q) : q \in {x \in Requests : Routed(x)}} :
         /\ clock' = t
         /\ Put(j, [Fresh(t, limit) EXCEPT !.st = "inserting"])
    /\ UNCHANGED <<caller, delegate, retrying, faults>>

(* The row is seen when the statement commits.  A caller whose submission  *)
(* fails cannot know whether it did.                                       *)
InsertJob(j) ==
    /\ jobRow[j].st = "inserting"
    /\ \/ \E answer \in {"ok", "failed"} :
            /\ Put(j, [jobRow[j] EXCEPT !.st = "pending"])
            /\ caller' = [caller EXCEPT ![j].answer = answer]
       \/ /\ Put(j, Absent)
          /\ caller' = [caller EXCEPT ![j].answer = "failed"]
    /\ UNCHANGED <<clock, delegate, retrying, faults>>

StatusOf(row) ==
    CASE row.st \notin States -> "not_found"
      [] row.st \in States /\ row.attempt > row.limit -> "corrupt"
      [] OTHER -> row.st

(* handle_get_job_status *)
GetJobStatus(j) ==
    /\ caller[j].answer = "ok"
    /\ caller' = [caller EXCEPT ![j].seen = StatusOf(jobRow[j])]
    /\ UNCHANGED <<jobRow, walk, clock, delegate, retrying, faults>>

ClaimJob(j) ==
    /\ jobRow[j].st = "pending"
    /\ Put(j, [jobRow[j] EXCEPT !.st = "running", !.claimed = TRUE, !.attempt = @ + 1])
    /\ UNCHANGED <<caller, clock, delegate, retrying, faults>>

CompleteJob(j) ==
    /\ jobRow[j].st = "running"
    /\ Put(j, [jobRow[j] EXCEPT !.st = "complete", !.claimed = FALSE, !.result = TRUE])
    /\ UNCHANGED <<caller, clock, delegate, retrying, faults>>

(* fail_job, and recover_stale_jobs for an expired lease. *)
FailJob(j) ==
    /\ jobRow[j].st = "running"
    /\ Put(j, [jobRow[j] EXCEPT !.claimed = FALSE, !.error = TRUE,
                 !.st = IF jobRow[j].attempt < jobRow[j].limit THEN "pending" ELSE "dead"])
    /\ UNCHANGED <<caller, clock, delegate, retrying, faults>>

---------------------------------------------------------------------------
(* The delegates. *)

(* An engine's heartbeat lapses or it begins to drain; it stops, loses its *)
(* policy or leaves; or it comes back.                                     *)
DelegateChanges(e) ==
    /\ faults < MaxFaults
    /\ \E listed, fresh, serves \in BOOLEAN :
         /\ fresh => listed
         /\ delegate' = [delegate EXCEPT ![e] =
                           [listed |-> listed, fresh |-> fresh, serves |-> serves]]
    /\ delegate' # delegate
    /\ faults' = faults + 1
    /\ UNCHANGED <<jobRow, caller, clock, walk, retrying>>

(* list_job_admin_delegates: the rows of the queue, stale ones included. *)
ListedDelegates == {e \in Engines : delegate[e].listed}

(* fresh_delegates, and the first of them in engine_id order. *)
FreshDelegates == {e \in ListedDelegates : delegate[e].fresh}

FirstDelegate == CHOOSE e \in FreshDelegates : \A x \in FreshDelegates : e <= x

(* connect_qualified: check_job_queue is answered with ready. *)
Qualified(e) == delegate[e].serves

(* connect_read tries the fresh delegates in turn. *)
ReadAnswered == \E e \in FreshDelegates : Qualified(e)

---------------------------------------------------------------------------
(* Listing. *)

(* list_item of the engine, and validate_summary_wire of the command line. *)
ListItem(row) ==
    /\ row.attempt <= row.limit
    /\ row.st # "pending" => row.attempt # 0
    /\ row.st = "dead" => row.attempt = row.limit

(* detail of the engine. *)
Detail(row) ==
    /\ ListItem(row)
    /\ row.claimed <=> row.st = "running"
    /\ row.result <=> row.st = "complete"
    /\ row.st = "dead" => row.error

(* validate_detail_wire of the command line, which cannot tell an empty    *)
(* result from none.                                                       *)
DetailWire(row) ==
    /\ row.attempt <= row.limit
    /\ row.st \in {"running", "complete"} => row.attempt # 0
    /\ row.claimed <=> row.st = "running"
    /\ row.result => row.st = "complete"
    /\ row.st = "dead" => row.attempt = row.limit /\ row.error

(* The filters an operator may give: none, or one that selects some jobs.  *)
Filters == {"any", "dead"}

PageSize(size) == IF size = 0 THEN DefaultSize ELSE size

Newer(i, j) ==
    \/ jobRow[i].created > jobRow[j].created
    \/ jobRow[i].created = jobRow[j].created /\ i > j

\* Defect: the cursor holds the time of the last job and not its id.
PastTime(cursor, j) ==
    cursor = Start \/ jobRow[j].created < cursor.created

(* (created_at, job_id) < cursor; the cursor carries the filter it is for. *)
Past(cursor, j) ==
    \/ cursor = Start
    \/ jobRow[j].created < cursor.created
    \/ jobRow[j].created = cursor.created /\ j < cursor.job

Found(status, cursor) == {j \in Jobs : Matches(jobRow[j], status) /\ Past(cursor, j)}

(* ORDER BY created_at DESC, job_id DESC LIMIT n. *)
Newest(found, n) == {j \in found : Cardinality({i \in found : Newer(i, j)}) < n}

Oldest(page) == CHOOSE j \in page : \A i \in page : i = j \/ Newer(i, j)

CursorOf(j, status) == [created |-> jobRow[j].created, job |-> j, filter |-> status]

(* The fingerprint of the filter must be that of the request. *)
ForFilter(cursor, status) == cursor = Start \/ cursor.filter = status

(* One page: `jobs list`, through the manager, to list_jobs of an engine.  *)
(* A refused or failed request leaves the operator where it was.           *)
ListPage(status, size) ==
    LET found == Found(status, walk.cursor)
        page == Newest(found, PageSize(size))
        more == found # page
    IN
    /\ walk.at \in {"idle", "listing"}
    /\ ReadAnswered
    /\ PageSize(size) \in 1..LargestSize
    /\ ForFilter(walk.cursor, status)
    /\ walk' = [at |-> IF \E j \in page : ~ListItem(jobRow[j]) THEN "corrupt"
                       ELSE IF more THEN "listing" ELSE "done",
                status |-> status,
                cursor |-> IF more THEN CursorOf(Oldest(page), status) ELSE Start,
                seen |-> walk.seen \cup page,
                twice |-> walk.twice \cup (walk.seen \cap page),
                whole |-> IF walk.at = "idle"
                          THEN {j \in Jobs : Matches(jobRow[j], status)}
                          ELSE walk.whole]
    /\ UNCHANGED <<jobRow, caller, clock, delegate, retrying, faults>>

---------------------------------------------------------------------------
(* Retrying. *)

(* retry_job of the manager up to the dispatch: the first fresh delegate   *)
(* only, asked first whether it is ready.                                  *)
RefusalOf ==
    IF ListedDelegates = {} THEN "not_registered"
    ELSE IF FreshDelegates = {} THEN "no_delegate"
    ELSE IF ~Qualified(FirstDelegate) THEN "not_dispatched"
    ELSE "none"

StartRetry(c, j) ==
    /\ retrying[c].at = "idle"
    /\ retrying' = [retrying EXCEPT ![c] =
           IF RefusalOf # "none" THEN [NoCall EXCEPT !.at = "over", !.told = RefusalOf]
           ELSE [NoCall EXCEPT !.at = "sent", !.job = j, !.engine = FirstDelegate]]
    /\ UNCHANGED <<jobRow, caller, clock, delegate, walk, faults>>

Retried(row) ==
    [row EXCEPT !.st = "pending", !.attempt = 0, !.result = FALSE, !.claimed = FALSE]

Executed(c, code, applied) ==
    retrying' = [retrying EXCEPT ![c].at = IF @ = "given_up" THEN "over" ELSE "executed",
                                 ![c].code = code, ![c].applied = @ + applied]

(* retry_job of the engine: the readiness and admission checks again, then *)
(* retry_dead_job.  The manager may have given up on it by now.            *)
RefuseRetry(c) ==
    /\ retrying[c].at \in {"sent", "given_up"}
    /\ ~Qualified(retrying[c].engine)
    /\ \E code \in {"unavailable", "permission_denied"} : Executed(c, code, 0)
    /\ UNCHANGED <<jobRow, caller, clock, delegate, walk, faults>>

RetryDeadJob(c) ==
    LET j == retrying[c].job IN
    /\ retrying[c].at \in {"sent", "given_up"}
    /\ Qualified(retrying[c].engine)
    /\ \/ /\ j \notin Visible
          /\ Executed(c, "not_found", 0)
          /\ UNCHANGED <<jobRow, walk>>
       \/ /\ j \in Visible /\ jobRow[j].st # "dead"
          /\ Executed(c, "failed_precondition", 0)
          /\ UNCHANGED <<jobRow, walk>>
       \/ /\ jobRow[j].st = "dead"
          /\ Detail(Retried(jobRow[j]))
          /\ Put(j, Retried(jobRow[j]))
          /\ \E code \in {"ok", "internal"} : Executed(c, code, 1)
       \/ \* a statement or the commit fails and nothing is written
          /\ jobRow[j].st = "dead"
          /\ Executed(c, "internal", 0)
          /\ UNCHANGED <<jobRow, walk>>
    /\ UNCHANGED <<caller, clock, delegate, faults>>

\* Defect: a call that timed out is passed on as it is.
AnswerOfTimeout(code) ==
    IF code \in {"cancelled", "unavailable", "unknown"} THEN "unknown" ELSE code

(* What the manager tells: an answer that leaves the outcome open is said  *)
(* to be unknown.                                                          *)
AnswerOf(code) ==
    IF code \in {"cancelled", "deadline_exceeded", "unavailable", "unknown"}
    THEN "unknown" ELSE code

AnswerRetry(c) ==
    /\ retrying[c].at = "executed"
    /\ retrying' = [retrying EXCEPT ![c].at = "over", ![c].told = AnswerOf(retrying[c].code)]
    /\ UNCHANGED <<jobRow, caller, clock, delegate, walk, faults>>

(* The call to the engine times out or its connection breaks. *)
GiveUpRetry(c) ==
    /\ retrying[c].at \in {"sent", "executed"}
    /\ \E code \in {"deadline_exceeded", "cancelled", "unavailable", "unknown"} :
         retrying' = [retrying EXCEPT ![c].at = IF @ = "sent" THEN "given_up" ELSE "over",
                                      ![c].told = AnswerOf(code)]
    /\ UNCHANGED <<jobRow, caller, clock, delegate, walk, faults>>

AdminNext ==
    \/ \E j \in Jobs : \/ RefuseSubmit(j) \/ BeginSubmit(j) \/ InsertJob(j) \/ GetJobStatus(j)
                       \/ ClaimJob(j) \/ CompleteJob(j) \/ FailJob(j)
    \/ \E e \in Engines : DelegateChanges(e)
    \/ \E status \in Filters, size \in Sizes : ListPage(status, size)
    \/ \E c \in Calls : \/ \E j \in Jobs : StartRetry(c, j)
                        \/ RefuseRetry(c) \/ RetryDeadJob(c)
                        \/ AnswerRetry(c) \/ GiveUpRetry(c)

(* The configuration refuses a worker_max_attempts of 0. *)
ASSUME AdminAssumption ==
    /\ PolicyLimit \in Nat \ {0} /\ Asked \subseteq Nat
    /\ Jobs \subseteq Nat /\ IsFiniteSet(Jobs) /\ Engines \subseteq Nat
    /\ DefaultSize \in Nat /\ LargestSize \in Nat /\ Sizes \subseteq Nat

(* From an empty queue. *)
AdminSpec == AdminInit([j \in Jobs |-> Absent], 0) /\ [][AdminNext]_adminVars

---------------------------------------------------------------------------

(* A listing walked to its end shows every job that was there, and matched *)
(* the status, from the first page to the last; it shows no job twice, and *)
(* it is never cut short by a row list_item takes for corrupt: while jobs  *)
(* are submitted, worked on, retried, and while pages come from different  *)
(* engines (list_jobs, decode_cursor, encode_cursor).                      *)
WalkIsComplete ==
    /\ walk.twice = {}
    /\ walk.at # "corrupt"
    /\ walk.at = "done" => walk.whole \subseteq walk.seen

(* What the callers are told is true for good.  A refused submission is in *)
(* no queue, an accepted one is found from then on, and a job that was     *)
(* shown complete is never taken up again, not by a retry either.  A retry *)
(* reported as a success was applied once, and one that failed in any way  *)
(* but "outcome unknown" or a database error has not touched the job, and  *)
(* will not, not even through an engine slower than its manager.  Every    *)
(* row workers and retries leave passes the checks of `jobs inspect`       *)
(* (handle_submit_job, handle_get_job_status, retry_job, retry_dead_job).  *)
AnswersTellTruth ==
    /\ \A j \in Jobs :
         /\ caller[j].answer = "refused" => jobRow[j] = Absent
         /\ caller[j].answer = "ok" => j \in Visible
         /\ caller[j].seen \notin {"not_found", "corrupt"}
         /\ caller[j].seen = "complete" => jobRow[j].st = "complete"
    /\ \A c \in Calls :
         /\ retrying[c].applied <= 1
         /\ retrying[c].told = "ok" => retrying[c].applied = 1
         /\ retrying[c].told \notin {"none", "ok", "unknown", "internal"} =>
              retrying[c].applied = 0
    /\ \A j \in Visible : Detail(jobRow[j]) /\ DetailWire(jobRow[j])

=============================================================================
