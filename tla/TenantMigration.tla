--------------------------- MODULE TenantMigration ---------------------------
(***************************************************************************)
(* Module migrations of one tenant namespace: the offline runner of        *)
(* wr-cli/src/postgres/migration.rs (advisory lock, disposable executor    *)
(* roles, attempt ledger, single-use retry approvals), the deployment      *)
(* receipt of wr-cli/src/postgres/mod.rs and the engine's readiness check  *)
(* (wr-engine/src/tenant_db.rs).                                           *)
(*                                                                         *)
(* A runner is one `wr-cli postgres migrate` process with one bundle.  It  *)
(* can crash at any step: its session ends, which releases the advisory    *)
(* lock, but the executor's backend lives on the server until it is        *)
(* terminated, and a COMMIT it was sent may still be applied.              *)
(***************************************************************************)
EXTENDS Integers, Sequences, FiniteSets

CONSTANTS
  Runners,          \* migrate processes; each runs once
  BundleOf,         \* runner -> its bundle: a sequence of files in canonical order
  MaxApprovals,     \* bound: approvals waiting to be used
  MaxCrashes,       \* bound: runner crashes
  MaxAttempts       \* bound: attempts of one version

ASSUME MigrationAssumption ==
  /\ "none" \notin Runners
  /\ \A r \in Runners : BundleOf[r] \in Seq({BundleOf[r][i] : i \in DOMAIN BundleOf[r]})

Files == UNION {{BundleOf[r][i] : i \in DOMAIN BundleOf[r]} : r \in Runners}

VARIABLES
  ledger,     \* version -> sequence of attempts (wr__platform.migration_attempts)
  approvals,  \* retry approvals not consumed yet
  lock,       \* the runner that holds the namespace's advisory lock
  backend,    \* executor backends alive on the server: [attempt, sent]
  applied,    \* attempts whose SQL is committed
  run,        \* runner -> program counter, file index, outcome of the file
  crashes,
  ready,      \* bundles an engine has verified
  receipts    \* bundles with a tenant-state receipt

migrationVars == <<ledger, approvals, lock, backend, applied, run, crashes, ready, receipts>>

Versions == {f.version : f \in Files}
Latest(s) == s[Len(s)]
Attempt(v, n) == [version |-> v, attempt |-> n]

MigrationInit ==
  /\ ledger = [v \in Versions |-> <<>>]
  /\ approvals = {}
  /\ lock = "none"
  /\ backend = {} /\ applied = {}
  /\ run = [r \in Runners |-> [pc |-> "start", file |-> 1, outcome |-> "none"]]
  /\ crashes = 0
  /\ ready = {} /\ receipts = {}

File(r) == BundleOf[r][run[r].file]
Current(r) == Attempt(File(r).version, Len(ledger[File(r).version]))

\* These backends are gone; a COMMIT one had received is applied or not.
Terminate(gone) ==
  /\ backend' = backend \ gone
  /\ \E done \in SUBSET {b \in gone : b.sent} :
       applied' = applied \cup {b.attempt : b \in done}

Go(r, pc) == run' = [run EXCEPT ![r].pc = pc]

\* The runner returns or dies: its platform session ends and frees the lock.
Leave(r, pc) == Go(r, pc) /\ lock' = IF lock = r THEN "none" ELSE lock

-----------------------------------------------------------------------------
\* Every backend of this namespace's executor roles is terminated.
CleanupOrphanExecutors(r) == Terminate(backend)

\* migrate_namespace takes the advisory lock, then clears the executors left
\* behind; one that cannot be terminated fails the run.
LockNamespace(r) ==
  /\ run[r].pc = "start"
  /\ lock = "none"
  /\ \/ CleanupOrphanExecutors(r) /\ Go(r, "admit") /\ lock' = r
     \/ backend # {} /\ Leave(r, "failed") /\ UNCHANGED <<backend, applied>>
  /\ UNCHANGED <<ledger, approvals, crashes, ready, receipts>>

Matching(f) ==
  LET last == Latest(ledger[f.version]) IN
  {[version |-> f.version, attempt |-> Len(ledger[f.version]), state |-> last.state]}

ConsumeApproval(f) == approvals \ Matching(f)

\* What admit_attempt makes of the latest attempt of this version.
Verdict(r) ==
  LET f == File(r)
      h == ledger[f.version]
  IN IF h = <<>> THEN "run"
     ELSE IF Latest(h).state = "succeeded"
          THEN IF Latest(h).file = f THEN "skip" ELSE "refuse"
     ELSE IF Latest(h).file = f /\ Latest(h).bundle = BundleOf[r] /\ Matching(f) \subseteq approvals
          THEN "run" ELSE "refuse"

\* The disposable role, and the backend it connects to.
CreateExecutor(attempt) == [attempt |-> attempt, sent |-> FALSE]

\* admit_attempt records 'started' in its own transaction; then the executor
\* is created.
AdmitAttempt(r) ==
  LET f == File(r)
      h == ledger[f.version]
  IN
  /\ run[r].pc = "admit" /\ run[r].file <= Len(BundleOf[r])
  /\ Verdict(r) = "run" /\ Len(h) < MaxAttempts
  /\ approvals' = IF h = <<>> THEN approvals ELSE ConsumeApproval(f)
  /\ ledger' = [ledger EXCEPT ![f.version] =
                  Append(@, [file |-> f, bundle |-> BundleOf[r], state |-> "started"])]
  /\ backend' = backend \cup {CreateExecutor(Attempt(f.version, Len(h) + 1))}
  /\ Go(r, "execute")
  /\ UNCHANGED <<lock, applied, crashes, ready, receipts>>

SkipFile(r) ==
  /\ run[r].pc = "admit" /\ run[r].file <= Len(BundleOf[r])
  /\ Verdict(r) = "skip"
  /\ run' = [run EXCEPT ![r].file = @ + 1]
  /\ UNCHANGED <<ledger, approvals, lock, backend, applied, crashes, ready, receipts>>

RefuseFile(r) ==
  /\ run[r].pc = "admit" /\ run[r].file <= Len(BundleOf[r])
  /\ Verdict(r) = "refuse"
  /\ Leave(r, "failed")
  /\ UNCHANGED <<ledger, approvals, backend, applied, crashes, ready, receipts>>

\* The last file is done: the namespace is unlocked.
FinishRun(r) ==
  /\ run[r].pc = "admit" /\ run[r].file > Len(BundleOf[r])
  /\ Leave(r, "verify")
  /\ UNCHANGED <<ledger, approvals, backend, applied, crashes, ready, receipts>>
-----------------------------------------------------------------------------
(* execute_file, then cleanup_executor.                                    *)

Backend(r) == {b \in backend : b.attempt = Current(r)}

Settle(r, outcome) ==
  run' = [run EXCEPT ![r].pc = "terminalize", ![r].outcome = outcome]

\* The SQL, the role switch or the publication guard is rejected: rolled back.
SqlRejected(r) ==
  /\ run[r].pc = "execute"
  /\ backend' = backend \ Backend(r)
  /\ Settle(r, "failed")
  /\ UNCHANGED <<ledger, approvals, lock, applied, crashes, ready, receipts>>

SendCommit(r) ==
  /\ run[r].pc = "execute"
  /\ backend' = {IF b \in Backend(r) THEN [b EXCEPT !.sent = TRUE] ELSE b : b \in backend}
  /\ Go(r, "commit")
  /\ UNCHANGED <<ledger, approvals, lock, applied, crashes, ready, receipts>>

CommitAnswered(r) ==
  /\ run[r].pc = "commit"
  /\ applied' = applied \cup {Current(r)}
  /\ backend' = backend \ Backend(r)
  /\ Settle(r, "succeeded")
  /\ UNCHANGED <<ledger, approvals, lock, crashes, ready, receipts>>

\* A command or its rollback fails with the connection: the outcome is unknown.
ExecutionErrs(r) ==
  /\ run[r].pc \in {"execute", "commit"}
  /\ Terminate(Backend(r))
  /\ Settle(r, "ambiguous")
  /\ UNCHANGED <<ledger, approvals, lock, crashes, ready, receipts>>

\* The file deadline drops the execution wherever it is, COMMIT included,
\* cancels the backend and waits for it to go: "deadline_cancelled" or
\* "deadline_terminated" are both recorded as failed.  A backend that outlives
\* both grace periods leaves the attempt open and fails the run.
Deadline(r) ==
  /\ run[r].pc \in {"execute", "commit"}
  /\ \/ Terminate(Backend(r)) /\ Settle(r, "failed") /\ lock' = lock
     \/ UNCHANGED <<backend, applied>> /\ Leave(r, "failed")
  /\ UNCHANGED <<ledger, approvals, crashes, ready, receipts>>

Record(r, state) ==
  ledger' = [ledger EXCEPT ![File(r).version][Len(ledger[File(r).version])].state = state]

Terminalize(r) ==
  /\ run[r].pc = "terminalize"
  /\ \/ /\ run[r].outcome = "succeeded"
        /\ Record(r, "succeeded")
        /\ run' = [run EXCEPT ![r].pc = "admit", ![r].file = @ + 1]
        /\ lock' = lock
     \/ run[r].outcome = "failed" /\ Record(r, "failed") /\ Leave(r, "failed")
     \/ run[r].outcome = "ambiguous" /\ ledger' = ledger /\ Leave(r, "failed")
  /\ UNCHANGED <<approvals, backend, applied, crashes, ready, receipts>>
-----------------------------------------------------------------------------
CrashRunner(r) ==
  /\ crashes < MaxCrashes
  /\ run[r].pc \in {"admit", "execute", "commit", "terminalize"}
  /\ crashes' = crashes + 1
  /\ Leave(r, "crashed")
  /\ UNCHANGED <<ledger, approvals, backend, applied, ready, receipts>>

Working == {r \in Runners : run[r].pc \in {"execute", "commit"}}

\* PostgreSQL (external) notices that an executor's client is gone.
OrphanEnds ==
  /\ \E b \in backend : /\ \A r \in Working : b \notin Backend(r)
                        /\ Terminate({b})
  /\ UNCHANGED <<ledger, approvals, lock, run, crashes, ready, receipts>>

\* approve_retry takes no lock: it can name an attempt that is still running.
ApproveRetry(v) ==
  /\ Cardinality(approvals) < MaxApprovals
  /\ ledger[v] # <<>> /\ Latest(ledger[v]).state \in {"started", "failed"}
  /\ approvals' = approvals \cup Matching(Latest(ledger[v]).file)
  /\ approvals' # approvals
  /\ UNCHANGED <<ledger, lock, backend, applied, run, crashes, ready, receipts>>

\* Defect: readiness compares identities and not the state of the attempt.
SameIdentity(b, i) == Latest(ledger[b[i].version]).file = b[i]

\* tenant_db.rs verify_one: the latest attempts are exactly the expected files.
LatestSucceeded(b, i) ==
  /\ Latest(ledger[b[i].version]).state = "succeeded"
  /\ Latest(ledger[b[i].version]).file = b[i]

\* migrate, once unlocked: verify_successful_state, then the receipt.
WriteReceipt(r) ==
  LET b == BundleOf[r] IN
  /\ run[r].pc = "verify"
  /\ \/ /\ \A i \in DOMAIN b : LatestSucceeded(b, i)
        /\ receipts' = receipts \cup {b}
        /\ Go(r, "done")
     \/ receipts' = receipts /\ Go(r, "failed")
  /\ UNCHANGED <<ledger, approvals, lock, backend, applied, crashes, ready>>

VerifyReadiness(b) ==
  /\ b \notin ready
  /\ {b[i].version : i \in DOMAIN b} = {v \in Versions : ledger[v] # <<>>}
  /\ \A i \in DOMAIN b : LatestSucceeded(b, i)
  /\ ready' = ready \cup {b}
  /\ UNCHANGED <<ledger, approvals, lock, backend, applied, run, crashes, receipts>>

MigrationNext ==
  \/ \E r \in Runners :
       \/ LockNamespace(r) \/ AdmitAttempt(r) \/ SkipFile(r) \/ RefuseFile(r) \/ FinishRun(r)
       \/ SqlRejected(r) \/ SendCommit(r) \/ CommitAnswered(r) \/ ExecutionErrs(r)
       \/ Deadline(r) \/ Terminalize(r) \/ CrashRunner(r)
       \/ WriteReceipt(r) \/ VerifyReadiness(BundleOf[r])
  \/ OrphanEnds
  \/ \E v \in Versions : ApproveRetry(v)

MigrationSpec == MigrationInit /\ [][MigrationNext]_migrationVars
-----------------------------------------------------------------------------
(* Properties.                                                             *)

(* Two executors never work on a namespace at the same time: when a run    *)
(* gets past the advisory lock a crashed runner gave up, the backend that  *)
(* runner left on the server is gone, so its COMMIT cannot land between    *)
(* the statements of the next one (cleanup_orphan_executors).              *)
OneExecutor == \A b, c \in backend : b = c

(* An engine that passed readiness for a bundle, or a deployment that has  *)
(* a receipt for it, relies on a schema every file of the bundle was       *)
(* really applied to, with these contents (verify_one,                     *)
(* verify_successful_state; terminalize).                                  *)
ReadyIsMigrated ==
  \A b \in ready \cup receipts : \A i \in DOMAIN b :
    \E n \in DOMAIN ledger[b[i].version] :
      /\ ledger[b[i].version][n].file = b[i]
      /\ Attempt(b[i].version, n) \in applied

(* An attempt recorded as failed was rolled back: "migration failed with   *)
(* confirmed rollback" is what the runner prints (migrate_namespace) and   *)
(* what an operator who approves the retry relies on.                      *)
FailedIsRolledBack ==
  \A v \in Versions : \A n \in DOMAIN ledger[v] :
    ledger[v][n].state = "failed" => Attempt(v, n) \notin applied
=============================================================================
