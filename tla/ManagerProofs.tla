--------------------------- MODULE ManagerProofs ----------------------------
(***************************************************************************)
(* Proofs about what the managers keep: the tenants' migrations of         *)
(* TenantMigration, the provisioning of their logins of TenantProvisioning *)
(* and the authorization of ManagerAuthority, for any number of runners,   *)
(* bundles, namespaces and principals.                                     *)
(***************************************************************************)
EXTENDS TenantMigration, TenantProvisioning, ManagerAuthority, TLAPS

(* Migrations.                                                             *)

(* The states of the runners, of the ledger and of the executors, by type. *)
RunPhases == {"start", "admit", "execute", "commit", "terminalize", "verify", "done", "failed", "crashed"}

RunStates == [pc : RunPhases, file : Nat \ {0}, outcome : {"none", "succeeded", "failed", "ambiguous"}]

Entries == [file : Files, bundle : {BundleOf[r] : r \in Runners}, state : {"started", "succeeded", "failed"}]

Executors == [attempt : [version : Versions, attempt : Nat], sent : BOOLEAN]

(* The steps a runner takes under the namespace lock of migrate_namespace. *)
Holding == {"admit", "execute", "commit", "terminalize"}

MigrationType ==
    /\ ledger \in [Versions -> Seq(Entries)]
    /\ run \in [Runners -> RunStates]
    /\ backend \subseteq Executors

(* How far a runner is: the files before its own have been attempted, and  *)
(* while it holds the lock the only executor is that of its own attempt.   *)
RunProgress(r) ==
    /\ run[r].pc = "start" => run[r].file = 1
    /\ run[r].pc \in Holding => lock = r
    /\ run[r].pc \in {"execute", "commit", "terminalize"} =>
          run[r].file <= Len(BundleOf[r]) /\ ledger[File(r).version] # <<>>
    /\ run[r].pc \in Holding \cup {"verify"} =>
          \A i \in DOMAIN BundleOf[r] : i < run[r].file => ledger[BundleOf[r][i].version] # <<>>
    /\ run[r].pc = "verify" => run[r].file > Len(BundleOf[r])
    /\ run[r].pc = "terminalize" /\ run[r].outcome = "succeeded" => Current(r) \in applied
    /\ run[r].pc \in {"execute", "commit"} => \A b \in backend : b.attempt = Current(r)
    /\ run[r].pc \in {"admit", "terminalize"} => backend = {}

(* A success in the ledger is an attempt whose SQL is committed. *)
SuccessIsApplied ==
    \A v \in Versions : \A n \in 1..Len(ledger[v]) :
        ledger[v][n].state = "succeeded" => Attempt(v, n) \in applied

(* The inductive invariant of the migrations. A receipt is only as good as *)
(* the ledger it was read from, so it needs that a success was written     *)
(* after its SQL committed and that an abandoned backend is the only one   *)
(* at work.                                                                *)
MigrationInv ==
    /\ MigrationType
    /\ \A r \in Runners : RunProgress(r)
    /\ SuccessIsApplied
    /\ ReadyIsMigrated
    /\ ready \cup receipts \subseteq {BundleOf[r] : r \in Runners}
    /\ \A b, c \in backend : b = c

(* The ledger forgets no attempt and no attempt's file. *)
Grows ==
    /\ ledger' \in [Versions -> Seq(Entries)]
    /\ \A v \in Versions : /\ Len(ledger[v]) <= Len(ledger'[v])
                           /\ \A n \in 1..Len(ledger[v]) : ledger'[v][n].file = ledger[v][n].file
    /\ applied \subseteq applied'

(* Runner r goes to pc; nobody else moves. *)
Moves(r, pc, file, outcome) ==
    /\ run' \in [Runners -> RunStates]
    /\ run'[r].pc = pc /\ run'[r].file = file /\ run'[r].outcome = outcome
    /\ \A x \in Runners : x # r => run'[x] = run[x]

(* A runner's bundle is a sequence of files, each with a version.          *)
LEMMA BundleFiles ==
    ASSUME NEW r \in Runners
    PROVE  /\ Len(BundleOf[r]) \in Nat /\ DOMAIN BundleOf[r] = 1..Len(BundleOf[r])
           /\ \A i \in 1..Len(BundleOf[r]) :
                 BundleOf[r][i] \in Files /\ BundleOf[r][i].version \in Versions
<1>1. Len(BundleOf[r]) \in Nat /\ DOMAIN BundleOf[r] = 1..Len(BundleOf[r])
  BY MigrationAssumption
<1>2. \A i \in DOMAIN BundleOf[r] : BundleOf[r][i] \in Files
  BY DEF Files
<1> QED BY <1>1, <1>2, Zenon DEF Versions

(* Go moves one runner to a step and leaves its file and outcome.          *)
LEMMA RunnerGoes ==
    ASSUME MigrationType, NEW r \in Runners, NEW pc \in RunPhases, Go(r, pc)
    PROVE  Moves(r, pc, run[r].file, run[r].outcome)
<1> DEFINE s == [run[r] EXCEPT !.pc = pc]
<1>1. s \in RunStates /\ s.pc = pc /\ s.file = run[r].file /\ s.outcome = run[r].outcome
  BY Zenon DEF MigrationType, RunStates
<1>2. run' = [run EXCEPT ![r] = s]
  BY Zenon DEF Go, MigrationType
<1> HIDE DEF s
<1> QED BY <1>1, <1>2, Zenon DEF MigrationType, Moves

(* Settle moves one runner to the recording of its outcome.                *)
LEMMA RunnerSettles ==
    ASSUME MigrationType, NEW r \in Runners, NEW o \in {"succeeded", "failed", "ambiguous"}, Settle(r, o)
    PROVE  Moves(r, "terminalize", run[r].file, o)
<1> DEFINE s == [run[r] EXCEPT !.pc = "terminalize", !.outcome = o]
<1>1. s \in RunStates /\ s.pc = "terminalize" /\ s.file = run[r].file /\ s.outcome = o
  BY Zenon DEF MigrationType, RunStates, RunPhases
<1>2. run' = [run EXCEPT ![r] = s]
  BY Zenon DEF Settle, MigrationType
<1> HIDE DEF s
<1> QED BY <1>1, <1>2, Zenon DEF MigrationType, Moves

(* Every step of the migration runners, of the backends they leave behind  *)
(* and of verify_one keeps MigrationInv.                                   *)
LEMMA MigrationStep ==
    ASSUME MigrationInv, MigrationNext \/ UNCHANGED migrationVars
    PROVE  MigrationInv'
<1> USE MigrationAssumption
<1>t. MigrationType
  BY Zenon DEF MigrationInv
(* the ledger that grows keeps what readiness relied on *)
<1>1. ASSUME Grows, ready' = ready, receipts' = receipts
      PROVE  ReadyIsMigrated' /\ (ready \cup receipts \subseteq {BundleOf[r] : r \in Runners})'
  <2>1. (ready \cup receipts \subseteq {BundleOf[r] : r \in Runners})'
    BY <1>1, Zenon DEF MigrationInv
  <2>2. ASSUME NEW b \in ready \cup receipts, NEW i \in DOMAIN b
        PROVE  \E n \in DOMAIN ledger'[b[i].version] :
                  /\ ledger'[b[i].version][n].file = b[i]
                  /\ Attempt(b[i].version, n) \in applied'
    <3>1. PICK n \in DOMAIN ledger[b[i].version] :
                  /\ ledger[b[i].version][n].file = b[i]
                  /\ Attempt(b[i].version, n) \in applied
      BY <2>2, Zenon DEF MigrationInv, ReadyIsMigrated
    <3>2. PICK r \in Runners : b = BundleOf[r]
      BY <2>2, Zenon DEF MigrationInv
    <3>3. b[i].version \in Versions
      BY <2>2, <3>2, BundleFiles, Zenon
    <3>4. n \in 1..Len(ledger[b[i].version]) /\ n \in DOMAIN ledger'[b[i].version]
      BY <1>1, <3>1, <3>3 DEF Grows, MigrationInv, MigrationType
    <3> QED BY <1>1, <3>1, <3>3, <3>4, Zenon DEF Grows
  <2> QED BY <1>1, <2>1, <2>2, Zenon DEF ReadyIsMigrated
(* a runner that does not hold the lock and does not move *)
<1>2. ASSUME Grows, NEW x \in Runners, run'[x] = run[x], run[x].pc \notin Holding
      PROVE  RunProgress(x)'
  <2>1. ASSUME NEW i \in DOMAIN BundleOf[x], ledger[BundleOf[x][i].version] # <<>>
        PROVE  ledger'[BundleOf[x][i].version] # <<>>
    <3>1. BundleOf[x][i].version \in Versions
      BY BundleFiles, Zenon
    <3> QED BY <1>2, <2>1, <3>1 DEF Grows, MigrationInv, MigrationType
  <2> QED BY <1>2, <2>1, Zenon DEF MigrationInv, RunProgress, Holding
(* one runner's step that leaves the ledger alone *)
<1>3. ASSUME ledger' = ledger, applied \subseteq applied', ready' = ready, receipts' = receipts,
             run' \in [Runners -> RunStates], backend' \subseteq Executors,
             \A r \in Runners : RunProgress(r)', \A b, c \in backend' : b = c
      PROVE  MigrationInv'
  <2>1. Grows
    BY <1>3 DEF Grows, MigrationInv, MigrationType
  <2>2. MigrationType' /\ SuccessIsApplied'
    BY <1>3, Zenon DEF MigrationInv, MigrationType, SuccessIsApplied
  <2> QED BY <1>1, <1>3, <2>1, <2>2, Zenon DEF MigrationInv
<1>4. ASSUME NEW r \in Runners, LockNamespace(r) PROVE MigrationInv'
  <2>1. \A x \in Runners : run[x].pc \notin Holding
    BY <1>4, Zenon DEF LockNamespace, MigrationInv, RunProgress
  <2>2. applied \subseteq applied'
    BY <1>4, Zenon DEF LockNamespace, CleanupOrphanExecutors, Terminate
  <2>3. Grows
    BY <1>4, <2>2 DEF LockNamespace, Grows, MigrationInv, MigrationType
  <2>4. CASE CleanupOrphanExecutors(r) /\ Go(r, "admit") /\ lock' = r
    <3>1. Moves(r, "admit", run[r].file, run[r].outcome)
      BY <1>t, <2>4, RunnerGoes, Zenon DEF RunPhases
    <3>2. backend' = {}
      BY <2>4, Zenon DEF CleanupOrphanExecutors, Terminate
    <3>3. run[r].file = 1
      BY <1>4, Zenon DEF MigrationInv, RunProgress, LockNamespace
    <3>4. RunProgress(r)'
      BY <1>4, <2>4, <3>1, <3>2, <3>3, BundleFiles DEF LockNamespace, RunProgress, Moves, Holding
    <3>5. \A x \in Runners : x # r => RunProgress(x)'
      BY <1>2, <2>1, <2>3, <3>1, Zenon DEF Moves
    <3> QED BY <1>3, <1>4, <2>2, <3>1, <3>2, <3>4, <3>5, Zenon DEF LockNamespace, Moves
  <2>5. CASE Leave(r, "failed") /\ UNCHANGED <<backend, applied>>
    <3>1. Moves(r, "failed", run[r].file, run[r].outcome)
      BY <1>t, <2>5, RunnerGoes, Zenon DEF RunPhases, Leave
    <3>4. RunProgress(r)'
      BY <3>1, Zenon DEF RunProgress, Moves, Holding
    <3>5. \A x \in Runners : x # r => RunProgress(x)'
      BY <1>2, <2>1, <2>3, <3>1, Zenon DEF Moves
    <3>6. \A b, c \in backend' : b = c
      BY <2>5, Zenon DEF MigrationInv
    <3>7. backend' \subseteq Executors
      BY <1>t, <2>5, Zenon DEF MigrationType
    <3> QED BY <1>3, <1>4, <2>2, <3>1, <3>4, <3>5, <3>6, <3>7, Zenon DEF LockNamespace, Moves
  <2> QED BY <1>4, <2>4, <2>5, Zenon DEF LockNamespace
(* nobody but the runner that holds the lock is at work *)
<1>5. ASSUME NEW r \in Runners, run[r].pc \in Holding, Grows, \A x \in Runners : x # r => run'[x] = run[x]
      PROVE  \A x \in Runners : x # r => RunProgress(x)'
  <2>1. \A x \in Runners : x # r => run[x].pc \notin Holding
    BY <1>5, Zenon DEF MigrationInv, RunProgress
  <2> QED BY <1>2, <1>5, <2>1, Zenon
<1>6. ASSUME ledger' = ledger, applied \subseteq applied'
      PROVE  Grows
  BY <1>6 DEF Grows, MigrationInv, MigrationType
(* a runner gives up, and its executor may stay behind *)
<1>7. ASSUME NEW r \in Runners, NEW pc \in {"failed", "crashed"}, run[r].pc \in Holding, Go(r, pc),
             ledger' = ledger, applied \subseteq applied', ready' = ready, receipts' = receipts,
             backend' \subseteq backend
      PROVE  MigrationInv'
  <2>1. Moves(r, pc, run[r].file, run[r].outcome)
    BY <1>t, <1>7, RunnerGoes, Zenon DEF RunPhases
  <2>2. RunProgress(r)'
    BY <1>7, <2>1, Zenon DEF RunProgress, Moves, Holding
  <2>3. \A x \in Runners : x # r => RunProgress(x)'
    BY <1>5, <1>6, <1>7, <2>1, Zenon DEF Moves
  <2>4. \A b, c \in backend' : b = c
    BY <1>7, Zenon DEF MigrationInv
  <2>5. backend' \subseteq Executors
    BY <1>t, <1>7, Zenon DEF MigrationType
  <2> QED BY <1>3, <1>7, <2>1, <2>2, <2>3, <2>4, <2>5, Zenon DEF Moves
<1>8. ASSUME NEW r \in Runners, RefuseFile(r) \/ CrashRunner(r) PROVE MigrationInv'
  BY <1>7, <1>8, Zenon DEF RefuseFile, CrashRunner, Leave, Holding
<1>9. ASSUME NEW r \in Runners, AdmitAttempt(r) PROVE MigrationInv'
  <2> DEFINE f == File(r)
             v == File(r).version
             e == [file |-> f, bundle |-> BundleOf[r], state |-> "started"]
  <2>1. run[r].pc = "admit" /\ run[r].file \in 1..Len(BundleOf[r]) /\ lock = r /\ backend = {}
    BY <1>9, <1>t, BundleFiles DEF AdmitAttempt, MigrationInv, MigrationType, RunStates, RunProgress, Holding
  <2>2. f \in Files /\ v \in Versions
    BY <2>1, BundleFiles, Zenon DEF File
  <2>3. e \in Entries
    BY <2>2, Zenon DEF Entries
  <2>4. Moves(r, "execute", run[r].file, run[r].outcome)
    BY <1>9, <1>t, RunnerGoes, Zenon DEF AdmitAttempt, RunPhases
  <2>5. ledger' = [ledger EXCEPT ![v] = Append(ledger[v], e)]
    BY <1>9, Zenon DEF AdmitAttempt
  <2>d. e.state = "started"
    BY Zenon
  <2>6. backend' = {CreateExecutor(Attempt(v, Len(ledger[v]) + 1))}
        /\ UNCHANGED <<lock, applied, ready, receipts>>
    BY <1>9, <2>1, Zenon DEF AdmitAttempt
  <2>7. ledger[v] \in Seq(Entries) /\ ledger \in [Versions -> Seq(Entries)]
    BY <1>t, <2>2, Zenon DEF MigrationType
  <2> HIDE DEF e
  <2>8. /\ Append(ledger[v], e) \in Seq(Entries) /\ Len(Append(ledger[v], e)) = Len(ledger[v]) + 1
        /\ \A n \in 1..Len(ledger[v]) : Append(ledger[v], e)[n] = ledger[v][n]
        /\ Append(ledger[v], e)[Len(ledger[v]) + 1] = e
        /\ Len(ledger[v]) \in Nat
    BY <2>3, <2>7
  <2> DEFINE h == Append(ledger[v], e)
  <2>9. /\ ledger' \in [Versions -> Seq(Entries)] /\ ledger'[v] = h
        /\ \A w \in Versions : w # v => ledger'[w] = ledger[w]
    BY <2>2, <2>5, <2>7, <2>8, Zenon
  <2> HIDE DEF h, v, f
  <2>10. Grows
    <3>1. ASSUME NEW w \in Versions
          PROVE  /\ Len(ledger[w]) <= Len(ledger'[w])
                 /\ \A n \in 1..Len(ledger[w]) : ledger'[w][n].file = ledger[w][n].file
      <4>1. CASE w = v
        BY <2>8, <2>9, <4>1 DEF h
      <4>2. CASE w # v
        BY <2>9, <4>2, <1>t DEF MigrationType
      <4> QED BY <4>1, <4>2, Zenon
    <3> QED BY <2>6, <2>9, <3>1, Zenon DEF Grows
  <2>11. SuccessIsApplied'
    <3> SUFFICES ASSUME NEW w \in Versions, NEW n \in 1..Len(ledger'[w]), ledger'[w][n].state = "succeeded"
                 PROVE  Attempt(w, n) \in applied
      BY <2>6, Zenon DEF SuccessIsApplied
    <3>1. CASE w = v
      <4>1. n \in 1..Len(ledger[v]) \/ n = Len(ledger[v]) + 1
        BY <2>8, <2>9, <3>1 DEF h
      <4>2. n # Len(ledger[v]) + 1
        BY <2>8, <2>9, <2>d, <3>1, Zenon DEF h
      <4> QED BY <2>2, <2>8, <2>9, <3>1, <4>1, <4>2, Zenon DEF h, MigrationInv, SuccessIsApplied
    <3>2. CASE w # v
      BY <2>9, <3>2, Zenon DEF MigrationInv, SuccessIsApplied
    <3> QED BY <3>1, <3>2, Zenon
  <2>12. RunProgress(r)'
    <3>0. File(r)' = f
      BY <2>4, Zenon DEF File, Moves, f
    <3>1. File(r)' = f /\ Current(r)' = Attempt(v, Len(ledger[v]) + 1)
      <4>1. Current(r)' = Attempt(File(r)'.version, Len(ledger'[File(r)'.version]))
        BY Zenon DEF Current
      <4>2. File(r)'.version = v
        BY <3>0, Zenon DEF f, v
      <4> QED BY <2>8, <2>9, <3>0, <4>1, <4>2, Zenon DEF h
    <3>2. h # <<>>
      <4>1. Len(h) # 0
        BY <2>8 DEF h
      <4> QED BY <4>1
    <3>3. \A b \in backend' : b.attempt = Current(r)'
      BY <2>6, <3>1 DEF CreateExecutor
    <3>4. \A i \in DOMAIN BundleOf[r] : i < run[r].file => ledger'[BundleOf[r][i].version] # <<>>
      <4> SUFFICES ASSUME NEW i \in DOMAIN BundleOf[r], i < run[r].file
                   PROVE  ledger'[BundleOf[r][i].version] # <<>>
        BY Zenon
      <4>1. ledger[BundleOf[r][i].version] # <<>>
        BY <2>1, Zenon DEF MigrationInv, RunProgress, Holding
      <4>2. BundleOf[r][i].version \in Versions
        BY BundleFiles, Zenon
      <4> QED BY <2>9, <3>2, <4>1, <4>2, Zenon
    <3> QED BY <2>1, <2>4, <2>6, <2>9, <3>1, <3>2, <3>3, <3>4 DEF RunProgress, Moves, Holding, v, f
  <2>13. \A x \in Runners : x # r => RunProgress(x)'
    BY <1>5, <2>1, <2>4, <2>10, Zenon DEF Moves, Holding
  <2>14. \A b, c \in backend' : b = c
    BY <2>6, Zenon
  <2>15. MigrationType'
    <3>1. Attempt(v, Len(ledger[v]) + 1) \in [version : Versions, attempt : Nat]
      BY <2>2, <2>8 DEF Attempt
    <3>2. backend' \subseteq Executors
      BY <2>6, <3>1 DEF CreateExecutor, Executors
    <3> QED BY <2>4, <2>9, <3>2, Zenon DEF MigrationType, Moves
  <2> QED BY <1>1, <2>6, <2>10, <2>11, <2>12, <2>13, <2>14, <2>15, Zenon DEF MigrationInv
<1>10. ASSUME NEW r \in Runners, SkipFile(r) PROVE MigrationInv'
  <2> DEFINE s == [run[r] EXCEPT !.file = run[r].file + 1]
  <2>1. /\ run[r].pc = "admit" /\ run[r].file \in 1..Len(BundleOf[r]) /\ lock = r /\ backend = {}
        /\ run[r] \in RunStates
    BY <1>10, <1>t, BundleFiles DEF SkipFile, MigrationInv, MigrationType, RunStates, RunProgress, Holding
  <2>2. run[r].file + 1 \in Nat \ {0}
    BY <2>1, BundleFiles
  <2>3. s \in RunStates /\ s.pc = "admit" /\ s.file = run[r].file + 1 /\ s.outcome = run[r].outcome
    BY <2>1, <2>2, Zenon DEF RunStates
  <2>4. run' = [run EXCEPT ![r] = s]
    BY <1>10, Zenon DEF SkipFile
  <2> HIDE DEF s
  <2>5. Moves(r, "admit", run[r].file + 1, run[r].outcome)
    BY <1>t, <2>3, <2>4, Zenon DEF Moves, MigrationType
  <2>6. UNCHANGED <<ledger, applied, lock, backend, ready, receipts>>
    BY <1>10, Zenon DEF SkipFile
  <2>7. ledger[File(r).version] # <<>>
    BY <1>10, Zenon DEF SkipFile, Verdict
  <2>8. \A i \in DOMAIN BundleOf[r] : i < run[r].file + 1 => ledger[BundleOf[r][i].version] # <<>>
    <3> SUFFICES ASSUME NEW i \in DOMAIN BundleOf[r], i < run[r].file + 1
                 PROVE  ledger[BundleOf[r][i].version] # <<>>
      BY Zenon
    <3>1. i = run[r].file \/ i < run[r].file
      BY <2>1, BundleFiles
    <3>2. CASE i = run[r].file
      BY <2>7, <3>2, Zenon DEF File
    <3>3. CASE i < run[r].file
      BY <2>1, <3>3, Zenon DEF MigrationInv, RunProgress, Holding
    <3> QED BY <3>1, <3>2, <3>3, Zenon
  <2>9. RunProgress(r)'
    BY <2>1, <2>5, <2>6, <2>8, Zenon DEF RunProgress, Moves, Holding
  <2>10. \A x \in Runners : x # r => RunProgress(x)'
    BY <1>5, <1>6, <2>1, <2>5, <2>6, Zenon DEF Moves, Holding
  <2> QED BY <1>3, <2>5, <2>6, <2>9, <2>10, Zenon DEF Moves, MigrationInv, MigrationType
<1>11. ASSUME NEW r \in Runners, FinishRun(r) PROVE MigrationInv'
  <2>1. Moves(r, "verify", run[r].file, run[r].outcome)
    BY <1>11, <1>t, RunnerGoes, Zenon DEF FinishRun, Leave, RunPhases
  <2>2. UNCHANGED <<ledger, applied, backend, ready, receipts>> /\ run[r].pc = "admit"
        /\ run[r].file > Len(BundleOf[r])
    BY <1>11, Zenon DEF FinishRun
  <2>3. RunProgress(r)'
    BY <2>1, <2>2, Zenon DEF MigrationInv, RunProgress, Moves, Holding
  <2>4. \A x \in Runners : x # r => RunProgress(x)'
    BY <1>5, <1>6, <2>1, <2>2, Zenon DEF Moves, Holding
  <2> QED BY <1>3, <2>1, <2>2, <2>3, <2>4, Zenon DEF Moves, MigrationInv, MigrationType
(* the attempt of a runner that stays at its file stays the current one *)
<1>12. ASSUME NEW r \in Runners, run'[r].file = run[r].file, ledger' = ledger
       PROVE  File(r)' = File(r) /\ Current(r)' = Current(r)
  <2>1. File(r)' = File(r)
    BY <1>12, Zenon DEF File
  <2>2. Current(r)' = Attempt(File(r)'.version, Len(ledger'[File(r)'.version]))
    BY Zenon DEF Current
  <2> QED BY <1>12, <2>1, <2>2, Zenon DEF Current
(* an execution ends: the executor is gone *)
<1>13. ASSUME NEW r \in Runners, NEW o \in {"succeeded", "failed", "ambiguous"},
              run[r].pc \in {"execute", "commit"}, Settle(r, o), backend' = backend \ Backend(r),
              applied \subseteq applied', o = "succeeded" => Current(r) \in applied',
              UNCHANGED <<ledger, lock, ready, receipts>>
       PROVE  MigrationInv'
  <2>1. Moves(r, "terminalize", run[r].file, o)
    BY <1>13, <1>t, RunnerSettles, Zenon
  <2>2. backend' = {}
    BY <1>13, Zenon DEF Backend, MigrationInv, RunProgress
  <2>3. File(r)' = File(r) /\ Current(r)' = Current(r)
    BY <1>12, <1>13, <2>1, Zenon DEF Moves
  <2>4. RunProgress(r)'
    BY <1>13, <2>1, <2>2, <2>3, Zenon DEF MigrationInv, RunProgress, Moves, Holding
  <2>5. \A x \in Runners : x # r => RunProgress(x)'
    BY <1>5, <1>6, <1>13, <2>1, Zenon DEF Moves, Holding
  <2> QED BY <1>3, <1>13, <2>1, <2>2, <2>4, <2>5, Zenon DEF Moves
<1>14. ASSUME NEW r \in Runners, SqlRejected(r) \/ CommitAnswered(r) PROVE MigrationInv'
  BY <1>13, <1>14, Zenon DEF SqlRejected, CommitAnswered
<1>15. ASSUME NEW r \in Runners, ExecutionErrs(r) PROVE MigrationInv'
  <2>1. Terminate(Backend(r)) => backend' = backend \ Backend(r) /\ applied \subseteq applied'
    BY Zenon DEF Terminate
  <2> QED BY <1>13, <1>15, <2>1, Zenon DEF ExecutionErrs
<1>16. ASSUME NEW r \in Runners, Deadline(r) PROVE MigrationInv'
  <2>1. Terminate(Backend(r)) => backend' = backend \ Backend(r) /\ applied \subseteq applied'
    BY Zenon DEF Terminate
  <2>2. CASE Terminate(Backend(r)) /\ Settle(r, "failed") /\ lock' = lock
    BY <1>13, <1>16, <2>1, <2>2, Zenon DEF Deadline
  <2>3. CASE UNCHANGED <<backend, applied>> /\ Leave(r, "failed")
    BY <1>7, <1>16, <2>3, Zenon DEF Deadline, Leave, Holding
  <2> QED BY <1>16, <2>2, <2>3, Zenon DEF Deadline
<1>17. ASSUME NEW r \in Runners, SendCommit(r) PROVE MigrationInv'
  <2>1. Moves(r, "commit", run[r].file, run[r].outcome)
    BY <1>17, <1>t, RunnerGoes, Zenon DEF SendCommit, RunPhases
  <2>2. UNCHANGED <<ledger, applied, lock, ready, receipts>> /\ run[r].pc = "execute"
    BY <1>17, Zenon DEF SendCommit
  <2>3. File(r)' = File(r) /\ Current(r)' = Current(r)
    BY <1>12, <2>1, <2>2, Zenon DEF Moves
  <2> DEFINE flag(b) == IF b \in Backend(r) THEN [b EXCEPT !.sent = TRUE] ELSE b
  <2>4. backend' = {flag(b) : b \in backend}
    BY <1>17, Zenon DEF SendCommit
  <2>5. \A b, c \in backend' : b = c
    BY <2>4, Zenon DEF MigrationInv
  <2>s. \A b \in backend : flag(b) \in Executors /\ flag(b).attempt = b.attempt
    BY <1>t, Zenon DEF MigrationType, Executors
  <2>6. backend' \subseteq Executors /\ \A b \in backend' : b.attempt = Current(r)
    BY <2>2, <2>4, <2>s, Zenon DEF MigrationInv, RunProgress
  <2>7. RunProgress(r)'
    BY <2>1, <2>2, <2>3, <2>6, Zenon DEF MigrationInv, RunProgress, Moves, Holding
  <2>8. \A x \in Runners : x # r => RunProgress(x)'
    BY <1>5, <1>6, <2>1, <2>2, Zenon DEF Moves, Holding
  <2> QED BY <1>3, <2>1, <2>2, <2>5, <2>6, <2>7, <2>8, Zenon DEF Moves
<1>18. ASSUME NEW r \in Runners, Terminalize(r) PROVE MigrationInv'
  <2>1. CASE run[r].outcome = "ambiguous"
    BY <1>7, <1>18, <2>1, Zenon DEF Terminalize, Leave, Holding
  <2>2. ASSUME NEW o \in {"succeeded", "failed"}, run[r].outcome = o, Record(r, o)
        PROVE  /\ Grows /\ SuccessIsApplied'
               /\ \A w \in Versions : ledger[w] # <<>> => ledger'[w] # <<>>
    <3> DEFINE v == File(r).version
               k == Len(ledger[v])
               e == [ledger[v][k] EXCEPT !.state = o]
               h == [ledger[v] EXCEPT ![k] = e]
    <3>1. run[r].pc = "terminalize" /\ run[r].file \in 1..Len(BundleOf[r]) /\ ledger[v] # <<>>
      BY <1>18, <1>t, BundleFiles DEF Terminalize, MigrationInv, RunProgress, MigrationType, RunStates
    <3>2. v \in Versions
      BY <3>1, BundleFiles, Zenon DEF File
    <3>3. applied' = applied
      BY <1>18, Zenon DEF Terminalize
    <3>4. ledger' = [ledger EXCEPT ![v] = h]
      BY <2>2, Zenon DEF Record
    <3>5. o = "succeeded" => Attempt(v, k) \in applied
      BY <2>2, <3>1, Zenon DEF MigrationInv, RunProgress, Current
    <3>6. ledger[v] \in Seq(Entries)
      BY <1>t, <3>2, Zenon DEF MigrationType
    <3> HIDE DEF v
    <3>7. k \in 1..Len(ledger[v]) /\ ledger[v][k] \in Entries /\ k \in Nat
      BY <3>1, <3>6
    <3>8. e \in Entries /\ e.file = ledger[v][k].file /\ e.state = o
      BY <3>7, Zenon DEF Entries
    <3> HIDE DEF e
    <3>9. h \in Seq(Entries) /\ Len(h) = k /\ h[k] = e /\ \A n \in 1..k : n # k => h[n] = ledger[v][n]
      BY <3>6, <3>7, <3>8
    <3> HIDE DEF h
    <3>10. /\ ledger' \in [Versions -> Seq(Entries)] /\ ledger'[v] = h
           /\ \A w \in Versions : w # v => ledger'[w] = ledger[w]
      BY <1>t, <3>2, <3>4, <3>9, Zenon DEF MigrationType
    <3>11. ASSUME NEW w \in Versions
           PROVE  /\ Len(ledger'[w]) = Len(ledger[w]) /\ Len(ledger[w]) \in Nat
                  /\ \A n \in 1..Len(ledger[w]) : ledger'[w][n].file = ledger[w][n].file
                  /\ \A n \in 1..Len(ledger[w]) :
                        ledger'[w][n].state = "succeeded" => Attempt(w, n) \in applied
      <4>1. CASE w = v
        BY <3>5, <3>7, <3>8, <3>9, <3>10, <4>1, Zenon DEF MigrationInv, SuccessIsApplied
      <4>2. CASE w # v
        BY <1>t, <3>10, <4>2 DEF MigrationInv, SuccessIsApplied, MigrationType
      <4> QED BY <4>1, <4>2, Zenon
    <3>12. Grows
      BY <3>3, <3>10, <3>11 DEF Grows
    <3>13. SuccessIsApplied'
      BY <3>3, <3>11, Zenon DEF SuccessIsApplied
    <3>14. \A w \in Versions : ledger[w] # <<>> => ledger'[w] # <<>>
      <4> SUFFICES ASSUME NEW w \in Versions, ledger[w] # <<>> PROVE ledger'[w] # <<>>
        BY Zenon
      <4>1. ledger[w] \in Seq(Entries) /\ ledger'[w] \in Seq(Entries) /\ Len(ledger'[w]) = Len(ledger[w])
        BY <1>t, <3>10, <3>11, Zenon DEF MigrationType
      <4> QED BY <4>1
    <3> QED BY <3>12, <3>13, <3>14, Zenon
  <2>3. /\ run[r].pc = "terminalize" /\ run[r].file \in 1..Len(BundleOf[r]) /\ lock = r /\ backend = {}
        /\ ledger[File(r).version] # <<>> /\ run[r] \in RunStates
        /\ UNCHANGED <<backend, applied, ready, receipts>>
    BY <1>18, <1>t, BundleFiles DEF Terminalize, MigrationInv, RunProgress, MigrationType, RunStates, Holding
  <2>4. CASE run[r].outcome = "failed"
    <3>1. Record(r, "failed") /\ Leave(r, "failed")
      BY <1>18, <2>4, Zenon DEF Terminalize
    <3>2. Moves(r, "failed", run[r].file, run[r].outcome)
      BY <1>t, <3>1, RunnerGoes, Zenon DEF Leave, RunPhases
    <3>3. Grows /\ SuccessIsApplied'
      BY <2>2, <2>4, <3>1, Zenon
    <3>4. RunProgress(r)'
      BY <3>2, Zenon DEF RunProgress, Moves, Holding
    <3>5. \A x \in Runners : x # r => RunProgress(x)'
      BY <1>5, <2>3, <3>2, <3>3, Zenon DEF Moves, Holding
    <3>6. MigrationType'
      BY <1>t, <2>3, <3>2, <3>3, Zenon DEF MigrationType, Moves, Grows
    <3> QED BY <1>1, <2>3, <3>3, <3>4, <3>5, <3>6, Zenon DEF MigrationInv
  <2>5. CASE run[r].outcome = "succeeded"
    <3> DEFINE s == [run[r] EXCEPT !.pc = "admit", !.file = run[r].file + 1]
    <3>1. Record(r, "succeeded") /\ lock' = lock
      BY <1>18, <2>5, Zenon DEF Terminalize
    <3>2. run' = [run EXCEPT ![r] = s]
      BY <1>18, <1>t, <2>5, Zenon DEF Terminalize, MigrationType
    <3>3. run[r].file + 1 \in Nat \ {0}
      BY <2>3, BundleFiles
    <3>4. s \in RunStates /\ s.pc = "admit" /\ s.file = run[r].file + 1 /\ s.outcome = run[r].outcome
      BY <2>3, <3>3, Zenon DEF RunStates, RunPhases
    <3> HIDE DEF s
    <3>5. Moves(r, "admit", run[r].file + 1, run[r].outcome)
      BY <1>t, <3>2, <3>4, Zenon DEF Moves, MigrationType
    <3>6. Grows /\ SuccessIsApplied' /\ \A w \in Versions : ledger[w] # <<>> => ledger'[w] # <<>>
      BY <2>2, <2>5, <3>1, Zenon
    <3>7. \A i \in DOMAIN BundleOf[r] : i < run[r].file + 1 => ledger'[BundleOf[r][i].version] # <<>>
      <4> SUFFICES ASSUME NEW i \in DOMAIN BundleOf[r], i < run[r].file + 1
                   PROVE  ledger'[BundleOf[r][i].version] # <<>>
        BY Zenon
      <4>1. i = run[r].file \/ i < run[r].file
        BY <2>3, BundleFiles
      <4>2. ledger[BundleOf[r][i].version] # <<>>
        BY <2>3, <4>1, Zenon DEF MigrationInv, RunProgress, Holding, File
      <4> QED BY <3>6, <4>2, BundleFiles, Zenon
    <3>8. RunProgress(r)'
      BY <2>3, <3>1, <3>5, <3>7, Zenon DEF RunProgress, Moves, Holding
    <3>9. \A x \in Runners : x # r => RunProgress(x)'
      BY <1>5, <2>3, <3>5, <3>6, Zenon DEF Moves, Holding
    <3>10. MigrationType'
      BY <1>t, <2>3, <3>5, <3>6, Zenon DEF MigrationType, Moves, Grows
    <3> QED BY <1>1, <2>3, <3>6, <3>8, <3>9, <3>10, Zenon DEF MigrationInv
  <2> QED BY <1>18, <2>1, <2>4, <2>5, Zenon DEF Terminalize
(* a bundle whose latest attempts are there and succeeded was applied *)
<1>19. ASSUME NEW r \in Runners,
              \A i \in DOMAIN BundleOf[r] : /\ LatestSucceeded(BundleOf[r], i)
                                            /\ ledger[BundleOf[r][i].version] # <<>>
       PROVE  \A i \in DOMAIN BundleOf[r] :
                \E n \in DOMAIN ledger[BundleOf[r][i].version] :
                   /\ ledger[BundleOf[r][i].version][n].file = BundleOf[r][i]
                   /\ Attempt(BundleOf[r][i].version, n) \in applied
  <2> SUFFICES ASSUME NEW i \in DOMAIN BundleOf[r]
               PROVE  \E n \in DOMAIN ledger[BundleOf[r][i].version] :
                   /\ ledger[BundleOf[r][i].version][n].file = BundleOf[r][i]
                   /\ Attempt(BundleOf[r][i].version, n) \in applied
    BY Zenon
  <2> DEFINE v == BundleOf[r][i].version
             k == Len(ledger[v])
  <2>1. v \in Versions
    BY BundleFiles, Zenon
  <2>2. /\ ledger[v] \in Seq(Entries) /\ ledger[v] # <<>>
        /\ ledger[v][k].state = "succeeded" /\ ledger[v][k].file = BundleOf[r][i]
    BY <1>19, <1>t, <2>1, Zenon DEF MigrationType, LatestSucceeded, Latest
  <2> HIDE DEF v
  <2>3. k \in 1..Len(ledger[v]) /\ k \in DOMAIN ledger[v]
    BY <2>2
  <2>4. Attempt(v, k) \in applied
    BY <2>1, <2>2, <2>3, Zenon DEF MigrationInv, SuccessIsApplied
  <2> QED BY <2>2, <2>3, <2>4, Zenon DEF v
<1>20. ASSUME NEW r \in Runners, WriteReceipt(r) PROVE MigrationInv'
  <2>1. run[r].pc = "verify" /\ UNCHANGED <<ledger, lock, backend, applied, ready>>
    BY <1>20, Zenon DEF WriteReceipt
  <2>2. PICK pc \in {"done", "failed"} : Go(r, pc)
    BY <1>20, Zenon DEF WriteReceipt
  <2>3. Moves(r, pc, run[r].file, run[r].outcome)
    BY <1>t, <2>2, RunnerGoes, Zenon DEF RunPhases
  <2>4. RunProgress(r)'
    BY <2>3, Zenon DEF RunProgress, Moves, Holding
  <2>5. ASSUME NEW x \in Runners, x # r PROVE RunProgress(x)'
    <3>1. File(x)' = File(x) /\ Current(x)' = Current(x)
      BY <1>12, <2>1, <2>3, <2>5, Zenon DEF Moves
    <3> QED BY <2>1, <2>3, <2>5, <3>1, Zenon DEF MigrationInv, RunProgress, Moves
  <2>6. MigrationType' /\ SuccessIsApplied'
    BY <1>t, <2>1, <2>3, Zenon DEF MigrationType, Moves, MigrationInv, SuccessIsApplied
  <2>7. \A b, c \in backend' : b = c
    BY <2>1, Zenon DEF MigrationInv
  <2>8. ReadyIsMigrated' /\ (ready \cup receipts \subseteq {BundleOf[x] : x \in Runners})'
    <3>1. CASE receipts' = receipts
      BY <1>1, <1>6, <2>1, <3>1, Zenon
    <3>2. CASE receipts' = receipts \cup {BundleOf[r]} /\ \A i \in DOMAIN BundleOf[r] : LatestSucceeded(BundleOf[r], i)
      <4>1. \A i \in DOMAIN BundleOf[r] : ledger[BundleOf[r][i].version] # <<>>
        <5> SUFFICES ASSUME NEW i \in DOMAIN BundleOf[r] PROVE ledger[BundleOf[r][i].version] # <<>>
          BY Zenon
        <5>1. run[r].file > Len(BundleOf[r]) /\ run[r].file \in Nat
          BY <1>t, <2>1, Zenon DEF MigrationInv, RunProgress, MigrationType, RunStates
        <5>2. i < run[r].file
          BY <5>1, BundleFiles
        <5> QED BY <2>1, <5>2, Zenon DEF MigrationInv, RunProgress
      <4>2. \A i \in DOMAIN BundleOf[r] :
                \E n \in DOMAIN ledger[BundleOf[r][i].version] :
                   /\ ledger[BundleOf[r][i].version][n].file = BundleOf[r][i]
                   /\ Attempt(BundleOf[r][i].version, n) \in applied
        BY <1>19, <3>2, <4>1, Zenon
      <4> QED BY <2>1, <3>2, <4>2 DEF MigrationInv, ReadyIsMigrated
    <3> QED BY <1>20, <3>1, <3>2, Zenon DEF WriteReceipt
  <2> QED BY <2>4, <2>5, <2>6, <2>7, <2>8, Zenon DEF MigrationInv
<1>21. ASSUME NEW r \in Runners, VerifyReadiness(BundleOf[r]) PROVE MigrationInv'
  <2>1. /\ UNCHANGED <<ledger, lock, backend, applied, run, receipts>>
        /\ ready' = ready \cup {BundleOf[r]}
        /\ {BundleOf[r][i].version : i \in DOMAIN BundleOf[r]} = {v \in Versions : ledger[v] # <<>>}
        /\ \A i \in DOMAIN BundleOf[r] : LatestSucceeded(BundleOf[r], i)
    BY <1>21, Zenon DEF VerifyReadiness
  <2>2. ASSUME NEW x \in Runners PROVE RunProgress(x)'
    <3>1. File(x)' = File(x) /\ Current(x)' = Current(x)
      BY <1>12, <2>1, Zenon
    <3> QED BY <2>1, <3>1, Zenon DEF MigrationInv, RunProgress
  <2>3. \A i \in DOMAIN BundleOf[r] : ledger[BundleOf[r][i].version] # <<>>
    BY <2>1, Zenon
  <2>4. \A i \in DOMAIN BundleOf[r] :
            \E n \in DOMAIN ledger[BundleOf[r][i].version] :
               /\ ledger[BundleOf[r][i].version][n].file = BundleOf[r][i]
               /\ Attempt(BundleOf[r][i].version, n) \in applied
    BY <1>19, <2>1, <2>3, Zenon
  <2>5. ReadyIsMigrated'
    BY <2>1, <2>4 DEF MigrationInv, ReadyIsMigrated
  <2>6. MigrationType' /\ SuccessIsApplied'
    BY <1>t, <2>1, Zenon DEF MigrationType, MigrationInv, SuccessIsApplied
  <2> QED BY <2>1, <2>2, <2>5, <2>6, Zenon DEF MigrationInv
(* nothing but the executors, the approvals and the committed attempts *)
<1>22. ASSUME UNCHANGED <<ledger, lock, run, ready, receipts>>, applied \subseteq applied',
              backend' \subseteq backend
       PROVE  MigrationInv'
  <2>1. ASSUME NEW x \in Runners PROVE RunProgress(x)'
    <3>1. File(x)' = File(x) /\ Current(x)' = Current(x)
      BY <1>12, <1>22, Zenon
    <3> QED BY <1>22, <3>1, Zenon DEF MigrationInv, RunProgress
  <2>2. run' \in [Runners -> RunStates] /\ backend' \subseteq Executors /\ \A b, c \in backend' : b = c
    BY <1>22, Zenon DEF MigrationInv, MigrationType
  <2> QED BY <1>3, <1>22, <2>1, <2>2, Zenon
<1>23. CASE OrphanEnds
  <2>1. backend' \subseteq backend /\ applied \subseteq applied'
    BY <1>23, Zenon DEF OrphanEnds, Terminate
  <2> QED BY <1>22, <1>23, <2>1, Zenon DEF OrphanEnds
<1>24. ASSUME NEW v \in Versions, ApproveRetry(v) PROVE MigrationInv'
  BY <1>22, <1>24, Zenon DEF ApproveRetry
<1>25. CASE UNCHANGED migrationVars
  BY <1>22, <1>25, Zenon DEF migrationVars
<1> QED
  BY <1>4, <1>8, <1>9, <1>10, <1>11, <1>14, <1>15, <1>16, <1>17, <1>18, <1>20, <1>21, <1>23, <1>24, <1>25, Zenon
     DEF MigrationNext

(* An empty ledger with no runner at work satisfies MigrationInv.          *)
LEMMA MigrationStarts == MigrationInit => MigrationInv
<1> SUFFICES ASSUME MigrationInit PROVE MigrationInv
  BY Zenon
<1>1. MigrationType
  BY DEF MigrationInit, MigrationType, RunStates, RunPhases
<1>2. \A r \in Runners : RunProgress(r)
  BY Zenon DEF MigrationInit, RunProgress, Holding
<1> QED BY <1>1, <1>2 DEF MigrationInit, MigrationInv, SuccessIsApplied, ReadyIsMigrated

(* A bundle that verify_one reported ready, or has a receipt for, has each *)
(* of its files in the ledger with an attempt whose SQL is committed,      *)
(* whatever runner crashed in between (migration.rs migrate_namespace and  *)
(* terminalize, tenant_db.rs verify_one).                                  *)
THEOREM ReadyWasMigrated == MigrationSpec => []ReadyIsMigrated
<1>1. MigrationInv /\ [MigrationNext]_migrationVars => MigrationInv'
  BY MigrationStep, Zenon
<1>2. MigrationInv => ReadyIsMigrated
  BY Zenon DEF MigrationInv
<1> QED
  BY <1>1, <1>2, MigrationStarts, PTL DEF MigrationSpec

(* Two attempts never execute at the same time: the namespace lock covers  *)
(* an attempt from its admission to its record, and whoever takes the lock *)
(* terminates what a crashed runner left behind (migrate_namespace,        *)
(* cleanup_orphan_executors).                                              *)
THEOREM ExecutorsExclude == MigrationSpec => []OneExecutor
<1>1. MigrationInv /\ [MigrationNext]_migrationVars => MigrationInv'
  BY MigrationStep, Zenon
<1>2. MigrationInv => OneExecutor
  BY Zenon DEF MigrationInv, OneExecutor
<1> QED
  BY <1>1, <1>2, MigrationStarts, PTL DEF MigrationSpec

-----------------------------------------------------------------------------

(* Provisioning.                                                           *)

(* The states of a provisioner and of its todo list, by type.              *)
ProvPhases ==
    {"start", "cluster", "converge", "install", "reload", "activated", "restore", "publish",
     "done", "failed"}

ProvStates == [pc : ProvPhases, todo : SUBSET Namespaces]

(* The steps a provisioner takes while it holds the advisory lock of       *)
(* provision.                                                              *)
Busy == ProvPhases \ {"start", "done", "failed"}

(* Every manifest that is published has its mappings in this map.          *)
MapCovers(map) == \A n \in Namespaces : published[n] # Unpublished => published[n] \in map

ProvType ==
    /\ published \in [Namespaces -> Manifests \cup {Unpublished}]
    /\ converged \in [Namespaces -> SUBSET Manifests]
    /\ prov \in [Provisioners -> ProvStates]

(* What a provisioner has done when it reaches a step: the roles and the   *)
(* mappings of its own manifest are there, and the backup of               *)
(* preserve_backup exists while the installed map is unverified.           *)
Progress(p) ==
    /\ prov[p].pc \in Busy => holder = p
    /\ prov[p].todo \subseteq Desired(p)
    /\ prov[p].pc \in {"converge", "install", "reload", "activated", "publish"} =>
          /\ ManifestOf[p] \in roles
          /\ \A n \in Desired(p) :
                prov[p].pc # "converge" \/ n \notin prov[p].todo => ManifestOf[p] \in converged[n]
    /\ prov[p].pc \in {"install", "reload", "restore"} => backup # {}
    /\ prov[p].pc \in {"reload", "activated", "publish"} => ManifestOf[p] \in ident
    /\ prov[p].pc \in {"activated", "publish"} => ManifestOf[p] \in loaded
    /\ prov[p].pc = "activated" => ident = verified
    /\ prov[p].pc = "publish" => backup = {}

(* The inductive invariant of provisioning: every published manifest is    *)
(* covered by the roles, by the databases and by each copy of the map that *)
(* a crash, a failed reload or a restore can leave in force.               *)
ProvInv ==
    /\ ProvType
    /\ \A p \in Provisioners : Progress(p)
    /\ \A n \in Namespaces : published[n] # Unpublished => published[n] \in roles \cap converged[n]
    /\ MapCovers(ident) /\ MapCovers(loaded) /\ \A map \in backup : MapCovers(map)
    /\ UnverifiedIsBackedUp

(* Every step of provision keeps ProvInv, the failed reload, the restore   *)
(* and the crash included.                                                 *)
LEMMA ProvStep ==
    ASSUME ProvInv, ProvNext \/ UNCHANGED provVars
    PROVE  ProvInv'
<1> USE ProvAssumption
<1>0. ASSUME NEW p \in Provisioners PROVE Desired(p) \subseteq Namespaces /\ ManifestOf[p] \in Manifests
  BY Zenon DEF Desired, Namespaces, Manifests
<1>1. ASSUME NEW p \in Provisioners, Preflight(p) PROVE ProvInv'
  <2>1. ProvType'
    BY <1>1 DEF ProvInv, ProvType, Preflight, Step, Exit, ProvStates, ProvPhases
  <2>2. \A x \in Provisioners : Progress(x)'
    BY <1>1 DEF ProvInv, ProvType, Preflight, Step, Exit, Progress, At, ProvStates, Busy, ProvPhases, Desired
  <2> QED BY <1>1, <2>1, <2>2, Zenon DEF ProvInv, Preflight, MapCovers, UnverifiedIsBackedUp
<1>2. ASSUME NEW p \in Provisioners, ConvergeCluster(p) PROVE ProvInv'
  <2>1. ProvType'
    BY <1>0, <1>2, Zenon DEF ProvInv, ProvType, ConvergeCluster, StepAll, ProvStates, ProvPhases
  <2>2. \A x \in Provisioners : Progress(x)'
    BY <1>2, Zenon
       DEF ProvInv, ProvType, ConvergeCluster, StepAll, Progress, At, ProvStates, Busy, ProvPhases, Desired
  <2> QED BY <1>2, <2>1, <2>2, Zenon DEF ProvInv, ConvergeCluster, MapCovers, UnverifiedIsBackedUp
<1>3. ASSUME NEW p \in Provisioners, NEW n \in Namespaces, ConvergeNamespace(p, n) PROVE ProvInv'
  <2>0. prov' = [prov EXCEPT ![p] = [prov[p] EXCEPT !.todo = prov[p].todo \ {n}]]
    BY <1>3, Zenon DEF ConvergeNamespace
  <2> DEFINE s == [prov[p] EXCEPT !.todo = prov[p].todo \ {n}]
  <2>1. s \in ProvStates /\ s.pc = "converge" /\ s.todo = prov[p].todo \ {n} /\ prov[p].pc = "converge"
    BY <1>3, Zenon DEF ProvInv, ProvType, ProvStates, ConvergeNamespace, At
  <2> HIDE DEF s
  <2>2. prov' \in [Provisioners -> ProvStates] /\ prov'[p] = s
        /\ \A x \in Provisioners : x # p => prov'[x] = prov[x]
    BY <2>0, <2>1, Zenon DEF s, ProvInv, ProvType
  <2>3. /\ converged' \in [Namespaces -> SUBSET Manifests]
        /\ \A k \in Namespaces : converged[k] \subseteq converged'[k]
        /\ ManifestOf[p] \in converged'[n]
    BY <1>0, <1>3, Zenon DEF ConvergeNamespace, ProvInv, ProvType
  <2>4. ProvType'
    BY <1>3, <2>2, <2>3, Zenon DEF ProvInv, ProvType, ConvergeNamespace
  <2>5. \A x \in Provisioners : Progress(x)'
    <3>1. Progress(p)'
      BY <1>0, <1>3, <2>1, <2>2, <2>3, Zenon
         DEF ProvInv, ConvergeNamespace, Progress, Busy, ProvPhases, Desired
    <3>2. ASSUME NEW x \in Provisioners, x # p PROVE Progress(x)'
      BY <1>0, <1>3, <2>2, <2>3, <3>2, Zenon
         DEF ProvInv, ConvergeNamespace, Progress, Busy, ProvPhases, Desired
    <3> QED BY <3>1, <3>2, Zenon
  <2> QED BY <1>3, <2>3, <2>4, <2>5, Zenon DEF ProvInv, ConvergeNamespace, MapCovers, UnverifiedIsBackedUp
<1>4. ASSUME NEW p \in Provisioners, PreserveBackup(p) PROVE ProvInv'
  <2>1. ProvType'
    BY <1>4, Zenon DEF ProvInv, ProvType, PreserveBackup, Step, ProvStates, ProvPhases
  <2>2. \A x \in Provisioners : Progress(x)'
    BY <1>4 DEF ProvInv, ProvType, PreserveBackup, Step, Progress, At, ProvStates, Busy, ProvPhases, Desired
  <2> QED BY <1>4, <2>1, <2>2, Zenon DEF ProvInv, PreserveBackup, MapCovers, UnverifiedIsBackedUp
<1>5. ASSUME NEW p \in Provisioners, Install(p) PROVE ProvInv'
  <2>1. ProvType'
    BY <1>5, Zenon DEF ProvInv, ProvType, Install, Step, ProvStates, ProvPhases
  <2>2. \A x \in Provisioners : Progress(x)'
    BY <1>5
       DEF ProvInv, ProvType, Install, Mappings, Step, Progress, At, ProvStates, Busy, ProvPhases, Desired
  <2>3. backup # {}
    BY <1>5, Zenon DEF ProvInv, Install, At, Progress
  <2> QED BY <1>5, <2>1, <2>2, <2>3, Zenon DEF ProvInv, Install, Mappings, MapCovers, UnverifiedIsBackedUp
<1>6. ASSUME NEW p \in Provisioners, Activated(p) PROVE ProvInv'
  <2>1. ProvType'
    BY <1>6, Zenon DEF ProvInv, ProvType, Activated, Step, ProvStates, ProvPhases
  <2>2. \A x \in Provisioners : Progress(x)'
    BY <1>6 DEF ProvInv, ProvType, Activated, Step, Progress, At, ProvStates, Busy, ProvPhases, Desired
  <2> QED BY <1>6, <2>1, <2>2, Zenon DEF ProvInv, Activated, MapCovers, UnverifiedIsBackedUp
<1>7. ASSUME NEW p \in Provisioners, ActivationFails(p) PROVE ProvInv'
  <2>1. ProvType'
    BY <1>7, Zenon DEF ProvInv, ProvType, ActivationFails, Step, ProvStates, ProvPhases
  <2>2. \A x \in Provisioners : Progress(x)'
    BY <1>7 DEF ProvInv, ProvType, ActivationFails, Step, Progress, At, ProvStates, Busy, ProvPhases, Desired
  <2>3. backup # {}
    BY <1>7, Zenon DEF ProvInv, ActivationFails, At, Progress
  <2>4. ident' \in backup
    BY <1>7, <2>3, Zenon DEF ActivationFails
  <2> QED BY <1>7, <2>1, <2>2, <2>3, <2>4, Zenon DEF ProvInv, ActivationFails, MapCovers, UnverifiedIsBackedUp
<1>8. ASSUME NEW p \in Provisioners, Restored(p) \/ RestoreFails(p) PROVE ProvInv'
  <2>1. ProvType'
    BY <1>8 DEF ProvInv, ProvType, Restored, RestoreFails, Step, Exit, ProvStates, ProvPhases
  <2>2. \A x \in Provisioners : Progress(x)'
    BY <1>8
       DEF ProvInv, ProvType, Restored, RestoreFails, Step, Exit, Progress, At, ProvStates, Busy, ProvPhases, Desired
  <2> QED BY <1>8, <2>1, <2>2, Zenon DEF ProvInv, Restored, RestoreFails, MapCovers, UnverifiedIsBackedUp
<1>9. ASSUME NEW p \in Provisioners, RemoveBackup(p) PROVE ProvInv'
  <2>1. ProvType'
    BY <1>0, <1>9, Zenon DEF ProvInv, ProvType, RemoveBackup, StepAll, ProvStates, ProvPhases
  <2>2. \A x \in Provisioners : Progress(x)'
    BY <1>9 DEF ProvInv, ProvType, RemoveBackup, StepAll, Progress, At, ProvStates, Busy, ProvPhases, Desired
  <2>3. ident = verified
    BY <1>9, Zenon DEF ProvInv, RemoveBackup, At, Progress
  <2> QED BY <1>9, <2>1, <2>2, <2>3, Zenon DEF ProvInv, RemoveBackup, MapCovers, UnverifiedIsBackedUp
<1>10. ASSUME NEW p \in Provisioners, NEW n \in Namespaces, CommitGeneration(p, n) PROVE ProvInv'
  <2>0. prov' = [prov EXCEPT ![p] = [prov[p] EXCEPT !.todo = prov[p].todo \ {n}]]
    BY <1>10, Zenon DEF CommitGeneration
  <2> DEFINE s == [prov[p] EXCEPT !.todo = prov[p].todo \ {n}]
  <2>1. s \in ProvStates /\ s.pc = "publish" /\ s.todo = prov[p].todo \ {n} /\ prov[p].pc = "publish"
    BY <1>10, Zenon DEF ProvInv, ProvType, ProvStates, CommitGeneration, At
  <2> HIDE DEF s
  <2>2. prov' \in [Provisioners -> ProvStates] /\ prov'[p] = s
        /\ \A x \in Provisioners : x # p => prov'[x] = prov[x]
    BY <2>0, <2>1, Zenon DEF s, ProvInv, ProvType
  <2>3. /\ published' \in [Namespaces -> Manifests \cup {Unpublished}]
        /\ \A k \in Namespaces : published'[k] = IF k = n THEN ManifestOf[p] ELSE published[k]
    BY <1>0, <1>10, Zenon DEF CommitGeneration, ProvInv, ProvType
  <2>4. ProvType'
    BY <1>10, <2>2, <2>3, Zenon DEF ProvInv, ProvType, CommitGeneration
  <2>5. \A x \in Provisioners : Progress(x)'
    <3>1. Progress(p)'
      BY <1>10, <2>1, <2>2, Zenon DEF ProvInv, CommitGeneration, Progress, Busy, ProvPhases, Desired
    <3>2. ASSUME NEW x \in Provisioners, x # p PROVE Progress(x)'
      BY <1>10, <2>2, <3>2, Zenon DEF ProvInv, CommitGeneration, Progress, Busy, ProvPhases, Desired
    <3> QED BY <3>1, <3>2, Zenon
  <2>6. /\ n \in Desired(p) /\ ManifestOf[p] \in roles \cap converged[n]
        /\ ManifestOf[p] \in ident \cap loaded /\ backup = {}
    BY <1>10, <2>1, Zenon DEF ProvInv, CommitGeneration, Progress
  <2>7. \A k \in Namespaces : published'[k] # Unpublished => published'[k] \in roles \cap converged[k]
    BY <2>3, <2>6, Zenon DEF ProvInv
  <2>8. MapCovers(ident)' /\ MapCovers(loaded)'
    BY <1>10, <2>3, <2>6 DEF ProvInv, MapCovers, CommitGeneration
  <2> QED BY <1>10, <2>4, <2>5, <2>6, <2>7, <2>8, Zenon DEF ProvInv, CommitGeneration, UnverifiedIsBackedUp
<1>11. ASSUME NEW p \in Provisioners, Receipt(p) \/ CrashProvisioner(p) PROVE ProvInv'
  <2>1. ProvType'
    BY <1>11 DEF ProvInv, ProvType, Receipt, CrashProvisioner, Step, Exit, ProvStates, ProvPhases
  <2>2. \A x \in Provisioners : Progress(x)'
    BY <1>11
       DEF ProvInv, ProvType, Receipt, CrashProvisioner, Step, Exit, Progress, At, ProvStates, Busy, ProvPhases, Desired
  <2> QED BY <1>11, <2>1, <2>2, Zenon DEF ProvInv, Receipt, CrashProvisioner, MapCovers, UnverifiedIsBackedUp
<1>12. CASE ReloadElsewhere
  <2>1. \A x \in Provisioners : Progress(x)'
    BY <1>12, Zenon DEF ProvInv, ReloadElsewhere, Progress, Desired
  <2> QED BY <1>12, <2>1, Zenon DEF ProvInv, ProvType, ReloadElsewhere, MapCovers, UnverifiedIsBackedUp
<1>13. CASE InspectBackup
  <2>1. \A x \in Provisioners : prov[x].pc \notin Busy
    BY <1>13, Zenon DEF ProvInv, InspectBackup, Progress
  <2>2. \A x \in Provisioners : Progress(x)'
    BY <1>13, <2>1, Zenon DEF ProvInv, InspectBackup, Progress, Desired, Busy, ProvPhases
  <2> QED BY <1>13, <2>2 DEF ProvInv, ProvType, InspectBackup, MapCovers, UnverifiedIsBackedUp
<1>14. CASE UNCHANGED provVars
  <2>1. \A x \in Provisioners : Progress(x)'
    BY <1>14, Zenon DEF ProvInv, provVars, Progress, Desired
  <2> QED BY <1>14, <2>1, Zenon DEF ProvInv, ProvType, provVars, MapCovers, UnverifiedIsBackedUp
<1> QED
  BY <1>1, <1>2, <1>3, <1>4, <1>5, <1>6, <1>7, <1>8, <1>9, <1>10, <1>11, <1>12, <1>13, <1>14, Zenon
     DEF ProvNext

(* Nothing is published or installed before the first provisioner runs.    *)
LEMMA ProvStarts == ProvInit => ProvInv
  BY DEF ProvInit, ProvInv, ProvType, ProvStates, ProvPhases, Progress, Busy, MapCovers,
         UnverifiedIsBackedUp, Desired

(* A namespace whose manifest is published can be logged into: its roles   *)
(* exist, its database is converged and the loaded pg_ident map holds its  *)
(* mappings, whatever provisioner failed or crashed since (postgres/mod.rs *)
(* provision publishes last).                                              *)
THEOREM PublishedWasActivated == ProvSpec => []PublishedIsUsable
<1>1. ProvInv /\ [ProvNext]_provVars => ProvInv'
  BY ProvStep, Zenon
<1>2. ProvInv => PublishedIsUsable
  BY Zenon DEF ProvInv, MapCovers, PublishedIsUsable
<1> QED
  BY <1>1, <1>2, ProvStarts, PTL DEF ProvSpec

(* An installed map that no reload has validated is never without its      *)
(* backup, so the map before it can be restored by the next provisioner    *)
(* (preserve_backup, restore_and_reload, remove_backup).                   *)
THEOREM UnverifiedWasBackedUp == ProvSpec => []UnverifiedIsBackedUp
<1>1. ProvInv /\ [ProvNext]_provVars => ProvInv'
  BY ProvStep, Zenon
<1>2. ProvInv => UnverifiedIsBackedUp
  BY Zenon DEF ProvInv
<1> QED
  BY <1>1, <1>2, ProvStarts, PTL DEF ProvSpec

-----------------------------------------------------------------------------

(* Authorization.                                                          *)

(* The kinds of principal of auth.rs.                                      *)
Kinds == {"human", "service", "proxy", "agent", "manager"}

(* The calls on which the table and the handlers must agree. *)
Compared == Rpcs \ (RolloutControl \cup {"GetManagerRollout", "GetWorkloadSnapshot"})

(* The resource of a call, completed with the record it names. *)
WholeOf(rpc, res, rec) ==
    IF rec \in Values
    THEN [d \in {IF rpc = "DeleteRoutingRule" THEN "namespace" ELSE "node"} |-> {rec}]
    ELSE res

(* The calls on their way through the wrapper and the handlers, by type.   *)
AllItems == UNION {Items(rpc) : rpc \in Rpcs}

CallRecords ==
    [pc : {"denied", "closed", "admitted", "served", "refused"}, rpc : Rpcs,
     res : UNION {Resources(rpc) : rpc \in Rpcs}, rec : UNION {Records(rpc) : rpc \in Rpcs},
     shown : SUBSET AllItems]

(* The inductive invariant of one call: what the wrapper admitted, the row *)
(* of the table allows, and what was answered is the handler's decision.   *)
AuthorityInv ==
    /\ principal \in Principals /\ gate \in BOOLEAN
    /\ call = Idle \/ call \in CallRecords
    /\ call.pc \in {"admitted", "served", "refused"} =>
         /\ call.res \in Resources(call.rpc) /\ call.rec \in Records(call.rpc)
         /\ AuthorizeRow(call.rpc, principal, call.res)
    /\ call.pc \in {"served", "refused"} =>
         \E open \in BOOLEAN :
           (call.pc = "served") <=> HandlerPermits(call.rpc, principal, call.res, call.rec, open)

(* A declared principal is of one of the five kinds.                       *)
LEMMA KindsKnown == ASSUME NEW p \in Principals PROVE p.kind \in Kinds
  <1>1. \A k \in {"human", "service"} : p \in Holders(k) => p.kind \in Kinds
    BY DEF Kinds, Holders
  <1> QED BY <1>1, Zenon DEF Kinds, Principals

(* The rows of the node service bind to a workload and grant no role. *)
LEMMA NodeRows ==
    ASSUME NEW p, p.kind \in Kinds, NEW rpc \in NodeRpcs, NEW res
    PROVE  AuthorizeRow(rpc, p, res) <=>
             /\ ~p.revoked
             /\ p.kind = IF rpc \in AgentRpcs THEN "agent" ELSE "proxy"
             /\ "node" \in DOMAIN res => res["node"] = {p.node}
  <1>1. /\ rpc \notin RoutingWrites \cup SecretRpcs \cup ScheduleWrites \cup ClusterReads \cup
                      PolicyRpcs \cup OperationWrites \cup DeploymentWrites \cup RolloutControl
                      \cup NodeReads \cup JobReads
        /\ rpc \notin {"ListSchedules", "GetManagerRollout", "GetLifecycleStatus", "RetryJob"}
    BY Zenon DEF NodeRpcs, ProxyReports, EngineReports, AgentRpcs, RoutingWrites, SecretRpcs,
           ScheduleWrites, ClusterReads, PolicyRpcs, OperationWrites, DeploymentWrites,
           RolloutControl, NodeReads, JobReads
  <1>2. RolesForRow(rpc) = [human |-> {}, service |-> {}]
    BY <1>1, Zenon DEF RolesForRow
  <1>3. WorkloadBinding(rpc) = IF rpc \in AgentRpcs THEN "agentBound" ELSE "proxyBound"
    BY Zenon DEF WorkloadBinding, NodeRpcs, ProxyReports, EngineReports, AgentRpcs
  <1> QED BY <1>2, <1>3 DEF AuthorizeRow, WorkloadBindingMatches, Kinds, Workloads

(* The node RPCs: the handler reads the node of the stored engine or       *)
(* proxy, and binds the caller to it as the row does.                      *)
LEMMA NodeAgrees ==
    ASSUME NEW p, p.kind \in Kinds, NEW rpc \in NodeRpcs, NEW res \in Resources(rpc),
           NEW rec \in Records(rpc), NEW open, AuthorizeRow(rpc, p, res)
    PROVE  HandlerPermits(rpc, p, res, rec, open) <=> AuthorizeRow(rpc, p, WholeOf(rpc, res, rec))
  <1>1. HandlerPermits(rpc, p, res, rec, open) <=> NodePermits(rpc, p, res, rec)
    BY Zenon DEF HandlerPermits, NodeRpcs, ProxyReports, EngineReports, AgentRpcs, InfrastructureRpcs,
           NodeReads, OperationWrites, DeploymentWrites, RolloutControl, PolicyRpcs
  <1>2. /\ ~p.revoked /\ p.kind = IF rpc \in AgentRpcs THEN "agent" ELSE "proxy"
        /\ "node" \in DOMAIN res => res["node"] = {p.node}
    BY NodeRows, Zenon
  <1>3. CASE rpc \in AgentRpcs
    <2>1. rec \notin Values
      BY <1>3, AuthorityAssumption, Zenon
      DEF Records, AgentRpcs, EngineReports, RolloutControl, Unset
    <2>2. res \in Named("node")
      BY <1>3, Zenon
      DEF Resources, NodeResources, AgentRpcs, JobReads, NodeRpcs, InfrastructureRpcs, NodeReads,
          OperationWrites, DeploymentWrites, RolloutControl
    <2>3. "node" \in DOMAIN res /\ p.kind = "agent"
      BY <1>2, <1>3, <2>2, Zenon DEF Named
    <2>4. NodePermits(rpc, p, res, rec)
      BY <1>2, <1>3, <2>3, Zenon
      DEF NodePermits, AgentPermits, AuthorizeAgent, NodeNamed, AgentRpcs, EngineReports
    <2> QED BY <1>1, <2>1, <2>4, Zenon DEF WholeOf
  <1>4. CASE rpc \in EngineReports
    <2>1. rec \in Values \cup {Unset}
      BY <1>4, Zenon DEF Records, EngineReports, RolloutControl
    <2>2. NodePermits(rpc, p, res, rec) <=> (rec # Unset => rec = p.node)
      BY <1>4, Zenon DEF NodePermits, EnginePermits, EngineReports, AgentRpcs
    <2>3. CASE rec = Unset
      BY <1>1, <2>2, <2>3, AuthorityAssumption, Zenon DEF WholeOf
    <2>4. CASE rec \in Values
      <3>1. WholeOf(rpc, res, rec) = [d \in {"node"} |-> {rec}]
        BY <1>4, <2>4, Zenon DEF WholeOf, EngineReports
      <3>2. AuthorizeRow(rpc, p, [d \in {"node"} |-> {rec}]) <=> {rec} = {p.node}
        BY <1>2, NodeRows
      <3>3. rec # Unset
        BY <2>4, AuthorityAssumption, Zenon
      <3> QED BY <1>1, <2>2, <3>1, <3>2, <3>3, Zenon
    <2> QED BY <2>1, <2>3, <2>4, Zenon
  <1>5. CASE rpc \notin AgentRpcs \cup EngineReports
    <2>1. rec \notin Values
      BY <1>5, AuthorityAssumption, Zenon
      DEF Records, NodeRpcs, ProxyReports, AgentRpcs, EngineReports, RolloutControl, Unset
    <2>2. NodePermits(rpc, p, res, rec)
      BY <1>5, Zenon DEF NodePermits
    <2> QED BY <1>1, <2>1, <2>2, Zenon DEF WholeOf
  <1> QED BY <1>3, <1>4, <1>5, Zenon

(* Every other row grants an RPC by the roles of one assignment.           *)
Granted(p, granting, res) ==
    /\ ~p.revoked
    /\ p.kind \in {"human", "service"}
    /\ \E g \in p.grants : /\ g.role \in granting[p.kind]
                            /\ \A d \in DOMAIN res : Covers(g.scope, d, res[d])

(* authorize_row_evidence on a row without a workload binding is one role  *)
(* grant that covers the whole resource.                                   *)
LEMMA RoleRows ==
    ASSUME NEW p, p.kind \in Kinds, NEW rpc, WorkloadBinding(rpc) = "notApplicable",
           NEW res
    PROVE  AuthorizeRow(rpc, p, res) <=> Granted(p, RolesForRow(rpc), res)
  BY Zenon DEF AuthorizeRow, WorkloadBindingMatches, Granted, Kinds, Workloads

(* The roles of the operators' reads, writes and deployments.              *)
ReadRoles == [human |-> {"admin", "infra", "view"}, service |-> {"infra", "status"}]
WriteRoles == [human |-> {"admin", "infra"}, service |-> {"infra"}]
DeployRoles == [human |-> {"admin", "infra"}, service |-> {"deploy"}]

(* roles_for_row gives the operators' RPCs these roles and no workload     *)
(* binding.                                                                *)
LEMMA OperatorRoles ==
    ASSUME NEW rpc
    PROVE  /\ rpc \in NodeReads => RolesForRow(rpc) = ReadRoles
           /\ rpc \in OperationWrites => RolesForRow(rpc) = WriteRoles
           /\ rpc \in DeploymentWrites => RolesForRow(rpc) = DeployRoles
           /\ rpc \in NodeReads \cup OperationWrites \cup DeploymentWrites =>
                WorkloadBinding(rpc) = "notApplicable"
  <1> USE DEF RoutingWrites, SecretRpcs, ScheduleWrites, ClusterReads, PolicyRpcs,
              OperationWrites, DeploymentWrites, RolloutControl, NodeReads, JobReads
  <1>1. rpc \in NodeReads => RolesForRow(rpc) = ReadRoles
    BY Zenon DEF RolesForRow, ReadRoles
  <1>2. rpc \in OperationWrites => RolesForRow(rpc) = WriteRoles
    BY Zenon DEF RolesForRow, WriteRoles
  <1>3. rpc \in DeploymentWrites => RolesForRow(rpc) = DeployRoles
    BY Zenon DEF RolesForRow, DeployRoles
  <1>4. rpc \in NodeReads \cup OperationWrites \cup DeploymentWrites =>
          WorkloadBinding(rpc) = "notApplicable"
    BY Zenon DEF WorkloadBinding, ProxyReports, EngineReports, AgentRpcs
  <1> QED BY <1>1, <1>2, <1>3, <1>4, Zenon

(* The checks of the infrastructure handlers for one node grant what the   *)
(* row does.                                                               *)
LEMMA ReadIsGranted ==
    ASSUME NEW p, ~p.revoked, p.kind \in Kinds, NEW v
    PROVE  /\ AuthorizeInfrastructureRead(p, {v}) <=>
                Granted(p, ReadRoles, [d \in {"node"} |-> {v}])
           /\ AuthorizeInfrastructureWrite(p, {v}) <=>
                Granted(p, WriteRoles, [d \in {"node"} |-> {v}])
  BY Zenon DEF AuthorizeInfrastructureRead, AuthorizeInfrastructureWrite, HasNodeGrant, Granted, Kinds,
         ReadRoles, WriteRoles

(* The operation and node RPCs: the check on the node of the stored record *)
(* grants what the row grants for that node.                               *)
LEMMA OperatorAgrees ==
    ASSUME NEW p, p.kind \in Kinds, NEW rpc \in NodeReads \cup OperationWrites,
           NEW res \in Resources(rpc), NEW rec \in Records(rpc), NEW open,
           AuthorizeRow(rpc, p, res)
    PROVE  HandlerPermits(rpc, p, res, rec, open) <=> AuthorizeRow(rpc, p, WholeOf(rpc, res, rec))
  <1> USE DEF NodeReads, OperationWrites
  <1>1. HandlerPermits(rpc, p, res, rec, open) <=> OperatorPermits(rpc, p, res, rec)
    BY Zenon DEF HandlerPermits, InfrastructurePermits, NodeRpcs, ProxyReports, EngineReports, AgentRpcs,
           InfrastructureRpcs, DeploymentWrites, RolloutControl, PolicyRpcs
  <1>0. /\ WorkloadBinding(rpc) = "notApplicable"
        /\ rpc \in NodeReads => RolesForRow(rpc) = ReadRoles
        /\ rpc \in OperationWrites => RolesForRow(rpc) = WriteRoles
    BY OperatorRoles, Zenon
  <1>2. ~p.revoked
    BY Zenon DEF AuthorizeRow
  <1>3. CASE rpc \in {"GetOperation", "ResumeOperation", "CancelOperation"}
    <2>1. rec \in Values
      BY <1>3, Zenon DEF Records, EngineReports, RolloutControl
    <2>2. WholeOf(rpc, res, rec) = [d \in {"node"} |-> {rec}]
      BY <1>3, <2>1, Zenon DEF WholeOf
    <2>3. OperatorPermits(rpc, p, res, rec) <=>
            IF rpc = "GetOperation" THEN AuthorizeInfrastructureRead(p, {rec})
            ELSE AuthorizeInfrastructureWrite(p, {rec})
      BY <1>3, Zenon DEF OperatorPermits
    <2>4. AuthorizeRow(rpc, p, WholeOf(rpc, res, rec)) <=>
            Granted(p, IF rpc = "GetOperation" THEN ReadRoles ELSE WriteRoles,
                    [d \in {"node"} |-> {rec}])
      BY <1>0, <1>3, <2>2, RoleRows
    <2> QED BY <1>1, <1>2, <1>3, <2>3, <2>4, ReadIsGranted, Zenon
  <1>4. CASE rpc \in {"GetStatus", "ListOperations", "GetNodeCleanupStatus"}
    <2>1. rec \notin Values
      BY <1>4, AuthorityAssumption, Zenon DEF Records, EngineReports, RolloutControl, Unset
    <2>2. OperatorPermits(rpc, p, res, rec) <=> AuthorizeInfrastructureRead(p, NodeNamed(res))
      BY <1>4, Zenon DEF OperatorPermits
    <2>3. Granted(p, ReadRoles, res)
      BY <1>0, <1>4, RoleRows, Zenon
    <2>4. res = NoResource \/ res \in Named("node")
      BY <1>4, Zenon DEF Resources, InfrastructureResources, JobReads, NodeRpcs, ProxyReports,
                  EngineReports, AgentRpcs, InfrastructureRpcs, DeploymentWrites, RolloutControl
    <2>5. AuthorizeInfrastructureRead(p, NodeNamed(res))
      BY <2>3, <2>4, Zenon
      DEF Granted, AuthorizeInfrastructureRead, HasNodeGrant, NodeNamed, NoResource, Named, Covers,
          ReadRoles
    <2> QED BY <1>1, <2>1, <2>2, <2>5, Zenon DEF WholeOf
  <1>5. CASE rpc \in {"SubmitOperation", "RetryNodeCleanup"}
    <2>1. rec \notin Values
      BY <1>5, AuthorityAssumption, Zenon DEF Records, EngineReports, RolloutControl, Unset
    <2>2. OperatorPermits(rpc, p, res, rec) <=> AuthorizeInfrastructureWrite(p, NodeNamed(res))
      BY <1>5, Zenon DEF OperatorPermits
    <2>3. Granted(p, WriteRoles, res)
      BY <1>0, <1>5, RoleRows, Zenon
    <2>4. res \in Named("node")
      BY <1>5, Zenon DEF Resources, InfrastructureResources, JobReads, NodeRpcs, ProxyReports,
                  EngineReports, AgentRpcs, InfrastructureRpcs, DeploymentWrites, RolloutControl
    <2>5. AuthorizeInfrastructureWrite(p, NodeNamed(res))
      BY <2>3, <2>4, Zenon
      DEF Granted, AuthorizeInfrastructureWrite, HasNodeGrant, NodeNamed, Named, Covers, WriteRoles
    <2> QED BY <1>1, <2>1, <2>2, <2>5, Zenon DEF WholeOf
  <1> QED BY <1>3, <1>4, <1>5, Zenon

(* The deployment RPCs: the row has decided, and the handler adds nothing. *)
LEMMA DeploymentAgrees ==
    ASSUME NEW p, p.kind \in Kinds, NEW rpc \in DeploymentWrites,
           NEW res \in Resources(rpc), NEW rec \in Records(rpc), NEW open,
           AuthorizeRow(rpc, p, res)
    PROVE  HandlerPermits(rpc, p, res, rec, open) <=> AuthorizeRow(rpc, p, WholeOf(rpc, res, rec))
  <1>1. HandlerPermits(rpc, p, res, rec, open) <=> DeploymentPermits(rpc, p)
    BY Zenon DEF HandlerPermits, InfrastructurePermits, NodeRpcs, ProxyReports, EngineReports, AgentRpcs,
           InfrastructureRpcs, DeploymentWrites, NodeReads, OperationWrites, RolloutControl,
           PolicyRpcs
  <1>2. Granted(p, DeployRoles, res)
    BY OperatorRoles, RoleRows, Zenon
  <1>3. DeploymentPermits(rpc, p)
    BY <1>2 DEF Granted, DeploymentPermits, AuthorizeRead, AuthorizeOperator, HasRole, DeployRoles
  <1>4. rec \notin Values
    BY AuthorityAssumption, Zenon DEF Records, DeploymentWrites, EngineReports, RolloutControl, Unset
  <1> QED BY <1>1, <1>3, <1>4, Zenon DEF WholeOf

(* DeleteRoutingRule: the check on the stored rule's namespace grants what *)
(* the row grants for that namespace.                                      *)
LEMMA RuleAgrees ==
    ASSUME NEW p, p.kind \in Kinds, NEW rpc, rpc = "DeleteRoutingRule",
           NEW res \in Resources(rpc), NEW rec \in Records(rpc), NEW open,
           AuthorizeRow(rpc, p, res)
    PROVE  HandlerPermits(rpc, p, res, rec, open) <=> AuthorizeRow(rpc, p, WholeOf(rpc, res, rec))
  <1>1. HandlerPermits(rpc, p, res, rec, open) <=> RulePermits(p, rec)
    BY Zenon DEF HandlerPermits, NodeRpcs, ProxyReports, EngineReports, AgentRpcs, InfrastructureRpcs,
           NodeReads, OperationWrites, DeploymentWrites, RolloutControl, PolicyRpcs
  <1>2. WorkloadBinding(rpc) = "notApplicable"
    BY Zenon DEF WorkloadBinding, ProxyReports, EngineReports, AgentRpcs
  <1>3. Granted(p, RolesForRow(rpc), res)
    BY <1>2, RoleRows, Zenon
  <1>4. rec \in Values \cup {Unset}
    BY Zenon DEF Records, RolloutControl
  <1>5. CASE rec = Unset
    BY <1>1, <1>5, AuthorityAssumption, Zenon DEF WholeOf, RulePermits
  <1>6. CASE rec \in Values
    <2> DEFINE whole == [d \in {"namespace"} |-> {rec}]
    <2>1. WholeOf(rpc, res, rec) = whole
      BY <1>6, Zenon DEF WholeOf
    <2>2. RulePermits(p, rec) <=> AllowsCollectionItem(rpc, p, whole)
      BY <1>6, AuthorityAssumption, Zenon DEF RulePermits
    <2> HIDE DEF whole
    <2>3. AllowsCollectionItem(rpc, p, whole) <=> Granted(p, RolesForRow(rpc), whole)
      BY <1>3, Zenon DEF AllowsCollectionItem, Carried, Granted, Workloads
    <2> QED BY <1>1, <1>2, <2>1, <2>2, <2>3, RoleRows, Zenon
  <1> QED BY <1>4, <1>5, <1>6, Zenon

(* The policy and lifecycle reads: whoever the row accepts is enrolled.    *)
LEMMA EnrolledAgrees ==
    ASSUME NEW p, p.kind \in Kinds, NEW rpc \in {"GetPolicyStatus", "GetLifecycleStatus"},
           NEW res \in Resources(rpc), NEW rec \in Records(rpc), NEW open,
           AuthorizeRow(rpc, p, res)
    PROVE  HandlerPermits(rpc, p, res, rec, open) <=> AuthorizeRow(rpc, p, WholeOf(rpc, res, rec))
  <1>1. HandlerPermits(rpc, p, res, rec, open) <=> AuthorizeEnrolled(p)
    BY Zenon DEF HandlerPermits, PolicyPermits, NodeRpcs, ProxyReports, EngineReports, AgentRpcs,
           InfrastructureRpcs, NodeReads, OperationWrites, DeploymentWrites, RolloutControl,
           PolicyRpcs
  <1>2. RolesForRow(rpc) =
          IF rpc = "GetPolicyStatus" THEN [human |-> {"admin", "view"}, service |-> {"status"}]
          ELSE [human |-> {"admin", "infra", "view"}, service |-> {"deploy", "infra", "status"}]
    BY Zenon DEF RolesForRow, RoutingWrites, SecretRpcs, ScheduleWrites, ClusterReads, PolicyRpcs,
           OperationWrites, DeploymentWrites, RolloutControl, NodeReads, JobReads
  <1>3. AuthorizeEnrolled(p)
    BY <1>2 DEF AuthorizeRow, AuthorizeEnrolled, AuthorizeRead, HasRole, Kinds, Workloads
  <1>4. rec \notin Values
    BY AuthorityAssumption, Zenon DEF Records, EngineReports, RolloutControl, Unset
  <1> QED BY <1>1, <1>3, <1>4, Zenon DEF WholeOf

(* The other RPCs: the handler makes no check of its own.                  *)
LEMMA OthersAgree ==
    ASSUME NEW p, NEW rpc, rpc \notin NodeRpcs \cup InfrastructureRpcs \cup PolicyRpcs,
           rpc \notin {"DeleteRoutingRule", "GetLifecycleStatus"},
           NEW res, NEW rec \in Records(rpc), NEW open, AuthorizeRow(rpc, p, res)
    PROVE  HandlerPermits(rpc, p, res, rec, open) <=> AuthorizeRow(rpc, p, WholeOf(rpc, res, rec))
  <1>1. HandlerPermits(rpc, p, res, rec, open)
    BY Zenon DEF HandlerPermits
  <1>2. rec \notin Values
    BY AuthorityAssumption, Zenon
    DEF Records, NodeRpcs, InfrastructureRpcs, NodeReads, OperationWrites, EngineReports,
        RolloutControl, Unset
  <1> QED BY <1>1, <1>2, Zenon DEF WholeOf

(* An admitted call is permitted by its handler exactly when the table     *)
(* allows it on the whole resource, the stored record's part included.     *)
LEMMA DecisionsAgree ==
    ASSUME NEW p \in Principals, NEW rpc \in Compared, NEW res \in Resources(rpc),
           NEW rec \in Records(rpc), NEW open, AuthorizeRow(rpc, p, res)
    PROVE  HandlerPermits(rpc, p, res, rec, open) <=> AuthorizeRow(rpc, p, WholeOf(rpc, res, rec))
  <1>1. p.kind \in Kinds
    BY KindsKnown, Zenon
  <1>2. \/ rpc \in NodeRpcs
        \/ rpc \in NodeReads \cup OperationWrites
        \/ rpc \in DeploymentWrites
        \/ rpc = "DeleteRoutingRule"
        \/ rpc \in {"GetPolicyStatus", "GetLifecycleStatus"}
        \/ /\ rpc \notin NodeRpcs \cup InfrastructureRpcs \cup PolicyRpcs
           /\ rpc \notin {"DeleteRoutingRule", "GetLifecycleStatus"}
    BY Zenon DEF Compared, InfrastructureRpcs, PolicyRpcs
  <1> QED BY <1>1, <1>2, NodeAgrees, OperatorAgrees, DeploymentAgrees, RuleAgrees, EnrolledAgrees,
             OthersAgree, Zenon

(* Authorizing, handling and moving the admission gate keep AuthorityInv.  *)
LEMMA AuthorityStep ==
    ASSUME AuthorityInv, Next \/ UNCHANGED vars
    PROVE  AuthorityInv'
  <1>0. principal \in Principals /\ gate \in BOOLEAN /\ (call = Idle \/ call \in CallRecords)
    BY Zenon DEF AuthorityInv
  <1>1. ASSUME NEW rpc \in Rpcs, Authorize(rpc) PROVE AuthorityInv'
    <2>1. PICK res \in Resources(rpc), rec \in Records(rpc) :
            call' = [pc |-> CASE ~AuthorizeRow(rpc, principal, res) -> "denied"
                              [] AuthorizeRow(rpc, principal, res) /\ ~gate
                                   /\ rpc \notin AllowedWhileClosed -> "closed"
                              [] OTHER -> "admitted",
                     rpc |-> rpc, res |-> res, rec |-> rec, shown |-> {}]
      BY <1>1, Zenon DEF Authorize
    <2> DEFINE pc == CASE ~AuthorizeRow(rpc, principal, res) -> "denied"
                       [] AuthorizeRow(rpc, principal, res) /\ ~gate
                            /\ rpc \notin AllowedWhileClosed -> "closed"
                       [] OTHER -> "admitted"
    <2>2. /\ pc \in {"denied", "closed", "admitted"}
          /\ pc = "admitted" => AuthorizeRow(rpc, principal, res)
      BY Zenon
    <2> HIDE DEF pc
    <2>3. call' = [pc |-> pc, rpc |-> rpc, res |-> res, rec |-> rec, shown |-> {}]
      BY <2>1, Zenon DEF pc
    <2>4. /\ res \in UNION {Resources(x) : x \in Rpcs}
          /\ rec \in UNION {Records(x) : x \in Rpcs}
      BY <2>1, Zenon
    <2>5. /\ call' \in CallRecords /\ call'.pc = pc /\ call'.rpc = rpc
          /\ call'.res = res /\ call'.rec = rec
      BY <2>2, <2>3, <2>4, Zenon DEF CallRecords
    <2>6. principal' = principal /\ gate' = gate
      BY <1>1, Zenon DEF Authorize
    <2> QED BY <1>0, <2>2, <2>5, <2>6, Zenon DEF AuthorityInv
  <1>2. CASE Handle
    <2>0. /\ call.pc = "admitted" /\ call \in CallRecords /\ principal' = principal
          /\ gate' = gate /\ call.res \in Resources(call.rpc) /\ call.rec \in Records(call.rpc)
          /\ AuthorizeRow(call.rpc, principal, call.res)
      BY <1>2, <1>0 DEF Handle, AuthorityInv, Idle
    <2>1. CASE call' = [call EXCEPT !.pc = "closed"]
      <3>1. call' \in CallRecords /\ call'.pc = "closed"
        BY <2>0, <2>1, Zenon DEF CallRecords
      <3> QED BY <1>0, <2>0, <3>1, Zenon DEF AuthorityInv
    <2>2. CASE /\ HandlerPermits(call.rpc, principal, call.res, call.rec, gate)
               /\ call' = [call EXCEPT !.pc = "served",
                                       !.shown = Shown(call.rpc, principal, call.res)]
      <3>1. call.rpc \in Rpcs
        BY <2>0, Zenon DEF CallRecords
      <3>2. Shown(call.rpc, principal, call.res) \subseteq AllItems
        BY <3>1, Zenon DEF Shown, AllItems
      <3>3. /\ call' \in CallRecords /\ call'.pc = "served" /\ call'.rpc = call.rpc
            /\ call'.res = call.res /\ call'.rec = call.rec
        BY <2>0, <2>2, <3>2, Zenon DEF CallRecords
      <3>4. (call'.pc = "served") <=>
              HandlerPermits(call'.rpc, principal', call'.res, call'.rec, gate)
        BY <2>0, <2>2, <3>3, Zenon
      <3> QED BY <1>0, <2>0, <3>3, <3>4, Zenon DEF AuthorityInv
    <2>3. CASE /\ ~HandlerPermits(call.rpc, principal, call.res, call.rec, gate)
               /\ call' = [call EXCEPT !.pc = "refused"]
      <3>1. /\ call' \in CallRecords /\ call'.pc = "refused" /\ call'.rpc = call.rpc
            /\ call'.res = call.res /\ call'.rec = call.rec
        BY <2>0, <2>3, Zenon DEF CallRecords
      <3>2. (call'.pc = "served") <=>
              HandlerPermits(call'.rpc, principal', call'.res, call'.rec, gate)
        BY <2>0, <2>3, <3>1, Zenon
      <3> QED BY <1>0, <2>0, <3>1, <3>2, Zenon DEF AuthorityInv
    <2> QED BY <1>2, <2>1, <2>2, <2>3, Zenon DEF Handle
  <1>3. CASE Reply
    BY <1>0, <1>3, Zenon DEF Reply, AuthorityInv, Idle
  <1>4. CASE MoveGate \/ UNCHANGED vars
    BY <1>4, Zenon DEF MoveGate, vars, AuthorityInv
  <1> QED BY <1>1, <1>2, <1>3, <1>4, Zenon DEF Next

(* A principal without a call satisfies AuthorityInv.                      *)
LEMMA AuthorityStarts == Init => AuthorityInv
  BY DEF Init, AuthorityInv, Idle

(* AuthorityInv and the agreement of the two decisions give HandlersAgree. *)
LEMMA InvAgrees ==
    ASSUME AuthorityInv
    PROVE  HandlersAgree
  <1> SUFFICES ASSUME call.pc \in {"served", "refused"},
                      call.rpc \notin RolloutControl \cup {"GetManagerRollout", "GetWorkloadSnapshot"}
               PROVE  (call.pc = "served") = AuthorizeRow(call.rpc, principal, Whole)
    BY Zenon DEF HandlersAgree
  <1>1. /\ principal \in Principals /\ call.rpc \in Compared
        /\ call.res \in Resources(call.rpc) /\ call.rec \in Records(call.rpc)
        /\ AuthorizeRow(call.rpc, principal, call.res)
    BY DEF AuthorityInv, CallRecords, Compared, Idle
  <1>2. PICK open \in BOOLEAN :
          (call.pc = "served") <=> HandlerPermits(call.rpc, principal, call.res, call.rec, open)
    BY Zenon DEF AuthorityInv
  <1>3. Whole = WholeOf(call.rpc, call.res, call.rec)
    BY Zenon DEF Whole, WholeOf
  <1>4. HandlerPermits(call.rpc, principal, call.res, call.rec, open) <=>
          AuthorizeRow(call.rpc, principal, Whole)
    BY <1>1, <1>3, DecisionsAgree, Zenon
  <1>5. AuthorizeRow(call.rpc, principal, Whole) \in BOOLEAN
    BY Zenon DEF AuthorizeRow
  <1> QED BY <1>2, <1>4, <1>5, Zenon

(* The authorization table and the handlers agree: an admitted call is     *)
(* served exactly when the table allows it on the resource completed by    *)
(* the stored record, for every principal, scope and record (auth.rs       *)
(* authorize_row_evidence and roles_for_row against the handlers; the      *)
(* rollout controls and GetWorkloadSnapshot, whose handlers decide         *)
(* otherwise, apart).                                                      *)
THEOREM HandlersAgreed == Spec => []HandlersAgree
  <1>1. AuthorityInv /\ [Next]_vars => AuthorityInv'
    BY AuthorityStep, Zenon
  <1> QED BY <1>1, AuthorityStarts, InvAgrees, PTL DEF Spec
=============================================================================
