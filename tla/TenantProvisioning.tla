-------------------------- MODULE TenantProvisioning --------------------------
(***************************************************************************)
(* `wr-cli postgres provision` (wr-cli/src/postgres/mod.rs): converge the  *)
(* SQL state of a manifest's namespaces, install the certificate map of    *)
(* its node logins in pg_ident, reload and validate it, and only then      *)
(* publish the manifest's generation in each namespace database.           *)
(*                                                                         *)
(* A certificate map is abstracted to the set of manifests whose mappings  *)
(* it holds.  Provisioners run concurrently under a session advisory lock, *)
(* can fail or crash between any two steps, and PostgreSQL can be made to  *)
(* reload its configuration by someone else at any time.                   *)
(***************************************************************************)
EXTENDS Integers, FiniteSets

CONSTANTS
  Provisioners,  \* processes; each provisions one manifest
  ManifestOf     \* provisioner -> [generation, digest, subject, namespaces]

ASSUME ProvAssumption == "none" \notin Provisioners

Manifests == {ManifestOf[p] : p \in Provisioners}
Namespaces == UNION {m.namespaces : m \in Manifests}
Unpublished == [generation |-> 0, digest |-> "none", subject |-> "none", namespaces |-> {}]

VARIABLES
  published,  \* namespace -> the manifest in its namespace_state row
  roles,      \* the manifests whose cluster roles and databases exist
  converged,  \* namespace -> the manifests its schemas and grants were made for
  ident,      \* the map in the pg_ident file
  loaded,     \* the map PostgreSQL has loaded
  verified,   \* the last map a reload was validated for
  backup,     \* the preserved map: a set with at most one map
  holder,     \* provisioner with the cluster advisory lock and the file lock
  prov        \* provisioner -> [pc, todo]

provVars == <<published, roles, converged, ident, loaded, verified, backup, holder, prov>>

ProvInit ==
  /\ published = [n \in Namespaces |-> Unpublished]
  /\ roles = {}
  /\ converged = [n \in Namespaces |-> {}]
  /\ ident = {} /\ loaded = {} /\ verified = {}
  /\ backup = {}
  /\ holder = "none"
  /\ prov = [p \in Provisioners |-> [pc |-> "start", todo |-> {}]]

Desired(p) == ManifestOf[p].namespaces
At(p, pc) == prov[p].pc = pc
Step(p, pc) == prov' = [prov EXCEPT ![p] = [pc |-> pc, todo |-> {}]]
StepAll(p, pc) == prov' = [prov EXCEPT ![p] = [pc |-> pc, todo |-> Desired(p)]]

\* read_managed_mappings: a login is mapped from one certificate subject.
Consistent(map) ==
  \A m, k \in map : m.namespaces \cap k.namespaces # {} => m.subject = k.subject

\* The process ends: its session and its file descriptor free both locks.
Exit(p, pc) == Step(p, pc) /\ holder' = IF holder = p THEN "none" ELSE holder
-----------------------------------------------------------------------------
\* check_generation_replay, for the namespaces whose database answered.
ReplayAllowed(p, answered) ==
  \A n \in answered :
    LET previous == published[n] IN
    \/ previous = Unpublished
    \/ ManifestOf[p].generation > previous.generation
    \/ ManifestOf[p].generation = previous.generation
         /\ ManifestOf[p].digest = previous.digest

\* preflight, the replay check and the retained mappings.  A namespace
\* database that cannot be reached is skipped, as one that does not exist yet.
\* Every check can also fail for a reason outside the model (an HBA rule, the
\* file's owner, a lost connection).
Preflight(p) ==
  /\ At(p, "start")
  /\ \/ /\ holder = "none" /\ backup = {} /\ Consistent(ident)
        /\ \E answered \in SUBSET Desired(p) : ReplayAllowed(p, answered)
        /\ holder' = p
        /\ Step(p, "cluster")
     \/ Exit(p, "failed")
  /\ UNCHANGED <<published, roles, converged, ident, loaded, verified, backup>>

\* Roles, memberships and databases; then, one database at a time, schemas and
\* grants.  Both are idempotent.
ConvergeCluster(p) ==
  /\ At(p, "cluster")
  /\ roles' = roles \cup {ManifestOf[p]}
  /\ StepAll(p, "converge")
  /\ UNCHANGED <<published, converged, ident, loaded, verified, backup, holder>>

ConvergeNamespace(p, n) ==
  /\ At(p, "converge") /\ n \in prov[p].todo
  /\ converged' = [converged EXCEPT ![n] = @ \cup {ManifestOf[p]}]
  /\ prov' = [prov EXCEPT ![p].todo = @ \ {n}]
  /\ UNCHANGED <<published, roles, ident, loaded, verified, backup, holder>>

\* Defect: the new map holds only this manifest's mappings.
OnlyDesired(p) == {ManifestOf[p]}

\* Mappings retained from the active file, and those of this manifest.
Mappings(p) == ident \cup {ManifestOf[p]}

PreserveBackup(p) ==
  /\ At(p, "converge") /\ prov[p].todo = {}
  /\ backup' = {ident}
  /\ Step(p, "install")
  /\ UNCHANGED <<published, roles, converged, ident, loaded, verified, holder>>

Install(p) ==
  /\ At(p, "install")
  /\ ident' = Mappings(p)
  /\ Step(p, "reload")
  /\ UNCHANGED <<published, roles, converged, loaded, verified, backup, holder>>

\* reload_and_validate: the new map is active and equals the installed one.
Activated(p) ==
  /\ At(p, "reload") /\ Consistent(ident)
  /\ loaded' = ident /\ verified' = ident
  /\ Step(p, "activated")
  /\ UNCHANGED <<published, roles, converged, ident, backup, holder>>

\* ... or the file is not replaced, or the reload is refused, times out or
\* does not validate: the previous map is put back.
ActivationFails(p) ==
  /\ At(p, "install") \/ At(p, "reload")
  /\ loaded' \in {loaded, ident}
  /\ ident' = CHOOSE previous \in backup : TRUE
  /\ Step(p, "restore")
  /\ UNCHANGED <<published, roles, converged, verified, backup, holder>>

Restored(p) ==
  /\ At(p, "restore")
  /\ loaded' = ident /\ verified' = ident
  /\ backup' = {}
  /\ Exit(p, "failed")
  /\ UNCHANGED <<published, roles, converged, ident>>

\* The rollback could not be verified: fatal, the backup is left in place.
RestoreFails(p) ==
  /\ At(p, "restore")
  /\ loaded' \in {loaded, ident}
  /\ Exit(p, "failed")
  /\ UNCHANGED <<published, roles, converged, ident, verified, backup>>

RemoveBackup(p) ==
  /\ At(p, "activated")
  /\ backup' = {}
  /\ StepAll(p, "publish")
  /\ UNCHANGED <<published, roles, converged, ident, loaded, verified, holder>>

\* commit_generation: one namespace database after the other.
CommitGeneration(p, n) ==
  /\ At(p, "publish") /\ n \in prov[p].todo
  /\ published' = [published EXCEPT ![n] = ManifestOf[p]]
  /\ prov' = [prov EXCEPT ![p].todo = @ \ {n}]
  /\ UNCHANGED <<roles, converged, ident, loaded, verified, backup, holder>>

Receipt(p) ==
  /\ At(p, "publish") /\ prov[p].todo = {}
  /\ Exit(p, "done")
  /\ UNCHANGED <<published, roles, converged, ident, loaded, verified, backup>>
-----------------------------------------------------------------------------
CrashProvisioner(p) ==
  /\ ~At(p, "start") /\ ~At(p, "done") /\ ~At(p, "failed")
  /\ Exit(p, "failed")
  /\ UNCHANGED <<published, roles, converged, ident, loaded, verified, backup>>

\* PostgreSQL restarts, or an administrator reloads it.
ReloadElsewhere ==
  /\ loaded # ident
  /\ loaded' = ident
  /\ UNCHANGED <<published, roles, converged, ident, verified, backup, holder, prov>>

\* "a prior pg_ident backup requires manual inspection": the operator keeps
\* either map, makes it active and removes the backup.
InspectBackup ==
  /\ holder = "none" /\ backup # {}
  /\ \E map \in backup \cup {ident} :
       ident' = map /\ loaded' = map /\ verified' = map
  /\ backup' = {}
  /\ UNCHANGED <<published, roles, converged, holder, prov>>

ProvNext ==
  \/ \E p \in Provisioners :
       \/ Preflight(p) \/ ConvergeCluster(p) \/ PreserveBackup(p) \/ Install(p) \/ Activated(p)
       \/ ActivationFails(p) \/ Restored(p) \/ RestoreFails(p) \/ RemoveBackup(p)
       \/ Receipt(p) \/ CrashProvisioner(p)
       \/ \E n \in Namespaces : ConvergeNamespace(p, n) \/ CommitGeneration(p, n)
  \/ ReloadElsewhere
  \/ InspectBackup

ProvSpec == ProvInit /\ [][ProvNext]_provVars
-----------------------------------------------------------------------------
(* Properties.                                                             *)

(* A published generation can be used: whatever provisioner ran, failed or *)
(* crashed since, the namespace was converged for the manifest              *)
(* whose generation is published and PostgreSQL has its certificate        *)
(* mappings loaded, so an engine that verifies this generation can also    *)
(* log in (provision: converge, activate, then commit_generation;          *)
(* retained mappings are kept).                                            *)
PublishedIsUsable ==
  \A n \in Namespaces : published[n] # Unpublished =>
    /\ published[n] \in roles \cap converged[n]
    /\ published[n] \in loaded

(* A pg_ident file that no reload has validated is never without its       *)
(* backup, so a provisioner that crashes or fails to roll back leaves the  *)
(* previous map behind and the next one refuses to run (preserve_backup,   *)
(* install_and_reload, restore_and_reload, remove_backup).                 *)
UnverifiedIsBackedUp == ident # verified => backup # {}
=============================================================================
