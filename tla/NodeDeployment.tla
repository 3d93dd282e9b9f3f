--------------------------- MODULE NodeDeployment ---------------------------
(***************************************************************************)
(* How wr-cli puts one release on a node: `node reserve-deployment`,       *)
(* `postgres migrate` with a receipt, `node deploy`, `node rollback` and   *)
(* `node abandon`, all with the same request token.  A command may be      *)
(* killed at any point and run again, with the same arguments or others.   *)
(* The remote script it started over ssh is a process of its own, and      *)
(* survives it.  Nothing on the host keeps two scripts apart: they share   *)
(* the upload, the staging directory .{revision}.tmp and the release.      *)
(*                                                                         *)
(* A directory is an inode, named by the script that made it, since tar    *)
(* keeps extracting into the directory it was started in whatever name it  *)
(* has by then.  A digest is modelled by what is digested: the resolved    *)
(* release digest of a manifest is the set of files the manifest lists.    *)
(***************************************************************************)
EXTENDS Naturals, FiniteSets

CONSTANTS
    Clis,       \* invocations of wr-cli
    MaxKills    \* commands and remote scripts that die

ASSUME DeployAssumption == IsFiniteSet(Clis) /\ 0 \notin Clis /\ MaxKills \in Nat

VARIABLES
    setting,    \* deploy or rollback, with tenant databases, runs together, how many
    alloc,      \* wr_node_deployments: the row of the request token
    reserved,   \* reservation.json files written
    receipts,   \* tenant-state receipts written
    applied,    \* bundles whose migrations are applied
    cli,        \* the invocations
    script,     \* the remote script of each invocation
    upload,     \* what the archive /tmp/wr-resolved-{revision}.tar.gz holds
    tmp, rel,   \* the inodes named .{revision}.tmp and {revision} (0: none)
    inode,      \* the directories
    pki,        \* the node's installed credential sets (0: none)
    accepted,   \* the files of the release the node agent verified
    kills

hostVars == <<upload, tmp, rel, inode, pki>>
tenantVars == <<reserved, receipts, applied>>
deployVars == <<setting, alloc, tenantVars, cli, script, hostVars, accepted, kills>>

(* deployment.json stands for the metadata the verification reads besides  *)
(* the two files of the resolved identity.                                 *)
Files == {"deployment.json", "payload"}

(* What an operator passes: the bundle, the tenant endpoint, a value that   *)
(* only ends up in the rendered configuration (db_url, peer_port), and the *)
(* credential sets.                                                        *)
Base == [bundle |-> 1, tenant |-> 1, url |-> 1, cert |-> 1]
Args == {Base} \cup {[Base EXCEPT !.bundle = 2], [Base EXCEPT !.tenant = 2],
                     [Base EXCEPT !.url = 2], [Base EXCEPT !.cert = 2]}

(* materialize_resolved_release: the same arguments render the same files; *)
(* the credentials are not part of a release.                              *)
Rendered(a) == [a EXCEPT !.cert = 1]
Whole(a) == Files \X {Rendered(a)}

NoDigest == {}
NoDir == [files |-> {}, ident |-> NoDigest, nested |-> FALSE, live |-> FALSE]
NewDir == [NoDir EXCEPT !.live = TRUE]
NoRun == [pc |-> "unused", cmd |-> "none", args |-> Base, digest |-> NoDigest]

DeployInit(settings) ==
    /\ setting \in settings
    /\ alloc = [st |-> "none", bundle |-> 0, fin |-> NoDigest, bound |-> FALSE]
    /\ reserved = {} /\ receipts = {} /\ applied = {}
    /\ cli = [c \in Clis |-> NoRun]
    /\ script = [c \in Clis |-> "none"]
    /\ upload = {}
    /\ tmp = 0 /\ rel = 0 /\ pki = 0
    /\ inode = [c \in Clis |-> NoDir]
    /\ accepted = NoDigest
    /\ kills = 0

Finished == {"unused", "done", "failed", "dead"}
Resting == {"none", "ok", "failed"}

-----------------------------------------------------------------------------
(* The commands *)

CommandsOf(kind) ==
    IF kind = "rollback" THEN {"rollback", "abandon"}
    ELSE {"deploy", "abandon"} \cup IF setting.tenant THEN {"reserve"} ELSE {}

(* Run c is the next one not yet used; a setting bounds their number.      *)
Start(c, cmd, a) ==
    /\ c <= setting.runs
    /\ cli[c].pc = "unused" /\ \A d \in Clis : d < c => cli[d].pc # "unused"
    /\ ~setting.together =>
          \A d \in Clis : cli[d].pc \in Finished /\ script[d] \in Resting
    /\ cmd \in CommandsOf(setting.kind)
    /\ cmd \in {"rollback", "abandon"} => a = Base
    /\ ~setting.tenant => a.tenant = 1
    /\ cli' = [cli EXCEPT ![c] = [NoRun EXCEPT !.cmd = cmd, !.args = a,
                 !.pc = CASE cmd = "abandon" -> "abandon"
                          [] cmd = "deploy" -> "check"
                          [] cmd = "reserve" -> "begin"
                          [] OTHER -> "begin_rollback"]]
    /\ UNCHANGED <<setting, alloc, tenantVars, script, hostVars, accepted, kills>>

GoOn(c, pc) == cli' = [cli EXCEPT ![c].pc = pc]

(* The checks of durable_deploy on the reservation and the receipt it was  *)
(* given, all of them before the manager or the host hears of the command. *)
Bound(a, r, t) ==
    /\ \A f \in DOMAIN r : r[f] = a[f]
    /\ t \in receipts /\ t.reservation = r /\ t.migrations = a.bundle

CheckInputs(c) ==
    /\ cli[c].pc = "check"
    /\ GoOn(c, IF ~setting.tenant \/
                  \E r \in reserved :
                     \E t \in receipts \cup {[reservation |-> r, migrations |-> 0]} :
                        Bound(cli[c].args, r, t)
               THEN "begin" ELSE "failed")
    /\ UNCHANGED <<setting, alloc, tenantVars, script, hostVars, accepted, kills>>

(* begin_deployment: the token's row is created, or returned to a request  *)
(* with the same content whatever its state.                               *)
Begun(bundle) == IF alloc.st = "none" THEN [alloc EXCEPT !.st = "pending", !.bundle = bundle]
                 ELSE alloc

Begin(c) ==
    /\ cli[c].pc = "begin"
    /\ alloc' = Begun(cli[c].args.bundle)
    /\ GoOn(c, CASE alloc'.bundle # cli[c].args.bundle -> "failed"
                 [] alloc'.bundle = cli[c].args.bundle /\ cli[c].cmd = "reserve" -> "write"
                 [] OTHER -> "tls")
    /\ UNCHANGED <<setting, tenantVars, script, hostVars, accepted, kills>>

(* begin_rollback: the content is that of the source revision.             *)
DurableRollback(c) ==
    /\ cli[c].pc = "begin_rollback"
    /\ alloc' = Begun(cli[c].args.bundle)
    /\ GoOn(c, "remote")
    /\ UNCHANGED <<setting, tenantVars, script, hostVars, accepted, kills>>

(* install_remote_directory: a credential set is installed once; one that  *)
(* is there already is left.                                               *)
Installed(cert) == IF pki = 0 THEN cert ELSE pki

(* provision_node_tls: what is installed must be the set that was given.   *)
ProvisionTls(c) ==
    /\ cli[c].pc = "tls"
    /\ pki' = Installed(cli[c].args.cert)
    /\ GoOn(c, IF pki' = cli[c].args.cert THEN "render" ELSE "failed")
    /\ UNCHANGED <<setting, alloc, tenantVars, script, upload, tmp, rel, inode, accepted, kills>>

(* verified_reservation: what a deployment is held to later. *)
ReservationOf(a) == [f \in {"bundle", "tenant", "cert"} |-> a[f]]

(* The end of reserve_deployment: the directory is renamed into place. *)
WriteReservation(c) ==
    /\ cli[c].pc = "write"
    /\ reserved' = reserved \cup {ReservationOf(cli[c].args)}
    /\ GoOn(c, "done")
    /\ UNCHANGED <<setting, alloc, receipts, applied, script, hostVars, accepted, kills>>

(* postgres migrate: the bundle is the reserved one; the receipt follows   *)
(* the verification of the ledger.  Migrations are TenantMigration's.      *)
Migrate(r) ==
    /\ r \in reserved
    /\ applied' = applied \cup {r.bundle}
    /\ receipts' \in {receipts,
                      receipts \cup {[reservation |-> r, migrations |-> r.bundle]}}
    /\ <<applied', receipts'>> # <<applied, receipts>>
    /\ UNCHANGED <<setting, alloc, reserved, cli, script, hostVars, accepted, kills>>

(* scp truncates the file that all runs share, then fills it. *)
Upload(c) ==
    /\ cli[c].pc \in {"render", "upload"}
    /\ IF cli[c].pc = "render"
       THEN upload' = {} /\ GoOn(c, "upload")
       ELSE upload' = {Rendered(cli[c].args)} /\ GoOn(c, "remote")
    /\ UNCHANGED <<setting, alloc, tenantVars, script, tmp, rel, inode, pki, accepted, kills>>

RunScript(c) ==
    /\ cli[c].pc = "remote"
    /\ script' = [script EXCEPT ![c] = "test"]
    /\ GoOn(c, "wait")
    /\ UNCHANGED <<setting, alloc, tenantVars, hostVars, accepted, kills>>

(* The script's exit status, and for a rollback the digest it printed. *)
ScriptEnds(c) ==
    /\ cli[c].pc = "wait" /\ script[c] \in {"ok", "failed"}
    /\ cli' = [cli EXCEPT
         ![c].pc = CASE script[c] = "failed" -> "failed"
                     [] script[c] = "ok" /\ cli[c].cmd = "abandon" -> "done"
                     [] OTHER -> "finalize",
         ![c].digest = IF cli[c].cmd = "deploy" THEN Whole(cli[c].args) ELSE @]
    /\ UNCHANGED <<setting, alloc, tenantVars, script, hostVars, accepted, kills>>

(* finalize_deployment: bound once. *)
Finalizable(digest) ==
    /\ alloc.st = "pending"
    /\ alloc.fin \in {NoDigest, digest}
    /\ alloc.fin = NoDigest => ~alloc.bound

Finalize(c) ==
    /\ cli[c].pc = "finalize"
    /\ LET taken == Finalizable(cli[c].digest)
       IN  /\ alloc' = IF taken THEN [alloc EXCEPT !.fin = cli[c].digest] ELSE alloc
           /\ GoOn(c, IF taken THEN "submit" ELSE "failed")
    /\ UNCHANGED <<setting, tenantVars, script, hostVars, accepted, kills>>

(* require_compatible_attestation may refuse; submit binds the operation,  *)
(* or returns the one the token already has.                               *)
(* submit: the allocation is not abandoned, is finalized, and with the     *)
(* digests the request names.                                              *)
Submittable(digest) == alloc.st = "pending" /\ alloc.fin = digest

SubmitOperation(c) ==
    /\ cli[c].pc = "submit"
    /\ \/ GoOn(c, "failed") /\ UNCHANGED alloc
       \/ /\ Submittable(cli[c].digest)
          /\ alloc' = [alloc EXCEPT !.bound = TRUE]
          /\ GoOn(c, "done")
    /\ UNCHANGED <<setting, tenantVars, script, hostVars, accepted, kills>>

(* abandon_deployment; the script that removes the bytes follows. *)
Abandonable == alloc.st # "none" /\ ~alloc.bound

Abandon(c) ==
    /\ cli[c].pc = "abandon"
    /\ LET taken == Abandonable
       IN  /\ alloc' = IF taken THEN [alloc EXCEPT !.st = "abandoned"] ELSE alloc
           /\ GoOn(c, IF taken THEN "remote" ELSE "failed")
    /\ UNCHANGED <<setting, tenantVars, script, hostVars, accepted, kills>>

(* A command dies, or a script does; of the latter the command is told. *)
KillCli(c) ==
    /\ kills < MaxKills /\ kills' = kills + 1
    /\ \/ cli[c].pc \notin Finished /\ GoOn(c, "dead") /\ UNCHANGED script
       \/ script[c] \notin Resting
          /\ script' = [script EXCEPT ![c] = "failed"] /\ UNCHANGED cli
    /\ UNCHANGED <<setting, alloc, tenantVars, hostVars, accepted>>

-----------------------------------------------------------------------------
(* The remote scripts *)

At(c, cmds, pc) == cli[c].cmd \in cmds /\ script[c] = pc

Then(c, pc) == script' = [script EXCEPT ![c] = pc]

Holds(d, digest) == inode[d].files = digest /\ inode[d].ident = digest

(* remote_resolved_verification: the markers and the listed files.  Files  *)
(* that are not listed go unnoticed.                                       *)
Verified(d, digest) ==
    d # 0 /\ digest \subseteq inode[d].files /\ inode[d].ident = digest

(* `if test -d release`: an earlier run left it there.  A deployment       *)
(* verifies it, a rollback takes the digest written in it.                 *)
TestRelease(c) ==
    /\ At(c, {"deploy", "rollback"}, "test")
    /\ LET fit == IF cli[c].cmd = "deploy" THEN Verified(rel, Whole(cli[c].args))
                  ELSE rel # 0 /\ inode[rel].ident # NoDigest
                       /\ <<"deployment.json", Base>> \in inode[rel].files
       IN  /\ Then(c, CASE rel = 0 -> "clear"
                         [] rel # 0 /\ fit -> "drop"
                         [] OTHER -> "failed")
           /\ cli' = [cli EXCEPT ![c].digest = IF fit THEN inode[rel].ident ELSE @]
    /\ UNCHANGED <<setting, alloc, tenantVars, hostVars, accepted, kills>>

Removed(d) == IF d = 0 THEN inode ELSE [inode EXCEPT ![d] = NoDir]

(* rm -rf of the staging directory, then mkdir of a new one. *)
ClearStage(c) ==
    /\ At(c, {"deploy", "rollback"}, "clear")
    /\ inode' = Removed(tmp)
    /\ tmp' = 0
    /\ Then(c, "mkdir")
    /\ UNCHANGED <<setting, alloc, tenantVars, cli, upload, rel, pki, accepted, kills>>

MakeStage(c) ==
    /\ At(c, {"deploy", "rollback"}, "mkdir")
    /\ IF tmp = 0
       THEN /\ tmp' = c /\ inode' = [inode EXCEPT ![c] = NewDir]
            /\ Then(c, IF cli[c].cmd = "deploy" THEN "untar" ELSE "copy")
       ELSE UNCHANGED <<tmp, inode>> /\ Then(c, "failed")
    /\ UNCHANGED <<setting, alloc, tenantVars, cli, upload, rel, pki, accepted, kills>>

(* tar: the next entry of the archive, into the directory it works in. *)
Untar(c) ==
    /\ At(c, {"deploy"}, "untar")
    /\ \/ /\ upload = {} \/ ~inode[c].live
          /\ Then(c, "failed") /\ UNCHANGED inode
       \/ \E a \in upload :
            LET left == {f \in Files : <<f, a>> \notin inode[c].files}
            IN  /\ inode[c].live
                /\ \/ \E f \in left :
                        /\ inode' = [inode EXCEPT ![c].files =
                             {e \in @ : e[1] # f} \cup {<<f, a>>}]
                        /\ UNCHANGED script
                   \/ /\ inode[c].ident # Whole(a)
                      /\ inode' = [inode EXCEPT ![c].ident = Whole(a)]
                      /\ UNCHANGED script
                   \/ /\ left = {} /\ inode[c].ident = Whole(a)
                      /\ Then(c, "verify") /\ UNCHANGED inode
    /\ UNCHANGED <<setting, alloc, tenantVars, cli, upload, tmp, rel, pki, accepted, kills>>

VerifyStage(c) ==
    /\ At(c, {"deploy"}, "verify")
    /\ Then(c, IF Verified(tmp, Whole(cli[c].args)) THEN "move" ELSE "failed")
    /\ UNCHANGED <<setting, alloc, tenantVars, cli, hostVars, accepted, kills>>

(* mv of the staging directory: into the release when there is one by now. *)
MoveStage(c) ==
    /\ At(c, {"deploy"}, "move")
    /\ \/ /\ tmp # 0 /\ rel = 0
          /\ rel' = tmp /\ tmp' = 0
          /\ Then(c, "drop") /\ UNCHANGED inode
       \/ /\ tmp # 0 /\ rel # 0 /\ ~inode[rel].nested
          /\ inode' = [inode EXCEPT ![rel].nested = TRUE]
          /\ tmp' = 0
          /\ Then(c, "drop") /\ UNCHANGED rel
       \/ /\ tmp = 0 \/ (rel # 0 /\ inode[rel].nested)
          /\ Then(c, "failed") /\ UNCHANGED <<tmp, rel, inode>>
    /\ UNCHANGED <<setting, alloc, tenantVars, cli, upload, pki, accepted, kills>>

(* rm -f of the upload, for a deployment. *)
DropUpload(c) ==
    /\ At(c, {"deploy", "rollback"}, "drop")
    /\ upload' = IF cli[c].cmd = "deploy" THEN {} ELSE upload
    /\ Then(c, "ok")
    /\ UNCHANGED <<setting, alloc, tenantVars, cli, tmp, rel, inode, pki, accepted, kills>>

(* copytree of the source release, file by file and by path. *)
CopySource(c) ==
    /\ At(c, {"rollback"}, "copy")
    /\ IF tmp = 0
       THEN Then(c, "failed") /\ UNCHANGED inode
       ELSE \/ \E f \in Files :
                 /\ <<f, Base>> \notin inode[tmp].files
                 /\ inode' = [inode EXCEPT ![tmp].files = @ \cup {<<f, Base>>}]
                 /\ UNCHANGED script
            \/ /\ inode[tmp].files = Whole(Base)
               /\ Then(c, "digest") /\ UNCHANGED inode
    /\ UNCHANGED <<setting, alloc, tenantVars, cli, upload, tmp, rel, pki, accepted, kills>>

(* The manifest lists what the staging directory holds now. *)
DigestStage(c) ==
    /\ At(c, {"rollback"}, "digest")
    /\ IF tmp # 0 /\ <<"deployment.json", Base>> \in inode[tmp].files
       THEN /\ cli' = [cli EXCEPT ![c].digest = inode[tmp].files]
            /\ inode' = [inode EXCEPT ![tmp].ident = inode[tmp].files]
            /\ Then(c, "rename")
       ELSE Then(c, "failed") /\ UNCHANGED <<cli, inode>>
    /\ UNCHANGED <<setting, alloc, tenantVars, upload, tmp, rel, pki, accepted, kills>>

(* os.rename does not replace a directory that is not empty. *)
RenameStage(c) ==
    /\ At(c, {"rollback"}, "rename")
    /\ IF tmp # 0 /\ rel = 0
       THEN rel' = tmp /\ tmp' = 0 /\ Then(c, "drop")
       ELSE Then(c, "failed") /\ UNCHANGED <<tmp, rel>>
    /\ UNCHANGED <<setting, alloc, tenantVars, cli, upload, inode, pki, accepted, kills>>

(* The script of abandon: both directories go, unless the release is not   *)
(* the one the manager has on record.                                      *)
RemoveRelease(c) ==
    /\ At(c, {"abandon"}, "test")
    /\ IF rel # 0 /\ (alloc.fin = NoDigest \/ inode[rel].ident # alloc.fin)
       THEN Then(c, "failed") /\ UNCHANGED <<tmp, rel, inode>>
       ELSE /\ inode' = [d \in Clis |-> IF d \in {tmp, rel} THEN NoDir ELSE inode[d]]
            /\ tmp' = 0 /\ rel' = 0
            /\ Then(c, "ok")
    /\ UNCHANGED <<setting, alloc, tenantVars, cli, upload, pki, accepted, kills>>

-----------------------------------------------------------------------------
(* The node agent *)

\* Defect: the agent compares the digests and not the files.
AcceptUnread ==
    /\ alloc.bound /\ rel # 0
    /\ inode[rel].ident = alloc.fin
    /\ accepted' = inode[rel].files
    /\ UNCHANGED <<setting, alloc, tenantVars, cli, script, hostVars, kills>>

(* verify_release, before every use: the manifest is the one finalized and *)
(* lists exactly the files there are.                                      *)
Accept ==
    /\ alloc.bound /\ rel # 0
    /\ Holds(rel, alloc.fin) /\ ~inode[rel].nested
    /\ accepted' = inode[rel].files
    /\ UNCHANGED <<setting, alloc, tenantVars, cli, script, hostVars, kills>>

DeployNext ==
    \/ \E c \in Clis :
          \/ \E cmd \in {"deploy", "rollback", "reserve", "abandon"}, a \in Args :
                Start(c, cmd, a)
          \/ CheckInputs(c) \/ Begin(c) \/ DurableRollback(c) \/ WriteReservation(c)
          \/ ProvisionTls(c) \/ Upload(c)
          \/ RunScript(c) \/ ScriptEnds(c) \/ Finalize(c) \/ SubmitOperation(c)
          \/ Abandon(c) \/ KillCli(c)
          \/ TestRelease(c) \/ ClearStage(c) \/ MakeStage(c) \/ Untar(c)
          \/ VerifyStage(c) \/ MoveStage(c) \/ DropUpload(c)
          \/ CopySource(c) \/ DigestStage(c) \/ RenameStage(c) \/ RemoveRelease(c)
    \/ \E r \in reserved : Migrate(r)
    \/ Accept

(* A rollback asks for no reservation: the source revision had its own.    *)
DeploySettings ==
    {s \in [kind : {"deploy", "rollback"}, tenant : BOOLEAN, together : BOOLEAN, runs : Nat] :
        s.kind = "rollback" => ~s.tenant}

DeploySpec == DeployInit(DeploySettings) /\ [][DeployNext]_deployVars

-----------------------------------------------------------------------------

(* While the commands for a token run one after another, killed and        *)
(* repeated with whatever arguments, the digest FinalizeDeployment bound   *)
(* is that of a whole release, and the release directory holds exactly it: *)
(* finalize_remote_release checks a directory it finds before it uses it,  *)
(* and a release appears under its name only when complete.                *)
FinalizedIsStaged ==
    (~setting.together /\ alloc.fin # NoDigest /\ alloc.st = "pending")
        => /\ rel # 0 /\ Holds(rel, alloc.fin) /\ ~inode[rel].nested
           /\ \E a \in Args : alloc.fin = Whole(a)

(* What a node agent accepts is a complete release, rendered from the      *)
(* bundle the revision was allocated for, with the migrations of that      *)
(* bundle applied if it has tenant databases.  For a deployment this holds *)
(* even when scripts of several commands work on the host at once.         *)
AcceptedIsDeployable ==
    (accepted # NoDigest /\ (setting.kind = "deploy" \/ ~setting.together))
        => \E a \in Args :
              /\ accepted = Whole(a) /\ a.bundle = alloc.bundle
              /\ setting.tenant => a.bundle \in applied

(* A release that was finalized is complete, rollbacks run together        *)
(* included.                                                               *)
FinalizedIsComplete ==
    alloc.fin # NoDigest => \E a \in Args : alloc.fin = Whole(a)
=============================================================================
