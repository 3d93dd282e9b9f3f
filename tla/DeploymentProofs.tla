-------------------------- MODULE DeploymentProofs --------------------------
(***************************************************************************)
(* From the allocation of a deployment to the deletion of its release:     *)
(* what a node agent accepts is deployable, and cleanup takes no release   *)
(* that is needed.                                                         *)
(***************************************************************************)
EXTENDS NodeDeployment, ReleaseCleanup, TLAPS

-----------------------------------------------------------------------------
(* NodeDeployment: what a node agent accepts is deployable.                *)
(*                                                                         *)
(* The commands of one token and their remote scripts step through a flow  *)
(* (Flow); a deployment's digest follows from its arguments alone          *)
(* (DeployFits), so overlapping scripts cannot spoil it; a rollback's      *)
(* digest is read from the staging directory, so that what it reads must   *)
(* be shown whole while only one command is at work (RollbackFits).        *)

(* The allocations, commands and remote scripts, by type.                  *)
Digests == SUBSET (Files \X Args)
Allocs == [st : {"none", "pending", "abandoned"}, bundle : {0, 1, 2}, fin : Digests, bound : BOOLEAN]
Pcs == {"unused", "check", "begin", "begin_rollback", "tls", "render", "upload", "write", "remote",
        "wait", "finalize", "submit", "abandon", "done", "failed", "dead"}
Cmds == {"none", "deploy", "rollback", "reserve", "abandon"}
Steps == {"none", "test", "clear", "mkdir", "untar", "verify", "move", "drop", "copy", "digest",
          "rename", "ok", "failed"}
CliRuns == [pc : Pcs, cmd : Cmds, args : Args, digest : Digests]
Dirs == [files : Digests, ident : Digests, nested : BOOLEAN, live : BOOLEAN]

DeployType ==
    /\ setting \in DeploySettings
    /\ alloc \in Allocs
    /\ cli \in [Clis -> CliRuns]
    /\ script \in [Clis -> Steps]
    /\ upload \subseteq Args
    /\ tmp \in Clis \cup {0} /\ rel \in Clis \cup {0}
    /\ inode \in [Clis -> Dirs]
    /\ accepted \in Digests

(* Which command is where, and when its remote script runs. *)
Flow ==
    \A c \in Clis :
       /\ cli[c].pc \in {"check", "tls", "render", "upload"} => cli[c].cmd = "deploy"
       /\ cli[c].pc = "begin" => cli[c].cmd \in {"deploy", "reserve"}
       /\ cli[c].pc = "begin_rollback" => cli[c].cmd = "rollback"
       /\ cli[c].pc = "abandon" => cli[c].cmd = "abandon"
       /\ cli[c].pc \in {"remote", "wait"} => cli[c].cmd \in {"deploy", "rollback", "abandon"}
       /\ cli[c].pc \in {"finalize", "submit"} => cli[c].cmd \in {"deploy", "rollback"}
       /\ setting.kind = "deploy" => cli[c].cmd # "rollback"
       /\ setting.kind = "rollback" => cli[c].cmd \in {"none", "rollback", "abandon"} /\ cli[c].args = Base
       /\ script[c] \notin Resting => cli[c].pc \in {"wait", "dead"}
       /\ cli[c].pc \notin {"wait", "finalize", "submit", "done", "failed", "dead"} => script[c] = "none"

(* A whole release of the allocated bundle, with its migrations. *)
Deployable(digest) ==
    \E a \in Args : /\ digest = Whole(a) /\ a.bundle = alloc.bundle
                    /\ setting.tenant => a.bundle \in applied

(* What is recorded and accepted for the token is deployable. *)
Kept ==
    /\ \A t \in receipts : t.migrations \in applied
    /\ alloc.bound \/ alloc.fin # NoDigest \/ accepted # NoDigest => alloc.st # "none"
    /\ (alloc.fin # NoDigest /\ (setting.kind = "deploy" \/ ~setting.together)) => Deployable(alloc.fin)
    /\ (accepted # NoDigest /\ (setting.kind = "deploy" \/ ~setting.together)) => Deployable(accepted)

(* A deployment's digest is that of its arguments, and by then these are   *)
(* known to fit the allocation and the receipt.                            *)
DeployFits ==
    setting.kind = "deploy" =>
       \A c \in Clis : cli[c].cmd = "deploy" =>
          /\ cli[c].pc \in {"finalize", "submit"} => cli[c].digest = Whole(cli[c].args)
          /\ cli[c].pc \in {"tls", "render", "upload", "remote", "wait", "finalize", "submit"} =>
                alloc.st # "none" /\ cli[c].args.bundle = alloc.bundle
          /\ setting.tenant /\ cli[c].pc \in {"begin", "tls", "render", "upload", "remote", "wait",
                                              "finalize", "submit"} =>
                cli[c].args.bundle \in applied

Busy(c) == cli[c].pc \notin Finished \/ script[c] \notin Resting

(* Rollbacks one after another: a staging directory is worked on by the    *)
(* script that made it, and what has the release's name is whole.          *)
RollbackFits ==
    setting.kind = "rollback" /\ ~setting.together =>
       /\ \A c, d \in Clis : Busy(c) /\ Busy(d) => c = d
       /\ alloc.st # "none" => alloc.bundle = Base.bundle
       /\ rel # 0 => rel # tmp /\ Holds(rel, Whole(Base))
       /\ \A c \in Clis :
             /\ script[c] \in {"none", "test", "clear", "mkdir"} => c \notin {tmp, rel}
             /\ script[c] \in {"copy", "digest", "rename"} => tmp # 0
             /\ script[c] \in {"digest", "rename"} => inode[tmp].files = Whole(Base)
             /\ script[c] = "rename" => inode[tmp].ident = Whole(Base)
             /\ \/ script[c] \in {"rename", "drop"}
                \/ script[c] = "ok" /\ cli[c].cmd = "rollback"
                \/ cli[c].pc \in {"finalize", "submit"}
                => cli[c].digest = Whole(Base)

DeployInv == DeployType /\ Flow /\ Kept /\ DeployFits /\ RollbackFits

(* What a release directory and a rendered argument set hold.              *)
LEMMA ReleaseFiles ==
    /\ Base \in Args /\ Rendered(Base) = Base
    /\ \A a \in Args : /\ a.bundle \in {1, 2} /\ Rendered(a) \in Args
                       /\ Whole(a) \in Digests /\ Whole(a) # {}
    /\ NoDir \in Dirs /\ NewDir \in Dirs /\ NoRun \in CliRuns
<1>1. Base \in Args /\ Rendered(Base) = Base
  BY DEF Args, Base, Rendered
<1>2. ASSUME NEW a \in Args
      PROVE  a.bundle \in {1, 2} /\ Rendered(a) \in Args
  <2>1. CASE a = Base
    BY <1>1, <2>1, Zenon DEF Base
  <2>2. CASE a = [Base EXCEPT !.bundle = 2]
    <3>1. a = [bundle |-> 2, tenant |-> 1, url |-> 1, cert |-> 1]
      BY <2>2, Zenon DEF Base
    <3>2. Rendered(a) = a
      BY <3>1 DEF Rendered
    <3> QED BY <3>1, <3>2, Zenon
  <2>3. CASE a = [Base EXCEPT !.tenant = 2]
    <3>1. a = [bundle |-> 1, tenant |-> 2, url |-> 1, cert |-> 1]
      BY <2>3, Zenon DEF Base
    <3>2. Rendered(a) = a
      BY <3>1 DEF Rendered
    <3> QED BY <3>1, <3>2, Zenon
  <2>4. CASE a = [Base EXCEPT !.url = 2]
    <3>1. a = [bundle |-> 1, tenant |-> 1, url |-> 2, cert |-> 1]
      BY <2>4, Zenon DEF Base
    <3>2. Rendered(a) = a
      BY <3>1 DEF Rendered
    <3> QED BY <3>1, <3>2, Zenon
  <2>5. CASE a = [Base EXCEPT !.cert = 2]
    <3>1. a = [bundle |-> 1, tenant |-> 1, url |-> 1, cert |-> 2]
      BY <2>5, Zenon DEF Base
    <3>2. Rendered(a) = Base
      BY <3>1 DEF Rendered, Base
    <3> QED BY <1>1, <3>1, <3>2, Zenon
  <2> QED BY <2>1, <2>2, <2>3, <2>4, <2>5, Zenon DEF Args
<1>3. ASSUME NEW a \in Args
      PROVE  Whole(a) \in Digests /\ Whole(a) # {}
  <2> DEFINE r == Rendered(a)
  <2>1. r \in Args
    BY <1>2, Zenon
  <2> HIDE DEF r
  <2>2. Files \X {r} \in Digests /\ <<"payload", r>> \in Files \X {r}
    BY <2>1, Zenon DEF Digests, Files
  <2> QED BY <2>2, Zenon DEF Whole, r
<1>4. NoDir \in Dirs /\ NewDir \in Dirs
  BY Zenon DEF NoDir, NewDir, Dirs, Digests, NoDigest
<1>5. NoRun \in CliRuns
  BY <1>1, Zenon DEF NoRun, CliRuns, Digests, NoDigest, Pcs, Cmds
<1> QED BY <1>1, <1>2, <1>3, <1>4, <1>5, Zenon

(* GoOn changes where one command is, and nothing else of the commands. *)
LEMMA GoingOn ==
    ASSUME cli \in [Clis -> CliRuns], NEW c \in Clis, NEW pc \in Pcs, GoOn(c, pc)
    PROVE  /\ cli' \in [Clis -> CliRuns]
           /\ cli'[c].pc = pc
           /\ \A d \in Clis : /\ cli'[d].cmd = cli[d].cmd /\ cli'[d].args = cli[d].args
                              /\ cli'[d].digest = cli[d].digest
                              /\ d # c => cli'[d] = cli[d]
<1>1. \A d \in Clis : cli'[d] = IF d = c THEN [cli[c] EXCEPT !.pc = pc] ELSE cli[d]
  BY Zenon DEF GoOn
<1>2. [cli[c] EXCEPT !.pc = pc] \in CliRuns
  BY Zenon DEF CliRuns
<1>3. cli' \in [Clis -> CliRuns]
  BY <1>2, Zenon DEF GoOn
<1>4. LET r == [cli[c] EXCEPT !.pc = pc]
      IN  r.pc = pc /\ r.cmd = cli[c].cmd /\ r.args = cli[c].args /\ r.digest = cli[c].digest
  BY Zenon DEF CliRuns
<1> QED BY <1>1, <1>3, <1>4, Zenon

(* Every step keeps the types.                                             *)
LEMMA DeployTypeStep ==
    ASSUME DeployType, [DeployNext]_deployVars
    PROVE  DeployType'
<1> USE ReleaseFiles DEF DeployType, Pcs, Cmds, Steps
<1>1. ASSUME NEW c \in Clis, NEW cmd \in Cmds, NEW a \in Args, Start(c, cmd, a)
      PROVE  DeployType'
  <2>1. PICK pc \in Pcs : cli' = [cli EXCEPT ![c] = [NoRun EXCEPT !.cmd = cmd, !.args = a, !.pc = pc]]
    BY <1>1, Zenon DEF Start
  <2>2. [NoRun EXCEPT !.cmd = cmd, !.args = a, !.pc = pc] \in CliRuns
    BY <1>1, Zenon DEF CliRuns
  <2> QED BY <1>1, <2>1, <2>2 DEF Start, hostVars
<1>2. ASSUME NEW c \in Clis, CheckInputs(c) \/ RunScript(c) \/ WriteReservation(c) PROVE DeployType'
  BY <1>2, GoingOn DEF CheckInputs, RunScript, WriteReservation, hostVars
<1>3. ASSUME NEW c \in Clis, Begin(c) \/ DurableRollback(c) PROVE DeployType'
  <2>1. alloc' = Begun(cli[c].args.bundle) /\ cli[c].args \in Args
    BY <1>3, Zenon DEF Begin, DurableRollback, CliRuns
  <2>2. alloc' \in Allocs
    BY <2>1, Zenon DEF Begun, Allocs
  <2> QED BY <1>3, <2>2, GoingOn, Zenon DEF Begin, DurableRollback, hostVars
<1>4. ASSUME NEW c \in Clis, ProvisionTls(c) PROVE DeployType'
  BY <1>4, GoingOn, Zenon DEF ProvisionTls
<1>5. ASSUME NEW c \in Clis, Upload(c) PROVE DeployType'
  <2>1. cli[c].args \in Args
    BY Zenon DEF CliRuns
  <2> QED BY <1>5, <2>1, GoingOn DEF Upload
<1>6. ASSUME NEW c \in Clis, ScriptEnds(c) PROVE DeployType'
  <2>1. PICK pc \in Pcs, g \in Digests : cli' = [cli EXCEPT ![c].pc = pc, ![c].digest = g]
    <3>1. cli[c].digest \in Digests /\ Whole(cli[c].args) \in Digests
      BY Zenon DEF CliRuns
    <3> QED BY <1>6, <3>1 DEF ScriptEnds
  <2>2. [cli[c] EXCEPT !.pc = pc, !.digest = g] \in CliRuns
    BY DEF CliRuns
  <2>3. cli' = [cli EXCEPT ![c] = [cli[c] EXCEPT !.pc = pc, !.digest = g]]
    BY <2>1, Zenon
  <2>4. cli' \in [Clis -> CliRuns]
    BY <2>2, <2>3, Zenon
  <2> QED BY <1>6, <2>4, Zenon DEF ScriptEnds, hostVars
<1>7. ASSUME NEW c \in Clis, Finalize(c) \/ SubmitOperation(c) \/ Abandon(c) PROVE DeployType'
  <2>1. cli[c].digest \in Digests
    BY Zenon DEF CliRuns
  <2>2. alloc' \in Allocs
    BY <1>7, <2>1, Zenon DEF Finalize, SubmitOperation, Abandon, Allocs
  <2> QED BY <1>7, <2>2, GoingOn DEF Finalize, SubmitOperation, Abandon, hostVars
<1>8. ASSUME NEW c \in Clis, KillCli(c) PROVE DeployType'
  BY <1>8, GoingOn, Zenon DEF KillCli, hostVars
<1>9. ASSUME NEW c \in Clis, TestRelease(c) PROVE DeployType'
  <2>1. rel # 0 => inode[rel].ident \in Digests
    BY Zenon DEF Dirs
  <2>2. PICK g \in Digests : cli' = [cli EXCEPT ![c].digest = g]
    <3>1. cli[c].digest \in Digests
      BY Zenon DEF CliRuns
    <3> QED BY <1>9, <2>1, <3>1, Zenon DEF TestRelease, Verified
  <2>3. [cli[c] EXCEPT !.digest = g] \in CliRuns
    BY Zenon DEF CliRuns
  <2> QED BY <1>9, <2>2, <2>3 DEF TestRelease, Then, hostVars
<1>10. ASSUME NEW c \in Clis, ClearStage(c) \/ MakeStage(c) PROVE DeployType'
  BY <1>10, Zenon DEF ClearStage, MakeStage, Removed, Then
<1>11. ASSUME NEW c \in Clis, Untar(c) PROVE DeployType'
  <2>1. inode' \in [Clis -> Dirs]
    <3>1. CASE UNCHANGED inode
      BY <3>1, Zenon
    <3>2. ASSUME NEW a \in Args, NEW f \in Files,
                 inode' = [inode EXCEPT ![c].files = {e \in @ : e[1] # f} \cup {<<f, a>>}]
          PROVE  inode' \in [Clis -> Dirs]
      <4> DEFINE g == {e \in inode[c].files : e[1] # f} \cup {<<f, a>>}
      <4>1. g \in Digests
        BY <3>2 DEF Digests, Dirs
      <4> HIDE DEF g
      <4>2. [inode[c] EXCEPT !.files = g] \in Dirs
        BY <4>1, Zenon DEF Dirs
      <4>3. inode' = [inode EXCEPT ![c] = [inode[c] EXCEPT !.files = g]]
        BY <3>2, Zenon DEF g
      <4> QED BY <4>2, <4>3, Zenon
    <3>3. ASSUME NEW a \in Args, inode' = [inode EXCEPT ![c].ident = Whole(a)]
          PROVE  inode' \in [Clis -> Dirs]
      <4>1. [inode[c] EXCEPT !.ident = Whole(a)] \in Dirs
        BY Zenon DEF Dirs
      <4> QED BY <3>3, <4>1, Zenon
    <3> QED BY <1>11, <3>1, <3>2, <3>3, Zenon DEF Untar
  <2> QED BY <1>11, <2>1, Zenon DEF Untar, Then
<1>12. ASSUME NEW c \in Clis, VerifyStage(c) \/ DropUpload(c) \/ RenameStage(c) PROVE DeployType'
  BY <1>12, Zenon DEF VerifyStage, DropUpload, RenameStage, Then, hostVars
<1>13. ASSUME NEW c \in Clis, MoveStage(c) PROVE DeployType'
  <2>1. inode' \in [Clis -> Dirs]
    <3>1. rel # 0 => [inode[rel] EXCEPT !.nested = TRUE] \in Dirs
      BY Zenon DEF Dirs
    <3> QED BY <1>13, <3>1, Zenon DEF MoveStage
  <2> QED BY <1>13, <2>1, Zenon DEF MoveStage, Then
<1>14. ASSUME NEW c \in Clis, CopySource(c) PROVE DeployType'
  <2>1. inode' \in [Clis -> Dirs]
    <3>1. ASSUME NEW f \in Files, tmp # 0,
                 inode' = [inode EXCEPT ![tmp].files = @ \cup {<<f, Base>>}]
          PROVE  inode' \in [Clis -> Dirs]
      <4>1. inode[tmp].files \cup {<<f, Base>>} \in Digests
        BY <3>1 DEF Digests, Dirs
      <4>2. [inode[tmp] EXCEPT !.files = @ \cup {<<f, Base>>}] \in Dirs
        BY <3>1, <4>1, Zenon DEF Dirs
      <4> QED BY <3>1, <4>2, Zenon
    <3> QED BY <1>14, <3>1, Zenon DEF CopySource
  <2> QED BY <1>14, <2>1, Zenon DEF CopySource, Then
<1>15. ASSUME NEW c \in Clis, DigestStage(c) PROVE DeployType'
  <2>1. tmp # 0 => /\ [cli[c] EXCEPT !.digest = inode[tmp].files] \in CliRuns
                   /\ [inode[tmp] EXCEPT !.ident = inode[tmp].files] \in Dirs
    BY DEF CliRuns, Dirs
  <2> QED BY <1>15, <2>1, Zenon DEF DigestStage, Then
<1>16. ASSUME NEW c \in Clis, RemoveRelease(c) PROVE DeployType'
  BY <1>16, Zenon DEF RemoveRelease, Then
<1>17. CASE Accept
  BY <1>17, Zenon DEF Accept, Dirs, hostVars
<1>18. ASSUME NEW r \in reserved, Migrate(r) PROVE DeployType'
  BY <1>18, Zenon DEF Migrate, hostVars
<1>19. CASE UNCHANGED deployVars
  BY <1>19, Zenon DEF deployVars, hostVars
<1> QED
  BY <1>1, <1>2, <1>3, <1>4, <1>5, <1>6, <1>7, <1>8, <1>9, <1>10, <1>11, <1>12, <1>13, <1>14,
     <1>15, <1>16, <1>17, <1>18, <1>19, Zenon DEF DeployNext

(* An allocation keeps its bundle, and what the agent has applied stays    *)
(* applied.                                                                *)
LEMMA AllocGrows ==
    ASSUME DeployType, [DeployNext]_deployVars
    PROVE  /\ setting' = setting /\ applied \subseteq applied'
           /\ alloc.st # "none" => alloc'.st # "none" /\ alloc'.bundle = alloc.bundle
<1> alloc \in Allocs
  BY Zenon DEF DeployType
<1>1. ASSUME NEW c \in Clis,
             \/ \E cmd \in {"deploy", "rollback", "reserve", "abandon"}, a \in Args : Start(c, cmd, a)
             \/ CheckInputs(c) \/ WriteReservation(c) \/ ProvisionTls(c) \/ Upload(c)
             \/ RunScript(c) \/ ScriptEnds(c) \/ KillCli(c)
      PROVE  UNCHANGED <<setting, alloc, applied>>
  BY <1>1, Zenon DEF Start, CheckInputs, WriteReservation, ProvisionTls, Upload, RunScript, ScriptEnds,
              KillCli, tenantVars
<1>2. ASSUME NEW c \in Clis,
             \/ TestRelease(c) \/ ClearStage(c) \/ MakeStage(c) \/ Untar(c)
             \/ VerifyStage(c) \/ MoveStage(c) \/ DropUpload(c)
             \/ CopySource(c) \/ DigestStage(c) \/ RenameStage(c) \/ RemoveRelease(c)
      PROVE  UNCHANGED <<setting, alloc, applied>>
  BY <1>2, Zenon DEF TestRelease, ClearStage, MakeStage, Untar, VerifyStage, MoveStage, DropUpload,
              CopySource, DigestStage, RenameStage, RemoveRelease, tenantVars
<1>3. ASSUME NEW c \in Clis, Begin(c) \/ DurableRollback(c)
      PROVE  /\ setting' = setting /\ applied' = applied
             /\ alloc.st # "none" => alloc' = alloc
  BY <1>3, Zenon DEF Begin, DurableRollback, Begun, tenantVars
<1>4. ASSUME NEW c \in Clis, Finalize(c) \/ SubmitOperation(c) \/ Abandon(c)
      PROVE  /\ setting' = setting /\ applied' = applied
             /\ alloc.st # "none" => alloc'.st # "none" /\ alloc'.bundle = alloc.bundle
  BY <1>4, Zenon DEF Finalize, SubmitOperation, Abandon, tenantVars, Allocs
<1>5. CASE Accept \/ UNCHANGED deployVars
  BY <1>5, Zenon DEF Accept, tenantVars, deployVars
<1>6. ASSUME NEW r \in reserved, Migrate(r)
      PROVE  setting' = setting /\ applied \subseteq applied' /\ alloc' = alloc
  BY <1>6, Zenon DEF Migrate
<1> QED BY <1>1, <1>2, <1>3, <1>4, <1>5, <1>6, Zenon DEF DeployNext

(* A digest that is deployable stays so.                                   *)
LEMMA StaysDeployable ==
    ASSUME DeployType, [DeployNext]_deployVars, NEW g, alloc.st # "none", Deployable(g)
    PROVE  Deployable(g)'
BY AllocGrows, Zenon DEF Deployable

(* Every step of a command or of its script keeps the flow.                *)
LEMMA FlowStep ==
    ASSUME DeployType, Flow, [DeployNext]_deployVars
    PROVE  Flow'
<1> USE DEF DeployType, Pcs, Resting
<1>0. setting' = setting
  BY AllocGrows, Zenon
<1>1. ASSUME NEW c \in Clis, NEW cmd \in Cmds \ {"none"}, NEW a \in Args, Start(c, cmd, a)
      PROVE  Flow'
  <2>1. PICK pc \in Pcs :
          /\ cli' = [cli EXCEPT ![c] = [NoRun EXCEPT !.cmd = cmd, !.args = a, !.pc = pc]]
          /\ pc = CASE cmd = "abandon" -> "abandon" [] cmd = "deploy" -> "check"
                    [] cmd = "reserve" -> "begin" [] OTHER -> "begin_rollback"
    BY <1>1, Zenon DEF Start
  <2>2. /\ cli'[c].cmd = cmd /\ cli'[c].args = a /\ cli'[c].pc = pc
        /\ \A d \in Clis : d # c => cli'[d] = cli[d]
    BY <2>1, Zenon DEF NoRun
  <2>3. /\ cli[c].pc = "unused" /\ script' = script /\ cmd \in CommandsOf(setting.kind)
        /\ cmd \in {"rollback", "abandon"} => a = Base
    BY <1>1, Zenon DEF Start
  <2>4. /\ setting.kind = "deploy" => cmd # "rollback"
        /\ setting.kind = "rollback" => cmd \in {"rollback", "abandon"}
    BY <2>3, Zenon DEF CommandsOf
  <2> QED BY <1>0, <2>1, <2>2, <2>3, <2>4 DEF Flow, Cmds
<1>2. ASSUME NEW c \in Clis, NEW pc \in Pcs, GoOn(c, pc), script' = script,
             pc \notin {"check", "begin", "begin_rollback", "abandon"}, cli[c].pc # pc,
             pc \in {"tls", "render", "upload"} => cli[c].cmd = "deploy",
             pc = "remote" => cli[c].cmd \in {"deploy", "rollback", "abandon"},
             pc \in {"finalize", "submit"} => cli[c].cmd \in {"deploy", "rollback"},
             pc \in {"tls", "render", "upload", "write", "remote"} => script[c] = "none",
             pc \notin {"wait", "unused"},
             pc # "dead" => script[c] \in Resting
      PROVE  Flow'
  BY <1>0, <1>2, GoingOn DEF Flow
<1>3. ASSUME NEW c \in Clis, CheckInputs(c) PROVE Flow'
  BY <1>0, <1>3, GoingOn DEF CheckInputs, Flow
<1>4. ASSUME NEW c \in Clis, Begin(c) \/ DurableRollback(c) \/ ProvisionTls(c) \/ WriteReservation(c)
      PROVE  Flow'
  BY <1>2, <1>4, Zenon DEF Begin, DurableRollback, ProvisionTls, WriteReservation, Flow
<1>5. ASSUME NEW c \in Clis, Upload(c) PROVE Flow'
  BY <1>2, <1>5, Zenon DEF Upload, Flow
<1>6. ASSUME NEW c \in Clis, RunScript(c) PROVE Flow'
  BY <1>0, <1>6, GoingOn DEF RunScript, Flow
<1>7. ASSUME NEW c \in Clis, ScriptEnds(c) PROVE Flow'
  <2>1. PICK pc \in Pcs, g \in Digests :
          /\ cli' = [cli EXCEPT ![c].pc = pc, ![c].digest = g]
          /\ pc = CASE script[c] = "failed" -> "failed"
                    [] script[c] = "ok" /\ cli[c].cmd = "abandon" -> "done"
                    [] OTHER -> "finalize"
    <3>1. cli[c].digest \in Digests /\ Whole(cli[c].args) \in Digests
      BY ReleaseFiles, Zenon DEF CliRuns
    <3> QED BY <1>7, <3>1, Zenon DEF ScriptEnds
  <2>2. cli' = [cli EXCEPT ![c] = [cli[c] EXCEPT !.pc = pc, !.digest = g]]
    BY <2>1, Zenon
  <2>3. /\ cli'[c].cmd = cli[c].cmd /\ cli'[c].args = cli[c].args /\ cli'[c].pc = pc
        /\ \A d \in Clis : d # c => cli'[d] = cli[d]
    BY <2>2, Zenon DEF CliRuns
  <2> QED BY <1>0, <1>7, <2>1, <2>3 DEF ScriptEnds, Flow
<1>8. ASSUME NEW c \in Clis, Finalize(c) \/ SubmitOperation(c) \/ Abandon(c) PROVE Flow'
  BY <1>2, <1>8, Zenon DEF Finalize, SubmitOperation, Abandon, Flow
<1>9. ASSUME NEW c \in Clis, KillCli(c) PROVE Flow'
  BY <1>0, <1>9, GoingOn DEF KillCli, Finished, Flow
<1>10. ASSUME NEW c \in Clis, NEW pc \in Steps, script[c] \notin Resting,
              \A d \in Clis : /\ cli'[d].pc = cli[d].pc /\ cli'[d].cmd = cli[d].cmd
                              /\ cli'[d].args = cli[d].args,
              script' = [script EXCEPT ![c] = pc]
       PROVE  Flow'
  BY <1>0, <1>10 DEF Flow
<1>11. ASSUME NEW c \in Clis, TestRelease(c) PROVE Flow'
  <2>1. PICK g : cli' = [cli EXCEPT ![c] = [cli[c] EXCEPT !.digest = g]]
    BY <1>11, Zenon DEF TestRelease
  <2>2. \A d \in Clis : /\ cli'[d].pc = cli[d].pc /\ cli'[d].cmd = cli[d].cmd
                        /\ cli'[d].args = cli[d].args
    BY <2>1, Zenon DEF CliRuns
  <2> QED BY <1>10, <1>11, <2>2, Zenon DEF TestRelease, At, Then, Steps
<1>12. ASSUME NEW c \in Clis,
              \/ ClearStage(c) \/ MakeStage(c) \/ Untar(c) \/ VerifyStage(c) \/ MoveStage(c)
              \/ DropUpload(c) \/ CopySource(c) \/ RenameStage(c) \/ RemoveRelease(c)
       PROVE  Flow'
  <2>1. CASE UNCHANGED script
    BY <1>0, <1>12, <2>1 DEF ClearStage, MakeStage, Untar, VerifyStage, MoveStage, DropUpload,
             CopySource, RenameStage, RemoveRelease, Flow
  <2>2. CASE \E pc \in Steps : Then(c, pc)
    BY <1>10, <1>12, <2>2 DEF ClearStage, MakeStage, Untar, VerifyStage, MoveStage, DropUpload,
             CopySource, RenameStage, RemoveRelease, At, Then
  <2> QED BY <1>12, <2>1, <2>2, Zenon DEF ClearStage, MakeStage, Untar, VerifyStage, MoveStage, DropUpload,
             CopySource, RenameStage, RemoveRelease, Steps
<1>13. ASSUME NEW c \in Clis, DigestStage(c) PROVE Flow'
  <2>1. \A d \in Clis : /\ cli'[d].pc = cli[d].pc /\ cli'[d].cmd = cli[d].cmd
                        /\ cli'[d].args = cli[d].args
    BY <1>13 DEF DigestStage, CliRuns
  <2> QED BY <1>10, <1>13, <2>1, Zenon DEF DigestStage, At, Then, Steps
<1>14. CASE Accept \/ (\E r \in reserved : Migrate(r)) \/ UNCHANGED deployVars
  BY <1>0, <1>14 DEF Accept, Migrate, deployVars, Flow
<1> QED
  BY <1>1, <1>3, <1>4, <1>5, <1>6, <1>7, <1>8, <1>9, <1>11, <1>12, <1>13, <1>14, Zenon
     DEF DeployNext, Cmds

(* A deployment's digest follows from its arguments, whatever else runs.   *)
LEMMA DeployFitsStep ==
    ASSUME DeployInv, [DeployNext]_deployVars
    PROVE  DeployFits'
<1> USE DEF DeployInv, DeployType, Pcs
<1> SUFFICES ASSUME setting.kind = "deploy"
             PROVE  DeployFits'
  BY AllocGrows, Zenon DEF DeployFits
<1> DEFINE Held(c) == cli'[c].cmd = "deploy" =>
             /\ cli'[c].pc \in {"finalize", "submit"} => cli'[c].digest = Whole(cli'[c].args)
             /\ cli'[c].pc \in {"tls", "render", "upload", "remote", "wait", "finalize", "submit"} =>
                   alloc'.st # "none" /\ cli'[c].args.bundle = alloc'.bundle
             /\ setting.tenant /\ cli'[c].pc \in {"begin", "tls", "render", "upload", "remote", "wait",
                                                  "finalize", "submit"} =>
                   cli'[c].args.bundle \in applied'
<1>1. ASSUME NEW c \in Clis, cli'[c].cmd = cli[c].cmd, cli'[c].args = cli[c].args,
             cli'[c].pc = cli[c].pc,
             cli[c].pc \in {"finalize", "submit"} => cli'[c].digest = cli[c].digest
      PROVE  Held(c)
  BY <1>1, AllocGrows, Zenon DEF DeployFits
<1>2. ASSUME \A c \in Clis : Held(c)
      PROVE  DeployFits'
  <2>1. setting' = setting
    BY AllocGrows, Zenon
  <2>2. \A c \in Clis : (Whole(cli[c].args))' = Whole(cli'[c].args)
    BY Zenon DEF Whole, Rendered
  <2> QED BY <1>2, <2>1, <2>2, Zenon DEF DeployFits
<1> HIDE DEF Held
<1>3. ASSUME NEW c \in Clis, NEW pc \in Pcs, GoOn(c, pc), Held(c)
      PROVE  DeployFits'
  BY <1>1, <1>2, <1>3, GoingOn, Zenon
<1>4. ASSUME NEW c \in Clis, NEW cmd \in Cmds, NEW a \in Args, Start(c, cmd, a)
      PROVE  DeployFits'
  <2>1. PICK pc \in {"abandon", "check", "begin", "begin_rollback"} :
          /\ cli' = [cli EXCEPT ![c] = [NoRun EXCEPT !.cmd = cmd, !.args = a, !.pc = pc]]
          /\ cmd = "deploy" => pc = "check"
    BY <1>4, Zenon DEF Start
  <2>2. /\ cli'[c].cmd = cmd /\ cli'[c].pc = pc
        /\ \A d \in Clis : d # c => cli'[d] = cli[d]
    BY <2>1, Zenon DEF NoRun
  <2>3. Held(c)
    BY <2>1, <2>2, Zenon DEF Held
  <2> QED BY <1>1, <1>2, <2>2, <2>3, Zenon
<1>5. ASSUME NEW c \in Clis, CheckInputs(c)
      PROVE  DeployFits'
  <2>1. PICK pc \in {"begin", "failed"} :
           /\ GoOn(c, pc)
           /\ pc = "begin" => ~setting.tenant \/ \E r \in reserved :
                 \E t \in receipts \cup {[reservation |-> r, migrations |-> 0]} : Bound(cli[c].args, r, t)
    BY <1>5, Zenon DEF CheckInputs
  <2>2. pc = "begin" /\ setting.tenant => cli[c].args.bundle \in applied
    BY <2>1, Zenon DEF Bound, Kept
  <2>3. applied' = applied
    BY <1>5, Zenon DEF CheckInputs, tenantVars
  <2> QED BY <1>3, <2>1, <2>2, <2>3, GoingOn, Zenon DEF Held
<1>6. ASSUME NEW c \in Clis, Begin(c)
      PROVE  DeployFits'
  <2>1. PICK pc \in {"failed", "write", "tls"} :
           GoOn(c, pc) /\ (pc = "tls" => alloc'.bundle = cli[c].args.bundle)
    BY <1>6, Zenon DEF Begin
  <2>2. alloc'.st # "none" /\ applied' = applied
    BY <1>6, Zenon DEF Begin, Begun, Allocs, tenantVars
  <2>3. /\ cli'[c].pc = pc /\ cli'[c].cmd = cli[c].cmd /\ cli'[c].args = cli[c].args
        /\ cli[c].pc = "begin"
    BY <1>6, <2>1, GoingOn, Zenon DEF Begin
  <2>4. setting.tenant /\ cli[c].cmd = "deploy" => cli[c].args.bundle \in applied
    BY <2>3, Zenon DEF DeployFits
  <2>5. Held(c)
    BY <2>1, <2>2, <2>3, <2>4, Zenon DEF Held
  <2> QED BY <1>3, <2>1, <2>5, Zenon
<1>7. ASSUME NEW c \in Clis, DurableRollback(c)
      PROVE  DeployFits'
  BY <1>7, Zenon DEF DurableRollback, Flow
<1>8. ASSUME NEW c \in Clis, NEW pc \in Pcs, GoOn(c, pc), UNCHANGED <<alloc, applied>>,
             pc \in {"render", "upload", "remote", "wait"} =>
               cli[c].pc \in {"tls", "render", "upload", "remote"} \/ cli[c].cmd # "deploy",
             pc \in {"render", "upload", "remote", "wait", "write", "done", "failed", "dead"}
      PROVE  DeployFits'
  <2>1. cli'[c].pc = pc /\ cli'[c].cmd = cli[c].cmd /\ cli'[c].args = cli[c].args
    BY <1>8, GoingOn, Zenon
  <2>2. Held(c)
    BY <1>8, <2>1, Zenon DEF Held, DeployFits
  <2> QED BY <1>3, <1>8, <2>2, Zenon
<1>9. ASSUME NEW c \in Clis, ProvisionTls(c) \/ Upload(c) \/ RunScript(c) \/ WriteReservation(c)
      PROVE  DeployFits'
  BY <1>8, <1>9, Zenon DEF ProvisionTls, Upload, RunScript, WriteReservation, tenantVars
<1>10. ASSUME NEW c \in Clis, ScriptEnds(c)
       PROVE  DeployFits'
  <2>1. PICK pc \in {"failed", "done", "finalize"}, g \in Digests :
          /\ cli' = [cli EXCEPT ![c].pc = pc, ![c].digest = g]
          /\ cli[c].cmd = "deploy" => g = Whole(cli[c].args)
    <3>1. cli[c].digest \in Digests /\ Whole(cli[c].args) \in Digests
      BY ReleaseFiles, Zenon DEF CliRuns
    <3> QED BY <1>10, <3>1, Zenon DEF ScriptEnds
  <2>2. cli' = [cli EXCEPT ![c] = [cli[c] EXCEPT !.pc = pc, !.digest = g]]
    BY <2>1, Zenon
  <2>3. /\ cli'[c].cmd = cli[c].cmd /\ cli'[c].args = cli[c].args /\ cli'[c].pc = pc /\ cli'[c].digest = g
        /\ \A d \in Clis : d # c => cli'[d] = cli[d]
    BY <2>2, Zenon DEF CliRuns
  <2>4. cli[c].pc = "wait" /\ UNCHANGED <<alloc, applied>>
    BY <1>10, Zenon DEF ScriptEnds, tenantVars
  <2>5. Held(c)
    BY <2>1, <2>3, <2>4 DEF Held, DeployFits
  <2> QED BY <1>1, <1>2, <2>3, <2>5, Zenon
<1>11. ASSUME NEW c \in Clis, Finalize(c)
       PROVE  DeployFits'
  <2>1. PICK pc \in {"submit", "failed"} : GoOn(c, pc)
    BY <1>11, Zenon DEF Finalize
  <2>2. /\ cli'[c].pc = pc /\ cli'[c].cmd = cli[c].cmd /\ cli'[c].args = cli[c].args
        /\ cli'[c].digest = cli[c].digest /\ cli[c].pc = "finalize"
    BY <1>11, <2>1, GoingOn, Zenon DEF Finalize
  <2>3. Held(c)
    BY <2>1, <2>2, AllocGrows, Zenon DEF Held, DeployFits
  <2> QED BY <1>3, <2>1, <2>3, Zenon
<1>12. ASSUME NEW c \in Clis, SubmitOperation(c) \/ Abandon(c)
       PROVE  DeployFits'
  <2>1. PICK pc \in {"done", "failed", "remote"} :
           GoOn(c, pc) /\ (pc = "remote" => cli[c].cmd # "deploy")
    BY <1>12, Zenon DEF SubmitOperation, Abandon, Flow
  <2> QED BY <1>3, <2>1, GoingOn, Zenon DEF Held
<1>13. ASSUME NEW c \in Clis, KillCli(c)
       PROVE  DeployFits'
  <2>1. CASE GoOn(c, "dead")
    BY <1>3, <2>1, GoingOn, Zenon DEF Held
  <2> QED BY <1>1, <1>2, <1>13, <2>1, Zenon DEF KillCli
<1>14. ASSUME NEW c \in Clis, TestRelease(c) \/ DigestStage(c)
       PROVE  DeployFits'
  <2>1. cli[c].pc \in {"wait", "dead"}
    BY <1>14, Zenon DEF TestRelease, DigestStage, At, Flow, Resting
  <2>2. \A d \in Clis : /\ cli'[d].pc = cli[d].pc /\ cli'[d].cmd = cli[d].cmd
                        /\ cli'[d].args = cli[d].args /\ (d # c => cli'[d] = cli[d])
    BY <1>14 DEF TestRelease, DigestStage, CliRuns
  <2> QED BY <1>1, <1>2, <2>1, <2>2, Zenon
<1>15. ASSUME cli' = cli
       PROVE  DeployFits'
  BY <1>1, <1>2, <1>15, Zenon
<1>16. ASSUME NEW c \in Clis,
              \/ ClearStage(c) \/ MakeStage(c) \/ Untar(c) \/ VerifyStage(c) \/ MoveStage(c)
              \/ DropUpload(c) \/ CopySource(c) \/ RenameStage(c) \/ RemoveRelease(c)
       PROVE  DeployFits'
  BY <1>15, <1>16, Zenon DEF ClearStage, MakeStage, Untar, VerifyStage, MoveStage, DropUpload,
                      CopySource, RenameStage, RemoveRelease
<1>17. CASE Accept \/ (\E r \in reserved : Migrate(r)) \/ UNCHANGED deployVars
  BY <1>15, <1>17, Zenon DEF Accept, Migrate, deployVars
<1> QED
  BY <1>4, <1>5, <1>6, <1>7, <1>9, <1>10, <1>11, <1>12, <1>13, <1>14, <1>16, <1>17, Zenon
     DEF DeployNext, Cmds

(* An accepted digest stays deployable.                                    *)
LEMMA KeptStep ==
    ASSUME DeployInv, [DeployNext]_deployVars
    PROVE  Kept'
<1> USE DEF DeployInv, DeployType
<1> DEFINE Judged == setting.kind = "deploy" \/ ~setting.together
<1>0. Judged' = Judged /\ setting' = setting
  BY AllocGrows, Zenon
<1>1. ASSUME UNCHANGED <<receipts, accepted>>, alloc'.fin = alloc.fin,
             alloc'.bound => alloc.bound \/ alloc.fin # NoDigest
      PROVE  Kept'
  <2>1. alloc.fin # NoDigest \/ accepted # NoDigest \/ alloc.bound => alloc.st # "none"
    BY Zenon DEF Kept
  <2>2. alloc.fin # NoDigest /\ Judged => Deployable(alloc.fin)'
    BY <1>1, <2>1, StaysDeployable, Zenon DEF Kept, Deployable
  <2>3. accepted # NoDigest /\ Judged => Deployable(accepted)'
    BY <1>1, <2>1, StaysDeployable, Zenon DEF Kept, Deployable
  <2>4. \A t \in receipts' : t.migrations \in applied'
    BY <1>1, AllocGrows, Zenon DEF Kept
  <2>5. alloc.st # "none" => alloc'.st # "none"
    BY AllocGrows, Zenon
  <2> HIDE DEF DeployInv, DeployType
  <2> QED BY <1>0, <1>1, <2>1, <2>2, <2>3, <2>4, <2>5, Zenon DEF Kept
<1>2. ASSUME NEW c \in Clis,
             \/ \E cmd \in {"deploy", "rollback", "reserve", "abandon"}, a \in Args : Start(c, cmd, a)
             \/ CheckInputs(c) \/ WriteReservation(c) \/ ProvisionTls(c) \/ Upload(c)
             \/ RunScript(c) \/ ScriptEnds(c) \/ KillCli(c)
      PROVE  Kept'
  BY <1>1, <1>2, Zenon DEF Start, CheckInputs, WriteReservation, ProvisionTls, Upload, RunScript, ScriptEnds,
                    KillCli, tenantVars
<1>3. ASSUME NEW c \in Clis,
             \/ TestRelease(c) \/ ClearStage(c) \/ MakeStage(c) \/ Untar(c)
             \/ VerifyStage(c) \/ MoveStage(c) \/ DropUpload(c)
             \/ CopySource(c) \/ DigestStage(c) \/ RenameStage(c) \/ RemoveRelease(c)
      PROVE  Kept'
  <2>1. UNCHANGED <<alloc, accepted, receipts>>
    BY <1>3, Zenon DEF TestRelease, ClearStage, MakeStage, Untar, VerifyStage, MoveStage, DropUpload,
                   CopySource, DigestStage, RenameStage, RemoveRelease, tenantVars
  <2> QED BY <1>1, <2>1, Zenon
<1>4. ASSUME NEW c \in Clis, Begin(c) \/ DurableRollback(c) \/ Abandon(c)
      PROVE  Kept'
  <2>1. UNCHANGED <<receipts, accepted>> /\ alloc'.fin = alloc.fin /\ alloc'.bound = alloc.bound
    BY <1>4, Zenon DEF Begin, DurableRollback, Abandon, Begun, Allocs, tenantVars
  <2> QED BY <1>1, <2>1, Zenon
<1>5. ASSUME NEW c \in Clis, SubmitOperation(c)
      PROVE  Kept'
  <2>1. CASE UNCHANGED alloc
    BY <1>1, <1>5, <2>1, Zenon DEF SubmitOperation, tenantVars
  <2>2. CASE alloc' = [alloc EXCEPT !.bound = TRUE] /\ Submittable(cli[c].digest)
    <3>1. alloc'.fin = alloc.fin /\ alloc'.st = alloc.st /\ alloc.st = "pending" /\ alloc'.bundle = alloc.bundle
          /\ UNCHANGED <<receipts, accepted, applied>>
      BY <1>5, <2>2, Zenon DEF SubmitOperation, Submittable, tenantVars, Allocs
    <3> QED BY <1>0, <3>1, Zenon DEF Kept, Deployable
  <2> QED BY <1>5, <2>1, <2>2, Zenon DEF SubmitOperation
<1>6. ASSUME NEW c \in Clis, Finalize(c)
      PROVE  Kept'
  <2>1. CASE UNCHANGED alloc
    BY <1>1, <1>6, <2>1, Zenon DEF Finalize, tenantVars
  <2>2. CASE alloc' = [alloc EXCEPT !.fin = cli[c].digest] /\ Finalizable(cli[c].digest)
    <3>1. /\ alloc'.fin = cli[c].digest /\ alloc'.st = alloc.st /\ alloc.st = "pending"
          /\ alloc'.bundle = alloc.bundle
          /\ UNCHANGED <<receipts, accepted, applied>> /\ cli[c].pc = "finalize"
      BY <1>6, <2>2, Zenon DEF Finalize, Finalizable, tenantVars, Allocs, CliRuns
    <3>2. Judged => Deployable(cli[c].digest)
      <4>1. cli[c].args \in Args /\ setting \in DeploySettings
        BY Zenon DEF CliRuns
      <4>2. CASE setting.kind = "deploy"
        BY <3>1, <4>1, <4>2, Zenon DEF Flow, DeployFits, Deployable
      <4>3. CASE setting.kind = "rollback" /\ ~setting.together
        BY <3>1, <4>1, <4>3, ReleaseFiles, Zenon DEF RollbackFits, Deployable, DeploySettings
      <4> QED BY <4>1, <4>2, <4>3, Zenon DEF DeploySettings
    <3> QED BY <1>0, <3>1, <3>2, Zenon DEF Kept, Deployable
  <2> QED BY <1>6, <2>1, <2>2, Zenon DEF Finalize
<1>7. CASE Accept
  <2>1. accepted' = alloc.fin /\ UNCHANGED <<alloc, receipts, applied>>
    BY <1>7, Zenon DEF Accept, Holds, tenantVars
  <2> QED BY <1>0, <2>1, Zenon DEF Kept, Deployable
<1>8. ASSUME NEW r \in reserved, Migrate(r)
      PROVE  Kept'
  <2>1. UNCHANGED <<alloc, accepted>> /\ applied \subseteq applied' /\ \A t \in receipts' : t.migrations \in applied'
    BY <1>8 DEF Migrate, Kept
  <2> QED BY <1>0, <2>1, Zenon DEF Kept, Deployable
<1>9. CASE UNCHANGED deployVars
  BY <1>1, <1>9, Zenon DEF deployVars, tenantVars
<1> QED
  BY <1>2, <1>3, <1>4, <1>5, <1>6, <1>7, <1>8, <1>9, Zenon DEF DeployNext

(* A rollback's digest is that of a whole release while one command is at  *)
(* work.                                                                   *)
LEMMA RollbackFitsStep ==
    ASSUME DeployInv, [DeployNext]_deployVars
    PROVE  RollbackFits'
<1> USE DEF DeployInv, DeployType, Pcs
<1> DEFINE W == Whole(Base)
<1> SUFFICES ASSUME setting.kind = "rollback", ~setting.together
             PROVE  RollbackFits'
  BY AllocGrows, Zenon DEF RollbackFits
<1>0. /\ \A c, d \in Clis : Busy(c) /\ Busy(d) => c = d
      /\ alloc.st # "none" => alloc.bundle = Base.bundle
      /\ rel # 0 => rel # tmp /\ inode[rel].files = W /\ inode[rel].ident = W
      /\ \A c \in Clis :
            /\ script[c] \in {"none", "test", "clear", "mkdir"} => c \notin {tmp, rel}
            /\ script[c] \in {"copy", "digest", "rename"} => tmp # 0
            /\ script[c] \in {"digest", "rename"} => inode[tmp].files = W
            /\ script[c] = "rename" => inode[tmp].ident = W
            /\ script[c] \in {"rename", "drop"} => cli[c].digest = W
            /\ script[c] = "ok" /\ cli[c].cmd = "rollback" => cli[c].digest = W
            /\ cli[c].pc \in {"finalize", "submit"} => cli[c].digest = W
  BY Zenon DEF RollbackFits, Holds
<1>00. W \in Digests
  BY ReleaseFiles, Zenon
<1>01. ASSUME NEW c \in Clis
       PROVE  cli[c].cmd \in {"none", "rollback", "abandon"} /\ cli[c].args = Base
  BY Zenon DEF Flow
<1> HIDE DEF W
\* a command goes on
<1>1. ASSUME NEW c \in Clis, NEW pc \in Pcs, GoOn(c, pc), cli[c].pc \notin Finished,
             UNCHANGED <<script, tmp, rel, inode>>,
             alloc'.st # "none" => alloc'.bundle = Base.bundle,
             pc \in {"finalize", "submit"} => cli[c].digest = W
      PROVE  RollbackFits'
  <2>1. \A d \in Clis : Busy(d)' => Busy(d)
    BY <1>1, GoingOn, Zenon DEF Busy
  <2>2. \A d \in Clis : /\ cli'[d].cmd = cli[d].cmd /\ cli'[d].digest = cli[d].digest
                        /\ cli'[d].pc \in {"finalize", "submit"} => cli'[d].digest = W
    BY <1>0, <1>1, GoingOn
  <2> QED BY <1>0, <1>1, <2>1, <2>2 DEF RollbackFits, Holds, W
\* a script goes on
<1>2. ASSUME NEW c \in Clis, NEW st \in Steps, script[c] \notin Resting,
             script' = [script EXCEPT ![c] = st],
             \A d \in Clis : /\ cli'[d].pc = cli[d].pc /\ cli'[d].cmd = cli[d].cmd
                             /\ d # c => cli'[d] = cli[d],
             alloc' = alloc,
             rel' # 0 => rel' # tmp' /\ inode'[rel'].files = W /\ inode'[rel'].ident = W,
             \A d \in Clis : d # c /\ script[d] = "none" => d \notin {tmp', rel'},
             st \in {"none", "test", "clear", "mkdir"} => c \notin {tmp', rel'},
             st \in {"copy", "digest", "rename"} => tmp' # 0,
             st \in {"digest", "rename"} => inode'[tmp'].files = W,
             st = "rename" => inode'[tmp'].ident = W,
             st \in {"rename", "drop"} => cli'[c].digest = W,
             st = "ok" /\ cli[c].cmd = "rollback" => cli'[c].digest = W
      PROVE  RollbackFits'
  <2>1. \A d \in Clis : Busy(d)' => Busy(d)
    BY <1>2, Zenon DEF Busy
  <2>2. \A d \in Clis : d # c => script[d] \in Resting /\ script'[d] = script[d]
    BY <1>0, <1>2, Zenon DEF Busy
  <2>3. cli[c].pc \in {"wait", "dead"} /\ script'[c] = st
    BY <1>2, Zenon DEF Flow
  <2>4. ASSUME NEW d \in Clis, d # c
        PROVE  /\ script'[d] \in {"none", "ok", "failed"}
               /\ script'[d] = "none" => d \notin {tmp', rel'}
               /\ script'[d] = "ok" /\ cli'[d].cmd = "rollback" => cli'[d].digest = W
               /\ cli'[d].pc \in {"finalize", "submit"} => cli'[d].digest = W
    BY <1>0, <1>2, <2>2, <2>4 DEF Resting
  <2>5. \A x, y \in Clis : Busy(x)' /\ Busy(y)' => x = y
    BY <1>0, <2>1, Zenon
  <2>6. cli'[c].pc \notin {"finalize", "submit"} /\ cli'[c].cmd = cli[c].cmd
    BY <1>2, <2>3, Zenon
  <2>7. \A d \in Clis :
           /\ script'[d] \in {"none", "test", "clear", "mkdir"} => d \notin {tmp', rel'}
           /\ script'[d] \in {"copy", "digest", "rename"} => tmp' # 0
           /\ script'[d] \in {"digest", "rename"} => inode'[tmp'].files = W
           /\ script'[d] = "rename" => inode'[tmp'].ident = W
           /\ \/ script'[d] \in {"rename", "drop"}
              \/ script'[d] = "ok" /\ cli'[d].cmd = "rollback"
              \/ cli'[d].pc \in {"finalize", "submit"}
              => cli'[d].digest = W
    BY <1>2, <2>3, <2>4, <2>6
  <2> QED BY <1>0, <1>2, <2>5, <2>7, Zenon DEF RollbackFits, Holds, W
<1>3. ASSUME NEW c \in Clis, NEW cmd \in Cmds, NEW a \in Args, Start(c, cmd, a)
      PROVE  RollbackFits'
  <2>1. PICK pc \in {"abandon", "check", "begin", "begin_rollback"} :
           cli' = [cli EXCEPT ![c] = [NoRun EXCEPT !.cmd = cmd, !.args = a, !.pc = pc]]
    BY <1>3, Zenon DEF Start
  <2>2. cli'[c].cmd = cmd /\ cli'[c].pc = pc /\ \A d \in Clis : d # c => cli'[d] = cli[d]
    BY <2>1, Zenon DEF NoRun
  <2>3. /\ UNCHANGED <<script, tmp, rel, inode, alloc>> /\ cli[c].pc = "unused"
        /\ \A d \in Clis : ~Busy(d)
    BY <1>3, Zenon DEF Start, hostVars, Busy
  <2>4. script[c] = "none"
    BY <2>3, Zenon DEF Flow
  <2>5. \A d \in Clis : Busy(d)' => d = c
    BY <2>2, <2>3, Zenon DEF Busy
  <2>6. \A d \in Clis :
           \/ script'[d] \in {"rename", "drop"}
           \/ script'[d] = "ok" /\ cli'[d].cmd = "rollback"
           \/ cli'[d].pc \in {"finalize", "submit"}
           => cli'[d].digest = W
    BY <1>0, <2>1, <2>2, <2>3, <2>4, Zenon
  <2> QED BY <1>0, <2>3, <2>5, <2>6, Zenon DEF RollbackFits, Holds, W
<1>4. ASSUME NEW c \in Clis, CheckInputs(c) \/ Begin(c) \/ ProvisionTls(c) \/ Upload(c)
      PROVE  FALSE
  BY <1>01, <1>4, Zenon DEF CheckInputs, Begin, ProvisionTls, Upload, Flow
<1>5. ASSUME NEW c \in Clis, Untar(c) \/ VerifyStage(c) \/ MoveStage(c)
      PROVE  FALSE
  BY <1>01, <1>5, Zenon DEF Untar, VerifyStage, MoveStage, At
<1>6. ASSUME NEW c \in Clis, DurableRollback(c)
      PROVE  RollbackFits'
  <2>1. alloc'.st # "none" => alloc'.bundle = Base.bundle
    BY <1>0, <1>01, <1>6, Zenon DEF DurableRollback, Begun, Allocs
  <2> QED BY <1>1, <1>6, <2>1, Zenon DEF DurableRollback, Finished, hostVars
<1>7. ASSUME NEW c \in Clis, WriteReservation(c)
      PROVE  RollbackFits'
  BY <1>0, <1>1, <1>7, Zenon DEF WriteReservation, Finished, hostVars
<1>8. ASSUME NEW c \in Clis, RunScript(c)
      PROVE  RollbackFits'
  <2>1. /\ cli[c].pc = "remote" /\ UNCHANGED <<tmp, rel, inode, alloc>>
        /\ script' = [script EXCEPT ![c] = "test"] /\ GoOn(c, "wait")
    BY <1>8, Zenon DEF RunScript, hostVars
  <2>2. script[c] = "none" /\ Busy(c)
    BY <2>1, Zenon DEF Flow, Busy, Finished
  <2>3. \A d \in Clis : Busy(d)' => Busy(d)
    BY <2>1, <2>2, GoingOn, Zenon DEF Busy
  <2>4. \A d \in Clis : /\ cli'[d].cmd = cli[d].cmd /\ cli'[d].digest = cli[d].digest
                        /\ cli'[d].pc \in {"finalize", "submit"} => cli'[d].digest = W
    BY <1>0, <2>1, GoingOn
  <2> QED BY <1>0, <2>1, <2>2, <2>3, <2>4 DEF RollbackFits, Holds, W
<1>9. ASSUME NEW c \in Clis, ScriptEnds(c)
      PROVE  RollbackFits'
  <2>1. PICK pc \in {"failed", "done", "finalize"} :
          /\ GoOn(c, pc)
          /\ pc = "finalize" => script[c] = "ok" /\ cli[c].cmd # "abandon"
    <3>1. PICK pc \in {"failed", "done", "finalize"} :
             /\ cli' = [cli EXCEPT ![c].pc = pc, ![c].digest = cli[c].digest]
             /\ pc = "finalize" => script[c] = "ok" /\ cli[c].cmd # "abandon"
      BY <1>01, <1>9, Zenon DEF ScriptEnds
    <3>2. [cli[c] EXCEPT !.pc = pc, !.digest = cli[c].digest] = [cli[c] EXCEPT !.pc = pc]
      BY Zenon DEF CliRuns
    <3>3. cli' = [cli EXCEPT ![c] = [cli[c] EXCEPT !.pc = pc, !.digest = cli[c].digest]]
      BY <3>1, Zenon
    <3> QED BY <3>1, <3>2, <3>3, Zenon DEF GoOn
  <2>2. pc = "finalize" => cli[c].digest = W
    BY <1>0, <1>9, <2>1, Zenon DEF Flow, ScriptEnds
  <2> QED BY <1>0, <1>1, <1>9, <2>1, <2>2, Zenon DEF ScriptEnds, Finished, hostVars
<1>10. ASSUME NEW c \in Clis, Finalize(c) \/ SubmitOperation(c) \/ Abandon(c)
       PROVE  RollbackFits'
  <2>1. PICK pc \in Pcs : GoOn(c, pc) /\ (pc \in {"finalize", "submit"} => cli[c].pc = "finalize")
    BY <1>10, Zenon DEF Finalize, SubmitOperation, Abandon
  <2>2. alloc'.st # "none" => alloc'.bundle = Base.bundle
    BY <1>0, <1>10, Zenon
       DEF Finalize, SubmitOperation, Abandon, Abandonable, Finalizable, Submittable, Allocs
  <2> QED BY <1>0, <1>1, <1>10, <2>1, <2>2, Zenon DEF Finalize, SubmitOperation, Abandon, Finished, hostVars
<1>11. ASSUME NEW c \in Clis, KillCli(c)
       PROVE  RollbackFits'
  <2>1. CASE cli[c].pc \notin Finished /\ GoOn(c, "dead") /\ UNCHANGED script
    BY <1>0, <1>1, <1>11, <2>1, Zenon DEF KillCli, hostVars
  <2>2. CASE script[c] \notin Resting /\ script' = [script EXCEPT ![c] = "failed"] /\ UNCHANGED cli
    BY <1>0, <1>2, <1>11, <2>2, Zenon DEF KillCli, hostVars, Steps
  <2> QED BY <1>11, <2>1, <2>2, Zenon DEF KillCli
<1>12. ASSUME NEW c \in Clis, TestRelease(c)
       PROVE  RollbackFits'
  <2>1. /\ script[c] = "test" /\ cli[c].cmd = "rollback" /\ UNCHANGED <<alloc, tmp, rel, inode>>
    BY <1>01, <1>12, Zenon DEF TestRelease, At, hostVars
  <2> DEFINE fit == /\ rel # 0 /\ inode[rel].ident # NoDigest
                    /\ <<"deployment.json", Base>> \in inode[rel].files
             g == IF fit THEN inode[rel].ident ELSE cli[c].digest
             st == CASE rel = 0 -> "clear" [] rel # 0 /\ fit -> "drop" [] OTHER -> "failed"
  <2>a. /\ script' = [script EXCEPT ![c] = st]
        /\ cli' = [cli EXCEPT ![c] = [cli[c] EXCEPT !.digest = g]]
    BY <1>12, <2>1, Zenon DEF TestRelease, Then
  <2>b. st \in {"clear", "drop", "failed"} /\ (st = "drop" => rel # 0 /\ g = inode[rel].ident)
    BY Zenon
  <2> HIDE DEF fit, g, st
  <2>2. /\ st \in {"clear", "drop", "failed"}
        /\ script' = [script EXCEPT ![c] = st]
        /\ cli' = [cli EXCEPT ![c] = [cli[c] EXCEPT !.digest = g]]
        /\ st = "drop" => rel # 0 /\ g = inode[rel].ident
    BY <2>a, <2>b, Zenon
  <2>3. /\ \A d \in Clis : /\ cli'[d].pc = cli[d].pc /\ cli'[d].cmd = cli[d].cmd
                           /\ d # c => cli'[d] = cli[d]
        /\ st = "drop" => cli'[c].digest = W
    BY <1>0, <2>2 DEF CliRuns
  <2> QED BY <1>0, <1>2, <2>1, <2>2, <2>3, Zenon DEF Steps, Resting
<1>13. ASSUME NEW c \in Clis, ClearStage(c)
       PROVE  RollbackFits'
  <2>1. /\ script[c] = "clear" /\ UNCHANGED <<alloc, cli, rel>> /\ tmp' = 0
        /\ script' = [script EXCEPT ![c] = "mkdir"] /\ (rel # 0 => inode'[rel] = inode[rel])
    BY <1>0, <1>13, Zenon DEF ClearStage, At, Then, Removed
  <2>2. 0 \notin Clis
    BY DeployAssumption, Zenon
  <2> QED BY <1>0, <1>2, <2>1, <2>2, Zenon DEF Steps, Resting
<1>14. ASSUME NEW c \in Clis, MakeStage(c)
       PROVE  RollbackFits'
  <2>1. /\ script[c] = "mkdir" /\ cli[c].cmd = "rollback" /\ UNCHANGED <<alloc, cli, rel>>
    BY <1>01, <1>14, Zenon DEF MakeStage, At
  <2>2. c # rel /\ 0 \notin Clis
    BY <1>0, <2>1, DeployAssumption, Zenon
  <2>3. CASE tmp = 0
    <3>1. tmp' = c /\ (rel # 0 => inode'[rel] = inode[rel]) /\ script' = [script EXCEPT ![c] = "copy"]
      BY <1>14, <2>1, <2>2, <2>3, Zenon DEF MakeStage, Then
    <3> QED BY <1>0, <1>2, <2>1, <2>2, <3>1, Zenon DEF Steps, Resting
  <2>4. CASE tmp # 0
    <3>1. UNCHANGED <<tmp, inode>> /\ script' = [script EXCEPT ![c] = "failed"]
      BY <1>14, <2>4, Zenon DEF MakeStage, Then
    <3> QED BY <1>0, <1>2, <2>1, <3>1, Zenon DEF Steps, Resting
  <2> QED BY <2>3, <2>4, Zenon
<1>15. ASSUME NEW c \in Clis, DropUpload(c)
       PROVE  RollbackFits'
  <2>1. /\ script[c] = "drop" /\ UNCHANGED <<alloc, cli, tmp, rel, inode>>
        /\ script' = [script EXCEPT ![c] = "ok"]
    BY <1>15, Zenon DEF DropUpload, At, Then
  <2> QED BY <1>0, <1>2, <2>1, Zenon DEF Steps, Resting
<1>16. ASSUME NEW c \in Clis, CopySource(c)
       PROVE  RollbackFits'
  <2>1. /\ script[c] = "copy" /\ UNCHANGED <<alloc, cli, tmp, rel>> /\ tmp # 0
    BY <1>0, <1>16, Zenon DEF CopySource, At
  <2>2. CASE \E f \in Files : /\ inode' = [inode EXCEPT ![tmp].files = @ \cup {<<f, Base>>}]
                              /\ UNCHANGED script
    <3>1. rel # 0 => inode'[rel] = inode[rel]
      BY <1>0, <2>1, <2>2, Zenon
    <3>2. script' = [script EXCEPT ![c] = "copy"]
      BY <2>1, <2>2, Zenon
    <3> QED BY <1>0, <1>2, <2>1, <3>1, <3>2, Zenon DEF Steps, Resting
  <2>3. CASE inode[tmp].files = W /\ script' = [script EXCEPT ![c] = "digest"] /\ UNCHANGED inode
    BY <1>0, <1>2, <2>1, <2>3, Zenon DEF Steps, Resting
  <2> QED BY <1>16, <2>1, <2>2, <2>3, Zenon DEF CopySource, Then, W
<1>17. ASSUME NEW c \in Clis, DigestStage(c)
       PROVE  RollbackFits'
  <2>1. /\ script[c] = "digest" /\ UNCHANGED <<alloc, tmp, rel>> /\ tmp # 0 /\ inode[tmp].files = W
    BY <1>0, <1>17, Zenon DEF DigestStage, At
  <2>2. CASE /\ cli' = [cli EXCEPT ![c] = [cli[c] EXCEPT !.digest = W]]
             /\ inode' = [inode EXCEPT ![tmp] = [inode[tmp] EXCEPT !.ident = W]]
             /\ script' = [script EXCEPT ![c] = "rename"]
    <3>1. /\ \A d \in Clis : /\ cli'[d].pc = cli[d].pc /\ cli'[d].cmd = cli[d].cmd
                             /\ d # c => cli'[d] = cli[d]
          /\ cli'[c].digest = W
      BY <2>2, Zenon DEF CliRuns
    <3>2. /\ rel # 0 => inode'[rel] = inode[rel]
          /\ inode'[tmp].files = W /\ inode'[tmp].ident = W
      BY <1>0, <2>1, <2>2, Zenon DEF Dirs
    <3> QED BY <1>0, <1>2, <2>1, <2>2, <3>1, <3>2, Zenon DEF Steps, Resting
  <2>3. CASE script' = [script EXCEPT ![c] = "failed"] /\ UNCHANGED <<cli, inode>>
    BY <1>0, <1>2, <2>1, <2>3, Zenon DEF Steps, Resting
  <2> QED BY <1>17, <2>1, <2>2, <2>3, Zenon DEF DigestStage, Then
<1>18. ASSUME NEW c \in Clis, RenameStage(c)
       PROVE  RollbackFits'
  <2>1. /\ script[c] = "rename" /\ UNCHANGED <<alloc, cli, inode>> /\ 0 \notin Clis
    BY <1>18, DeployAssumption, Zenon DEF RenameStage, At
  <2>2. CASE rel' = tmp /\ tmp' = 0 /\ script' = [script EXCEPT ![c] = "drop"]
    BY <1>0, <1>2, <2>1, <2>2, Zenon DEF Steps, Resting
  <2>3. CASE UNCHANGED <<tmp, rel>> /\ script' = [script EXCEPT ![c] = "failed"]
    BY <1>0, <1>2, <2>1, <2>3, Zenon DEF Steps, Resting
  <2> QED BY <1>18, <2>2, <2>3, Zenon DEF RenameStage, Then
<1>19. ASSUME NEW c \in Clis, RemoveRelease(c)
       PROVE  RollbackFits'
  <2>1. /\ script[c] = "test" /\ cli[c].cmd = "abandon" /\ UNCHANGED <<alloc, cli>> /\ 0 \notin Clis
    BY <1>19, DeployAssumption, Zenon DEF RemoveRelease, At
  <2>2. CASE rel' = 0 /\ tmp' = 0 /\ script' = [script EXCEPT ![c] = "ok"]
    BY <1>0, <1>2, <2>1, <2>2, Zenon DEF Steps, Resting
  <2>3. CASE UNCHANGED <<tmp, rel, inode>> /\ script' = [script EXCEPT ![c] = "failed"]
    BY <1>0, <1>2, <2>1, <2>3, Zenon DEF Steps, Resting
  <2> QED BY <1>19, <2>2, <2>3, Zenon DEF RemoveRelease, Then
<1>20. CASE Accept \/ (\E r \in reserved : Migrate(r)) \/ UNCHANGED deployVars
  <2>1. UNCHANGED <<alloc, cli, script, tmp, rel, inode>>
    BY <1>20, Zenon DEF Accept, Migrate, deployVars, hostVars
  <2> QED BY <1>0, <2>1, Zenon DEF RollbackFits, Holds, Busy, W
<1> QED
  BY <1>3, <1>4, <1>5, <1>6, <1>7, <1>8, <1>9, <1>10, <1>11, <1>12, <1>13, <1>14, <1>15, <1>16,
     <1>17, <1>18, <1>19, <1>20, Zenon DEF DeployNext, Cmds

(* What a node agent accepts is a complete release, rendered from the      *)
(* bundle the revision was allocated for, with that bundle's migrations    *)
(* applied (durable_deploy, finalize_remote_release and the rollback       *)
(* script of wr-cli, finalize_deployment and submit of the manager,        *)
(* verify_release of the agent): for any number of commands and deaths of  *)
(* commands and scripts, deployments overlapping, rollbacks one after      *)
(* another.                                                                *)
THEOREM AcceptedWasDeployable == DeploySpec => []AcceptedIsDeployable
<1>1. DeployInit(DeploySettings) => DeployInv
  <2> SUFFICES ASSUME DeployInit(DeploySettings) PROVE DeployInv
    BY Zenon
  <2> USE DEF DeployInit, NoDigest
  <2>1. DeployType
    BY ReleaseFiles, Zenon DEF DeployType, Allocs, Digests, Steps
  <2>2. \A c \in Clis : /\ cli[c].pc = "unused" /\ cli[c].cmd = "none" /\ cli[c].args = Base
                        /\ script[c] = "none"
    BY Zenon DEF NoRun
  <2>3. Flow /\ Kept /\ DeployFits
    BY <2>2, Zenon DEF Flow, Kept, DeployFits, Resting
  <2>4. RollbackFits
    BY <2>2, DeployAssumption, Zenon DEF RollbackFits, Busy, Finished, Resting
  <2> QED BY <2>1, <2>3, <2>4, Zenon DEF DeployInv
<1>2. DeployInv /\ [DeployNext]_deployVars => DeployInv'
  BY DeployTypeStep, FlowStep, KeptStep, DeployFitsStep, RollbackFitsStep, Zenon DEF DeployInv
<1>3. DeployInv => AcceptedIsDeployable
  BY Zenon DEF DeployInv, Kept, AcceptedIsDeployable, Deployable
<1> QED
  BY <1>1, <1>2, <1>3, PTL DEF DeploySpec

-----------------------------------------------------------------------------
(* ReleaseCleanup: no needed release leaves the host.                      *)
(*                                                                         *)
(* An authority is computed in one transaction and executed long after it, *)
(* so what it names must stay dispensable whatever happens in between.     *)
(* That is so because a release is dispensable for good: an abandoned one  *)
(* stays abandoned, and one that has a later former release keeps it.      *)

Deployments ==
    [st : {"pending", "succeeded", "abandoned"}, fin : {"yes", "no"},
     bound : {"yes", "no"}, from : Nat]

(* Dispensable for good. *)
SpentIn(d, c) ==
    {r \in DOMAIN d :
        \/ d[r].st = "abandoned"
        \/ /\ d[r].st = "succeeded"
           /\ \E s \in DOMAIN d : d[s].st = "succeeded" /\ r < s /\ s < c}

KeptIn(d, c) ==
    {r \in DOMAIN d : d[r].st = "succeeded" \/ (d[r].st = "pending" /\ d[r].fin = "yes")}
        \ SpentIn(d, c)

(* The catalog and the rows of the node and of its operation agree. *)
CatalogFits(d, n, o) ==
    /\ d \in Seq(Deployments) /\ n \in [cur : Nat, tgt : Nat]
    /\ o \in [st : {"none", "active", "failed"}, src : Nat, rev : Nat]
    /\ \A r \in DOMAIN d : d[r].st = "succeeded" => r <= n.cur
    /\ \A r \in DOMAIN d : d[r].st = "pending" => r = n.tgt
    /\ n.cur # 0 => n.cur \in DOMAIN d /\ d[n.cur].st = "succeeded"
    /\ n.tgt # 0 => n.tgt \in DOMAIN d /\ n.cur < n.tgt /\ d[n.tgt].st = "pending"
    /\ o.st = "active" =>
          /\ o.src = n.cur /\ o.rev = n.tgt /\ n.tgt # 0
          /\ d[n.tgt].fin = "yes" /\ d[n.tgt].bound = "yes"

(* What is not dispensable is whole on the host, and the host selects      *)
(* nothing else.                                                           *)
HostFits(d, n, o, k, b, s) ==
    /\ k \subseteq Nat
    /\ KeptIn(d, n.cur) \subseteq k
    /\ b \subseteq SpentIn(d, n.cur)
    /\ s \subseteq {n.cur, IF o.st = "active" THEN o.rev ELSE n.cur} \ {0}

CleanRow(row) ==
    row \in [st : {"absent", "needs_reconcile", "pending", "claimed", "clean", "paused"},
             seen : {row.seen}, del : SUBSET Nat, inv : SUBSET Nat,
             holder : {"none", "agent", "dead"}, lease : {"none", "live", "expired"},
             scanned : {"yes", "no"}, known : SUBSET Nat]

AgentWork ==
    [st : {"idle", "claimed", "delete", "report"}, held : {"yes", "no"},
     del : SUBSET Nat, left : SUBSET Nat, got : SUBSET Nat,
     result : {"ok", "failed"}, sent : {"yes", "no"}]

(* Everything authorised, issued or being deleted is dispensable. *)
AuthorityFits(d, n, c, a) ==
    /\ CleanRow(c) /\ a \in AgentWork
    /\ c.del \subseteq SpentIn(d, n.cur)
    /\ a.del \subseteq SpentIn(d, n.cur)
    /\ a.left \subseteq SpentIn(d, n.cur)

CleanupInv ==
    /\ policy.keep \in Nat
    /\ CatalogFits(deps, node, op)
    /\ HostFits(deps, node, op, disk, broken, sel)
    /\ AuthorityFits(deps, node, clean, agent)

(* One catalog follows another: allocations are added, and what was        *)
(* committed or abandoned stays so.                                        *)
Follows(d, c, e, f) ==
    /\ DOMAIN d \subseteq DOMAIN e
    /\ c <= f
    /\ \A r \in DOMAIN d : d[r].st # "pending" => e[r].st = d[r].st

(* Dispensable releases stay dispensable: no transaction of operations.rs  *)
(* takes back an abandonment or a commit, or lowers the current revision.  *)
LEMMA SpentStays ==
    ASSUME NEW d \in Seq(Deployments), NEW e \in Seq(Deployments),
           NEW c \in Nat, NEW f \in Nat, Follows(d, c, e, f)
    PROVE  SpentIn(d, c) \subseteq SpentIn(e, f)
<1> DOMAIN d = 1 .. Len(d) /\ DOMAIN e = 1 .. Len(e) /\ Len(d) \in Nat /\ Len(e) \in Nat
  OBVIOUS
<1> SUFFICES ASSUME NEW r \in SpentIn(d, c) PROVE r \in SpentIn(e, f)
  BY Zenon
<1>1. r \in DOMAIN d /\ r \in DOMAIN e /\ (d[r].st = "abandoned" \/ d[r].st = "succeeded")
  BY Zenon DEF SpentIn, Follows
<1>2. e[r].st = d[r].st
  BY <1>1, Zenon DEF Follows
<1>3. CASE d[r].st = "abandoned"
  BY <1>1, <1>2, <1>3, Zenon DEF SpentIn
<1>4. CASE d[r].st = "succeeded"
  <2>1. PICK s \in DOMAIN d : d[s].st = "succeeded" /\ r < s /\ s < c
    BY <1>4, Zenon DEF SpentIn
  <2>2. s \in DOMAIN e /\ e[s].st = "succeeded" /\ s < f
    BY <2>1 DEF Follows
  <2> QED BY <1>1, <1>2, <1>4, <2>1, <2>2, Zenon DEF SpentIn
<1> QED BY <1>1, <1>3, <1>4, Zenon

(* The work of the agent, and the authority of the manager, survive a      *)
(* change of the catalog.                                                  *)
LEMMA AuthorityStays ==
    ASSUME NEW d \in Seq(Deployments), NEW e \in Seq(Deployments),
           NEW n \in [cur : Nat, tgt : Nat], NEW m \in [cur : Nat, tgt : Nat],
           Follows(d, n.cur, e, m.cur),
           NEW c, NEW a, AuthorityFits(d, n, c, a),
           NEW x, NEW b, CleanRow(x), x.del \subseteq c.del,
           b \in AgentWork, b.del \subseteq a.del, b.left \subseteq a.left
    PROVE  AuthorityFits(e, m, x, b)
<1>1. SpentIn(d, n.cur) \subseteq SpentIn(e, m.cur)
  <2> n.cur \in Nat /\ m.cur \in Nat
    BY Zenon
  <2> QED BY SpentStays, Zenon
<1> QED BY <1>1, Zenon DEF AuthorityFits

(* fence_cleanup_authority and the other ways to take an authority back    *)
(* leave a well-formed row that authorises nothing.                        *)
LEMMA WithoutFits ==
    ASSUME NEW row, CleanRow(row),
           NEW st \in {"needs_reconcile", "clean", "paused"}
    PROVE  /\ CleanRow(Without(row, st))
           /\ Without(row, st).del = {} /\ Without(row, st).known = row.known
           /\ Without(row, st).scanned = row.scanned
BY Zenon DEF CleanRow, Without

(* A fenced row authorises no more than before.                            *)
LEMMA FencedFits ==
    ASSUME NEW row, CleanRow(row)
    PROVE  /\ CleanRow(Fenced(row))
           /\ Fenced(row).del \subseteq row.del
BY WithoutFits, Zenon DEF Fenced

(* Fencing takes the lease and leaves the plan of the agent as it was.     *)
LEMMA FenceFits ==
    ASSUME CleanRow(clean), agent \in AgentWork, Fence
    PROVE  /\ CleanRow(clean') /\ clean'.del \subseteq clean.del
           /\ agent' \in AgentWork
           /\ agent'.del = agent.del /\ agent'.left = agent.left
<1>1. CleanRow(clean') /\ clean'.del \subseteq clean.del
  BY FencedFits, Zenon DEF Fence
<1>2. agent' = [agent EXCEPT !.held = "no"]
  BY Zenon DEF Fence
<1> QED BY <1>1, <1>2, Zenon DEF AgentWork

(* Two catalogs agree about every allocation but x. *)
Agree(d, e, x) ==
    \A r \in DOMAIN e : r # x => r \in DOMAIN d /\ e[r].st = d[r].st /\ e[r].fin = d[r].fin

(* What a transaction on one allocation must make sure of for the host: if *)
(* the allocation is to be kept from now on, it is on the host.            *)
LEMMA HostMoves ==
    ASSUME NEW d \in Seq(Deployments), NEW e \in Seq(Deployments),
           NEW n \in [cur : Nat, tgt : Nat], NEW m \in [cur : Nat, tgt : Nat],
           NEW o, NEW q, NEW k, NEW b, NEW s, NEW t, NEW x,
           Follows(d, n.cur, e, m.cur), Agree(d, e, x),
           HostFits(d, n, o, k, b, s),
           x \in KeptIn(e, m.cur) => x \in k,
           t \subseteq {m.cur, IF q.st = "active" THEN q.rev ELSE m.cur} \ {0}
    PROVE  HostFits(e, m, q, k, b, t)
<1> n.cur \in Nat /\ m.cur \in Nat
  BY Zenon
<1>1. SpentIn(d, n.cur) \subseteq SpentIn(e, m.cur)
  BY SpentStays, Zenon
<1>2. ASSUME NEW r \in KeptIn(e, m.cur), r # x
      PROVE  r \in KeptIn(d, n.cur)
  BY <1>1, <1>2, Zenon DEF KeptIn, Agree
<1>3. KeptIn(e, m.cur) \subseteq k
  BY <1>2, Zenon DEF HostFits
<1> QED BY <1>1, <1>3, Zenon DEF HostFits

(* A new allocation at the end of the catalog. *)
LEMMA Appended ==
    ASSUME NEW d \in Seq(Deployments), NEW v \in Deployments
    PROVE  LET e == Append(d, v) IN
           /\ e \in Seq(Deployments)
           /\ DOMAIN d = 1 .. Len(d) /\ DOMAIN e = 1 .. (Len(d) + 1) /\ Len(d) \in Nat
           /\ e[Len(d) + 1] = v
           /\ \A r \in DOMAIN d : e[r] = d[r]
OBVIOUS

(* One allocation of the catalog changes. *)
LEMMA Edited ==
    ASSUME NEW d \in Seq(Deployments), NEW x \in DOMAIN d, NEW v \in Deployments
    PROVE  LET e == [d EXCEPT ![x] = v] IN
           /\ e \in Seq(Deployments)
           /\ DOMAIN e = DOMAIN d
           /\ e[x] = v
           /\ \A r \in DOMAIN d : r # x => e[r] = d[r]
<1> DOMAIN d = 1 .. Len(d) /\ Len(d) \in Nat /\ d \in [1 .. Len(d) -> Deployments]
  OBVIOUS
<1> DEFINE e == [d EXCEPT ![x] = v]
<1>1. e \in [1 .. Len(d) -> Deployments]
  BY Zenon
<1>2. e \in Seq(Deployments)
  BY <1>1
<1> QED BY <1>1, <1>2, Zenon

(* begin_deployment and begin_rollback allocate beyond everything there    *)
(* is, and stage what they allocate.                                       *)
LEMMA AllocateKeeps ==
    ASSUME CleanupInv, NEW source \in Nat, Allocate(source),
           UNCHANGED <<op, disk, broken, sel>>
    PROVE  /\ CatalogFits(deps', node', op')
           /\ HostFits(deps', node', op', disk', broken', sel')
           /\ Follows(deps, node.cur, deps', node'.cur)
<1> DEFINE v == [st |-> "pending", fin |-> "no", bound |-> "no", from |-> source]
           x == Len(deps) + 1
<1>1. v \in Deployments /\ v.st = "pending" /\ v.fin = "no"
  BY Zenon DEF Deployments
<1>2. deps' = Append(deps, v) /\ deps \in Seq(Deployments)
  BY Zenon DEF Allocate, CleanupInv, CatalogFits
<1> HIDE DEF v
<1>3. /\ deps' \in Seq(Deployments)
      /\ DOMAIN deps = 1 .. Len(deps) /\ DOMAIN deps' = 1 .. x /\ Len(deps) \in Nat
      /\ deps'[x] = v
      /\ \A r \in DOMAIN deps : deps'[r] = deps[r]
  BY <1>1, <1>2, Appended, Zenon
<1>4. node \in [cur : Nat, tgt : Nat] /\ node.tgt = 0 /\ node' = [node EXCEPT !.tgt = x]
  BY Zenon DEF Allocate, CleanupInv, CatalogFits
<1>5. node' \in [cur : Nat, tgt : Nat] /\ node'.cur = node.cur /\ node'.tgt = x /\ node.cur < x
  BY <1>3, <1>4 DEF CleanupInv, CatalogFits
<1>6. op.st # "active" /\ op' = op
  BY <1>4, Zenon DEF CleanupInv, CatalogFits
<1>7. CatalogFits(deps', node', op')
  <2> HIDE DEF x
  <2>1. \A r \in DOMAIN deps' : r = x \/ r \in DOMAIN deps
    BY <1>3 DEF x
  <2>2. x \in DOMAIN deps' /\ node.cur \in Nat
    BY <1>3, <1>4 DEF x
  <2>3. \A r \in DOMAIN deps' : deps'[r].st = "succeeded" => r <= node'.cur
    BY <1>1, <1>3, <1>5, <2>1 DEF CleanupInv, CatalogFits
  <2>4. \A r \in DOMAIN deps' : deps'[r].st = "pending" => r = node'.tgt
    BY <1>3, <1>4, <1>5, <2>1 DEF CleanupInv, CatalogFits
  <2>5. node'.cur # 0 => node'.cur \in DOMAIN deps' /\ deps'[node'.cur].st = "succeeded"
    BY <1>3, <1>5 DEF CleanupInv, CatalogFits, x
  <2> QED BY <1>1, <1>3, <1>5, <1>6, <2>2, <2>3, <2>4, <2>5, Zenon DEF CleanupInv, CatalogFits
<1>8. Follows(deps, node.cur, deps', node'.cur)
  BY <1>3, <1>4, <1>5 DEF Follows
<1>9. Agree(deps, deps', x) /\ x \notin KeptIn(deps', node'.cur)
  BY <1>1, <1>3 DEF Agree, KeptIn
<1>10. sel' \subseteq {node'.cur, IF op'.st = "active" THEN op'.rev ELSE node'.cur} \ {0}
  BY <1>5, <1>6, Zenon DEF CleanupInv, HostFits
<1>11. HostFits(deps, node, op, disk, broken, sel)
  BY Zenon DEF CleanupInv
<1>12. HostFits(deps', node', op', disk, broken, sel')
  <2> HIDE DEF x
  <2> QED BY <1>2, <1>3, <1>4, <1>5, <1>8, <1>9, <1>10, <1>11, HostMoves, Zenon
<1> QED BY <1>7, <1>8, <1>12, Zenon

(* A transaction on one allocation: the conditions under which the catalog *)
(* and the host still fit together.                                        *)
LEMMA EditKeeps ==
    ASSUME CleanupInv, NEW x \in DOMAIN deps, NEW v \in Deployments,
           deps' = [deps EXCEPT ![x] = v],
           deps[x].st # "pending" => v.st = deps[x].st,
           node' \in [cur : Nat, tgt : Nat], node.cur <= node'.cur,
           CatalogFits(deps', node', op'),
           x \in KeptIn(deps', node'.cur) => x \in disk,
           sel' \subseteq {node'.cur, IF op'.st = "active" THEN op'.rev ELSE node'.cur} \ {0},
           disk' = disk, broken' = broken
    PROVE  /\ HostFits(deps', node', op', disk', broken', sel')
           /\ Follows(deps, node.cur, deps', node'.cur)
<1>1. deps \in Seq(Deployments) /\ node \in [cur : Nat, tgt : Nat]
  BY Zenon DEF CleanupInv, CatalogFits
<1>2. /\ deps' \in Seq(Deployments) /\ DOMAIN deps' = DOMAIN deps
      /\ deps'[x] = v
      /\ \A r \in DOMAIN deps : r # x => deps'[r] = deps[r]
  BY <1>1, Edited, Zenon
<1>3. Follows(deps, node.cur, deps', node'.cur)
  BY <1>2, Zenon DEF Follows
<1>4. Agree(deps, deps', x)
  BY <1>2, Zenon DEF Agree
<1>5. HostFits(deps, node, op, disk, broken, sel)
  BY Zenon DEF CleanupInv
<1>6. HostFits(deps', node', op', disk, broken, sel')
  BY <1>1, <1>2, <1>3, <1>4, <1>5, HostMoves, Zenon
<1> QED BY <1>3, <1>6, Zenon

(* A transaction on the catalog fences the authority or leaves it alone.   *)
LEMMA CatalogMoves ==
    ASSUME CleanupInv, policy' = policy,
           CatalogFits(deps', node', op'),
           HostFits(deps', node', op', disk', broken', sel'),
           Follows(deps, node.cur, deps', node'.cur),
           Fence \/ UNCHANGED <<clean, agent>>
    PROVE  CleanupInv'
<1>1. /\ deps \in Seq(Deployments) /\ deps' \in Seq(Deployments)
      /\ node \in [cur : Nat, tgt : Nat] /\ node' \in [cur : Nat, tgt : Nat]
  BY Zenon DEF CleanupInv, CatalogFits
<1>2. AuthorityFits(deps, node, clean, agent) /\ CleanRow(clean) /\ agent \in AgentWork
  BY Zenon DEF CleanupInv, AuthorityFits
<1>3. /\ CleanRow(clean') /\ clean'.del \subseteq clean.del
      /\ agent' \in AgentWork
      /\ agent'.del \subseteq agent.del /\ agent'.left \subseteq agent.left
  BY <1>2, FenceFits, Zenon DEF CleanRow
<1>4. AuthorityFits(deps', node', clean', agent')
  BY <1>1, <1>2, <1>3, AuthorityStays, Zenon
<1> QED BY <1>4, Zenon DEF CleanupInv

(* begin_deployment and begin_rollback. *)
LEMMA BeginKeeps ==
    ASSUME CleanupInv, BeginDeployment \/ \E r \in Revisions : BeginRollback(r)
    PROVE  CleanupInv'
<1>1. CASE BeginDeployment
  <2>1. Allocate(0) /\ Fence /\ UNCHANGED <<op, disk, broken, sel>> /\ policy' = policy
    BY <1>1, Zenon DEF BeginDeployment, diskVars
  <2> HIDE DEF BeginDeployment
  <2>2. /\ CatalogFits(deps', node', op')
        /\ HostFits(deps', node', op', disk', broken', sel')
        /\ Follows(deps, node.cur, deps', node'.cur)
    BY <2>1, AllocateKeeps, Zenon
  <2> QED BY <2>1, <2>2, CatalogMoves, Zenon
<1>2. ASSUME NEW r \in Revisions, BeginRollback(r)
      PROVE  CleanupInv'
  <2>1. /\ r \in Nat /\ Allocate(r) /\ UNCHANGED <<op, disk, broken, sel>>
        /\ policy' = policy /\ UNCHANGED <<clean, agent>>
    BY <1>2, CleanupAssumption DEF BeginRollback, diskVars, Revisions
  <2>2. /\ CatalogFits(deps', node', op')
        /\ HostFits(deps', node', op', disk', broken', sel')
        /\ Follows(deps, node.cur, deps', node'.cur)
    BY <2>1, AllocateKeeps, Zenon
  <2> QED BY <2>1, <2>2, CatalogMoves, Zenon
<1> QED BY <1>1, <1>2, Zenon

(* finalize_deployment is called with the release on the host. *)
LEMMA FinalizeKeeps ==
    ASSUME CleanupInv, NEW r \in Revisions, FinalizeDeployment(r)
    PROVE  CleanupInv'
<1>1. /\ r \in DOMAIN deps /\ r \in disk
      /\ deps[r].st # "abandoned" /\ deps[r].fin = "no"
      /\ deps' = [deps EXCEPT ![r] = [deps[r] EXCEPT !.fin = "yes"]]
      /\ UNCHANGED <<node, op, policy, disk, broken, sel>> /\ Fence
  BY Zenon DEF FinalizeDeployment, diskVars
<1>2. /\ deps \in Seq(Deployments) /\ deps[r] \in Deployments
      /\ CatalogFits(deps, node, op) /\ node \in [cur : Nat, tgt : Nat]
  BY <1>1 DEF CleanupInv, CatalogFits
<1> DEFINE v == [deps[r] EXCEPT !.fin = "yes"]
<1>3. v \in Deployments /\ v.st = deps[r].st /\ v.fin = "yes" /\ v.bound = deps[r].bound
  BY <1>2, Zenon DEF Deployments
<1> HIDE DEF v
<1>4. /\ deps' \in Seq(Deployments) /\ DOMAIN deps' = DOMAIN deps
      /\ deps'[r] = v
      /\ \A s \in DOMAIN deps : s # r => deps'[s] = deps[s]
  BY <1>1, <1>2, <1>3, Edited, Zenon DEF v
<1>5. \A s \in DOMAIN deps : /\ deps'[s].st = deps[s].st /\ deps'[s].bound = deps[s].bound
                             /\ deps[s].fin = "yes" => deps'[s].fin = "yes"
  BY <1>3, <1>4, Zenon
<1>6. CatalogFits(deps', node', op')
  BY <1>1, <1>2, <1>4, <1>5 DEF CatalogFits
<1>7. sel' \subseteq {node'.cur, IF op'.st = "active" THEN op'.rev ELSE node'.cur} \ {0}
  BY <1>1, Zenon DEF CleanupInv, HostFits
<1>8. node' \in [cur : Nat, tgt : Nat] /\ node.cur <= node'.cur
  BY <1>1, <1>2
<1>9. /\ HostFits(deps', node', op', disk', broken', sel')
      /\ Follows(deps, node.cur, deps', node'.cur)
  BY <1>1, <1>3, <1>6, <1>7, <1>8, EditKeeps, Zenon DEF v
<1> QED BY <1>1, <1>6, <1>9, CatalogMoves, Zenon

(* abandon_deployment refuses a submitted allocation, so that no operation *)
(* is under way when the staged one is abandoned.                          *)
LEMMA AbandonKeeps ==
    ASSUME CleanupInv, NEW r \in Revisions, AbandonDeployment(r)
    PROVE  CleanupInv'
<1>1. /\ r \in DOMAIN deps /\ deps[r].st = "pending" /\ deps[r].bound = "no"
      /\ deps' = [deps EXCEPT ![r] = [deps[r] EXCEPT !.st = "abandoned"]]
      /\ node' = [node EXCEPT !.tgt = IF @ = r THEN 0 ELSE @]
      /\ UNCHANGED <<op, policy, disk, broken, sel>> /\ Fence
  BY Zenon DEF AbandonDeployment, diskVars
<1>2. /\ deps \in Seq(Deployments) /\ deps[r] \in Deployments
      /\ CatalogFits(deps, node, op) /\ node \in [cur : Nat, tgt : Nat]
  BY <1>1 DEF CleanupInv, CatalogFits
<1> DEFINE v == [deps[r] EXCEPT !.st = "abandoned"]
<1>3. v \in Deployments /\ v.st = "abandoned"
  BY <1>2, Zenon DEF Deployments
<1> HIDE DEF v
<1>4. /\ deps' \in Seq(Deployments) /\ DOMAIN deps' = DOMAIN deps
      /\ deps'[r] = v
      /\ \A s \in DOMAIN deps : s # r => deps'[s] = deps[s]
  BY <1>1, <1>2, <1>3, Edited, Zenon DEF v
<1>5. r = node.tgt /\ op.st # "active"
  BY <1>1, <1>2, Zenon DEF CatalogFits
<1>6. node' \in [cur : Nat, tgt : Nat] /\ node'.cur = node.cur /\ node'.tgt = 0
  BY <1>1, <1>2, <1>5, Zenon
<1>7. node.cur # r
  BY <1>1, <1>2, <1>5 DEF CatalogFits
<1>8. CatalogFits(deps', node', op')
  BY <1>1, <1>2, <1>3, <1>4, <1>5, <1>6, <1>7, Zenon DEF CatalogFits
<1>9. sel' \subseteq {node'.cur, IF op'.st = "active" THEN op'.rev ELSE node'.cur} \ {0}
  BY <1>1, <1>6, Zenon DEF CleanupInv, HostFits
<1>10. r \notin KeptIn(deps', node'.cur)
  BY <1>3, <1>4, Zenon DEF KeptIn
<1>11. node.cur <= node'.cur
  BY <1>2, <1>6
<1>12. /\ HostFits(deps', node', op', disk', broken', sel')
       /\ Follows(deps, node.cur, deps', node'.cur)
  BY <1>1, <1>3, <1>6, <1>8, <1>9, <1>10, <1>11, EditKeeps, Zenon DEF v
<1> QED BY <1>1, <1>8, <1>12, CatalogMoves, Zenon

(* submit: the operation starts from the current revision. *)
LEMMA SubmitKeeps ==
    ASSUME CleanupInv, NEW r \in Revisions, Submit(r)
    PROVE  CleanupInv'
<1>1. /\ r = node.tgt /\ r # 0 /\ op.st # "active"
      /\ deps[r].st = "pending" /\ deps[r].fin = "yes"
      /\ deps' = [deps EXCEPT ![r] = [deps[r] EXCEPT !.bound = "yes"]]
      /\ op' = [st |-> "active", src |-> node.cur, rev |-> r]
      /\ UNCHANGED <<node, policy, disk, broken, sel>> /\ Fence
  BY Zenon DEF Submit, diskVars
<1>2. /\ r \in DOMAIN deps /\ deps \in Seq(Deployments) /\ deps[r] \in Deployments
      /\ CatalogFits(deps, node, op) /\ node \in [cur : Nat, tgt : Nat]
  BY <1>1 DEF CleanupInv, CatalogFits
<1> DEFINE v == [deps[r] EXCEPT !.bound = "yes"]
<1>3. v \in Deployments /\ v.st = "pending" /\ v.fin = "yes" /\ v.bound = "yes"
  BY <1>1, <1>2, Zenon DEF Deployments
<1> HIDE DEF v
<1>4. /\ deps' \in Seq(Deployments) /\ DOMAIN deps' = DOMAIN deps
      /\ deps'[r] = v
      /\ \A s \in DOMAIN deps : s # r => deps'[s] = deps[s]
  BY <1>1, <1>2, <1>3, Edited, Zenon DEF v
<1>5. \A s \in DOMAIN deps : deps'[s].st = deps[s].st
  BY <1>1, <1>3, <1>4, Zenon
<1>6. /\ op' \in [st : {"none", "active", "failed"}, src : Nat, rev : Nat]
      /\ op'.st = "active" /\ op'.src = node.cur /\ op'.rev = r
  BY <1>1, <1>2, Zenon
<1>7. CatalogFits(deps', node', op')
  BY <1>1, <1>2, <1>3, <1>4, <1>5, <1>6, Zenon DEF CatalogFits
<1>8. sel' \subseteq {node'.cur, IF op'.st = "active" THEN op'.rev ELSE node'.cur} \ {0}
  BY <1>1, <1>6, Zenon DEF CleanupInv, HostFits
<1>9. r \in disk
  <2>1. r \in KeptIn(deps, node.cur)
    BY <1>1, <1>2, Zenon DEF KeptIn, SpentIn
  <2> QED BY <2>1, Zenon DEF CleanupInv, HostFits
<1>10. node' \in [cur : Nat, tgt : Nat] /\ node.cur <= node'.cur
  BY <1>1, <1>2
<1>11. /\ HostFits(deps', node', op', disk', broken', sel')
       /\ Follows(deps, node.cur, deps', node'.cur)
  BY <1>1, <1>2, <1>3, <1>7, <1>8, <1>9, <1>10, EditKeeps, Zenon DEF v
<1> QED BY <1>1, <1>7, <1>11, CatalogMoves, Zenon

(* The commit of an operation: the staged release, newer than every other  *)
(* committed one, becomes the current one.                                 *)
LEMMA CommitKeeps ==
    ASSUME CleanupInv, Commit
    PROVE  CleanupInv'
<1> DEFINE r == op.rev
           v == [deps[r] EXCEPT !.st = "succeeded"]
<1>1. /\ op.st = "active"
      /\ op' = [st |-> "none", src |-> 0, rev |-> 0] /\ node' = [cur |-> r, tgt |-> 0]
      /\ deps' = [deps EXCEPT ![r] = v] /\ sel' = {r}
      /\ UNCHANGED <<policy, disk, broken>> /\ Fence
  BY Zenon DEF Commit
<1>2. /\ deps \in Seq(Deployments) /\ CatalogFits(deps, node, op)
      /\ node \in [cur : Nat, tgt : Nat]
      /\ r = node.tgt /\ r # 0 /\ r \in DOMAIN deps /\ node.cur < r
      /\ deps[r].st = "pending" /\ deps[r].fin = "yes"
  BY <1>1, Zenon DEF CleanupInv, CatalogFits
<1>3. v \in Deployments /\ v.st = "succeeded"
  <2>1. deps[r] \in Deployments
    BY <1>2
  <2> QED BY <2>1, Zenon DEF Deployments
<1> HIDE DEF r, v
<1>4. /\ deps' \in Seq(Deployments) /\ DOMAIN deps' = DOMAIN deps
      /\ deps'[r] = v
      /\ \A s \in DOMAIN deps : s # r => deps'[s] = deps[s]
  BY <1>1, <1>2, <1>3, Edited, Zenon
<1>5. /\ node' \in [cur : Nat, tgt : Nat] /\ node'.cur = r /\ node'.tgt = 0
      /\ op' \in [st : {"none", "active", "failed"}, src : Nat, rev : Nat] /\ op'.st = "none"
  BY <1>1, <1>2, Zenon
<1>6. r \in Nat /\ node.cur \in Nat
  BY <1>2, Zenon
<1>7. \A s \in DOMAIN deps : s \in Nat
  BY <1>2
<1>8. \A s \in DOMAIN deps' : deps'[s].st = "succeeded" => s <= node'.cur
  BY <1>2, <1>4, <1>5, <1>6, <1>7 DEF CatalogFits
<1>9. \A s \in DOMAIN deps' : deps'[s].st # "pending"
  BY <1>2, <1>3, <1>4, Zenon DEF CatalogFits
<1>10. CatalogFits(deps', node', op')
  BY <1>2, <1>3, <1>4, <1>5, <1>8, <1>9, Zenon DEF CatalogFits
<1>11. sel' \subseteq {node'.cur, IF op'.st = "active" THEN op'.rev ELSE node'.cur} \ {0}
  BY <1>1, <1>2, <1>5, Zenon
<1>12. r \in disk
  <2>1. r \in KeptIn(deps, node.cur)
    BY <1>2, Zenon DEF KeptIn, SpentIn
  <2> QED BY <2>1, Zenon DEF CleanupInv, HostFits
<1>13. node.cur <= node'.cur
  BY <1>2, <1>5, <1>6
<1>14. /\ HostFits(deps', node', op', disk', broken', sel')
       /\ Follows(deps, node.cur, deps', node'.cur)
  BY <1>1, <1>2, <1>3, <1>5, <1>10, <1>11, <1>12, <1>13, EditKeeps, Zenon
<1> QED BY <1>1, <1>10, <1>14, CatalogMoves, Zenon

(* Steps on the host and of the rollout there. *)
LEMMA HostSteps ==
    ASSUME CleanupInv, deps' = deps, node' = node, policy' = policy,
           op' \in [st : {"none", "active", "failed"}, src : Nat, rev : Nat],
           op' = op \/ op'.st = "failed",
           disk' \subseteq Nat,
           KeptIn(deps, node.cur) \cap disk \subseteq disk',
           broken' \subseteq SpentIn(deps, node.cur),
           sel' \subseteq {node.cur, IF op'.st = "active" THEN op'.rev ELSE node.cur} \ {0},
           AuthorityFits(deps, node, clean', agent')
    PROVE  CleanupInv'
<1>1. CatalogFits(deps', node', op')
  BY Zenon DEF CleanupInv, CatalogFits
<1>2. HostFits(deps', node', op', disk', broken', sel')
  BY Zenon DEF CleanupInv, HostFits
<1> QED BY <1>1, <1>2, Zenon DEF CleanupInv

(* finalize_remote_release, select_release, the end of a restoration and   *)
(* the removal of an abandoned release.                                    *)
LEMMA ReleaseKeeps ==
    ASSUME CleanupInv,
           \/ \E r \in Revisions : Materialize(r) \/ AbandonBytes(r)
           \/ Select \/ Restored
    PROVE  CleanupInv'
<1>1. /\ CatalogFits(deps, node, op) /\ HostFits(deps, node, op, disk, broken, sel)
      /\ AuthorityFits(deps, node, clean, agent)
      /\ op \in [st : {"none", "active", "failed"}, src : Nat, rev : Nat]
      /\ deps \in Seq(Deployments)
  BY Zenon DEF CleanupInv, CatalogFits
<1>2. ASSUME NEW r \in Revisions, Materialize(r)
      PROVE  CleanupInv'
  <2>1. r \in Nat
    BY CleanupAssumption DEF Revisions
  <2>2. /\ UNCHANGED <<deps, node, op, policy, clean, agent, broken, sel>> /\ disk' = disk \cup {r}
    BY <1>2, Zenon DEF Materialize, dbVars
  <2> QED BY <1>1, <2>1, <2>2, HostSteps, Zenon DEF HostFits
<1>3. ASSUME NEW r \in Revisions, AbandonBytes(r)
      PROVE  CleanupInv'
  <2>1. /\ UNCHANGED <<deps, node, op, policy, clean, agent, sel>>
        /\ disk' = disk \ {r} /\ broken' = broken \ {r}
        /\ r \in DOMAIN deps /\ deps[r].st = "abandoned"
    BY <1>3, Zenon DEF AbandonBytes, dbVars
  <2>2. r \notin KeptIn(deps, node.cur)
    BY <2>1, Zenon DEF KeptIn
  <2> QED BY <1>1, <2>1, <2>2, HostSteps, Zenon DEF HostFits
<1>4. CASE Select
  <2>1. /\ UNCHANGED <<deps, node, op, policy, clean, agent, disk, broken>>
        /\ op.st = "active" /\ sel' = sel \cup {op.rev}
    BY <1>4, Zenon DEF Select, dbVars
  <2>2. op.rev # 0
    BY <1>1, <2>1, Zenon DEF CatalogFits
  <2> QED BY <1>1, <2>1, <2>2, HostSteps, Zenon DEF HostFits
<1>5. CASE Restored
  <2>1. /\ UNCHANGED <<deps, node, policy, clean, agent, disk, broken>>
        /\ op.st = "active" /\ op' = [op EXCEPT !.st = "failed"] /\ sel' = {op.src} \ {0}
    BY <1>5, Zenon DEF Restored
  <2>2. op.src = node.cur
    BY <1>1, <2>1, Zenon DEF CatalogFits
  <2>3. op' \in [st : {"none", "active", "failed"}, src : Nat, rev : Nat] /\ op'.st = "failed"
    BY <1>1, <2>1, Zenon
  <2> QED BY <1>1, <2>1, <2>2, <2>3, HostSteps, Zenon DEF HostFits
<1> QED BY <1>2, <1>3, <1>4, <1>5, Zenon

(* Cardinality as FiniteSets defines it. *)
LEMMA NothingCounted == Cardinality({}) = 0
<1> DEFINE F(f) == f = [T \in SUBSET {} |-> IF T = {} THEN 0
                                            ELSE 1 + f[T \ {CHOOSE x : x \in T}]]
           count == CHOOSE f : F(f)
<1>1. F([T \in SUBSET {} |-> 0])
  BY Zenon
<1>2. F(count)
  BY <1>1, Zenon
<1>3. count[{}] = 0
  <2>1. count = [T \in SUBSET {} |-> IF T = {} THEN 0
                                     ELSE 1 + count[T \ {CHOOSE x : x \in T}]]
    BY <1>2, Zenon
  <2> HIDE DEF count
  <2> QED BY <2>1, Zenon
<1> QED BY <1>3, Zenon DEF Cardinality

(* manager_cleanup_policy lets go of dispensable releases only: a retained *)
(* release stands between the current one and any other that goes.         *)
LEMMA DeletableIsSpent ==
    ASSUME CleanupInv, policy.keep # 0
    PROVE  Deletable \subseteq SpentIn(deps, node.cur)
<1> SUFFICES ASSUME NEW r \in Deletable PROVE r \in SpentIn(deps, node.cur)
  BY Zenon
<1>1. /\ deps \in Seq(Deployments) /\ node.cur \in Nat /\ policy.keep \in Nat
      /\ \A s \in DOMAIN deps : deps[s].st = "succeeded" => s <= node.cur
  BY Zenon DEF CleanupInv, CatalogFits
<1>2. r \in Catalog /\ r \in DOMAIN deps /\ r \notin Protected
  BY Zenon DEF Deletable, Catalog
<1>3. deps[r].st \in {"pending", "succeeded", "abandoned"} /\ r \in Nat \ {0}
  <2>1. deps[r] \in Deployments /\ r \in 1..Len(deps) /\ Len(deps) \in Nat
    BY <1>1, <1>2
  <2>2. \A d \in Deployments : d.st \in {"pending", "succeeded", "abandoned"}
    BY Zenon DEF Deployments
  <2> QED BY <2>1, <2>2
<1>4. deps[r].st # "pending" /\ r # node.cur /\ r \notin Retained
  BY <1>2, <1>3, Zenon DEF Protected
<1>5. CASE deps[r].st = "abandoned"
  BY <1>2, <1>5, Zenon DEF SpentIn
<1>6. CASE deps[r].st = "succeeded"
  <2> DEFINE past == {s \in Catalog : deps[s].st = "succeeded" /\ s # node.cur}
             later == {s \in past : s > r}
  <2>1. r \in past
    BY <1>2, <1>4, <1>6, Zenon
  <2>2. ~(Cardinality(later) < policy.keep)
    BY <1>4, <2>1, Zenon DEF Retained
  <2>3. later # {}
    <3>1. Cardinality({}) = 0
      BY NothingCounted, Zenon
    <3>2. 0 < policy.keep
      BY <1>1
    <3> HIDE DEF later
    <3> QED BY <2>2, <3>1, <3>2, Zenon
  <2>4. PICK s \in Catalog : deps[s].st = "succeeded" /\ s # node.cur /\ s > r
    BY <2>3, Zenon
  <2>5. s \in DOMAIN deps /\ s \in Nat /\ s <= node.cur
    BY <1>1, <2>4 DEF Catalog
  <2>6. r < s /\ s < node.cur
    BY <1>1, <1>3, <2>4, <2>5
  <2> QED BY <1>2, <1>6, <2>4, <2>5, <2>6, Zenon DEF SpentIn
<1> QED BY <1>3, <1>4, <1>5, <1>6, Zenon

(* reconcile_node_cleanup_batch authorises dispensable releases only. *)
LEMMA MaterializedFits ==
    ASSUME CleanupInv, policy.keep # 0, NEW row, CleanRow(row)
    PROVE  /\ CleanRow(Materialized(row))
           /\ Materialized(row).del \subseteq SpentIn(deps, node.cur)
<1> DEFINE dels == Candidates(row)
<1>1. dels \subseteq SpentIn(deps, node.cur) /\ dels \subseteq row.known
  BY DeletableIsSpent, Zenon DEF Candidates
<1>2. row.known \subseteq Nat
  BY Zenon DEF CleanRow
<1>3. Materialized(row) =
        IF row.scanned = "yes" /\ dels = {}
        THEN [row EXCEPT !.st = "clean", !.seen = Fingerprint, !.del = {}, !.inv = {}]
        ELSE [row EXCEPT !.st = "pending", !.seen = Fingerprint, !.del = dels, !.inv = row.known]
  BY Zenon DEF Materialized
<1> HIDE DEF dels
<1>4. CASE row.scanned = "yes" /\ dels = {}
  BY <1>3, <1>4, Zenon DEF CleanRow
<1>5. CASE ~(row.scanned = "yes" /\ dels = {})
  BY <1>1, <1>2, <1>3, <1>5, Zenon DEF CleanRow
<1> QED BY <1>4, <1>5, Zenon

(* Steps that touch neither the catalog nor the host. *)
LEMMA AuthorityMoves ==
    ASSUME CleanupInv, UNCHANGED <<deps, node, op, disk, broken, sel>>,
           policy'.keep \in Nat,
           AuthorityFits(deps, node, clean', agent')
    PROVE  CleanupInv'
BY Zenon DEF CleanupInv

(* reconcile_node_cleanup_batch. *)
LEMMA ReconcileKeeps ==
    ASSUME CleanupInv, Reconcile
    PROVE  CleanupInv'
<1> DEFINE row == IF clean.st = "absent" THEN [clean EXCEPT !.st = "needs_reconcile"] ELSE clean
           S == SpentIn(deps, node.cur)
<1>1. /\ CleanRow(clean) /\ agent \in AgentWork /\ policy.keep \in Nat
      /\ clean.del \subseteq S /\ agent.del \subseteq S /\ agent.left \subseteq S
  BY Zenon DEF CleanupInv, AuthorityFits
<1>2. CleanRow(row) /\ row.del = clean.del
  BY <1>1, Zenon DEF CleanRow
<1>3. /\ UNCHANGED <<deps, node, op, disk, broken, sel>> /\ policy' = policy
      /\ \/ clean' = Without(row, "paused") /\ agent' = agent
         \/ /\ policy.keep # 0 /\ clean' = Materialized(Fenced(row))
            /\ agent' = [agent EXCEPT !.held = "no"]
         \/ clean' = row /\ agent' = agent
         \/ policy.keep # 0 /\ clean' = Materialized(row) /\ agent' = agent
  BY Zenon DEF Reconcile, dbVars, diskVars
<1> HIDE DEF row, S
<1>4. CleanRow(Without(row, "paused")) /\ Without(row, "paused").del = {}
  BY <1>2, WithoutFits, Zenon
<1>5. CleanRow(Fenced(row))
  BY <1>2, FencedFits, Zenon
<1>6. policy.keep # 0 => /\ CleanRow(Materialized(Fenced(row))) /\ Materialized(Fenced(row)).del \subseteq S
                         /\ CleanRow(Materialized(row)) /\ Materialized(row).del \subseteq S
  BY <1>2, <1>5, MaterializedFits, Zenon DEF S
<1>7. CleanRow(clean') /\ clean'.del \subseteq S
  BY <1>1, <1>2, <1>3, <1>4, <1>6, Zenon
<1>8. agent' \in AgentWork /\ agent'.del = agent.del /\ agent'.left = agent.left
  BY <1>1, <1>3, Zenon DEF AgentWork
<1>9. AuthorityFits(deps, node, clean', agent')
  BY <1>1, <1>7, <1>8, Zenon DEF AuthorityFits, S
<1> QED BY <1>1, <1>3, <1>9, AuthorityMoves, Zenon

(* put_agent_policy, retry_node_cleanup, claim_node_cleanup and the lease. *)
LEMMA ClaimKeeps ==
    ASSUME CleanupInv,
           \/ \E keep \in Retentions, changed \in {"yes", "no"} : PutPolicy(keep, changed)
           \/ RetryCleanup \/ ClaimCleanup \/ LeaseExpires \/ RenewalsMissed
    PROVE  CleanupInv'
<1> DEFINE S == SpentIn(deps, node.cur)
           taken == [clean EXCEPT !.st = "claimed", !.holder = "agent", !.lease = "live"]
           work == [Idle EXCEPT !.st = "claimed", !.held = "yes", !.del = clean.del]
           late == [clean EXCEPT !.lease = "expired"]
<1>1. /\ CleanRow(clean) /\ agent \in AgentWork /\ policy.keep \in Nat
      /\ clean.del \subseteq S /\ agent.del \subseteq S /\ agent.left \subseteq S
  BY Zenon DEF CleanupInv, AuthorityFits
<1> DEFINE Shape ==
             /\ UNCHANGED <<deps, node, op, disk, broken, sel>> /\ policy'.keep \in Nat
             /\ \/ Fence
                \/ clean' = clean /\ agent' = agent
                \/ clean' = taken /\ agent' = work
                \/ clean' = late /\ agent' = agent
<1>2. Shape
  <2>1. ASSUME NEW keep \in Retentions, NEW changed \in {"yes", "no"}, PutPolicy(keep, changed)
        PROVE  Shape
    BY <2>1, CleanupAssumption, Zenon DEF PutPolicy, diskVars
  <2>2. CASE RetryCleanup \/ ClaimCleanup \/ LeaseExpires \/ RenewalsMissed
    BY <1>1, <2>2, Zenon DEF RetryCleanup, ClaimCleanup, LeaseExpires, RenewalsMissed, dbVars, diskVars
  <2> QED BY <2>1, <2>2, Zenon
<1>3. CleanRow(taken) /\ taken.del = clean.del /\ CleanRow(late) /\ late.del = clean.del
  BY <1>1, Zenon DEF CleanRow
<1>4. work \in AgentWork /\ work.del = clean.del /\ work.left = {}
  <2>1. clean.del \subseteq Nat
    BY <1>1, Zenon DEF CleanRow
  <2> QED BY <2>1, Zenon DEF Idle, AgentWork
<1> HIDE DEF S, taken, work, late
<1>5. Fence => /\ CleanRow(clean') /\ clean'.del \subseteq clean.del
               /\ agent' \in AgentWork
               /\ agent'.del = agent.del /\ agent'.left = agent.left
  BY <1>1, FenceFits, Zenon
<1>6. AuthorityFits(deps, node, clean', agent')
  BY <1>1, <1>2, <1>3, <1>4, <1>5, Zenon DEF AuthorityFits, S
<1> QED BY <1>2, <1>6, AuthorityMoves, Zenon

(* report_node_cleanup_result, and the part of the agent's cleanup that    *)
(* removes nothing.                                                        *)
LEMMA ReportKeeps ==
    ASSUME CleanupInv,
           \/ \E answer \in {"received", "lost"} : Report(answer)
           \/ Scan \/ Deleted \/ ResultDropped
    PROVE  CleanupInv'
<1> DEFINE S == SpentIn(deps, node.cur)
           done == [Without(clean, "clean") EXCEPT !.seen = clean.seen, !.scanned = "yes",
                                                    !.known = agent.got]
           again == [Idle EXCEPT !.st = "report", !.sent = "yes"]
           scanned == [agent EXCEPT !.st = "delete", !.left = agent.del \cap disk,
                                    !.got = disk \ agent.del]
           failed == [agent EXCEPT !.st = "report", !.result = "failed"]
           ended == [agent EXCEPT !.st = "report"]
<1>1. /\ CleanRow(clean) /\ agent \in AgentWork /\ policy.keep \in Nat /\ disk \subseteq Nat
      /\ clean.del \subseteq S /\ agent.del \subseteq S /\ agent.left \subseteq S
  BY Zenon DEF CleanupInv, AuthorityFits, HostFits
<1> DEFINE Shape ==
             /\ UNCHANGED <<deps, node, op, policy, disk, broken, sel>>
             /\ clean' \in {clean, done, Without(clean, "paused")}
             /\ agent' \in {Idle, again, scanned, failed, ended}
<1>2. Shape
  <2>1. ASSUME NEW answer \in {"received", "lost"}, Report(answer)
        PROVE  Shape
    BY <2>1, Zenon DEF Report, diskVars
  <2>2. CASE Scan \/ Deleted \/ ResultDropped
    BY <2>2, Zenon DEF Scan, Deleted, ResultDropped, dbVars, diskVars
  <2> QED BY <2>1, <2>2, Zenon
<1>3. CleanRow(Without(clean, "paused")) /\ Without(clean, "paused").del = {}
  BY <1>1, WithoutFits, Zenon
<1>4. CleanRow(done) /\ done.del = {}
  <2>1. CleanRow(Without(clean, "clean")) /\ Without(clean, "clean").del = {}
    BY <1>1, WithoutFits, Zenon
  <2>2. agent.got \subseteq Nat
    BY <1>1, Zenon DEF AgentWork
  <2> QED BY <2>1, <2>2, Zenon DEF CleanRow
<1>5. /\ Idle \in AgentWork /\ Idle.del = {} /\ Idle.left = {}
      /\ again \in AgentWork /\ again.del = {} /\ again.left = {}
  BY Zenon DEF Idle, AgentWork
<1>6. /\ scanned \in AgentWork /\ scanned.del = agent.del /\ scanned.left \subseteq agent.del
      /\ failed \in AgentWork /\ failed.del = agent.del /\ failed.left = agent.left
      /\ ended \in AgentWork /\ ended.del = agent.del /\ ended.left = agent.left
  BY <1>1, Zenon DEF AgentWork
<1> HIDE DEF S, done, again, scanned, failed, ended
<1>7. CleanRow(clean') /\ clean'.del \subseteq S
  BY <1>1, <1>2, <1>3, <1>4, Zenon
<1>8. agent' \in AgentWork /\ agent'.del \subseteq S /\ agent'.left \subseteq S
  BY <1>1, <1>2, <1>5, <1>6, Zenon
<1>9. AuthorityFits(deps, node, clean', agent')
  BY <1>7, <1>8, Zenon DEF AuthorityFits, S
<1> QED BY <1>1, <1>2, <1>9, AuthorityMoves, Zenon

(* The removal of an authorised release, its failures and the death of the *)
(* agent in the middle of it.                                              *)
LEMMA DeleteKeeps ==
    ASSUME CleanupInv,
           (\E r \in Revisions : Delete(r)) \/ HostError \/ AgentDies
    PROVE  CleanupInv'
<1> DEFINE S == SpentIn(deps, node.cur)
<1>1. /\ CleanRow(clean) /\ agent \in AgentWork /\ disk \subseteq Nat
      /\ clean.del \subseteq S /\ agent.del \subseteq S /\ agent.left \subseteq S
      /\ broken \subseteq S
  BY Zenon DEF CleanupInv, AuthorityFits, HostFits
<1>2. /\ op \in [st : {"none", "active", "failed"}, src : Nat, rev : Nat]
      /\ sel \subseteq {node.cur, IF op.st = "active" THEN op.rev ELSE node.cur} \ {0}
  BY Zenon DEF CleanupInv, CatalogFits, HostFits
<1>3. ASSUME NEW r \in Revisions, Delete(r)
      PROVE  CleanupInv'
  <2>1. /\ UNCHANGED <<deps, node, op, policy, clean, sel>> /\ r \in agent.left
        /\ disk' = disk \ {r} /\ broken' = broken \ {r}
        /\ agent' = [agent EXCEPT !.left = agent.left \ {r}]
    BY <1>3, Zenon DEF Delete, dbVars
  <2>2. agent' \in AgentWork /\ agent'.del = agent.del /\ agent'.left = agent.left \ {r}
    BY <1>1, <2>1, Zenon DEF AgentWork
  <2>3. r \notin KeptIn(deps, node.cur)
    BY <1>1, <2>1, Zenon DEF KeptIn
  <2> HIDE DEF S
  <2>4. AuthorityFits(deps, node, clean', agent')
    BY <1>1, <2>1, <2>2, Zenon DEF AuthorityFits, S
  <2>5. broken' \subseteq SpentIn(deps, node.cur) /\ disk' \subseteq Nat
    BY <1>1, <2>1, Zenon DEF S
  <2> QED BY <1>2, <2>1, <2>3, <2>4, <2>5, HostSteps, Zenon
<1>4. CASE HostError \/ AgentDies
  <2> DEFINE failed == [agent EXCEPT !.st = "report", !.result = "failed", !.left = {}]
             orphan == [clean EXCEPT !.holder = "dead"]
  <2>1. /\ UNCHANGED <<deps, node, op, policy, disk, sel>> /\ CutShort
        /\ clean' \in {clean, orphan} /\ agent' \in {failed, Idle}
    BY <1>4, Zenon DEF HostError, AgentDies, dbVars
  <2>2. CleanRow(orphan) /\ orphan.del = clean.del
    BY <1>1, Zenon DEF CleanRow
  <2>3. /\ failed \in AgentWork /\ failed.del = agent.del /\ failed.left = {}
        /\ Idle \in AgentWork /\ Idle.del = {} /\ Idle.left = {}
    BY <1>1, Zenon DEF AgentWork, Idle
  <2> HIDE DEF S, failed, orphan
  <2>4. AuthorityFits(deps, node, clean', agent')
    BY <1>1, <2>1, <2>2, <2>3, Zenon DEF AuthorityFits, S
  <2>5. broken' \subseteq SpentIn(deps, node.cur)
    BY <1>1, <2>1, Zenon DEF CutShort, S
  <2> QED BY <1>1, <1>2, <2>1, <2>4, <2>5, HostSteps, Zenon
<1> QED BY <1>3, <1>4, Zenon

(* Nothing is allocated, stored or authorised at first.                    *)
LEMMA CleanupStarts == Init => CleanupInv
<1> SUFFICES ASSUME Init PROVE CleanupInv
  BY Zenon
<1>1. deps = <<>> /\ deps \in Seq(Deployments) /\ DOMAIN deps = {}
  BY DEF Init
<1>2. /\ node \in [cur : Nat, tgt : Nat] /\ node.cur = 0 /\ node.tgt = 0
      /\ op \in [st : {"none", "active", "failed"}, src : Nat, rev : Nat] /\ op.st = "none"
  BY Zenon DEF Init
<1>3. CatalogFits(deps, node, op)
  BY <1>1, <1>2, Zenon DEF CatalogFits
<1>4. HostFits(deps, node, op, disk, broken, sel)
  BY <1>1, Zenon DEF Init, HostFits, KeptIn
<1>5. AuthorityFits(deps, node, clean, agent)
  BY Zenon DEF Init, AuthorityFits, NoRow, Idle, CleanRow, AgentWork
<1>6. policy.keep \in Nat
  BY Zenon DEF Init
<1> QED BY <1>3, <1>4, <1>5, <1>6, Zenon DEF CleanupInv

(* Every step of the managers, of wr-cli and of the agent keeps the        *)
(* invariant.                                                              *)
LEMMA CleanupKeeps == CleanupInv /\ [Next]_vars => CleanupInv'
<1> SUFFICES ASSUME CleanupInv, [Next]_vars PROVE CleanupInv'
  BY Zenon
<1>1. CASE UNCHANGED vars
  BY <1>1, Zenon DEF vars, diskVars, CleanupInv
<1>2. CASE Next
  BY <1>2, ReconcileKeeps, ClaimKeeps, ReportKeeps, DeleteKeeps, BeginKeeps, ReleaseKeeps,
     FinalizeKeeps, AbandonKeeps, SubmitKeeps, CommitKeeps, Zenon DEF Next, CleanupStep
<1> QED BY <1>1, <1>2, Zenon

(* The invariant gives NeededIsKept: the current release, the source and   *)
(* the target of an operation, what is staged, what the host selects and   *)
(* the latest former release are none of them dispensable.                 *)
LEMMA CleanupKeepsNeeded == CleanupInv => NeededIsKept
<1> SUFFICES ASSUME CleanupInv PROVE NeededIsKept
  BY Zenon
<1> DEFINE former == {r \in DOMAIN deps : deps[r].st = "succeeded" /\ r < node.cur}
           latest == {r \in former : \A s \in former : s <= r}
           staged == {r \in DOMAIN deps : deps[r].st = "pending" /\ deps[r].fin = "yes"}
           rollout == IF op.st = "active" THEN {op.src, op.rev} ELSE {}
           K == KeptIn(deps, node.cur)
<1>1. CatalogFits(deps, node, op) /\ HostFits(deps, node, op, disk, broken, sel)
  BY Zenon DEF CleanupInv
<1>2. node.cur \in Nat /\ (\A r \in DOMAIN deps : r \in Nat)
  BY <1>1 DEF CatalogFits
<1>3. K \subseteq disk \ broken
  BY <1>1, Zenon DEF HostFits, KeptIn
<1>4. staged \subseteq K
  BY Zenon DEF KeptIn, SpentIn
<1>5. latest \subseteq K
  <2> SUFFICES ASSUME NEW r \in latest PROVE r \in K
    BY Zenon
  <2>1. r \in DOMAIN deps /\ deps[r].st = "succeeded" /\ (\A s \in former : s <= r)
    BY Zenon
  <2>2. ASSUME NEW s \in DOMAIN deps, deps[s].st = "succeeded", r < s, s < node.cur
        PROVE  FALSE
    <3>1. s \in former
      BY <2>2, Zenon
    <3>2. s <= r
      BY <2>1, <3>1, Zenon
    <3> QED BY <1>2, <2>1, <2>2, <3>2
  <2> QED BY <2>1, <2>2, Zenon DEF KeptIn, SpentIn
<1>6. {node.cur} \ {0} \subseteq K
  BY <1>1, <1>2 DEF CatalogFits, KeptIn, SpentIn
<1>7. op.st = "active" => op.src = node.cur /\ op.rev \in K
  BY <1>1, Zenon DEF CatalogFits, KeptIn, SpentIn
<1>8. rollout \ {0} \subseteq K
  BY <1>6, <1>7, Zenon
<1>9. sel \subseteq K
  BY <1>1, <1>6, <1>7, Zenon DEF HostFits
<1> HIDE DEF K, former, latest, staged, rollout
<1>10. (({node.cur} \cup rollout) \ {0}) \cup staged \cup latest \cup sel \subseteq disk \ broken
  BY <1>3, <1>4, <1>5, <1>6, <1>8, <1>9, Zenon
<1> QED BY <1>10, Zenon DEF NeededIsKept, former, latest, staged, rollout

(* Cleanup never takes a needed release (operations.rs                     *)
(* manager_cleanup_policy and report_node_cleanup_result, node_backend.rs  *)
(* cleanup): for any number of revisions, policies and faults, whatever    *)
(* authority is executed late, lost or repeated.                           *)
THEOREM CleanupTakesNothingNeeded == Spec => []NeededIsKept
<1> QED BY CleanupStarts, CleanupKeeps, CleanupKeepsNeeded, PTL DEF Spec

(* The staged target of a node is its only open allocation (operations.rs  *)
(* begin_deployment, abandon_deployment and the commit): for any number of *)
(* revisions.                                                              *)
THEOREM OneOpenAllocation == Spec => []StagedIsPending
<1>1. CleanupInv => StagedIsPending
  BY DEF CleanupInv, CatalogFits, StagedIsPending
<1> QED BY <1>1, CleanupStarts, CleanupKeeps, PTL DEF Spec
=============================================================================
