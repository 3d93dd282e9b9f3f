--------------------------- MODULE ReleaseCleanup ---------------------------
(***************************************************************************)
(* The releases of one node: how revisions are allocated, put on the host, *)
(* submitted, committed, rolled back and abandoned, and how releases that  *)
(* are no longer needed are deleted from the host by cleanup work that the *)
(* manager authorises and the node agent executes.                         *)
(*                                                                         *)
(* The manager's half is the rows wr_nodes, wr_node_deployments,           *)
(* wr_node_release_cleanup and wr_node_release_deletions; every action on  *)
(* them is one transaction.  The operator's half is wr-cli, which talks to *)
(* the manager and, over ssh, to the host in separate steps.  The rollout  *)
(* itself is the subject of NodeOperation; here an operation is active,    *)
(* then commits or ends with its source restored.                          *)
(*                                                                         *)
(* A release is named by its revision.  Its identity in the catalog is     *)
(* complete once the deployment is finalized, so "finalized or not" stands *)
(* for the comparison of digests.  Deployment state active is merged with  *)
(* pending: nothing here tells them apart.                                 *)
(***************************************************************************)
EXTENDS Naturals, Sequences, FiniteSets

CONSTANTS
    MaxRev,         \* revisions allocated for the node
    Retentions,     \* retention counts an operator may put
    MaxPolicies,    \* policy updates
    MaxFaults       \* agent deaths, host errors and missed renewals

ASSUME CleanupAssumption ==
    /\ MaxRev \in Nat /\ MaxPolicies \in Nat /\ MaxFaults \in Nat
    /\ Retentions \subseteq Nat \ {0}

VARIABLES
    deps,       \* wr_node_deployments: the allocation of each revision
    node,       \* wr_nodes: current_revision and target_revision (0: none)
    op,         \* the latest deployment operation of the node
    policy,     \* wr_node_agent_policies: retention (0: no row), updates made
    clean,      \* wr_node_release_cleanup: the node's cleanup row
    gone,       \* wr_node_release_deletions
    disk,       \* release directories on the host
    rooted,     \* the release directory exists on the host
    broken,     \* releases whose removal was cut short
    sel,        \* revisions the host's slots and proxy select
    agent,      \* the cleanup work in the node agent's hands
    faults

dbVars == <<deps, node, op, policy, gone>>
diskVars == <<rooted, disk, broken, sel>>
vars == <<deps, node, op, policy, clean, gone, diskVars, agent, faults>>

Revisions == 1 .. MaxRev

Idle == [st |-> "idle", held |-> "no", del |-> {}, left |-> {}, got |-> {},
         result |-> "ok", sent |-> "no"]

(* scanned and known are the column known_inventory: NULL, or the          *)
(* inventory of the last accepted report.  del and inv are the payload of  *)
(* the authority.  The generation, lease epoch and claim instance are only *)
(* ever compared with those of the work the agent holds, and never return  *)
(* to an earlier value: agent.held says whether they still agree.          *)
NoRow == [st |-> "absent", seen |-> <<>>, del |-> {}, inv |-> {},
          holder |-> "none", lease |-> "none", scanned |-> "no", known |-> {}]

Init ==
    /\ deps = <<>>
    /\ node = [cur |-> 0, tgt |-> 0]
    /\ op = [st |-> "none", src |-> 0, rev |-> 0]
    /\ policy = [keep |-> 0, puts |-> 0]
    /\ clean = NoRow
    /\ gone = {}
    /\ rooted = "no" /\ disk = {} /\ broken = {} /\ sel = {}
    /\ agent = Idle
    /\ faults = 0

-----------------------------------------------------------------------------
(* manager_cleanup_policy *)

Catalog == DOMAIN deps \ gone

\* Defect: the current revision is counted among the retained ones.
RetainedWithCurrent ==
    LET past == {r \in Catalog : deps[r].st = "succeeded"}
    IN  {r \in past : Cardinality({s \in past : s > r}) < policy.keep} \ {node.cur}

(* The newest retention_count historical releases. *)
Retained ==
    LET past == {r \in Catalog : deps[r].st = "succeeded" /\ r # node.cur}
    IN  {r \in past : Cardinality({s \in past : s > r}) < policy.keep}

(* Revisions observed on the host and revisions with slot authority are    *)
(* protected too.  Both are the source or the target of an active          *)
(* operation, and the current revision once it has ended.                  *)
Protected ==
    (({node.cur, node.tgt}
        \cup IF op.st = "active" THEN {op.src, op.rev} ELSE {}) \ {0})
        \cup Retained
        \cup {r \in Catalog : deps[r].st = "pending"}

Deletable == Catalog \ Protected

Fingerprint ==
    <<policy.keep, Protected, {<<r, deps[r].fin>> : r \in Catalog}>>

(* A row without authority.  What the code leaves in the columns that are  *)
(* written before they are read again is not kept.                         *)
Without(row, st) ==
    [row EXCEPT !.st = st, !.seen = <<>>, !.del = {}, !.inv = {},
                !.holder = "none", !.lease = "none"]

(* fence_cleanup_authority.  It touches nothing before the first           *)
(* reconciliation has created the row.                                     *)
Fenced(row) ==
    IF row.st = "absent" THEN row ELSE Without(row, "needs_reconcile")

Fence ==
    /\ clean' = Fenced(clean)
    /\ agent' = [agent EXCEPT !.held = "no"]

-----------------------------------------------------------------------------
(* Allocation, by the operator's wr-cli *)

Allocate(source) ==
    /\ node.tgt = 0
    /\ Len(deps) < MaxRev
    /\ deps' = Append(deps, [st |-> "pending", fin |-> "no", bound |-> "no",
                             from |-> source])
    /\ node' = [node EXCEPT !.tgt = Len(deps) + 1]

(* begin_deployment: refused while a target is staged.  A retry with the   *)
(* same attempt token returns the allocation it made and changes nothing.  *)
BeginDeployment ==
    /\ Allocate(0)
    /\ Fence
    /\ UNCHANGED <<op, policy, gone, diskVars, faults>>

(* begin_rollback: a new revision from a successful earlier one.  The      *)
(* cleanup authority is not fenced.                                        *)
BeginRollback(source) ==
    /\ source \in DOMAIN deps
    /\ deps[source].st = "succeeded"
    /\ source < node.cur
    /\ Allocate(source)
    /\ UNCHANGED <<op, policy, clean, gone, diskVars, agent, faults>>

(* finalize_remote_release, or the copy of the source made by a rollback:  *)
(* the directory appears on the host under its final name.  wr-cli gets    *)
(* here with the allocation begin_deployment returned, a retried one       *)
(* included, whatever has become of it since.                              *)
Materialize(r) ==
    /\ r \in DOMAIN deps \ disk
    /\ deps[r].from # 0 => deps[r].from \in disk \ broken
    /\ rooted' = "yes"
    /\ disk' = disk \cup {r}
    /\ UNCHANGED <<dbVars, clean, broken, sel, agent, faults>>

(* finalize_deployment, called once the release is on the host. *)
FinalizeDeployment(r) ==
    /\ r \in DOMAIN deps \cap disk
    /\ deps[r].st # "abandoned" /\ deps[r].fin = "no" /\ deps[r].bound = "no"
    /\ deps' = [deps EXCEPT ![r].fin = "yes"]
    /\ Fence
    /\ UNCHANGED <<node, op, policy, gone, diskVars, faults>>

(* abandon_deployment: only an allocation that was never submitted, which  *)
(* therefore has neither registrations nor slot authority.                 *)
AbandonDeployment(r) ==
    /\ r \in DOMAIN deps
    /\ deps[r].st = "pending" /\ deps[r].bound = "no"
    /\ deps' = [deps EXCEPT ![r].st = "abandoned"]
    /\ node' = [node EXCEPT !.tgt = IF @ = r THEN 0 ELSE @]
    /\ Fence
    /\ UNCHANGED <<op, policy, gone, diskVars, faults>>

(* The rest of wr-cli node abandon: the directory is removed if its        *)
(* digests are the ones the manager returned, which an allocation that was *)
(* never finalized does not have.                                          *)
AbandonBytes(r) ==
    /\ r \in DOMAIN deps \cap disk
    /\ deps[r].st = "abandoned" /\ deps[r].fin = "yes"
    /\ disk' = disk \ {r}
    /\ broken' = broken \ {r}
    /\ UNCHANGED <<rooted, dbVars, clean, sel, agent, faults>>

-----------------------------------------------------------------------------
(* The operation around the releases *)

(* submit, for a deployment or a rollback. *)
Submit(r) ==
    /\ r = node.tgt /\ r # 0
    /\ op.st # "active"
    /\ deps[r].st = "pending" /\ deps[r].fin = "yes" /\ deps[r].bound = "no"
    /\ deps' = [deps EXCEPT ![r].bound = "yes"]
    /\ op' = [st |-> "active", src |-> node.cur, rev |-> r]
    /\ Fence
    /\ UNCHANGED <<node, policy, gone, diskVars, faults>>

(* select_release on the host, part of the rollout.  An agent only gets    *)
(* work under a policy, and runs one instruction at a time: no cleanup is  *)
(* in its hands.                                                           *)
Select ==
    /\ op.st = "active" /\ agent.st = "idle" /\ policy.keep # 0
    /\ op.rev \in disk \ broken
    /\ sel' = sel \cup {op.rev}
    /\ UNCHANGED <<rooted, dbVars, clean, disk, broken, agent, faults>>

(* The commit of reconcile. *)
Commit ==
    /\ op.st = "active" /\ op.rev \in sel
    /\ op' = [st |-> "none", src |-> 0, rev |-> 0]
    /\ node' = [cur |-> op.rev, tgt |-> 0]
    /\ deps' = [deps EXCEPT ![op.rev].st = "succeeded"]
    /\ sel' = {op.rev}
    /\ Fence
    /\ UNCHANGED <<rooted, policy, gone, disk, broken, faults>>

(* The end of a restoration: the operation is failed or cancelled.  The    *)
(* node and the deployment are left as they are.                           *)
Restored ==
    /\ op.st = "active" /\ agent.st = "idle"
    /\ op' = [op EXCEPT !.st = "failed"]
    /\ sel' = {op.src} \ {0}
    /\ UNCHANGED <<rooted, deps, node, policy, clean, gone, disk, broken, agent, faults>>

(* put_agent_policy.  Cleanup is fenced when the binary, the protocol or   *)
(* the capabilities of an existing policy change; the retention count is   *)
(* not one of them.                                                        *)
PutPolicy(keep, changed) ==
    /\ policy.puts < MaxPolicies
    /\ policy' = [keep |-> keep, puts |-> policy.puts + 1]
    /\ IF changed = "yes" /\ policy.keep # 0 THEN Fence ELSE UNCHANGED <<clean, agent>>
    /\ UNCHANGED <<deps, node, op, gone, diskVars, faults>>

-----------------------------------------------------------------------------
(* Cleanup, at the manager *)

(* What the last inventory holds that the policy lets go.  The identities  *)
(* are compared whole, so a release that was never finalized never matches *)
(* its catalog entry.                                                      *)
Candidates(row) == {r \in row.known \cap Deletable : deps[r].fin = "yes"}

\* Defect: an expired claim is left alone.
ObsoleteByPolicy(row) ==
    row.st # "needs_reconcile" /\ row.seen # Fingerprint

Obsolete(row) ==
    /\ row.st # "needs_reconcile"
    /\ \/ row.seen # Fingerprint
       \/ row.st = "claimed" /\ row.lease = "expired"

(* reconcile_node_cleanup_batch, run periodically by every manager.  A     *)
(* node with no inventory yet gets an authority with empty lists, whose    *)
(* execution only reports what is on the host.                             *)
Materialized(row) ==
    IF row.scanned = "yes" /\ Candidates(row) = {}
    THEN [row EXCEPT !.st = "clean", !.seen = Fingerprint, !.del = {}, !.inv = {}]
    ELSE [row EXCEPT !.st = "pending", !.seen = Fingerprint,
                     !.del = Candidates(row), !.inv = row.known]

Reconcile ==
    /\ policy.keep # 0 \/ deps # <<>>
    /\ clean.st # "paused"
    /\ LET row == IF clean.st = "absent" THEN [clean EXCEPT !.st = "needs_reconcile"]
                                         ELSE clean
       IN  IF policy.keep = 0
           THEN clean' = Without(row, "paused") /\ UNCHANGED agent
           ELSE IF Obsolete(row)
           THEN /\ clean' = Materialized(Fenced(row))
                /\ agent' = [agent EXCEPT !.held = "no"]
           ELSE /\ clean' = IF row.st \in {"pending", "claimed"} THEN row
                                                              ELSE Materialized(row)
                /\ UNCHANGED agent
    /\ UNCHANGED <<dbVars, diskVars, faults>>

(* retry_node_cleanup, by the operator. *)
RetryCleanup ==
    /\ clean.st = "paused"
    /\ Fence
    /\ UNCHANGED <<dbVars, diskVars, faults>>

(* claim_node_cleanup.  The policy is evaluated again: if it has changed,  *)
(* the authority is fenced instead of delivered.  A claim that is live and *)
(* the agent's own is delivered again, with a new lease.                   *)
ClaimCleanup ==
    /\ agent.st = "idle"
    /\ policy.keep # 0
    /\ \/ clean.st = "pending"
       \/ clean.st = "claimed" /\ clean.holder = "agent" /\ clean.lease = "live"
    /\ IF clean.seen # Fingerprint
       THEN Fence
       ELSE /\ clean' = [clean EXCEPT !.st = "claimed", !.holder = "agent",
                                      !.lease = "live"]
            /\ agent' = [Idle EXCEPT !.st = "claimed", !.held = "yes",
                                     !.del = clean.del]
    /\ UNCHANGED <<dbVars, diskVars, faults>>

(* Nobody renews the lease: the agent is not executing the claim. *)
LeaseExpires ==
    /\ clean.st = "claimed" /\ clean.lease = "live"
    /\ clean.holder = "dead" \/ agent.st = "idle"
    /\ clean' = [clean EXCEPT !.lease = "expired"]
    /\ UNCHANGED <<dbVars, diskVars, agent, faults>>

(* The agent is executing it, and its renewals do not arrive. *)
RenewalsMissed ==
    /\ faults < MaxFaults
    /\ clean.st = "claimed" /\ clean.lease = "live" /\ agent.st # "idle"
    /\ clean' = [clean EXCEPT !.lease = "expired"]
    /\ faults' = faults + 1
    /\ UNCHANGED <<dbVars, diskVars, agent>>

(* execute_cleanup_fenced: a renewal fails, whatever the lease is.  The    *)
(* worker is awaited, but what it did is not reported.                     *)
ResultDropped ==
    /\ faults < MaxFaults
    /\ agent.st = "report" /\ agent.sent = "no"
    /\ agent' = Idle
    /\ faults' = faults + 1
    /\ UNCHANGED <<dbVars, clean, diskVars>>

(* report_node_cleanup_result.  A clean result must name exactly the       *)
(* releases issued, and an inventory equal to the issued one without them; *)
(* an authority with no inventory accepts any part of the catalog, as long *)
(* as every entry of the catalog has its complete identity.                *)
InventoryAccepted ==
    IF clean.inv = {}
    THEN agent.got \subseteq Catalog /\ \A r \in Catalog : deps[r].fin = "yes"
    ELSE agent.got = clean.inv \ clean.del

Current == agent.held = "yes" /\ clean.st = "claimed" /\ clean.lease = "live"

(* The acknowledgement may be lost: the agent repeats the report, and the  *)
(* stored receipt answers it.  A superseded or rejected report is dropped. *)
Report(answer) ==
    /\ agent.st = "report"
    /\ LET accepted == agent.sent = "no" /\ Current
                          /\ (agent.result = "ok" => InventoryAccepted)
       IN  /\ IF ~accepted
              THEN UNCHANGED <<clean, gone>>
              ELSE IF agent.result = "ok"
              THEN /\ clean' = [Without(clean, "clean") EXCEPT
                                  !.seen = clean.seen,
                                  !.scanned = "yes", !.known = agent.got]
                   /\ gone' = gone \cup agent.del
              ELSE clean' = Without(clean, "paused") /\ UNCHANGED gone
           /\ agent' = IF accepted /\ answer = "lost"
                       THEN [Idle EXCEPT !.st = "report", !.sent = "yes"] ELSE Idle
    /\ UNCHANGED <<deps, node, op, policy, diskVars, faults>>

-----------------------------------------------------------------------------
(* Cleanup, on the host *)

(* cleanup reads the selections and the whole release inventory, and       *)
(* fails if there is none yet, if an entry is damaged, or if a release it  *)
(* is to delete is selected.                                               *)
Scan ==
    /\ agent.st = "claimed"
    /\ agent' = IF rooted = "no" \/ broken # {} \/ agent.del \cap sel # {}
                THEN [agent EXCEPT !.st = "report", !.result = "failed"]
                ELSE [agent EXCEPT !.st = "delete", !.left = agent.del \cap disk,
                                   !.got = disk \ agent.del]
    /\ UNCHANGED <<dbVars, clean, diskVars, faults>>

(* remove_dir_all of one authorised release.  Losing the lease does not    *)
(* stop it: the blocking worker is awaited.                                *)
Delete(r) ==
    /\ agent.st = "delete" /\ r \in agent.left
    /\ disk' = disk \ {r}
    /\ broken' = broken \ {r}
    /\ agent' = [agent EXCEPT !.left = @ \ {r}]
    /\ UNCHANGED <<rooted, dbVars, clean, sel, faults>>

Deleted ==
    /\ agent.st = "delete" /\ agent.left = {}
    /\ agent' = [agent EXCEPT !.st = "report"]
    /\ UNCHANGED <<dbVars, clean, diskVars, faults>>

(* A removal cut short leaves part of one directory. *)
CutShort == broken' \in {broken} \cup {broken \cup {r} : r \in agent.left \cap disk}

(* The filesystem fails the scan or a removal. *)
HostError ==
    /\ faults < MaxFaults
    /\ agent.st \in {"claimed", "delete"}
    /\ CutShort
    /\ agent' = [agent EXCEPT !.st = "report", !.result = "failed", !.left = {}]
    /\ faults' = faults + 1
    /\ UNCHANGED <<rooted, dbVars, clean, disk, sel>>

(* The agent process dies; its successor is another activation. *)
AgentDies ==
    /\ faults < MaxFaults
    /\ agent.st # "idle"
    /\ CutShort
    /\ clean' = IF clean.holder = "agent" THEN [clean EXCEPT !.holder = "dead"] ELSE clean
    /\ agent' = Idle
    /\ faults' = faults + 1
    /\ UNCHANGED <<rooted, dbVars, disk, sel>>

-----------------------------------------------------------------------------

CleanupStep ==
    \/ Reconcile
    \/ ClaimCleanup
    \/ LeaseExpires
    \/ \E answer \in {"received", "lost"} : Report(answer)
    \/ Scan
    \/ \E r \in Revisions : Delete(r)
    \/ Deleted

Next ==
    \/ CleanupStep
    \/ BeginDeployment
    \/ \E r \in Revisions :
          \/ BeginRollback(r)
          \/ Materialize(r)
          \/ FinalizeDeployment(r)
          \/ AbandonDeployment(r)
          \/ AbandonBytes(r)
          \/ Submit(r)
    \/ Select
    \/ Commit
    \/ Restored
    \/ \E keep \in Retentions, changed \in {"yes", "no"} : PutPolicy(keep, changed)
    \/ RetryCleanup
    \/ RenewalsMissed
    \/ ResultDropped
    \/ HostError
    \/ AgentDies

Spec == Init /\ [][Next]_vars

(* The managers reconcile periodically, and a lease nobody renews expires. *)
(* Only what happens to the claim of a dead agent depends on it.           *)
HeldByDead == clean.holder = "dead"

FairSpec ==
    Spec /\ WF_vars(HeldByDead /\ Reconcile) /\ WF_vars(HeldByDead /\ LeaseExpires)

-----------------------------------------------------------------------------

DepType == [st : {"pending", "succeeded", "abandoned"}, fin : {"yes", "no"},
            bound : {"yes", "no"}, from : 0 .. MaxRev]

TypeOK ==
    /\ deps \in Seq(DepType) /\ Len(deps) <= MaxRev
    /\ node \in [cur : 0 .. MaxRev, tgt : 0 .. MaxRev]
    /\ op \in [st : {"none", "active", "failed"}, src : 0 .. MaxRev, rev : 0 .. MaxRev]
    /\ policy \in [keep : Retentions \cup {0}, puts : 0 .. MaxPolicies]
    /\ clean.st \in {"absent", "needs_reconcile", "pending", "claimed", "clean", "paused"}
    /\ clean.del \subseteq clean.inv /\ clean.inv \subseteq Revisions
    /\ clean.holder \in {"none", "agent", "dead"}
    /\ clean.lease \in {"none", "live", "expired"}
    /\ clean.scanned \in {"yes", "no"} /\ clean.known \subseteq Revisions
    /\ gone \subseteq DOMAIN deps
    /\ rooted \in {"yes", "no"}
    /\ broken \subseteq disk /\ disk \subseteq DOMAIN deps /\ sel \subseteq disk
    /\ agent \in [st : {"idle", "claimed", "delete", "report"}, held : {"yes", "no"},
                  del : SUBSET Revisions, left : SUBSET Revisions,
                  got : SUBSET Revisions, result : {"ok", "failed"},
                  sent : {"yes", "no"}]
    /\ faults \in 0 .. MaxFaults

(* Whatever authority is still being executed, lost or repeated, cleanup   *)
(* never takes a release that is needed: the current one, one that is      *)
(* staged, the source or target of an operation, one the host selects, or  *)
(* the latest former release, the one a rollback goes back to by default.  *)
NeededIsKept ==
    LET former == {r \in DOMAIN deps : deps[r].st = "succeeded" /\ r < node.cur}
        latest == {r \in former : \A s \in former : s <= r}
        staged == {r \in DOMAIN deps : deps[r].st = "pending" /\ deps[r].fin = "yes"}
        rollout == IF op.st = "active" THEN {op.src, op.rev} ELSE {}
    IN  (({node.cur} \cup rollout) \ {0}) \cup staged \cup latest \cup sel
            \subseteq disk \ broken

(* The staged target of a node is its only allocation that is neither      *)
(* committed nor abandoned: begin_deployment and begin_rollback test       *)
(* target_revision, the other transactions test the deployment's state.    *)
StagedIsPending ==
    {r \in DOMAIN deps : deps[r].st = "pending"} = {node.tgt} \ {0}

(* Deletion work is never held forever by an agent that stopped executing  *)
(* it: a claim that nobody renews is withdrawn by a later reconciliation.  *)
AbandonedClaimIsWithdrawn ==
    HeldByDead ~> ~HeldByDead

-----------------------------------------------------------------------------
(* Statements the code does not keep; README.md says how to see each fail. *)

(* An authority an agent is entitled to execute names no release that is   *)
(* protected: a transaction that protects a release fences the authority   *)
(* issued before it.                                                       *)
IssuedIsUnprotected ==
    clean.st = "claimed" /\ clean.lease = "live" => clean.del \cap Protected = {}

(* When an operation has failed or was cancelled and its source is         *)
(* restored, the node has no staged target, so that a corrected deployment *)
(* or a rollback can be allocated.                                         *)
FailureClearsTarget == op.st = "failed" => node.tgt # op.rev

=============================================================================
