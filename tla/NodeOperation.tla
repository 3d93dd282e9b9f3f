---------------------------- MODULE NodeOperation ----------------------------
(***************************************************************************)
(* The manager's durable record of one node operation and the transactions *)
(* of wr-manager/src/operations.rs that move it.  Each transaction is a    *)
(* function of the database d: they all take the row lock of               *)
(* wr_manager_lock first, so they are atomic and totally ordered whichever *)
(* manager runs them.                                                      *)
(*                                                                         *)
(* The targets of an operation are the proxy and the engine slots, which   *)
(* are numbered by rollout_order.  Source and Target give the revision a   *)
(* target is moved from and to, 0 being none.  The backend and the process *)
(* identity of an activation are one number, 0 when unknown.  Timestamps   *)
(* are abstracted to the comparisons the code makes with them.  rows holds *)
(* the engine registrations of a slot and revision: "fresh" and "late" are *)
(* a living engine's, with a heartbeat inside and outside the freshness    *)
(* window; "dead" and "stale" are the same for engines that died.          *)
(***************************************************************************)
EXTENDS Naturals, FiniteSets

VARIABLE
    plan    \* the submitted operation; it never changes

Slots == plan.slots                   \* engine slots, numbered by rollout_order
Source == plan.source                 \* revision each target has before
Target == plan.target                 \* revision each target has after
Affected == plan.affected             \* targets it moves; the others are complete
MaxUnavailable == plan.maxUnavailable \* RolloutPolicy.max_unavailable
AllowDowntime == plan.allowDowntime   \* RolloutPolicy.allow_downtime, "yes" or "no"

Proxy == 0
Targets == Slots \cup {Proxy}

(* What submit accepts.  A restart moves one slot of the committed         *)
(* deployment and leaves the proxy alone; a deployment or rollback moves   *)
(* the proxy and every slot of either inventory to a revision of its own.  *)
(* Additions are numbered before retained slots and removals come last;    *)
(* max_unavailable is at most the number of affected slots; and            *)
(* withdrawing the last source slot needs allow_downtime.                  *)
Transition(s) ==
    IF Source[s] = 0 THEN "addition"
    ELSE IF Target[s] = 0 THEN "removal"
    ELSE IF Source[s] = Target[s] THEN "restart" ELSE "replacement"

RolloutGroup(s) ==
    CASE Transition(s) = "addition" -> 0
      [] Transition(s) = "removal" -> 2
      [] OTHER -> 1

IsRestart ==
    /\ Source = Target /\ \A s \in Slots : Source[s] # 0
    /\ \E s \in Slots : Affected = {s}

IsDeployment ==
    /\ Target[Proxy] \notin {0, Source[Proxy]}
    /\ \A s \in Slots : Target[s] \in {0, Target[Proxy]} /\ {Source[s], Target[s]} # {0}
    /\ Affected = Targets

WithdrawsLastSource ==
    LET had == {s \in Slots : Source[s] # 0}
    IN IF IsRestart THEN Cardinality(had) = 1
       ELSE had # {} /\ \A s \in Slots : Target[s] = 0

Accepted ==
    /\ Slots \subseteq Nat \ {0} /\ IsFiniteSet(Slots)
    /\ Source \in [Targets -> Nat] /\ Target \in [Targets -> Nat]
    /\ \A s \in Slots : Source[s] \in {0, Source[Proxy]}
    /\ IsRestart \/ IsDeployment
    /\ \A s, c \in Slots : RolloutGroup(s) < RolloutGroup(c) => s < c
    /\ MaxUnavailable \in Nat \ {0}
    /\ Affected \subseteq {Proxy} \/ MaxUnavailable <= Cardinality(Affected \ {Proxy})
    /\ AllowDowntime \in {"yes", "no"}
    /\ WithdrawsLastSource => AllowDowntime = "yes"

Revs == {Source[t] : t \in Targets} \cup {Target[t] : t \in Targets}

Mutating == {"stop", "select", "start", "restore"}
Steps == Mutating \cup {"verify_release", "verify_target", "switch",
                        "verify_serving", "verify_proxy", "complete"}

(* The record agents write with report_observation.  "post" tells whether  *)
(* it was received after the delivery of the slot's outstanding effect.    *)
ObsType == [epoch : Nat, st : {"none", "running", "exited", "error"},
            rev : Nat, inst : Nat, ready : {"yes", "no"},
            age : {"fresh", "old"}, post : {"yes", "no"}]

DbType == [st : {"queued", "running", "paused", "succeeded", "failed", "cancelled"},
           phase : {"forward", "restoring", "complete"},
           epoch : Nat, agent : Nat, lease : {"none", "held", "lapsed"},
           term : {"none", "failed", "cancelled"},
           step : [Targets -> Steps], pin : [Targets -> Nat], shown : [Targets -> Nat],
           changed : SUBSET Targets, ambiguous : SUBSET Targets,
           delivered : SUBSET Targets, reported : SUBSET Targets,
           failed : SUBSET Targets, obs : [Slots -> ObsType],
           auth : [Slots -> Nat], serving : [Slots -> Nat],
           rows : [Slots -> [Revs -> SUBSET {"fresh", "late", "dead", "stale"}]]]

FirstStep(t) ==
    CASE t \notin Affected -> "complete"
      [] t = Proxy -> IF Source[t] = 0 THEN "select" ELSE "verify_target"
      [] OTHER -> IF Transition(t) \in {"addition", "replacement"}
                  THEN "verify_release" ELSE "verify_target"

(* next_forward_step, with the two successors of verify_target, which      *)
(* reconcile_slot chooses itself, left to VerifyTarget below.              *)
NextStep(s, step) ==
    CASE step = "verify_release" ->
           IF Transition(s) = "addition" THEN "select" ELSE "verify_target"
      [] step = "stop" ->
           IF Transition(s) = "removal" THEN "switch"
           ELSE IF Transition(s) = "restart" THEN "start" ELSE "select"
      [] step = "select" -> "start"
      [] step = "start" -> "verify_target"
      [] step = "switch" ->
           IF Transition(s) = "removal" THEN "complete" ELSE "verify_serving"
      [] OTHER -> "complete"

NoObs == [epoch |-> 0, st |-> "none", rev |-> 0, inst |-> 0, ready |-> "no",
          age |-> "old", post |-> "no"]

(* What submit writes for a fresh operation, over the node it finds: every *)
(* source slot registered, selected and serving.                           *)
Submitted ==
    [st |-> "queued", phase |-> "forward", epoch |-> 0, agent |-> 0,
     lease |-> "none", term |-> "none",
     step |-> [t \in Targets |-> FirstStep(t)],
     pin |-> [t \in Targets |-> 0], shown |-> [t \in Targets |-> 0],
     changed |-> {}, ambiguous |-> {}, delivered |-> {}, reported |-> {},
     failed |-> {}, obs |-> [s \in Slots |-> NoObs],
     auth |-> [s \in Slots |-> Source[s]], serving |-> [s \in Slots |-> Source[s]],
     rows |-> [s \in Slots |-> [r \in Revs |->
                 IF r = Source[s] /\ r # 0 THEN {"fresh"} ELSE {}]]]

Active(d) == d.st \in {"queued", "running", "paused"}

-----------------------------------------------------------------------------

(* enter_restoration: the forward plan is abandoned.  Only targets with a  *)
(* proven or possible change have a source to restore.                     *)
\* Defect: only proven changes are restored.
EnterRestorationOfProven(d, term) ==
    [d EXCEPT !.st = "queued", !.phase = "restoring", !.term = term,
              !.agent = 0, !.lease = "none",
              !.step = [t \in Targets |-> IF t \in d.changed THEN "restore" ELSE "complete"],
              !.delivered = {}, !.reported = {}, !.failed = {},
              !.shown = [t \in Targets |-> 0]]

EnterRestoration(d, term) ==
    [d EXCEPT !.st = "queued", !.phase = "restoring", !.term = term,
              !.agent = 0, !.lease = "none",
              !.step = [t \in Targets |->
                          IF t \in d.changed \cup d.ambiguous THEN "restore" ELSE "complete"],
              !.delivered = {}, !.reported = {}, !.failed = {},
              !.shown = [t \in Targets |-> 0]]

Pause(d) == [d EXCEPT !.st = "paused", !.agent = 0, !.lease = "none"]

Ended(d, st) == [d EXCEPT !.st = st, !.phase = "complete", !.agent = 0, !.lease = "none"]

(* advance_slot *)
Advance(d, s, next) ==
    [d EXCEPT !.step[s] = next, !.ambiguous = @ \ {s}, !.delivered = @ \ {s},
              !.reported = @ \ {s}, !.shown[s] = 0]

(* Evidence shows that the delivered effect did not happen: deliver again. *)
\* Defect: the effect is cleared for delivery, but stays ambiguous.
RedeliverAmbiguous(d, s) == [d EXCEPT !.delivered = @ \ {s}]

Redeliver(d, s) == [d EXCEPT !.ambiguous = @ \ {s}, !.delivered = @ \ {s}]

(* switch_authority: select the revision, withdraw routes of every other.  *)
SwitchAuthority(d, s, r) ==
    [d EXCEPT !.auth[s] = r, !.serving[s] = IF @ = r THEN r ELSE 0]

(* matching_observation *)
Seen(d, s) ==
    /\ d.obs[s].st # "none"
    /\ d.obs[s].epoch = d.epoch
    /\ d.obs[s].age = "fresh"

(* observation_after_delivery *)
SeenAfter(d, s) == Seen(d, s) /\ s \in d.delivered /\ d.obs[s].post = "yes"

(* observation_ready: activation old is excluded, and the activation must  *)
(* be the reported one.                                                    *)
ReadyAt(d, s, r, old) ==
    /\ Seen(d, s)
    /\ d.obs[s].st = "running"
    /\ d.obs[s].ready = "yes"
    /\ d.obs[s].rev = r
    /\ d.obs[s].inst \notin {old} \ {0}
    /\ d.shown[s] \in {0, d.obs[s].inst}

(* exact_registration_count: one registration with a fresh heartbeat.      *)
RegisteredOnce(d, s, r) == Cardinality(d.rows[s][r] \cap {"fresh", "dead"}) = 1

(* slot_routes_healthy *)
RoutesHealthy(d, s, r) ==
    d.auth[s] = r /\ d.serving[s] = r /\ RegisteredOnce(d, s, r)

(* stop_preserves_availability: every slot at the revision it is entitled  *)
(* to, counted with and without slot s.                                    *)
EntitledTo(d, s) ==
    IF d.step[s] \in {"verify_serving", "complete"} THEN Target[s] ELSE Source[s]

\* Defect: the slot about to be stopped is counted as serving.
StopCountsItself(d, s) ==
    LET desired == {c \in Slots : EntitledTo(d, c) # 0}
        healthy == {c \in desired : RoutesHealthy(d, c, EntitledTo(d, c))}
    IN /\ AllowDowntime = "yes" \/ healthy # {}
       /\ Cardinality(desired \ healthy) <= MaxUnavailable

StopPreservesAvailability(d, s) ==
    LET desired == {c \in Slots : EntitledTo(d, c) # 0}
        healthy == {c \in desired \ {s} : RoutesHealthy(d, c, EntitledTo(d, c))}
    IN /\ AllowDowntime = "yes" \/ healthy # {}
       /\ Cardinality(desired \ healthy) <= MaxUnavailable

-----------------------------------------------------------------------------

(* exact_registration_absent *)
Unregistered(d, s, r) == d.rows[s][r] = {}

(* old_routes_non_serving *)
NonServing(d, s, r) == d.serving[s] # r

(* reconcile_slot while restoring: the source must be proven on the host   *)
(* before the slot gets its authority back, and its routes must have       *)
(* converged before the slot is done.  An ambiguous effect is inspected    *)
(* before it is undone.                                                    *)
SourceProven(d, s) ==
    IF Source[s] = 0
    THEN /\ Seen(d, s) /\ d.obs[s].st = "exited"
         /\ d.obs[s].rev = 0 /\ d.obs[s].inst # 0
         /\ Unregistered(d, s, Target[s])
    ELSE ReadyAt(d, s, Source[s], 0) /\ RegisteredOnce(d, s, Source[s])

Conclusive(d, s) ==
    Seen(d, s) /\ d.obs[s].st \in {"running", "exited"} /\ d.obs[s].inst # 0

RestoreSlot(d, s) ==
    CASE s \in d.failed -> Pause(d)
      [] s \notin d.failed /\ s \in d.ambiguous /\ Seen(d, s) /\ d.obs[s].st = "error" ->
           Pause(d)
      [] OTHER ->
           LET back == SwitchAuthority(d, s, Source[s])
           IN IF SourceProven(d, s)
              THEN IF Source[s] = 0 \/ RoutesHealthy(d, s, Source[s])
                   THEN Advance(back, s, "complete") ELSE back
              ELSE IF s \in d.ambiguous /\ Conclusive(d, s)
              THEN [Redeliver(d, s) EXCEPT !.changed = @ \cup {s}]
              ELSE d

(* reconcile_slot going forward, one operator per step that waits for      *)
(* evidence.                                                               *)
StopSlot(d, s) ==
    LET o == d.obs[s]
        gone == /\ o.st = "exited" /\ d.pin[s] # 0 /\ o.inst = d.pin[s]
                /\ Unregistered(d, s, Source[s])
                /\ NonServing(d, s, Source[s])
    IN IF ~SeenAfter(d, s) THEN d
       ELSE IF o.st = "running" /\ o.inst = d.pin[s] THEN Redeliver(d, s)
       ELSE IF ~gone THEN Pause(d)
       ELSE Advance([d EXCEPT !.changed = @ \cup {s}], s, NextStep(s, "stop"))

SelectSlot(d, s) ==
    LET o == d.obs[s]
        shows(r) == o.rev = r /\ o.st # "error"
    IN IF SeenAfter(d, s) /\ shows(Source[s]) THEN Redeliver(d, s)
       ELSE IF Seen(d, s) /\ shows(Target[s])
       THEN Advance([d EXCEPT !.changed = @ \cup {s}], s, NextStep(s, "select"))
       ELSE d

StartSlot(d, s) ==
    IF ReadyAt(d, s, Target[s], d.pin[s]) THEN Advance(d, s, NextStep(s, "start"))
    ELSE IF SeenAfter(d, s) /\ d.obs[s].st = "exited" /\ d.obs[s].rev = Target[s]
    THEN Redeliver(d, s)
    ELSE d

(* verify_target proves the source before it is stopped, while nothing is  *)
(* pinned, and the target after it was started.                            *)
ProvingSource(d, s) == Source[s] > 0 /\ d.pin[s] = 0

VerifyTargetSlot(d, s) ==
    LET source == ProvingSource(d, s)
        r == IF source THEN Source[s] ELSE Target[s]
        pinned == [d EXCEPT !.pin[s] = d.obs[s].inst]
    IN IF ~(ReadyAt(d, s, r, d.pin[s]) /\ RegisteredOnce(d, s, r))
       THEN IF Seen(d, s) /\ (d.obs[s].st = "error" \/ s \in d.reported)
            THEN Pause(d) ELSE d
       ELSE IF source
       THEN IF StopPreservesAvailability(d, s) THEN Advance(pinned, s, "stop") ELSE Pause(d)
       ELSE IF d.auth[s] = Target[s] /\ Source[s] # Target[s] THEN Pause(d)
       ELSE Advance(pinned, s, IF Source[s] = Target[s] THEN "verify_serving" ELSE "switch")

SwitchSlot(d, s) ==
    Advance([SwitchAuthority(d, s, Target[s]) EXCEPT !.changed = @ \cup {s}],
            s, NextStep(s, "switch"))

VerifyServingSlot(d, s) ==
    IF RoutesHealthy(d, s, Target[s]) THEN Advance(d, s, "complete") ELSE d

ForwardSlot(d, s) ==
    CASE s \in d.failed -> EnterRestoration(d, "failed")
      [] s \notin d.failed /\ d.step[s] = "verify_release" ->
           IF s \in d.reported THEN Advance(d, s, NextStep(s, "verify_release")) ELSE d
      [] s \notin d.failed /\ d.step[s] = "stop" -> StopSlot(d, s)
      [] s \notin d.failed /\ d.step[s] = "select" -> SelectSlot(d, s)
      [] s \notin d.failed /\ d.step[s] = "start" -> StartSlot(d, s)
      [] s \notin d.failed /\ d.step[s] = "verify_target" -> VerifyTargetSlot(d, s)
      [] s \notin d.failed /\ d.step[s] = "switch" -> SwitchSlot(d, s)
      [] s \notin d.failed /\ d.step[s] = "verify_serving" -> VerifyServingSlot(d, s)

(* reconcile: one step of the first incomplete slot.  The proxy goes first *)
(* unless an empty source is being restored.  With every target complete   *)
(* the operation ends: restored, or committed.                             *)
EnginesFirst(d) == d.phase = "restoring" /\ Source[Proxy] = 0

Incomplete(d) == {s \in Slots : d.step[s] # "complete"}

First(S) == CHOOSE s \in S : \A c \in S : s <= c

Reconciled(d) ==
    LET waitsForProxy == d.step[Proxy] # "complete"
    IN IF \/ d.st \notin {"queued", "running"}
          \/ waitsForProxy /\ ~EnginesFirst(d)
          \/ waitsForProxy /\ Incomplete(d) = {}
       THEN d
       ELSE IF Incomplete(d) # {}
       THEN IF d.phase = "restoring" THEN RestoreSlot(d, First(Incomplete(d)))
                                     ELSE ForwardSlot(d, First(Incomplete(d)))
       ELSE Ended(d, IF d.phase = "restoring" THEN d.term ELSE "succeeded")

-----------------------------------------------------------------------------

(* The instruction claim returns, or NoIns. *)
NoIns == [t |-> Proxy, step |-> "none", rev |-> 0, pin |-> 0, epoch |-> 0,
          phase |-> "forward"]

Chosen(d) ==
    IF d.step[Proxy] # "complete" /\ (~EnginesFirst(d) \/ Incomplete(d) = {})
    THEN Proxy ELSE First(Incomplete(d))

UsesSource(d, t) ==
    \/ d.phase = "restoring"
    \/ d.step[t] = "stop"
    \/ d.step[t] = "verify_target" /\ (t = Proxy \/ ProvingSource(d, t))

Idle(d) ==
    \/ d.st # "running"
    \/ d.step[Proxy] = "complete" /\ Incomplete(d) = {}
    \/ Chosen(d) # Proxy /\ d.step[Chosen(d)] \in {"switch", "verify_serving"}

MustInspect(d, t) ==
    (d.step[t] \in Mutating /\ t \in d.delivered) \/ t \in d.ambiguous

Instruction(d, t) ==
    [t |-> t, step |-> IF MustInspect(d, t) THEN "inspect" ELSE d.step[t],
     rev |-> IF UsesSource(d, t) THEN Source[t] ELSE Target[t],
     pin |-> d.pin[t], epoch |-> d.epoch, phase |-> d.phase]

(* Before a mutation is returned, its delivery is recorded as ambiguous.   *)
Deliver(d, t) ==
    IF d.step[t] \notin Mutating \/ MustInspect(d, t) THEN d
    ELSE [d EXCEPT !.delivered = @ \cup {t}, !.ambiguous = @ \cup {t},
                   !.obs = [s \in Slots |-> IF s = t THEN [@[s] EXCEPT !.post = "no"]
                                                     ELSE @[s]]]

(* claim: a lapsed lease pauses the operation; a queued operation is       *)
(* leased to the caller under a new epoch, its own running one renewed.    *)
Late(d, late) == d.phase = "forward" /\ late

Leased(d, a) ==
    IF d.st = "queued"
    THEN [d EXCEPT !.st = "running", !.epoch = @ + 1, !.agent = a, !.lease = "held"]
    ELSE d

Claimed(d, a, late) ==
    IF d.st = "running" /\ d.lease = "lapsed" THEN [db |-> Pause(d), ins |-> NoIns]
    ELSE IF d.st # "queued" /\ (d.st # "running" \/ d.agent # a)
    THEN [db |-> d, ins |-> NoIns]
    ELSE IF Late(d, late)
    THEN [db |-> EnterRestoration(d, "failed"), ins |-> NoIns]
    ELSE LET e == Reconciled(Leased(d, a))
         IN IF Idle(e) THEN [db |-> e, ins |-> NoIns]
            ELSE [db |-> Deliver(e, Chosen(e)), ins |-> Instruction(e, Chosen(e))]

(* The fence renew, report_observation and report_step share. *)
Fenced(d, a, epoch) ==
    d.st = "running" /\ d.epoch = epoch /\ d.agent = a /\ d.lease = "held"

(* report_observation *)
Observed(d, s, epoch, ev, late) ==
    IF Late(d, late) THEN EnterRestoration(d, "failed")
    ELSE Reconciled([d EXCEPT !.obs[s] =
           [epoch |-> epoch, st |-> ev.st, rev |-> ev.rev, inst |-> ev.inst,
            ready |-> ev.ready, age |-> "fresh", post |-> "yes"]])

(* What report_step expects of the evidence of a step, and what it holds   *)
(* against it.                                                             *)
ExpectedRev(d, t, step) ==
    IF \/ step \in {"stop", "restore"}
       \/ step = "verify_target" /\ (t = Proxy \/ ProvingSource(d, t))
    THEN Source[t] ELSE Target[t]

(* stop_evidence_condition: a stop is proven by a graceful end of exactly  *)
(* the process that was pinned.                                            *)
StopUnproven(d, t, ev) == ev.clean = "no" \/ d.pin[t] = 0 \/ ev.inst # d.pin[t]

BadEvidence(d, t, step, ev) ==
    \/ ev.bad = "yes"
    \/ ev.st = "error"
    \/ ev.rev # ExpectedRev(d, t, step)
    \/ step = "stop" /\ StopUnproven(d, t, ev)
    \/ t # Proxy /\ step \in {"stop", "start", "restore"} /\ ev.inst = 0
    \/ t = Proxy /\ step \in {"verify_target", "verify_proxy"} /\ ev.inst = 0

NextProxyStep(step) ==
    CASE step = "verify_target" -> "stop"
      [] step = "stop" -> "select"
      [] step = "select" -> "start"
      [] step = "start" -> "verify_proxy"
      [] OTHER -> "complete"

(* A bad proxy result pauses the operation and leaves the effect ambiguous; *)
(* a good one moves the proxy to its next step.                             *)
ProxyReported(d, step, ev) ==
    IF BadEvidence(d, Proxy, step, ev)
    THEN Pause([d EXCEPT !.failed = @ \cup {Proxy}])
    ELSE Reconciled([d EXCEPT !.step[Proxy] = NextProxyStep(step),
             !.changed = IF step \in Mutating THEN @ \cup {Proxy} ELSE @,
             !.ambiguous = @ \ {Proxy}, !.delivered = @ \ {Proxy}, !.failed = @ \ {Proxy},
             !.pin[Proxy] = IF ev.inst # 0 THEN ev.inst ELSE @])

SlotReported(d, s, step, ev) ==
    Reconciled([d EXCEPT !.reported = @ \cup {s}, !.shown[s] = ev.inst,
        !.failed = IF BadEvidence(d, s, step, ev) THEN @ \cup {s} ELSE @ \ {s}])

(* report_step: an accepted result is kept as a receipt, which answers an  *)
(* exact retry.  A result is otherwise fenced by the lease and by the step *)
(* the target is at.  "retry" is an error the agent takes for transient.   *)
Key(q) == <<q.agent, q.epoch, q.step, q.t>>

Receipted(receipts, q) == {r \in receipts : Key(r) = Key(q)}

StepReported(d, receipts, q, late) ==
    LET kept(reply) == [db |-> d, receipts |-> receipts, reply |-> reply]
    IN IF Receipted(receipts, q) # {}
       THEN kept(IF q \in receipts THEN "ok" ELSE "rejected")
       ELSE IF ~Fenced(d, q.agent, q.epoch) THEN kept("rejected")
       ELSE IF Late(d, late)
       THEN [db |-> EnterRestoration(d, "failed"), receipts |-> receipts, reply |-> "retry"]
       ELSE IF d.step[q.t] # q.step THEN kept("rejected")
       ELSE [db |-> IF q.t = Proxy THEN ProxyReported(d, q.step, q.ev)
                                   ELSE SlotReported(d, q.t, q.step, q.ev),
             receipts |-> receipts \cup {q}, reply |-> "ok"]

(* resume: a paused operation is queued again; effect conditions stay.     *)
Resumed(d) == [d EXCEPT !.st = "queued", !.agent = 0, !.lease = "none"]

(* cancel *)
Cancelled(d) == EnterRestoration(d, "cancelled")
=============================================================================
