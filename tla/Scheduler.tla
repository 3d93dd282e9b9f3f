------------------------------ MODULE Scheduler ------------------------------
(***************************************************************************)
(* The job schedules of the managers.  Every manager runs a scheduler loop *)
(* (wr-manager/src/scheduler.rs) which claims all due rows of wr_schedules *)
(* in one transaction, submits them one after another through the local    *)
(* proxy, and finalizes each with an update fenced by its claim_id.        *)
(*                                                                         *)
(* Time is counted in submission timeouts: a submission takes at most one  *)
(* Tick, everything else takes none, and a lease lasts Lease ticks.  When  *)
(* a row becomes due depends on its interval and is left open.  claim_ids  *)
(* are random and never repeat; an id that nothing refers to is reused.    *)
(***************************************************************************)
EXTENDS Naturals

CONSTANTS
    Schedules,      \* natural keys of wr_schedules
    Mgrs,           \* managers with a scheduler loop
    ClaimIds,       \* enough ids for all references to them
    Lease,          \* scheduler_lease_secs, in submission timeouts
    MaxEdits,       \* UpsertSchedule and DeleteSchedule requests
    MaxErrors       \* submissions and finalizations that fail, managers killed

Unclaimed == 0

ASSUME SchedulerAssumption ==
    /\ ClaimIds \subseteq Nat \ {Unclaimed}
    /\ Lease \in Nat \ {0}
    /\ MaxEdits \in Nat /\ MaxErrors \in Nat

VARIABLES
    row,        \* wr_schedules
    mgr,        \* the scheduler loop of each manager
    enqueued,   \* claims under which the engine accepted a job
    voided,     \* claims cleared by an edit of their schedule
    faults      \* edits and errors so far

scheduleVars == <<row, mgr, enqueued, voided, faults>>

NoRow == [st |-> "none", due |-> "no", lease |-> 0, claim |-> Unclaimed, fired |-> Unclaimed]

Resting == [pc |-> "idle", held |-> [s \in Schedules |-> Unclaimed], late |-> "no", cur |-> {}]

ScheduleInit(edits) ==
    /\ row = [s \in Schedules |-> NoRow]
    /\ mgr = [m \in Mgrs |-> Resting]
    /\ enqueued = {}
    /\ voided = {}
    /\ faults = [edit |-> edits, error |-> 0]

Referenced ==
    {row[s].claim : s \in Schedules} \cup {row[s].fired : s \in Schedules}
        \cup {mgr[m].held[s] : m \in Mgrs, s \in Schedules}

(* Forget what nothing refers to any more, so that ids can be reused. *)
Known(ids) == (ids \cap Referenced') \ {Unclaimed}

(* The loop goes on with any of the held schedules (RETURNING promises no  *)
(* order), or rests when there is none.                                    *)
Batch(held) ==
    LET left == {s \in Schedules : held[s] # Unclaimed}
    IN IF left = {} THEN {Resting}
       ELSE {[pc |-> "submit", held |-> held, late |-> "no", cur |-> {s}] : s \in left}

Current(m) == CHOOSE s \in mgr[m].cur : TRUE

(* gen_random_uuid for each row. *)
FreshIds(S) ==
    CHOOSE ids \in [S -> ClaimIds \ Referenced] : \A s, t \in S : ids[s] = ids[t] => s = t

Spend(what) == faults' = [faults EXCEPT ![what] = @ + 1]

-----------------------------------------------------------------------------
(* upsert_schedule: a new row is due at once if it is immediate.  An       *)
(* update clears the claim and computes next_fire_at again.                *)
Upserted(r) ==
    {[r EXCEPT !.st = "on", !.due = due, !.lease = 0, !.claim = Unclaimed] : due \in {"yes", "no"}}

Upsert(s) ==
    /\ faults.edit < MaxEdits /\ Spend("edit")
    /\ \E r \in Upserted(row[s]) : row' = [row EXCEPT ![s] = r]
    /\ UNCHANGED mgr
    /\ voided' = Known(voided \cup {row[s].claim})
    /\ enqueued' = Known(enqueued)

Delete(s) ==
    /\ faults.edit < MaxEdits /\ row[s].st = "on" /\ Spend("edit")
    /\ row' = [row EXCEPT ![s] = NoRow]
    /\ UNCHANGED mgr
    /\ voided' = Known(voided \cup {row[s].claim})
    /\ enqueued' = Known(enqueued)

(* NOW() passes next_fire_at, after an interval or after a back-off. *)
FallsDue(s) ==
    /\ row[s].st = "on" /\ row[s].due # "yes"
    /\ row' = [row EXCEPT ![s].due = "yes"]
    /\ UNCHANGED <<mgr, enqueued, voided, faults>>

\* Defect: rows with an expired lease are not claimed again.
ClaimableOnce(s) == row[s].st = "on" /\ row[s].due = "yes" /\ row[s].claim = Unclaimed

ClaimableNow(s) == row[s].st = "on" /\ row[s].due = "yes" /\ row[s].lease = 0

(* claim_due_schedules on a tick of an open manager: every row another     *)
(* manager has not locked, each with a fresh claim_id.                     *)
Claim(m) ==
    /\ mgr[m].pc = "idle"
    /\ \E S \in (SUBSET {s \in Schedules : ClaimableNow(s)}) \ {{}} :
       LET ids == FreshIds(S)
       IN /\ ids \in [S -> ClaimIds]        \* ClaimIds bounds the ids in use
          /\ row' = [s \in Schedules |->
                       IF s \in S THEN [row[s] EXCEPT !.lease = Lease, !.claim = ids[s]]
                       ELSE row[s]]
          /\ \E b \in Batch([s \in Schedules |-> IF s \in S THEN ids[s] ELSE Unclaimed]) :
                mgr' = [mgr EXCEPT ![m] = b]
    /\ enqueued' = Known(enqueued) /\ voided' = Known(voided)
    /\ UNCHANGED faults

(* submit_job: accepted with an answer; accepted, but the answer is lost   *)
(* or late; or not accepted.                                               *)
SubmitJob(m, pc, accepted) ==
    /\ mgr[m].pc = "submit"
    /\ mgr' = [mgr EXCEPT ![m].pc = pc]
    /\ enqueued' = IF accepted THEN enqueued \cup {mgr[m].held[Current(m)]} ELSE enqueued
    /\ UNCHANGED <<row, voided>>

SubmitAccepted(m) == SubmitJob(m, "succeeded", TRUE) /\ UNCHANGED faults

SubmitLost(m) ==
    /\ faults.error < MaxErrors /\ Spend("error")
    /\ SubmitJob(m, "failed", TRUE)

SubmitRefused(m) ==
    /\ faults.error < MaxErrors /\ Spend("error")
    /\ SubmitJob(m, "failed", FALSE)

NextInBatch(m) ==
    \E b \in Batch([mgr[m].held EXCEPT ![Current(m)] = Unclaimed]) :
        mgr' = [mgr EXCEPT ![m] = b]

\* Defect: the finalization is not fenced by claim_id.
FinalizesAny(s, c) == row[s].claim # Unclaimed

Finalizes(s, c) == row[s].claim = c

(* mark_schedule_succeeded and mark_schedule_failed: no row if the claim   *)
(* was taken over or cleared.                                              *)
MarkSucceeded(m) ==
    /\ mgr[m].pc = "succeeded"
    /\ LET s == Current(m)
       IN row' = IF Finalizes(s, mgr[m].held[s])
                 THEN [row EXCEPT ![s] = [@ EXCEPT !.due = "no", !.lease = 0,
                                                   !.claim = Unclaimed, !.fired = row[s].claim]]
                 ELSE row
    /\ NextInBatch(m)
    /\ enqueued' = Known(enqueued) /\ voided' = Known(voided)
    /\ UNCHANGED faults

MarkFailed(m) ==
    /\ mgr[m].pc = "failed"
    /\ LET s == Current(m)
       IN row' = IF Finalizes(s, mgr[m].held[s])
                 THEN [row EXCEPT ![s] = [@ EXCEPT !.due = "retry", !.lease = 0,
                                                   !.claim = Unclaimed]]
                 ELSE row
    /\ NextInBatch(m)
    /\ enqueued' = Known(enqueued) /\ voided' = Known(voided)
    /\ UNCHANGED faults

(* The finalization fails: the error ends the tick, and the rest of the    *)
(* batch stays claimed.  A killed manager leaves its whole batch claimed.  *)
TickFails(m) ==
    /\ mgr[m].pc \in {"succeeded", "failed"}
    /\ faults.error < MaxErrors /\ Spend("error")
    /\ mgr' = [mgr EXCEPT ![m] = Resting]
    /\ UNCHANGED row
    /\ enqueued' = Known(enqueued) /\ voided' = Known(voided)

Crash(m) ==
    /\ mgr[m].pc # "idle" /\ faults.error < MaxErrors /\ Spend("error")
    /\ mgr' = [mgr EXCEPT ![m] = Resting]
    /\ UNCHANGED row
    /\ enqueued' = Known(enqueued) /\ voided' = Known(voided)

(* A submission timeout passes.  A submission under way gets late, and one *)
(* that is late has been given up by SUBMIT_TIMEOUT before the next tick.  *)
Tick ==
    /\ \A m \in Mgrs : mgr[m].late = "no" /\ mgr[m].pc \in {"idle", "submit"}
    /\ \E s \in Schedules : row[s].lease > 0
    /\ row' = [s \in Schedules |->
                 [row[s] EXCEPT !.lease = IF @ > 0 THEN @ - 1 ELSE 0]]
    /\ mgr' = [m \in Mgrs |-> IF mgr[m].pc = "submit" THEN [mgr[m] EXCEPT !.late = "yes"]
                              ELSE mgr[m]]
    /\ UNCHANGED <<enqueued, voided, faults>>

Loop(m) == Claim(m) \/ SubmitAccepted(m) \/ MarkSucceeded(m) \/ MarkFailed(m)

ScheduleNext ==
    \/ \E s \in Schedules : Upsert(s) \/ Delete(s) \/ FallsDue(s)
    \/ \E m \in Mgrs : Loop(m) \/ SubmitLost(m) \/ SubmitRefused(m) \/ TickFails(m) \/ Crash(m)
    \/ Tick

(* Scheduler loops run, time passes, rows fall due again, and a due row is *)
(* not skipped for ever: it is locked only by short transactions.          *)
Takes(s) == \E m \in Mgrs : Claim(m) /\ mgr'[m].held[s] # Unclaimed

ScheduleWeakFairness ==
    /\ \A m \in Mgrs : WF_scheduleVars(Loop(m))
    /\ \A s \in Schedules : WF_scheduleVars(FallsDue(s))

ScheduleFairness ==
    /\ ScheduleWeakFairness
    /\ \A s \in Schedules : SF_scheduleVars(Takes(s))
    /\ SF_scheduleVars(Tick)

ScheduleSpec == ScheduleInit(0) /\ [][ScheduleNext]_scheduleVars /\ ScheduleFairness

-----------------------------------------------------------------------------
Ids == ClaimIds \cup {Unclaimed}

Rows == [st : {"none", "on"}, due : {"no", "yes", "retry"}, lease : 0..Lease, claim : Ids, fired : Ids]

Loops == [pc : {"idle", "submit", "succeeded", "failed"}, held : [Schedules -> Ids],
          late : {"no", "yes"}, cur : SUBSET Schedules]

(* Rows and loops hold what their columns and variables can. *)
ScheduleTypeOK ==
    /\ row \in [Schedules -> Rows] /\ mgr \in [Mgrs -> Loops]
    /\ enqueued \subseteq Ids /\ voided \subseteq Ids
    /\ faults \in [edit : Nat, error : Nat]

(* A schedule only counts as fired, with next_fire_at moved on by a whole  *)
(* interval, under a claim whose job an engine accepted: a late success of *)
(* a claim that was taken over does not move the row (at-least-once).      *)
FiredMeansEnqueued ==
    \A s \in Schedules : row[s].fired # Unclaimed => row[s].fired \in enqueued

(* Delivery is at least once: a schedule that is due is fired, deleted or  *)
(* edited, whatever crashes, lost answers and failed finalizations happen  *)
(* on the way.                                                             *)
DueIsFired ==
    \A s \in Schedules :
        (row[s].st = "on" /\ row[s].due = "yes") ~> (row[s].st = "none" \/ row[s].due = "no")

-----------------------------------------------------------------------------
(* A statement the code does not keep; README.md says how to see it fail.  *)

(* "a hung proxy connection cannot silently outlive the lease": while a    *)
(* manager submits a schedule, nobody else has claimed it, unless an edit  *)
(* cleared the claim.  It holds for one submission; a batch, whose         *)
(* submissions follow each other under one lease, may be longer than that. *)
SubmitsUnderLease ==
    \A m \in Mgrs : mgr[m].pc = "submit" =>
        LET s == Current(m)
        IN mgr[m].held[s] \in voided \/ row[s].claim = mgr[m].held[s]

=============================================================================
