------------------------------- MODULE MCJobs -------------------------------
(* Background work: the job queue of two engines (JobQueue), and the         *)
(* schedules of two managers that feed it (Scheduler), one or the other.     *)
EXTENDS JobQueue, Scheduler, TLC

CONSTANTS e1, e2, w1, w2, v1, v2, s1, s2

\* Two engines with one worker loop each, running different module versions.
EngineOfTwo == (w1 :> e1) @@ (w2 :> e2)

VersionOfTwo == (e1 :> v1) @@ (e2 :> v2)

all == <<vars, scheduleVars>>

NoEngines ==
    /\ job = [j \in Jobs |-> Absent] /\ worker = [w \in Workers |-> Idle("down")]
    /\ engine = [e \in Engines |-> "absent"] /\ inbox = [e \in Engines |-> {}]
    /\ notes = {} /\ effects = {} /\ nextClaim = 1 /\ lastClaim = [j \in Jobs |-> NoClaim]
    /\ retries = MaxRetries /\ stops = MaxStops

\* A job with a second attempt is run without stops and retries, one with a
\* single attempt with one of the two.
FewClaims == \A j \in Jobs : job[j].max + stops + retries <= 2

MCInit == (Init /\ ScheduleInit(MaxEdits)) \/ (ScheduleInit(0) /\ NoEngines)

MCNext ==
    \/ Next /\ FewClaims' /\ UNCHANGED scheduleVars
    \/ ScheduleNext /\ UNCHANGED vars

\* The steps that need strong fairness, one of each part: in every behaviour
\* one of the two is never enabled.
RecoversOrTick(j) == (Recovers(j) /\ UNCHANGED scheduleVars) \/ (Tick /\ UNCHANGED vars)

CommitsOrTakes(w, s) ==
    (ClaimCommit(w) /\ UNCHANGED scheduleVars) \/ (Takes(s) /\ UNCHANGED vars)

JobsSpec ==
    /\ MCInit /\ [][MCNext]_all /\ WeakFairness /\ ScheduleWeakFairness
    /\ SF_all(RecoversOrTick(1))
    /\ SF_all(CommitsOrTakes(w1, s1)) /\ SF_all(CommitsOrTakes(w2, s2))
=============================================================================
