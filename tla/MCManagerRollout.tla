-------------------------- MODULE MCManagerRollout --------------------------
(***************************************************************************)
(* Small manager fleets.  In place, policies p1 and p2 enroll the same two *)
(* managers; in a handover, q2 and q3 replace manager 1 by manager 2.      *)
(***************************************************************************)
EXTENDS ManagerRollout

CONSTANTS
    p1, p2, q1, q2, q3,
    MaxFaults,   \* bound: crashes of managers and deaths of the executor
    Again        \* whether the accepted policy may be deployed again

VARIABLE fleet

MCGen == [p \in Policies |-> CASE p \in {p1, q1} -> 1 [] p \in {p2, q2} -> 2 [] OTHER -> 3]

MCEnrolled ==
    [p \in Policies |-> CASE p \in {p1, p2} -> {1, 2} [] p = q1 -> {1} [] OTHER -> {2}]

MCInit ==
    \/ fleet = "in place" /\ InitOf(p1)
    \/ fleet = "handover" /\ InitOf(q1)

\* One rollout, or a second one after an executor's death.
Bounded ==
    /\ Again \/ (guard.active = "yes" => ro.pol # guard.acc)
    /\ faults.crash + faults.death <= MaxFaults
    /\ IF fleet = "in place" THEN ro.id <= 1 /\ ro.pol \in {NoPolicy, p2} /\ faults.death = 0
       ELSE IF ro.id < 2 THEN ro.pol \in {NoPolicy, q2}
       ELSE ro.pol \in {q2, q3} /\ (Again \/ faults.death > 0)

MCNext == Next /\ UNCHANGED fleet /\ Bounded'

RolloutSpec == MCInit /\ [][MCNext]_<<vars, fleet>> /\ Fairness
=============================================================================
