----------------------------- MODULE JobLedger ------------------------------
(***************************************************************************)
(* What the job queue promises, without workers, leases, locks, engines or *)
(* notifications: a job is delivered at most budget times for every time   *)
(* it is opened, it is finished by the delivery made last and only after   *)
(* that delivery was executed, it dies only when its budget is spent, and  *)
(* only a dead job can be opened again.                                    *)
(***************************************************************************)
EXTENDS Naturals

CONSTANTS Jobs, Budgets

VARIABLES
    stage,     \* "absent", "open", "complete" or "dead"
    budget,    \* deliveries allowed per opening
    spent,     \* deliveries made since the job was opened
    latest,    \* the number of the delivery made last, 0 for none
    winner,    \* the delivery that finished the job
    executed,  \* <<job, delivery>> pairs whose handler succeeded
    fresh      \* the next delivery number

vars == <<stage, budget, spent, latest, winner, executed, fresh>>

Init ==
    /\ stage = [j \in Jobs |-> "absent"]
    /\ budget = [j \in Jobs |-> 0]
    /\ spent = [j \in Jobs |-> 0]
    /\ latest = [j \in Jobs |-> 0]
    /\ winner = [j \in Jobs |-> 0]
    /\ executed = {}
    /\ fresh = 1

Open(j, b) ==
    /\ stage[j] = "absent"
    /\ stage' = [stage EXCEPT ![j] = "open"]
    /\ budget' = [budget EXCEPT ![j] = b]
    /\ UNCHANGED <<spent, latest, winner, executed, fresh>>

Deliver(j) ==
    /\ stage[j] = "open"
    /\ spent[j] < budget[j]
    /\ spent' = [spent EXCEPT ![j] = @ + 1]
    /\ latest' = [latest EXCEPT ![j] = fresh]
    /\ fresh' = fresh + 1
    /\ UNCHANGED <<stage, budget, winner, executed>>

\* Any delivery made so far may be executed, however late.
Execute(j, d) ==
    /\ d \in 1..(fresh - 1)
    /\ executed' = executed \cup {<<j, d>>}
    /\ UNCHANGED <<stage, budget, spent, latest, winner, fresh>>

Finish(j) ==
    /\ stage[j] = "open"
    /\ <<j, latest[j]>> \in executed
    /\ stage' = [stage EXCEPT ![j] = "complete"]
    /\ winner' = [winner EXCEPT ![j] = latest[j]]
    /\ UNCHANGED <<budget, spent, latest, executed, fresh>>

\* Jobs are given up together by one recovery scan.
Bury(S) ==
    /\ S # {}
    /\ \A j \in S : stage[j] = "open" /\ spent[j] = budget[j]
    /\ stage' = [j \in Jobs |-> IF j \in S THEN "dead" ELSE stage[j]]
    /\ UNCHANGED <<budget, spent, latest, winner, executed, fresh>>

Reopen(j) ==
    /\ stage[j] = "dead"
    /\ stage' = [stage EXCEPT ![j] = "open"]
    /\ spent' = [spent EXCEPT ![j] = 0]
    /\ UNCHANGED <<budget, latest, winner, executed, fresh>>

Next ==
    \/ \E j \in Jobs :
        \/ \E b \in Budgets : Open(j, b)
        \/ Deliver(j) \/ Finish(j) \/ Reopen(j)
        \/ \E d \in 1..(fresh - 1) : Execute(j, d)
    \/ \E S \in SUBSET Jobs : Bury(S)

Spec == Init /\ [][Next]_vars
=============================================================================
