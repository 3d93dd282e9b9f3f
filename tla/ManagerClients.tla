--------------------------- MODULE ManagerClients ---------------------------
(***************************************************************************)
(* How a proxy keeps finding the managers.  It refreshes a list of them    *)
(* (wr-common/src/discovery.rs), from a manager or, failing that, from the *)
(* database.  Each of its tasks pins one manager of the list as it was at  *)
(* that moment, an "epoch" (wr-common/src/manager_client.rs), and after a  *)
(* transport failure pins the next one of the same list.  The tasks differ *)
(* in what they do when no manager of their list answers.                  *)
(*                                                                         *)
(* A manager is its address, a number, for the order of the list.  A       *)
(* manager may stop, start again, or be replaced by one at a new address.  *)
(***************************************************************************)
EXTENDS Naturals, Sequences, FiniteSets, SequencesExt

CONSTANTS
    Hosts,          \* where managers may run
    Tasks,          \* the tasks modelled, some of TaskNames
    MaxMoves        \* bound on the starts and stops of managers

(* The tasks of a proxy that keep an epoch.  A heartbeat epoch belongs to  *)
(* one engine slot.                                                        *)
TaskNames == {"routing", "heartbeat", "report", "schema", "policy"}

ASSUME TaskAssumption == Tasks \subseteq TaskNames

VARIABLES
    serving,    \* the managers that answer
    leased,     \* the lease-fresh rows of wr_managers
    managers,   \* the discovered list
    refreshEpoch, epoch,
    reached,    \* whether the task's last call was answered
    moves

clientVars == <<serving, leased, managers, refreshEpoch, epoch, reached, moves>>

NoEpoch == [at |-> 0, candidates |-> <<>>]

(* replace_managers keeps the list sorted and without repetitions. *)
Sorted(set) == SetToSortSeq(set, <)

(* query_managers: the rows whose lease is fresh.  A manager that is asked *)
(* for the list reads the same rows.                                       *)
QueryManagers == Sorted(leased)

(* A manager that can be pinned answers with a lifecycle status from which *)
(* EpochObservation::from_lifecycle can tell its epoch.                    *)
Answers(a) == a \in serving

(* ManagerEpochProvider::pin: the first candidate that answers. *)
Pin(candidates) ==
    LET live == SelectSeq(candidates, Answers) IN
    IF live = <<>> THEN NoEpoch ELSE [at |-> Head(live), candidates |-> candidates]

(* candidates_after *)
CandidatesAfter(e) ==
    LET i == CHOOSE i \in DOMAIN e.candidates : e.candidates[i] = e.at IN
    SubSeq(e.candidates, i + 1, Len(e.candidates)) \o SubSeq(e.candidates, 1, i)

Repin(e) == Pin(CandidatesAfter(e))

(* ManagerDiscovery::pin, from the list as it is now. *)
PinListed == Pin(managers)

(* Startup, after some moves: refresh, then every task pins. *)
ClientInit(first, past) ==
    /\ serving = first /\ leased = first
    /\ managers = Sorted(first)
    /\ refreshEpoch = Pin(Sorted(first))
    /\ epoch = [t \in Tasks |-> Pin(Sorted(first))]
    /\ reached = [t \in Tasks |-> TRUE]
    /\ moves = past

---------------------------------------------------------------------------
(* The managers. *)

(* The lease is written before the manager is ready. *)
StartManager(a) ==
    /\ moves < MaxMoves /\ a \notin serving
    /\ serving' = serving \cup {a}
    /\ leased' = leased \cup {a}
    /\ moves' = moves + 1
    /\ UNCHANGED <<managers, refreshEpoch, epoch, reached>>

StopManager(a) ==
    /\ moves < MaxMoves /\ a \in serving
    /\ serving' = serving \ {a}
    /\ moves' = moves + 1
    /\ UNCHANGED <<leased, managers, refreshEpoch, epoch, reached>>

LeaseLapses(a) ==
    /\ a \in leased \ serving
    /\ leased' = leased \ {a}
    /\ UNCHANGED <<serving, managers, refreshEpoch, epoch, reached, moves>>

---------------------------------------------------------------------------
(* ManagerDiscovery. *)

(* refresh: from the database when nothing is known; then from the pinned  *)
(* manager; then from the database again.                                  *)
RefreshManagers ==
    LET known == IF managers = <<>> THEN QueryManagers ELSE managers
        e == IF refreshEpoch = NoEpoch THEN Pin(known) ELSE refreshEpoch
    IN
    /\ managers' = QueryManagers
    /\ refreshEpoch' = IF e = NoEpoch \/ e.at \in serving THEN e ELSE Repin(e)
    /\ UNCHANGED <<serving, leased, epoch, reached, moves>>

(* The fallback query fails as well: what was known is kept. *)
RefreshWithoutDatabase ==
    LET e == IF refreshEpoch = NoEpoch THEN PinListed ELSE refreshEpoch IN
    /\ e = NoEpoch \/ e.at \notin serving
    /\ refreshEpoch' = IF e = NoEpoch THEN e ELSE Repin(e)
    /\ UNCHANGED <<serving, leased, managers, epoch, reached, moves>>

---------------------------------------------------------------------------
(* The tasks. *)

Outcome(t, e, ok) ==
    /\ epoch' = [epoch EXCEPT ![t] = e]
    /\ reached' = [reached EXCEPT ![t] = ok]
    /\ UNCHANGED <<serving, leased, managers, refreshEpoch, moves>>

\* Defect: the epoch is kept when it cannot be replaced.
SyncRoutesKeeping ==
    LET e == IF epoch["routing"] = NoEpoch THEN PinListed ELSE epoch["routing"] IN
    IF e # NoEpoch /\ e.at \in serving THEN Outcome("routing", e, TRUE)
    ELSE Outcome("routing", IF e = NoEpoch \/ Repin(e) = NoEpoch THEN e ELSE Repin(e), FALSE)

(* sync_routing_table: an epoch that cannot be replaced is dropped, and    *)
(* the next round pins from the list as it is then.                        *)
SyncRoutes ==
    LET e == IF epoch["routing"] = NoEpoch THEN PinListed ELSE epoch["routing"] IN
    IF e # NoEpoch /\ e.at \in serving THEN Outcome("routing", e, TRUE)
    ELSE Outcome("routing", IF e = NoEpoch THEN e ELSE Repin(e), FALSE)

(* Engine heartbeats, inventory reports and schema fetches: after one      *)
(* failure the call is made once more on the next manager; an epoch that   *)
(* cannot be replaced is kept.                                             *)
CallOnce(t) ==
    LET e == IF epoch[t] = NoEpoch THEN PinListed ELSE epoch[t]
        next == Repin(e)
    IN
    /\ t \in Tasks \ {"routing", "policy"}
    /\ IF e = NoEpoch THEN Outcome(t, e, FALSE)
       ELSE IF e.at \in serving THEN Outcome(t, e, TRUE)
       ELSE IF next = NoEpoch THEN Outcome(t, e, FALSE)
       ELSE Outcome(t, next, TRUE)

(* register_engine: an engine that starts pins afresh, for its slot. *)
RegisterAnew ==
    /\ PinListed # NoEpoch
    /\ Outcome("heartbeat", PinListed, TRUE)

(* The policy poll of the proxy's main keeps the manager it pinned first. *)
PollPolicy == Outcome("policy", epoch["policy"], epoch["policy"].at \in serving)

Discovery == RefreshManagers \/ RefreshWithoutDatabase

ClientNext ==
    \/ \E a \in Hosts : StartManager(a) \/ StopManager(a) \/ LeaseLapses(a)
    \/ Discovery
    \/ SyncRoutes \/ RegisterAnew \/ PollPolicy
    \/ \E t \in Tasks : CallOnce(t)

(* Every task runs on a timer; a lapsed lease is a matter of time; the     *)
(* database answers sooner or later.  No engine need ever restart.         *)
ClientFairness ==
    /\ WF_clientVars(RefreshManagers) /\ WF_clientVars(SyncRoutes) /\ WF_clientVars(PollPolicy)
    /\ \A t \in Tasks : WF_clientVars(CallOnce(t))
    /\ \A a \in Hosts : WF_clientVars(LeaseLapses(a))

---------------------------------------------------------------------------

AllReach(tasks) == <>[](serving # {}) => <>[](\A t \in tasks : reached[t])

(* Whatever managers stop and whatever addresses their replacements have,  *)
(* once one stays the proxy's routing table is being kept up to date       *)
(* (ManagerDiscovery::refresh, sync_routing_table).                        *)
RoutesStayFed == AllReach({"routing"})

(* The proxy passes its engines' heartbeats on to whichever managers there *)
(* are: engines do not depend on a manager's address.                      *)
HeartbeatsGetThrough == AllReach({"heartbeat"})
=============================================================================
