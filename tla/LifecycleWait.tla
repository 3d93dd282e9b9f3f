---------------------------- MODULE LifecycleWait ----------------------------
(***************************************************************************)
(* `wr-cli lifecycle wait` (wr-cli/src/cmd/lifecycle.rs and helpers.rs): a *)
(* command polls one lifecycle endpoint until the process behind it is in  *)
(* an exact state.  Processes follow each other at the endpoint, polls     *)
(* fail, answers are as old as they are, and the deadline is absolute.     *)
(***************************************************************************)
EXTENDS Naturals

CONSTANTS
    Instances,   \* process instances, 1.. in the order in which they start
    KindOf,      \* the service kind of each
    MaxPolls     \* bound on the polls of one wait

VARIABLES
    phase,       \* the lifecycle of each instance
    been,        \* the states each has been in since the wait began
    await        \* the command

waitVars == <<phase, been, await>>

NoInstance == 0

ASSUME WaitAssumption == Instances \subseteq Nat \ {NoInstance} /\ MaxPolls \in Nat

LifeStates == {"Starting", "Ready", "Stopping"}

(* The arguments of a wait; READY needs an instance and a kind. *)
WaitArgs(state, kind, instance) ==
    state = "Ready" => kind # "any" /\ instance # NoInstance

(* Instance 1 runs, in some state; the others start later. *)
WaitInit(kinds) ==
    \E st, state \in LifeStates, kind \in kinds \cup {"any"}, i \in Instances \cup {NoInstance} :
      /\ WaitArgs(state, kind, i)
      /\ phase = [x \in Instances |-> IF x = 1 THEN st ELSE "none"]
      /\ been = [x \in Instances |-> IF x = 1 THEN {st} ELSE {}]
      /\ await = [at |-> "polling", state |-> state, kind |-> kind, pin |-> i,
                  answer |-> NoInstance, shown |-> "none", polls |-> 0]

(* The process behind the endpoint, if one runs. *)
Observable == {i \in Instances : phase[i] \in LifeStates}

ProcessMoves(i) ==
    /\ \E st \in CASE phase[i] = "none" -> IF Observable = {} /\ \A x \in 1..(i - 1) : phase[x] = "gone"
                                          THEN {"Starting"} ELSE {}
                   [] phase[i] = "Starting" -> {"Ready", "Stopping", "gone"}
                   [] phase[i] = "Ready" -> {"Stopping", "gone"}
                   [] phase[i] = "Stopping" -> {"gone"}
                   [] OTHER -> {} :
         /\ phase' = [phase EXCEPT ![i] = st]
         /\ been' = [been EXCEPT ![i] = @ \cup {st}]
    /\ UNCHANGED await

(* get_raw_lifecycle_status: the process answers with its snapshot. *)
Query ==
    /\ await.at = "polling" /\ await.answer = NoInstance /\ await.polls < MaxPolls
    /\ \E i \in Observable : await' = [await EXCEPT !.answer = i, !.shown = phase[i], !.polls = @ + 1]
    /\ UNCHANGED <<phase, been>>

Classify(observed, expected) ==
    CASE observed = expected -> "matched"
      [] <<expected, observed>> \in {<<"Ready", "Starting">>, <<"Stopping", "Starting">>,
                                     <<"Stopping", "Ready">>} -> "polling"
      [] OTHER -> "terminal"

\* Defect: the process that answers is the one that is waited for.
ObserveAnyone ==
    /\ await.at = "polling" /\ await.answer # NoInstance
    /\ await' = [await EXCEPT !.answer = NoInstance,
           !.pin = IF @ = NoInstance THEN await.answer ELSE @,
           !.at = IF await.kind \notin {"any", KindOf[await.answer]} THEN "mismatch"
                  ELSE Classify(await.shown, await.state)]
    /\ UNCHANGED <<phase, been>>

(* One poll of wait_for_lifecycle_state: another kind of service or        *)
(* another instance than the pinned one ends the wait.                     *)
Observe ==
    /\ await.at = "polling" /\ await.answer # NoInstance
    /\ await' = [await EXCEPT !.answer = NoInstance,
           !.pin = IF await.kind \notin {"any", KindOf[await.answer]} \/ @ # NoInstance
                   THEN @ ELSE await.answer,
           !.at = IF \/ await.kind \notin {"any", KindOf[await.answer]}
                     \/ await.pin \notin {NoInstance, await.answer}
                  THEN "mismatch" ELSE Classify(await.shown, await.state)]
    /\ UNCHANGED <<phase, been>>

(* wait_with_deadline: a failed poll is another pending one; the poll that *)
(* is under way when the deadline passes is cut off.                       *)
PollFails ==
    /\ await.at = "polling" /\ await.polls < MaxPolls
    /\ await' = [await EXCEPT !.answer = NoInstance, !.polls = @ + 1]
    /\ UNCHANGED <<phase, been>>

WaitExpires ==
    /\ await.at = "polling"
    /\ await' = [await EXCEPT !.at = "timeout", !.answer = NoInstance]
    /\ UNCHANGED <<phase, been>>

WaitNext ==
    \/ \E i \in Instances : ProcessMoves(i)
    \/ Query \/ Observe \/ PollFails \/ WaitExpires

(* A wait for any of the kinds there are. *)
Kinds == {KindOf[i] : i \in Instances}

WaitSpec == WaitInit(Kinds) /\ [][WaitNext]_waitVars

(* A verdict of a wait stands.  A match says that the instance asked for,  *)
(* or else the first that answered, was in that state during the wait;     *)
(* "cannot reach" says that it is in it no more and never will be, however *)
(* old the answer was and whichever process follows at the endpoint.       *)
VerdictStands ==
    /\ await.at = "matched" =>
         /\ await.state \in been[await.pin]
         /\ await.kind \in {"any", KindOf[await.pin]}
    /\ await.at = "terminal" => phase[await.pin] # await.state
=============================================================================
