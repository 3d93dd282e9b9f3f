---------------------------- MODULE AdmissionGate ----------------------------
(***************************************************************************)
(* The admission gate every process puts in front of its work              *)
(* (wr-common/src/lifecycle_service.rs): an open flag, a count of admitted *)
(* requests and a tokio Notify.  Requests enter and leave on any thread    *)
(* while the shutdown path closes the gate and waits for the count to      *)
(* reach zero.  Every atomic access is a step of its own.                  *)
(*                                                                         *)
(* close() stores the flag with Release and then loads the count with      *)
(* Acquire, which does not order the two: on a buffered machine the store  *)
(* sits in the closing thread's store buffer until it is flushed or the    *)
(* thread executes a locked instruction.  The requests' accesses are       *)
(* ordered by the read-modify-write between them.                          *)
(***************************************************************************)
EXTENDS Integers, FiniteSets

CONSTANTS
    Reqs    \* request handlers; each may run any number of requests

ASSUME GateAssumption == IsFiniteSet(Reqs)

VARIABLES
    memory,     \* "ordered": stores are visible at once; "buffered"
    open,       \* AdmissionState.open, as the other threads see it
    pending,    \* the close store is in the closing thread's buffer
    inflight,   \* AdmissionState.in_flight
    req,        \* where each request handler is in try_enter and leave
    closer,     \* where the shutdown path is in close and wait_for_idle
    notified    \* its Notified future

vars == <<memory, open, pending, inflight, req, closer, notified>>

Init ==
    /\ memory \in {"ordered", "buffered"}
    /\ open = "no" /\ pending = "no"
    /\ inflight = 0
    /\ req = [r \in Reqs |-> "out"]
    /\ closer = "starting"
    /\ notified = "none"

Goto(r, pc) == req' = [req EXCEPT ![r] = pc]

-----------------------------------------------------------------------------
(* try_enter: look at the flag, count, look again. *)
FirstLook(r) ==
    /\ req[r] = "out" /\ open = "yes"
    /\ Goto(r, "looked")
    /\ UNCHANGED <<open, pending, inflight, closer, notified>>

Count(r) ==
    /\ req[r] = "looked"
    /\ inflight' = inflight + 1
    /\ Goto(r, "counted")
    /\ UNCHANGED <<open, pending, closer, notified>>

\* Defect: the flag is not looked at again after counting.
AdmitsUnchecked == TRUE

Admits == open = "yes"

SecondLook(r) ==
    /\ req[r] = "counted"
    /\ Goto(r, IF Admits THEN "admitted" ELSE "leaving")
    /\ UNCHANGED <<open, pending, inflight, closer, notified>>

(* The guard of an admitted request is dropped. *)
Finish(r) ==
    /\ req[r] = "admitted"
    /\ Goto(r, "leaving")
    /\ UNCHANGED <<open, pending, inflight, closer, notified>>

(* leave: the last one out wakes the waiter. *)
Leave(r) ==
    /\ req[r] = "leaving"
    /\ inflight' = inflight - 1
    /\ Goto(r, IF inflight = 1 THEN "notifying" ELSE "out")
    /\ UNCHANGED <<open, pending, closer, notified>>

Woken == IF notified = "listening" THEN "woken" ELSE notified

NotifyWaiters(r) ==
    /\ req[r] = "notifying"
    /\ notified' = Woken
    /\ Goto(r, "out")
    /\ UNCHANGED <<open, pending, inflight, closer>>

-----------------------------------------------------------------------------
OpenGate ==
    /\ closer = "starting"
    /\ open' = "yes" /\ closer' = "serving"
    /\ UNCHANGED <<pending, inflight, req, notified>>

(* close: the store, and the check whether anybody is still inside.  The   *)
(* waiter's own future does not exist yet; notify_waiters takes a lock.    *)
Close ==
    /\ closer = "serving"
    /\ closer' = "closed"
    /\ IF memory = "buffered" THEN pending' = "yes" /\ UNCHANGED open
                             ELSE open' = "no" /\ UNCHANGED pending
    /\ UNCHANGED <<inflight, req, notified>>

Flushed == /\ pending' = "no"
           /\ open' = IF pending = "yes" THEN "no" ELSE open

Flush ==
    /\ pending = "yes" /\ Flushed
    /\ UNCHANGED <<inflight, req, closer, notified>>

CloseCheck ==
    /\ closer = "closed"
    /\ closer' = "waiting"
    /\ IF inflight = 0 THEN Flushed ELSE UNCHANGED <<open, pending>>
    /\ UNCHANGED <<inflight, req, notified>>

(* wait_for_idle: look at the count, create the future (which counts from  *)
(* then on), look again, poll the future, and sleep until woken or until   *)
(* the deadline.                                                           *)
WaitLook ==
    /\ closer = "waiting"
    /\ closer' = IF inflight = 0 THEN "idle" ELSE "listen"
    /\ UNCHANGED <<open, pending, inflight, req, notified>>

\* Defect: the future does not count as registered before it is polled.
ListenLater ==
    /\ closer = "listen"
    /\ closer' = "relook"
    /\ UNCHANGED <<open, pending, inflight, req, notified>>

Listen ==
    /\ closer = "listen"
    /\ closer' = "relook" /\ notified' = "listening"
    /\ UNCHANGED <<open, pending, inflight, req>>

Relook ==
    /\ closer = "relook"
    /\ closer' = IF inflight = 0 THEN "idle" ELSE "poll"
    /\ UNCHANGED <<open, pending, inflight, req, notified>>

Poll ==
    /\ closer = "poll"
    /\ closer' = "asleep"
    /\ notified' = IF notified = "none" THEN "listening" ELSE notified
    /\ Flushed
    /\ UNCHANGED <<inflight, req>>

Wake ==
    /\ closer = "asleep" /\ notified = "woken"
    /\ closer' = "waiting" /\ notified' = "none"
    /\ UNCHANGED <<open, pending, inflight, req>>

Deadline ==
    /\ closer = "asleep"
    /\ closer' = "late"
    /\ UNCHANGED <<open, pending, inflight, req, notified>>

Enter(r) == FirstLook(r) \/ Count(r) \/ SecondLook(r)

Exit(r) == Finish(r) \/ Leave(r) \/ NotifyWaiters(r)

Wait == CloseCheck \/ WaitLook \/ Listen \/ Relook \/ Poll \/ Wake

Next ==
    /\ \/ \E r \in Reqs : Enter(r) \/ Exit(r)
       \/ OpenGate \/ Close \/ Flush \/ Wait \/ Deadline
    /\ UNCHANGED memory

Spec == Init /\ [][Next]_vars

(* Handlers finish what they started and the shutdown path keeps running;  *)
(* the deadline may never come.                                            *)
Handles(r) == (Count(r) \/ SecondLook(r) \/ Exit(r)) /\ UNCHANGED memory

ShutsDown == (Wait \/ Flush) /\ UNCHANGED memory

-----------------------------------------------------------------------------
(* The flag, the count and the program points take only these values; the  *)
(* count never goes below zero (in_flight is unsigned).                    *)
TypeOK ==
    /\ memory \in {"ordered", "buffered"}
    /\ open \in {"yes", "no"} /\ pending \in {"yes", "no"}
    /\ inflight \in Nat
    /\ req \in [Reqs -> {"out", "looked", "counted", "admitted", "leaving", "notifying"}]
    /\ closer \in {"starting", "serving", "closed", "waiting", "listen", "relook", "poll",
                   "asleep", "idle", "late"}
    /\ notified \in {"none", "listening", "woken"}

(* Once wait_for_idle has returned Ok no request is being served, and none *)
(* will be: the teardown that follows runs alone.  The second open check   *)
(* of try_enter sees to it if the store of close is ordered before the     *)
(* load of the count.                                                      *)
QuietAfterIdle ==
    (memory = "ordered" /\ closer = "idle") => \A r \in Reqs : req[r] # "admitted"

(* "The second open check closes the race with shutdown"                   *)
(* (lifecycle_service.rs:66), whatever the machine: this does not hold.    *)
AlwaysQuietAfterIdle == closer = "idle" => \A r \in Reqs : req[r] # "admitted"

(* No wakeup is lost: a shutdown that closed the gate gets past            *)
(* wait_for_idle as soon as the admitted requests are done, without the    *)
(* help of the deadline, however the last leave falls between the checks.  *)
DrainIsNoticed == (closer = "closed") ~> (closer \in {"idle", "late"})

=============================================================================
