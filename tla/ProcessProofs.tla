--------------------------- MODULE ProcessProofs ---------------------------
(***************************************************************************)
(* What runs on a node: the admission gate with any number of request      *)
(* handlers, one proxy process around it with any number of tasks, the     *)
(* wait for another process's lifecycle, the foreground runner with any    *)
(* set of children, and the engines that join and leave through the proxy. *)
(***************************************************************************)
EXTENDS ServiceProcess, LifecycleWait, ForegroundRunner, NodeControl, FiniteSetTheorems, TLAPS

-----------------------------------------------------------------------------
(* The admission gate                                                      *)

(* The handlers that have counted themselves and not left again. *)
Inside == {r \in Reqs : req[r] \in {"counted", "admitted", "leaving"}}

(* The strengthening: the count is the number of handlers inside, and the  *)
(* flag stays down from the close on.                                      *)
GateInv ==
    /\ TypeOK
    /\ memory = "ordered" => pending = "no"
    /\ inflight = Cardinality(Inside)
    /\ memory = "ordered" /\ closer \notin {"starting", "serving"} => open = "no"
    /\ QuietAfterIdle

(* A handler coming in adds one to the number inside. *)
LEMMA OneMore ==
    ASSUME TypeOK, NEW r \in Reqs, req[r] = "looked", Goto(r, "counted")
    PROVE  Cardinality(Inside') = Cardinality(Inside) + 1
<1>1. Inside' = Inside \cup {r} /\ r \notin Inside
  BY Zenon DEF Inside, Goto, TypeOK
<1>2. IsFiniteSet(Inside)
  BY GateAssumption, FS_Subset, Zenon DEF Inside
<1> QED
  BY <1>1, <1>2, FS_AddElement, Zenon

(* A handler leaving takes one from it, and there was one to take. *)
LEMMA OneLess ==
    ASSUME TypeOK, NEW r \in Reqs, req[r] = "leaving",
           Goto(r, "notifying") \/ Goto(r, "out")
    PROVE  /\ Cardinality(Inside') = Cardinality(Inside) - 1
           /\ Cardinality(Inside') \in Nat
<1>1. Inside' = Inside \ {r} /\ r \in Inside
  BY Zenon DEF Inside, Goto, TypeOK
<1>2. IsFiniteSet(Inside)
  BY GateAssumption, FS_Subset, Zenon DEF Inside
<1>3. IsFiniteSet(Inside')
  BY <1>1, <1>2, FS_Subset, Zenon
<1>4. Cardinality(Inside') = Cardinality(Inside) - 1
  BY <1>1, <1>2, FS_RemoveElement, Zenon
<1>5. Cardinality(Inside') \in Nat
  BY <1>3, FS_CardinalityType, Zenon
<1> QED
  BY <1>4, <1>5, Zenon

(* A count of zero means that nobody is being served. *)
LEMMA ZeroIsQuiet ==
    ASSUME TypeOK, inflight = Cardinality(Inside), inflight = 0
    PROVE  \A r \in Reqs : req[r] # "admitted"
<1>1. IsFiniteSet(Inside)
  BY GateAssumption, FS_Subset, Zenon DEF Inside
<1>2. Inside = {}
  BY <1>1, FS_EmptySet, Zenon
<1> QED
  BY <1>2, Zenon DEF Inside

(* An open gate that nobody has entered satisfies GateInv.                 *)
LEMMA GateInit == Init => GateInv
<1> SUFFICES ASSUME Init PROVE GateInv
  BY Zenon
<1>1. Inside = {}
  BY Zenon DEF Init, Inside
<1>2. Cardinality(Inside) = 0
  BY <1>1, FS_EmptySet, Zenon
<1> QED
  BY <1>2, Zenon DEF Init, GateInv, TypeOK, QuietAfterIdle

(* Every access of try_enter, leave, close and wait_for_idle keeps         *)
(* GateInv.                                                                *)
LEMMA GateStep ==
    ASSUME GateInv, [Next]_vars
    PROVE  GateInv'
<1>0. memory' = memory
  BY Zenon DEF Next, vars
<1> USE <1>0 DEF GateInv, TypeOK, QuietAfterIdle
<1>1. ASSUME NEW r \in Reqs, FirstLook(r) PROVE GateInv'
  <2>1. Inside' = Inside
    BY <1>1, Zenon DEF FirstLook, Goto, Inside
  <2> QED
    BY <1>1, <2>1, Zenon DEF FirstLook, Goto
<1>2. ASSUME NEW r \in Reqs, Count(r) PROVE GateInv'
  <2>1. Cardinality(Inside') = Cardinality(Inside) + 1
    BY <1>2, OneMore, Zenon DEF Count
  <2> QED
    BY <1>2, <2>1 DEF Count, Goto
<1>3. ASSUME NEW r \in Reqs, SecondLook(r) PROVE GateInv'
  <2>1. Inside' = Inside
    BY <1>3, Zenon DEF SecondLook, Goto, Inside
  <2> QED
    BY <1>3, <2>1, Zenon DEF SecondLook, Admits, Goto
<1>4. ASSUME NEW r \in Reqs, Finish(r) PROVE GateInv'
  <2>1. Inside' = Inside
    BY <1>4, Zenon DEF Finish, Goto, Inside
  <2> QED
    BY <1>4, <2>1, Zenon DEF Finish, Goto
<1>5. ASSUME NEW r \in Reqs, Leave(r) PROVE GateInv'
  <2>1. /\ Cardinality(Inside') = Cardinality(Inside) - 1
        /\ Cardinality(Inside') \in Nat
    BY <1>5, OneLess, Zenon DEF Leave
  <2> QED
    BY <1>5, <2>1, Zenon DEF Leave, Goto
<1>6. ASSUME NEW r \in Reqs, NotifyWaiters(r) PROVE GateInv'
  <2>1. Inside' = Inside
    BY <1>6, Zenon DEF NotifyWaiters, Goto, Inside
  <2> QED
    BY <1>6, <2>1, Zenon DEF NotifyWaiters, Goto, Woken
<1>7. CASE WaitLook \/ Relook
  <2>1. Inside' = Inside
    BY <1>7, Zenon DEF WaitLook, Relook, Inside
  <2> QED
    BY <1>7, <2>1, ZeroIsQuiet, Zenon DEF WaitLook, Relook
<1>8. CASE OpenGate \/ Close \/ Flush \/ CloseCheck
  <2>1. Inside' = Inside
    BY <1>8, Zenon DEF OpenGate, Close, Flush, CloseCheck, Inside
  <2> QED
    BY <1>8, <2>1, Zenon DEF OpenGate, Close, Flush, CloseCheck, Flushed
<1>9. CASE Listen \/ Poll \/ Wake \/ Deadline
  <2>1. Inside' = Inside
    BY <1>9, Zenon DEF Listen, Poll, Wake, Deadline, Inside
  <2> QED
    BY <1>9, <2>1, Zenon DEF Listen, Poll, Wake, Deadline, Flushed
<1>10. CASE UNCHANGED vars
  BY <1>10, Zenon DEF vars, Inside
<1> QED
  BY <1>1, <1>2, <1>3, <1>4, <1>5, <1>6, <1>7, <1>8, <1>9, <1>10, Zenon
     DEF Next, Enter, Exit, Wait

(* Once wait_for_idle has returned Ok, no request is being served and none *)
(* will be, for any finite set of handlers, provided the store of close is *)
(* ordered before its load of the count.                                   *)
THEOREM QuietWhenOrdered == Spec => []QuietAfterIdle
<1>1. GateInv /\ [Next]_vars => GateInv'
  BY GateStep, Zenon
<1>2. GateInv => QuietAfterIdle
  BY Zenon DEF GateInv
<1> QED
  BY <1>1, <1>2, GateInit, PTL DEF Spec

-----------------------------------------------------------------------------
(* A proxy process                                                         *)

(* The points of run_service after the gate is open, those of the          *)
(* shutdown, and the later parts of it.                                    *)
Operating == {"ready", "notify", "report", "await"}

AfterBackground == {"exited"}

AfterIdle == {"deregister", "background"} \cup AfterBackground

AfterData == {"idle"} \cup AfterIdle

AfterReporting == {"final_report", "data"} \cup AfterData

ClosingDown == {"reporting"} \cup AfterReporting

(* As long as no failure was kept, the process was stopped by a signal,    *)
(* and every group whose shutdown is over ended on its cancellation; the   *)
(* gate was closed before the first of them and was idle after the second. *)
ProcInv ==
    /\ GateInv /\ memory = "ordered"
    /\ pc \in {"connect", "register", "open", "stop", "killed"} \cup Operating \cup ClosingDown
    /\ task \in [Tasks -> {"none", "running", "failed", "cancelled", "aborted"}]
    /\ failure \in {"none", "some"}
    /\ pc \in {"connect", "register", "open"} => closer = "starting"
    /\ pc = "register" => \A t \in Tasks : GroupOf[t] # "reporting" => task[t] # "none"
    /\ pc \in {"open"} \cup Operating => \A t \in Tasks : task[t] # "none"
    /\ pc \in Operating => closer = "serving"
    /\ failure = "none" /\ pc \in {"stop"} \cup ClosingDown =>
         /\ signal = "taken" /\ life = "Stopping"
         /\ \A t \in Tasks : task[t] # "none"
    /\ failure = "none" /\ pc = "stop" => closer = "serving"
    /\ failure = "none" /\ pc \in ClosingDown => closer \notin {"starting", "serving"}
    /\ failure = "none" /\ pc \in AfterIdle => closer = "idle"
    /\ failure = "none" => \A t \in Tasks :
         \/ GroupOf[t] = "reporting" /\ pc \in AfterReporting
         \/ GroupOf[t] = "data" /\ pc \in AfterData
         \/ GroupOf[t] = "background" /\ pc \in AfterBackground
         => task[t] = "cancelled"

(* What run_service and the requests do to the gate is a step of the gate. *)
LEMMA ProcessUsesGate ==
    ASSUME [ProcNext]_<<vars, procVars>>
    PROVE  [Next]_vars
<1>1. ASSUME NEW r \in Reqs, Request(r) PROVE [Next]_vars
  BY <1>1, Zenon DEF Request, Next
<1>2. CASE Open \/ CloseFirst \/ WaitIdle
  BY <1>2, Zenon DEF Open, CloseFirst, WaitIdle, Next
<1>3. CASE Connect \/ Register \/ MarkReady \/ Notify \/ FirstReport \/ Trigger \/ Signal \/ Expire
  BY <1>3, Zenon DEF Connect, Register, MarkReady, Notify, FirstReport, Trigger, Signal, Expire
<1>4. CASE ShutdownReporting \/ FinalReport \/ ShutdownDataPlane \/ Deregister \/ ShutdownBackground
  BY <1>4, Zenon DEF ShutdownReporting, FinalReport, ShutdownDataPlane, Deregister, ShutdownBackground
<1>5. ASSUME NEW t \in Tasks, TaskFails(t) \/ TaskEnds(t) PROVE [Next]_vars
  BY <1>5, Zenon DEF TaskFails, TaskEnds
<1>6. CASE UNCHANGED <<vars, procVars>>
  BY <1>6, Zenon
<1> QED
  BY <1>1, <1>2, <1>3, <1>4, <1>5, <1>6, Zenon DEF ProcNext, Proceed

(* One group's shutdown: what it leaves with no failure kept was ended by  *)
(* its cancellation.                                                       *)
LEMMA JoinedIsCancelled ==
    ASSUME ProcInv, NEW g \in Groups, NEW next, Joined(g, next)
    PROVE  /\ task' \in [Tasks -> {"none", "running", "failed", "cancelled", "aborted"}]
           /\ failure' \in {"none", "some"}
           /\ failure' = "none" => failure = "none"
           /\ \A t \in Tasks : /\ task[t] # "none" => task'[t] # "none"
                               /\ task[t] = "cancelled" => task'[t] = "cancelled"
           /\ failure' = "none" => \A t \in InGroup(g) : task'[t] \in {"none", "cancelled"}
BY Zenon DEF ProcInv, Joined, IsClean, Unfinished, InGroup

(* Every step of the process around the gate keeps ProcInv.                *)
LEMMA ProcStep ==
    ASSUME ProcInv, [ProcNext]_<<vars, procVars>>
    PROVE  ProcInv'
<1>0. GateInv' /\ memory' = memory
  BY ProcessUsesGate, GateStep, Zenon DEF ProcInv, Next, vars
<1> USE <1>0 DEF Operating, AfterBackground, AfterIdle, AfterData, AfterReporting, ClosingDown
<1>1. CASE Connect
  BY <1>1, Zenon DEF Connect, ProcInv, Spawned, vars
<1>2. CASE Register
  BY <1>2, Zenon DEF Register, ProcInv, vars
<1>3. CASE Open
  BY <1>3, Zenon DEF Open, OpenGate, ProcInv
<1>4. CASE MarkReady \/ Notify \/ FirstReport
  BY <1>4, Zenon DEF MarkReady, Notify, FirstReport, ProcInv, vars
<1>5. CASE Trigger
  BY <1>5, Zenon DEF Trigger, ProcInv, Published, MayBecome, vars
<1>6. CASE Signal
  BY <1>6, Zenon DEF Signal, ProcInv, vars, Alive, Ended
<1>7. CASE Expire
  BY <1>7, Zenon DEF Expire, ProcInv, vars
<1>8. ASSUME NEW t \in Tasks, TaskFails(t) \/ TaskEnds(t) PROVE ProcInv'
  BY <1>8 DEF TaskFails, TaskEnds, ProcInv, vars
<1>9. CASE CloseFirst
  BY <1>9, Zenon DEF CloseFirst, Close, ProcInv, vars
<1>10. CASE ShutdownReporting
  BY <1>10, JoinedIsCancelled, Zenon DEF ShutdownReporting, Joined, ProcInv, vars, Groups, InGroup
<1>11. CASE FinalReport
  BY <1>11, Zenon DEF FinalReport, ProcInv, vars
<1>12. CASE ShutdownDataPlane
  BY <1>12, JoinedIsCancelled, Zenon DEF ShutdownDataPlane, Joined, ProcInv, vars, Groups, InGroup
<1>13. CASE WaitIdle
  BY <1>13, Zenon
     DEF WaitIdle, ProcInv, vars, Wait, CloseCheck, WaitLook, Listen, Relook, Poll, Wake, Deadline
<1>14. CASE Deregister
  BY <1>14, Zenon DEF Deregister, ProcInv, vars
<1>15. CASE ShutdownBackground
  BY <1>15, JoinedIsCancelled, Zenon DEF ShutdownBackground, Joined, ProcInv, vars, Groups, InGroup
<1>16. ASSUME NEW r \in Reqs, Request(r) PROVE ProcInv'
  <2>1. UNCHANGED <<procVars, closer>>
    BY <1>16, Zenon DEF Request, Enter, Exit, FirstLook, Count, SecondLook, Finish, Leave, NotifyWaiters
  <2> QED BY <2>1, Zenon DEF ProcInv, procVars
<1>17. CASE UNCHANGED <<vars, procVars>>
  BY <1>17, Zenon DEF ProcInv, vars, procVars
<1> QED
  BY <1>1, <1>2, <1>3, <1>4, <1>5, <1>6, <1>7, <1>8, <1>9, <1>10, <1>11, <1>12, <1>13,
     <1>14, <1>15, <1>16, <1>17, Zenon DEF ProcNext, Proceed

(* A process that exits with status zero was asked to stop by a signal,    *)
(* every task ended on its cancellation, and no request was cut off        *)
(* (run_service in wr-proxy/src/main.rs, TaskGroup::shutdown): for any     *)
(* tasks in the three groups and any number of requests.                   *)
THEOREM OkExitWasClean == ProcSpec => []OkExitIsClean
<1>1. Init /\ ProcInit => ProcInv
  BY GateInit, Zenon DEF Init, ProcInit, ProcInv, Operating, ClosingDown, AfterReporting, AfterData,
                  AfterIdle, AfterBackground
<1>2. ProcInv /\ [ProcNext]_<<vars, procVars>> => ProcInv'
  BY ProcStep, Zenon
<1>3. ProcInv => OkExitIsClean
  BY ProcAssumption, Zenon DEF ProcInv, OkExitIsClean, GateInv, QuietAfterIdle, ClosingDown, AfterReporting,
         AfterData, AfterIdle, AfterBackground, Groups
<1> QED
  BY <1>1, <1>2, <1>3, PTL DEF ProcSpec

-----------------------------------------------------------------------------
(* `wr-cli lifecycle wait` *)

(* The states a process can be in after it was seen in one of them.        *)
From(st) ==
    CASE st = "Starting" -> {"Starting", "Ready", "Stopping", "gone"}
      [] st = "Ready" -> {"Ready", "Stopping", "gone"}
      [] st = "Stopping" -> {"Stopping", "gone"}
      [] OTHER -> {"gone"}

WaitStates == [at : {"polling", "matched", "terminal", "mismatch", "timeout"}, state : LifeStates,
          kind : Kinds \cup {"any"}, pin : Instances \cup {NoInstance},
          answer : Instances \cup {NoInstance}, shown : LifeStates \cup {"none"}, polls : Nat]

(* An answer under way was true when it was given, and the process has     *)
(* only gone on since.  A verdict is about the pinned process.             *)
WaitInv ==
    /\ phase \in [Instances -> LifeStates \cup {"none", "gone"}]
    /\ been \in [Instances -> SUBSET (LifeStates \cup {"gone"})]
    /\ await \in WaitStates
    /\ \A i \in Instances : phase[i] \in LifeStates => phase[i] \in been[i]
    /\ await.answer # NoInstance =>
         /\ await.shown \in LifeStates /\ await.shown \in been[await.answer]
         /\ phase[await.answer] \in From(await.shown)
    /\ await.at \in {"matched", "terminal"} => await.pin \in Instances
    /\ await.at = "matched" =>
         await.state \in been[await.pin] /\ await.kind \in {"any", KindOf[await.pin]}
    /\ await.at = "terminal" =>
         phase[await.pin] \in From(await.state) \ {await.state}

(* A poll that ends without a verdict. *)
LEMMA NoVerdict ==
    ASSUME WaitInv, await' \in WaitStates, UNCHANGED <<phase, been>>,
           await'.at \notin {"matched", "terminal"},
           \/ await'.answer = NoInstance
           \/ \E i \in Instances : await'.answer = i /\ await'.shown = phase[i] /\ phase[i] \in LifeStates
    PROVE  WaitInv'
  BY Zenon DEF WaitInv, LifeStates, From

(* Every answer, and every poll that fails, keeps WaitInv.                 *)
LEMMA WaitStep ==
    ASSUME WaitInv, [WaitNext]_waitVars
    PROVE  WaitInv'
  <1> await \in WaitStates
    BY Zenon DEF WaitInv
  <1> await.polls + 1 \in Nat
    BY DEF WaitStates
  <1>1. ASSUME NEW i \in Instances, ProcessMoves(i)
        PROVE  WaitInv'
    <2>1. PICK st \in {"Starting", "Ready", "Stopping", "gone"} :
             /\ phase' = [phase EXCEPT ![i] = st] /\ been' = [been EXCEPT ![i] = @ \cup {st}]
             /\ phase[i] = "none" \/ (phase[i] \in LifeStates /\ st \in From(phase[i]) \ {phase[i]})
      BY <1>1, Zenon DEF ProcessMoves, WaitInv, LifeStates, From
    <2>2. await' = await
      BY <1>1, Zenon DEF ProcessMoves
    <2>3. \A x \in Instances : been[x] \subseteq been'[x] /\ (x # i => phase'[x] = phase[x])
      BY <2>1, Zenon DEF WaitInv
    <2>4. \A y \in LifeStates :
             /\ phase[i] \in From(y) => phase'[i] \in From(y)
             /\ phase[i] \in From(y) \ {y} => phase'[i] \in From(y) \ {y}
      BY <2>1, Zenon DEF WaitInv, LifeStates, From
    <2>5. await.state \in LifeStates
      BY Zenon DEF WaitStates
    <2> QED BY <2>1, <2>2, <2>3, <2>4, <2>5 DEF WaitInv, LifeStates
  <1>2. CASE Query
    <2>1. PICK i \in Instances : /\ phase[i] \in LifeStates
                                 /\ await' = [await EXCEPT !.answer = i, !.shown = phase[i], !.polls = @ + 1]
      BY <1>2, Zenon DEF Query, Observable
    <2>2. await' \in WaitStates /\ await'.answer = i /\ await'.shown = phase[i] /\ await'.at = "polling"
      BY <1>2, <2>1, Zenon DEF WaitStates, Query
    <2> QED BY <1>2, <2>1, <2>2, NoVerdict, Zenon DEF Query
  <1>3. CASE Observe
    <2> DEFINE wrong == \/ await.kind \notin {"any", KindOf[await.answer]}
                        \/ await.pin \notin {NoInstance, await.answer}
               verdict == Classify(await.shown, await.state)
    <2>1. /\ await.answer \in Instances /\ UNCHANGED <<phase, been>>
          /\ await.shown \in LifeStates /\ await.state \in LifeStates
          /\ await.shown \in been[await.answer] /\ phase[await.answer] \in From(await.shown)
      BY <1>3, Zenon DEF Observe, WaitStates, WaitInv
    <2>2. /\ verdict \in {"matched", "polling", "terminal"}
          /\ verdict = "matched" => await.shown = await.state
          /\ verdict = "terminal" => From(await.shown) \subseteq From(await.state) \ {await.state}
      BY <2>1, Zenon DEF Classify, LifeStates, From
    <2>3. /\ await' \in WaitStates
          /\ await'.answer = NoInstance /\ await'.state = await.state /\ await'.kind = await.kind
          /\ await'.at = IF wrong THEN "mismatch" ELSE verdict
          /\ ~wrong => await'.pin = await.answer
      <3> HIDE DEF verdict
      <3> QED BY <1>3, <2>1, <2>2, Zenon DEF Observe, WaitStates, verdict
    <2>4. CASE await'.at \in {"matched", "terminal"}
      <3> HIDE DEF verdict
      <3>1. ~wrong /\ await'.pin = await.answer /\ await'.at = verdict
        BY <2>3, <2>4, Zenon
      <3> QED BY <2>1, <2>2, <2>3, <2>4, <3>1, Zenon DEF WaitInv
    <2>5. CASE await'.at \notin {"matched", "terminal"}
      BY <2>1, <2>3, <2>5, NoVerdict, Zenon
    <2> QED BY <2>4, <2>5, Zenon
  <1>4. CASE PollFails \/ WaitExpires
    <2>1. await' \in WaitStates /\ await'.answer = NoInstance /\ await'.at \in {"polling", "timeout"}
      <3>1. CASE PollFails
        BY <3>1, Zenon DEF PollFails, WaitStates
      <3>2. CASE WaitExpires
        BY <3>2, Zenon DEF WaitExpires, WaitStates
      <3> QED BY <1>4, <3>1, <3>2, Zenon
    <2> QED BY <1>4, <2>1, NoVerdict, Zenon DEF PollFails, WaitExpires
  <1>5. CASE UNCHANGED waitVars
    BY <1>5, Zenon DEF waitVars, WaitInv
  <1> QED BY <1>1, <1>2, <1>3, <1>4, <1>5, Zenon DEF WaitNext

(* A verdict of `lifecycle wait` stands (lifecycle.rs, helpers.rs): with   *)
(* any number of processes that follow each other at the endpoint, any     *)
(* kinds of service and any number of polls.                               *)
THEOREM WaitVerdictStands == WaitSpec => []VerdictStands
  <1>1. WaitInit(Kinds) => WaitInv
    BY WaitAssumption DEF WaitInit, WaitArgs, WaitInv, WaitStates, LifeStates, From
  <1>2. WaitInv /\ [WaitNext]_waitVars => WaitInv'
    BY WaitStep, Zenon
  <1>3. WaitInv => VerdictStands
    BY Zenon DEF WaitInv, VerdictStands
  <1> QED BY <1>1, <1>2, <1>3, PTL DEF WaitSpec

-----------------------------------------------------------------------------
(* `wr dev run` *)

StopStages == {"stop_engines", "stop_proxies", "stop_manager"}

(* The services that were stopped before a stage. *)
StoppedBefore(at) ==
    CASE at = "stop_proxies" -> EngineNames
      [] at = "stop_manager" -> EngineNames \cup ProxyNames
      [] at = "returned" -> Children
      [] OTHER -> {}

Scenarios == [leader : {"none", "running"} \cup Over, direct : {"none"} \cup Over,
              others : BOOLEAN, stop : {"idle", "term", "kill"}]

(* The runner holds a handle for every process there is, gives it up for   *)
(* an exit it saw, and passes a wave only when nothing of it is left.      *)
RunnerInv ==
    /\ stage \in {"admission", "prepare", "operate", "activate", "capture", "barrier",
                  "activate_scenario", "monitor", "stop_scenario", "returned"}
                 \cup DOMAIN NextStage \cup StopStages
    /\ child \in [Children -> {"none", "killed"} \cup Running \cup Over]
    /\ held \in [Children -> {"none", "owned"} \cup Over]
    /\ stop \in [Children -> {"idle", "term", "kill", "latched", "done"}]
    /\ scenario \in Scenarios
    /\ \A c \in Children :
          /\ held[c] = "none" <=> child[c] = "none"
          /\ held[c] \in Over => child[c] \in Over
          /\ stop[c] = "done" => held[c] \in Over
    /\ \A c \in StoppedBefore(stage) : held[c] \in {"none"} \cup Over
    /\ scenario.others => scenario.leader # "none" \/ scenario.direct # "none"
    /\ stage \in StopStages \cup {"returned"} => scenario.leader = "none" /\ ~scenario.others

(* Every step of the children, of the signals and of the stop sequence     *)
(* keeps RunnerInv.                                                        *)
LEMMA RunnerStep ==
    ASSUME RunnerInv, [RunnerNext]_runnerVars
    PROVE  RunnerInv'
<1> USE DEF StopStages, StoppedBefore, Over, Running, NextStage
<1>1. ASSUME NEW c \in Children, ChildMoves(c) \/ ChildDies(c) PROVE RunnerInv'
  BY <1>1 DEF ChildMoves, ChildDies, RunnerInv
<1>2. ASSUME NEW b \in BOOLEAN, Interrupt(b) PROVE RunnerInv'
  BY <1>2, Zenon DEF Interrupt, Terminated, RunnerInv
<1>3. CASE Track
  BY <1>3, Zenon DEF Track, RunnerInv
<1>4. ASSUME NEW c \in Children, Spawn(c) PROVE RunnerInv'
  BY <1>4 DEF Spawn, RunnerInv, Wave
<1>5. ASSUME NEW c \in Children, WaitReady(c) PROVE RunnerInv'
  <2>1. /\ UNCHANGED <<stage, child, stop, scenario>> /\ held[c] = "owned"
        /\ held' = held \/ (child[c] \in Over /\ held' = [held EXCEPT ![c] = child[c]])
    BY <1>5, Zenon DEF WaitReady, Reaped
  <2>2. CASE held' = held
    BY <2>1, <2>2, Zenon DEF RunnerInv
  <2>3. CASE child[c] \in Over /\ held' = [held EXCEPT ![c] = child[c]]
    BY <2>1, <2>3 DEF RunnerInv
  <2> QED BY <2>1, <2>2, <2>3, Zenon
<1>6. CASE WaveStarted
  BY <1>6 DEF WaveStarted, Ending, Continue, RunnerInv
<1>7. CASE Calls
  BY <1>7, Zenon DEF Calls, WaitForManagerAdmission, PrepareManagedEngineConfigs, CompleteForegroundOperation,
              ActivateForegroundRoutes, CaptureVersion, Barrier, Call, Ending, Continue, RunnerInv
<1>8. ASSUME NEW w \in BOOLEAN, StartScenario(w) PROVE RunnerInv'
  <2>1. UNCHANGED <<child, held, stop>> /\ stage = "activate_scenario"
    BY <1>8, Zenon DEF StartScenario
  <2>2. CASE UNCHANGED scenario
    BY <1>8, <2>1, <2>2, Zenon DEF StartScenario, Ending, Continue, RunnerInv
  <2>3. CASE stage' = "monitor" /\ scenario' = [scenario EXCEPT !.leader = "running"]
    <3>1. scenario' \in Scenarios /\ scenario'.leader = "running"
      BY <2>3, Zenon DEF RunnerInv, Scenarios
    <3> QED BY <2>1, <2>3, <3>1, Zenon DEF RunnerInv
  <2> QED BY <1>8, <2>2, <2>3, Zenon DEF StartScenario, Continue
<1>9. CASE ScenarioMoves
  <2>1. UNCHANGED <<stage, child, held, stop>>
    BY <1>9, Zenon DEF ScenarioMoves
  <2>2. /\ scenario' \in Scenarios
        /\ scenario'.direct = scenario.direct
        /\ scenario'.others => scenario.others \/ scenario.leader = "running"
        /\ scenario.leader = "none" => scenario'.leader = "none"
        /\ scenario.leader # "none" => scenario'.leader # "none"
    <3> scenario \in Scenarios
      BY Zenon DEF RunnerInv
    <3>2. CASE scenario' = [scenario EXCEPT !.others = FALSE]
      BY <3>2, Zenon DEF Scenarios
    <3>3. CASE scenario.leader = "running" /\ scenario' = [scenario EXCEPT !.others = TRUE]
      BY <3>3, Zenon DEF Scenarios
    <3>4. CASE scenario.leader = "running" /\ \E x \in Over : scenario' = [scenario EXCEPT !.leader = x]
      BY <3>4, Zenon DEF Scenarios
    <3>5. CASE scenario.leader = "running" /\ scenario' = [scenario EXCEPT !.leader = "exit_error", !.others = FALSE]
      BY <3>5, Zenon DEF Scenarios
    <3> QED BY <1>9, <3>2, <3>3, <3>4, <3>5, Zenon DEF ScenarioMoves
  <2> QED BY <2>1, <2>2, Zenon DEF RunnerInv
<1>10. ASSUME NEW c \in Children, UnexpectedExit(c) PROVE RunnerInv'
  BY <1>10, Zenon DEF UnexpectedExit, Reaped, Ending, RunnerInv
<1>11. CASE ScenarioOver \/ MonitorSignal
  <2>1. UNCHANGED <<child, held, stop>> /\ stage = "monitor"
        /\ stage' = IF scenario.leader = "none" /\ scenario.direct = "none"
                    THEN "stop_engines" ELSE "stop_scenario"
    BY <1>11, Zenon DEF ScenarioOver, MonitorSignal, Ending
  <2>2. /\ scenario' \in Scenarios /\ scenario'.others = scenario.others
        /\ scenario' = scenario \/ (scenario.leader # "none" /\ scenario'.direct # "none")
    <3>1. CASE ScenarioOver
      <4>1. scenario \in Scenarios /\ scenario.leader \in Over
            /\ scenario' = [scenario EXCEPT !.direct = scenario.leader, !.leader = "none"]
        BY <3>1, Zenon DEF ScenarioOver, RunnerInv
      <4> QED BY <4>1, Zenon DEF Scenarios
    <3>2. CASE MonitorSignal
      BY <3>2, Zenon DEF MonitorSignal, RunnerInv
    <3> QED BY <1>11, <3>1, <3>2, Zenon
  <2> QED BY <2>1, <2>2, Zenon DEF RunnerInv
<1>12. CASE SignalScenario \/ ScenarioStopped
  <2>1. UNCHANGED <<child, held, stop>> /\ stage = "stop_scenario"
    BY <1>12, Zenon DEF SignalScenario, ScenarioStopped
  <2>2. scenario \in Scenarios
    BY Zenon DEF RunnerInv
  <2>3. CASE SignalScenario
    <3>1. stage' = stage /\ \E x \in {"term", "kill"} : scenario' = [scenario EXCEPT !.stop = x]
      BY <2>3, Zenon DEF SignalScenario
    <3>2. /\ scenario' \in Scenarios /\ scenario'.leader = scenario.leader
          /\ scenario'.direct = scenario.direct /\ scenario'.others = scenario.others
      BY <2>2, <3>1, Zenon DEF Scenarios
    <3> QED BY <2>1, <3>1, <3>2, Zenon DEF RunnerInv
  <2>4. CASE ScenarioStopped
    <3>1. /\ stage' = "stop_engines" /\ ~scenario.others
          /\ \E x \in {"none"} \cup Over : scenario' = [scenario EXCEPT !.leader = "none", !.direct = x]
      BY <2>2, <2>4, Zenon DEF ScenarioStopped, ScenarioGone, Continue, Scenarios
    <3>2. scenario' \in Scenarios /\ scenario'.leader = "none" /\ ~scenario'.others
      BY <2>2, <3>1, Zenon DEF Scenarios
    <3> QED BY <2>1, <3>1, <3>2, Zenon DEF RunnerInv
  <2> QED BY <1>12, <2>3, <2>4, Zenon
<1>13. ASSUME NEW c \in Children, Term(c) \/ Kill(c) \/ Reap(c) PROVE RunnerInv'
  <2>1. CASE Term(c)
    <3>1. CASE held[c] = "owned"
      BY <2>1, <3>1 DEF Term, Terminated, RunnerInv
    <3>2. CASE held[c] # "owned"
      BY <2>1, <3>2 DEF Term, RunnerInv
    <3> QED BY <3>1, <3>2, Zenon
  <2>2. CASE Kill(c)
    <3>1. /\ UNCHANGED <<stage, held, scenario>> /\ stop[c] # "done"
          /\ \E x \in {"kill", "latched"} : stop' = [stop EXCEPT ![c] = x]
          /\ child' = child \/ (child[c] \in Running /\ child' = [child EXCEPT ![c] = "killed"])
      BY <2>2, Zenon DEF Kill, RunnerInv
    <3>2. CASE child' = child
      BY <3>1, <3>2 DEF RunnerInv
    <3>3. CASE child[c] \in Running /\ child' = [child EXCEPT ![c] = "killed"]
      BY <3>1, <3>3 DEF RunnerInv
    <3> QED BY <3>1, <3>2, <3>3, Zenon
  <2>3. CASE Reap(c)
    BY <2>3 DEF Reap, Reaped, RunnerInv
  <2> QED BY <1>13, <2>1, <2>2, <2>3, Zenon
<1>14. CASE WaveStopped
  BY <1>14 DEF WaveStopped, Continue, AfterWave, Wave, Children, RunnerInv
<1>15. CASE UNCHANGED runnerVars
  BY <1>15, Zenon DEF runnerVars, RunnerInv
<1> QED
  BY <1>1, <1>2, <1>3, <1>4, <1>5, <1>6, <1>7, <1>8, <1>9, <1>10, <1>11, <1>12, <1>13, <1>14, <1>15, Zenon
     DEF RunnerNext, Runs, Cleanup

(* `wr dev run` returns only when every service it spawned is reaped and   *)
(* no process of the scenario's group is alive (foreground_runner.rs run,  *)
(* finish_owned, stop_and_reap): for any number of proxies and engines and *)
(* any number of interrupts.                                               *)
THEOREM RunnerReturnsClean == RunnerSpec => []ReturnLeavesNothing
<1>1. RunnerInit => RunnerInv
  BY DEF RunnerInit, NoScenario, RunnerInv, Scenarios, StopStages, StoppedBefore, NextStage, Over, Running
<1>2. RunnerInv /\ [RunnerNext]_runnerVars => RunnerInv'
  BY RunnerStep, Zenon
<1>3. RunnerInv => ReturnLeavesNothing
  BY Zenon DEF RunnerInv, ReturnLeavesNothing, StoppedBefore, Over, StopStages
<1> QED
  BY <1>1, <1>2, <1>3, PTL DEF RunnerSpec

-----------------------------------------------------------------------------
(* NodeControl: an acknowledged drain holds.                               *)

(* The control points after which an engine never joins, loads or serves   *)
(* again.                                                                  *)
Past == {"stopping", "acked", "unacked", "leaving", "failed", "gone", "crashed"}

Processes == [st : UpStates \cup {"off", "gone", "crashed"}, gen : Nat, ack : {"yes", "no"}]

Mods == Reports \cup {"failing"}

CallRecords ==
    [kind : {"none", "register", "beat", "flush", "drain", "deregister"},
     act : Acts \cup {NoAct}, gen : Nat, mods : Mods, try : Nat,
     at : {"idle", "waiting", "granted", "refused"}, ver : Nat]

Slots == [act : Acts \cup {NoAct}, gen : Nat,
          phase : {"registered", "ready", "draining", "tombstoned"}, mods : Mods]

Flushes == [act : Acts \cup {NoAct}, gen : Nat, mods : Mods]

Messages ==
    [kind : {"register", "beat", "flush", "drain", "deregister"},
     act : Acts, gen : Nat, mods : Mods, try : Nat]

RegistryType ==
    /\ version \in Nat
    /\ route \in [Acts -> {"none", "unhealthy", "healthy"}]
    /\ row \in [Acts -> RowType]
    /\ owner \in [act : {owner.act}, op : {owner.op}, gen : Nat, held : {"yes", "no"}]

NodeType ==
    /\ proc \in [Acts -> Processes]
    /\ slot \in Slots /\ (slot.act = NoAct => slot.phase = "tombstoned")
    /\ call \in CallRecords /\ (call.kind # "none" => call.act \in Acts)
    /\ wire \subseteq Messages
    /\ flush \in Flushes
    /\ cache \in [ver : Nat, up : SUBSET Acts]

(* The registry does not serve the engine, and refuses to publish it. *)
Withdrawn(e) == row[e].st # "live" /\ route[e] # "healthy"

(* No copy of the engine's registration was executed once it was past. *)
Unrevived(e) == \A copy \in revived : copy[1] = e => copy[2] \in {"loaded", "ready"}

(* The proxy's table is the registry's, unless it is older. *)
CacheFits ==
    /\ cache.ver <= version
    /\ cache.ver = version => cache.up = Serving
    /\ version = 0 => Serving = {}

(* Only an engine that is past drains, and its drain, once executed, keeps *)
(* it out of every table as new as the drain.                              *)
DrainFits(e) ==
    /\ proc[e].ack = "yes" \/ (call.kind = "drain" /\ call.act = e) => proc[e].st \in Past
    /\ proc[e].ack = "yes" /\ Unrevived(e) => Withdrawn(e) /\ e \notin cache.up
    /\ call.kind = "drain" /\ call.at = "granted" /\ call.act = e /\ Unrevived(e) =>
          Withdrawn(e) /\ (call.ver <= cache.ver => e \notin cache.up)

DrainInv ==
    /\ RegistryType /\ NodeType /\ CacheFits
    /\ \A e \in Acts : DrainFits(e)

(* What every transaction of the registry does but the registration of x:  *)
(* the serving set changes with the version only, and an engine that is    *)
(* withdrawn stays withdrawn.                                              *)
Upholds(x) ==
    /\ RegistryType'
    /\ version <= version'
    /\ version' = version => route' = route
    /\ \A e \in Acts : e # x /\ Withdrawn(e) => Withdrawn(e)'

(* register_engine_and_routes. *)
LEMMA RegisterUpholds ==
    ASSUME RegistryType, NEW x \in Acts, RegisterTxn(x)
    PROVE  Upholds(x) /\ owner'.gen \in Nat
<1> DEFINE old == IF Replay(x) THEN {} ELSE {owner.act} \cap Acts
<1>1. /\ route' = [Withdraw(old) EXCEPT ![x] = "unhealthy"]
      /\ row' = [f \in Acts |-> IF f = x THEN RegisteredRow
                                ELSE IF f \in old THEN [row[f] EXCEPT !.mod = "none"]
                                ELSE row[f]]
      /\ owner' = [act |-> x, op |-> live.op, held |-> "yes",
                   gen |-> IF Replay(x) THEN owner.gen ELSE owner.gen + 1]
      /\ version' = version + 1
  BY Zenon DEF RegisterTxn, Bump
<1> HIDE DEF old
<1>2. owner.gen \in Nat /\ version \in Nat
  BY Zenon DEF RegistryType
<1>3. RegisteredRow \in RowType
  BY Zenon DEF RegisteredRow, RowType
<1>4. \A f \in Acts : row[f] \in RowType /\ [row[f] EXCEPT !.mod = "none"] \in RowType
                      /\ [row[f] EXCEPT !.mod = "none"].st = row[f].st
  BY DEF RegistryType, RowType
<1>5. /\ row' \in [Acts -> RowType]
      /\ \A f \in Acts : f # x => row'[f].st = row[f].st
  BY <1>1, <1>3, <1>4, Zenon
<1>6. /\ Withdraw(old) \in [Acts -> {"none", "unhealthy", "healthy"}]
      /\ \A f \in Acts : route[f] # "healthy" => Withdraw(old)[f] # "healthy"
  BY Zenon DEF Withdraw, RegistryType
<1>7. /\ route' \in [Acts -> {"none", "unhealthy", "healthy"}]
      /\ \A f \in Acts : route[f] # "healthy" => route'[f] # "healthy"
  BY <1>1, <1>6, Zenon
<1>8. /\ owner' \in [act : {owner'.act}, op : {owner'.op}, gen : Nat, held : {"yes", "no"}]
      /\ owner'.gen \in Nat
  BY <1>1, <1>2
<1>9. version' \in Nat /\ version <= version' /\ version' # version
  BY <1>1, <1>2
<1> QED BY <1>5, <1>7, <1>8, <1>9, Zenon DEF Upholds, RegistryType, Withdrawn

(* The other transactions either leave the routes alone, or take some out, *)
(* or serve routes of registered engines that do not drain.                *)
LEMMA RouteUpholds ==
    ASSUME RegistryType, NEW x,
           route' \in [Acts -> {"none", "unhealthy", "healthy"}],
           row' \in [Acts -> RowType],
           owner' \in [act : {owner'.act}, op : {owner'.op}, gen : Nat, held : {"yes", "no"}],
           Bump(route' # route) \/ (route' = route /\ version' = version),
           \A e \in Acts : row[e].st # "live" => row'[e].st # "live",
           \A e \in Acts : route'[e] = "healthy" => route[e] = "healthy" \/ row[e].st = "live"
    PROVE  Upholds(x)
<1>1. version \in Nat
  BY Zenon DEF RegistryType
<1>2. version' \in Nat /\ version <= version' /\ (version' = version => route' = route)
  BY <1>1 DEF Bump
<1> QED BY <1>2, Zenon DEF Upholds, RegistryType, Withdrawn

(* Withdrawing routes makes none healthy.                                  *)
LEMMA WithdrawFits ==
    ASSUME RegistryType, NEW gone
    PROVE  /\ Withdraw(gone) \in [Acts -> {"none", "unhealthy", "healthy"}]
           /\ \A e \in Acts : Withdraw(gone)[e] = "healthy" => route[e] = "healthy"
           /\ \A e \in Acts : e \in gone => Withdraw(gone)[e] # "healthy"
BY Zenon DEF Withdraw, RegistryType

(* publish_engine_readiness serves only an engine that does not drain. *)
LEMMA PublishUpholds ==
    ASSUME RegistryType, NEW x, NEW e \in Acts, NEW g, NEW health, PublishTxn(e, g, health)
    PROVE  Upholds(x)
<1> DEFINE new == [st |-> row[e].st, beat |-> "fresh",
                   mod |-> IF health = "ok" THEN "fresh" ELSE row[e].mod]
<1>1. /\ row[e].st = "live" /\ owner' = owner /\ Bump(route' # route)
      /\ row' = [row EXCEPT ![e] = new]
      /\ \/ route' = Withdraw({e})
         \/ route' = [route EXCEPT ![e] = "healthy"]
         \/ route' = route
  BY Zenon DEF PublishTxn, PublishAllowed
<1>2. row \in [Acts -> RowType] /\ row[e] \in RowType
  BY Zenon DEF RegistryType
<1>3. new \in RowType /\ new.st = row[e].st
  BY <1>2, Zenon DEF RowType
<1> HIDE DEF new
<1>4. row' \in [Acts -> RowType] /\ \A f \in Acts : row'[f].st = row[f].st
  BY <1>1, <1>2, <1>3, Zenon
<1>5. /\ route' \in [Acts -> {"none", "unhealthy", "healthy"}]
      /\ \A f \in Acts : route'[f] = "healthy" => route[f] = "healthy" \/ row[f].st = "live"
  BY <1>1, WithdrawFits DEF RegistryType
<1>6. owner' \in [act : {owner'.act}, op : {owner'.op}, gen : Nat, held : {"yes", "no"}]
  BY <1>1, Zenon DEF RegistryType
<1> QED BY <1>1, <1>4, <1>5, <1>6, RouteUpholds, Zenon

(* begin_engine_drain withdraws the engine. *)
LEMMA DrainUpholds ==
    ASSUME RegistryType, NEW x, NEW e \in Acts, NEW g, DrainTxn(e, g)
    PROVE  Upholds(x) /\ Withdrawn(e)'
<1> DEFINE new == [row[e] EXCEPT !.st = "draining"]
<1>1. /\ owner' = owner /\ Bump(route' # route)
      /\ row' = [row EXCEPT ![e] = new] /\ route' = Withdraw({e})
  BY Zenon DEF DrainTxn
<1>2. row \in [Acts -> RowType] /\ row[e] \in RowType
  BY Zenon DEF RegistryType
<1>3. new \in RowType /\ new.st = "draining"
  BY <1>2, Zenon DEF RowType
<1> HIDE DEF new
<1>4. /\ row' \in [Acts -> RowType] /\ row'[e].st = "draining"
      /\ \A f \in Acts : row[f].st # "live" => row'[f].st # "live"
  BY <1>1, <1>2, <1>3, Zenon
<1>5. /\ route' \in [Acts -> {"none", "unhealthy", "healthy"}]
      /\ \A f \in Acts : route'[f] = "healthy" => route[f] = "healthy"
      /\ route'[e] # "healthy"
  BY <1>1, WithdrawFits, Zenon
<1>6. owner' \in [act : {owner'.act}, op : {owner'.op}, gen : Nat, held : {"yes", "no"}]
  BY <1>1, Zenon DEF RegistryType
<1>7. Upholds(x)
  BY <1>1, <1>4, <1>5, <1>6, RouteUpholds, Zenon
<1> QED BY <1>4, <1>5, <1>7, Zenon DEF Withdrawn

(* deregister_engine deletes the engine. *)
LEMMA DeregisterUpholds ==
    ASSUME RegistryType, NEW x, NEW e \in Acts, NEW g, DeregisterTxn(e, g)
    PROVE  Upholds(x)
<1>1. /\ owner' = [owner EXCEPT !.held = "no"] /\ Bump(route' # route)
      /\ row' = [row EXCEPT ![e] = NoRow] /\ route' = Withdraw({e})
  BY Zenon DEF DeregisterTxn
<1>2. NoRow \in RowType /\ NoRow.st = "none"
  BY Zenon DEF NoRow, RowType
<1>3. /\ row' \in [Acts -> RowType]
      /\ \A f \in Acts : row[f].st # "live" => row'[f].st # "live"
  BY <1>1, <1>2, Zenon DEF RegistryType
<1>4. /\ route' \in [Acts -> {"none", "unhealthy", "healthy"}]
      /\ \A f \in Acts : route'[f] = "healthy" => route[f] = "healthy"
  BY <1>1, WithdrawFits, Zenon
<1>5. owner' \in [act : {owner'.act}, op : {owner'.op}, gen : Nat, held : {"yes", "no"}]
  BY <1>1, Zenon DEF RegistryType
<1> QED BY <1>1, <1>3, <1>4, <1>5, RouteUpholds, Zenon

(* The managers' monitor, the ageing of heartbeats and the operation       *)
(* around the slot.                                                        *)
LEMMA BackgroundUpholds ==
    ASSUME RegistryType, NEW x,
           \/ MonitorTxn \/ SwitchTxn \/ (\E e \in Ageing : BeatAges(e) \/ ModuleAges(e))
           \/ (\E r \in Revs : OperationStarts(r))
           \/ OperationRestores \/ OperationEnds \/ OperationCommits
    PROVE  Upholds(x)
<1>1. owner' = owner
  BY Zenon DEF MonitorTxn, SwitchTxn, BeatAges, ModuleAges, OperationStarts, OperationRestores,
         OperationEnds, OperationCommits
<1>2. owner' \in [act : {owner'.act}, op : {owner'.op}, gen : Nat, held : {"yes", "no"}]
  BY <1>1, Zenon DEF RegistryType
<1>3. CASE MonitorTxn
  <2>1. row' = row /\ Bump(route' # route)
    BY <1>3, Zenon DEF MonitorTxn
  <2>2. /\ route' \in [Acts -> {"none", "unhealthy", "healthy"}]
        /\ \A f \in Acts : route'[f] = "healthy" => row[f].st = "live"
    BY <1>3, Zenon DEF MonitorTxn, Backed
  <2> QED BY <1>2, <2>1, <2>2, RouteUpholds, Zenon DEF RegistryType
<1>4. CASE SwitchTxn
  <2>1. /\ row' = row /\ Bump(route' # route)
        /\ route' = Withdraw({e \in Acts : row[e].st # "none" /\ RevOf[e] # live.rev})
    BY <1>4, Zenon DEF SwitchTxn
  <2>2. /\ route' \in [Acts -> {"none", "unhealthy", "healthy"}]
        /\ \A f \in Acts : route'[f] = "healthy" => route[f] = "healthy"
    BY <2>1, WithdrawFits, Zenon
  <2> QED BY <1>2, <2>1, <2>2, RouteUpholds, Zenon DEF RegistryType
<1>5. ASSUME NEW e \in Ageing, BeatAges(e) \/ ModuleAges(e)
      PROVE  Upholds(x)
  <2>1. /\ route' = route /\ version' = version
        /\ \/ row' = [row EXCEPT ![e] = [row[e] EXCEPT !.beat = "stale"]]
           \/ row' = [row EXCEPT ![e] = [row[e] EXCEPT !.mod = "stale"]]
    BY <1>5, Zenon DEF BeatAges, ModuleAges
  <2>2. CASE e \in Acts
    <3>1. row[e] \in RowType
      BY <2>2, Zenon DEF RegistryType
    <3>2. /\ [row[e] EXCEPT !.beat = "stale"] \in RowType /\ [row[e] EXCEPT !.beat = "stale"].st = row[e].st
          /\ [row[e] EXCEPT !.mod = "stale"] \in RowType /\ [row[e] EXCEPT !.mod = "stale"].st = row[e].st
      BY <3>1, Zenon DEF RowType
    <3>3. PICK q \in RowType : q.st = row[e].st /\ row' = [row EXCEPT ![e] = q]
      BY <2>1, <3>2, Zenon
    <3>4. row \in [Acts -> RowType]
      BY Zenon DEF RegistryType
    <3>5. row' \in [Acts -> RowType] /\ \A f \in Acts : row'[f].st = row[f].st
      BY <2>2, <3>3, <3>4, Zenon
    <3> QED BY <1>2, <2>1, <3>5, RouteUpholds, Zenon DEF RegistryType
  <2>3. CASE e \notin Acts
    <3>1. row' \in [Acts -> RowType] /\ \A f \in Acts : row'[f] = row[f]
      BY <2>1, <2>3 DEF RegistryType
    <3> QED BY <1>2, <2>1, <3>1, RouteUpholds, Zenon DEF RegistryType
  <2> QED BY <2>2, <2>3, Zenon
<1>6. CASE \/ (\E r \in Revs : OperationStarts(r))
           \/ OperationRestores \/ OperationEnds \/ OperationCommits
  <2>1. row' = row /\ route' = route /\ version' = version
    BY <1>6, Zenon DEF OperationStarts, OperationRestores, OperationEnds, OperationCommits
  <2> QED BY <1>2, <2>1, RouteUpholds, Zenon DEF RegistryType
<1> QED BY <1>3, <1>4, <1>5, <1>6, Zenon

(* The proxy's table against a registry that moved on. *)
LEMMA CacheUpheld ==
    ASSUME RegistryType, NodeType, CacheFits, NEW x, Upholds(x), cache' = cache
    PROVE  CacheFits'
<1>1. version \in Nat /\ version' \in Nat /\ cache.ver \in Nat /\ version <= version'
  BY Zenon DEF RegistryType, NodeType, Upholds
<1>2. version' = version => Serving' = Serving
  BY Zenon DEF Upholds, Serving
<1> QED BY <1>1, <1>2 DEF CacheFits

(* A registry step that answers nobody. *)
LEMMA RegistryMoves ==
    ASSUME DrainInv, NEW x, Upholds(x), NodeType',
           UNCHANGED <<proc, cache>>,
           call'.kind = "drain" =>
              /\ call.kind = "drain" /\ call'.act = call.act
              /\ call'.at = "granted" => call.at = "granted" /\ call'.ver = call.ver,
           \A e \in Acts : Unrevived(e)' => Unrevived(e) /\ (proc[e].st \in Past => e # x)
    PROVE  DrainInv'
<1>1. RegistryType' /\ CacheFits'
  BY CacheUpheld, Zenon DEF DrainInv, Upholds
<1>2. ASSUME NEW e \in Acts
      PROVE  DrainFits(e)'
  <2>1. DrainFits(e) /\ (Withdrawn(e) /\ e # x => Withdrawn(e)')
    BY Zenon DEF DrainInv, Upholds
  <2>2. Unrevived(e)' => Unrevived(e) /\ (proc[e].st \in Past => e # x)
    BY Zenon
  <2> QED BY <2>1, <2>2, Zenon DEF DrainFits
<1> QED BY <1>1, <1>2, Zenon DEF DrainInv

(* The record of a call is that of a request, with what became of it. *)
LEMMA CallFits ==
    ASSUME NodeType
    PROVE  /\ NoCall \in CallRecords /\ NoCall.kind = "none"
           /\ \A s \in {"granted", "refused"} :
                LET c == [call EXCEPT !.at = s] IN
                c \in CallRecords /\ c.kind = call.kind /\ c.act = call.act /\ c.at = s
           /\ \A g \in Nat :
                LET c == [call EXCEPT !.at = "granted", !.gen = g] IN
                c \in CallRecords /\ c.kind = call.kind /\ c.act = call.act
           /\ \A v \in Nat :
                LET c == [call EXCEPT !.at = "granted", !.ver = v] IN
                /\ c \in CallRecords /\ c.kind = call.kind /\ c.act = call.act
                /\ c.at = "granted" /\ c.ver = v
           /\ LET c == [call EXCEPT !.try = 2] IN
                /\ c \in CallRecords /\ c.kind = call.kind /\ c.act = call.act /\ c.at = call.at
                /\ call.act \in Acts /\ call.kind # "none" => Message(c) \in Messages
<1>1. call \in CallRecords
  BY Zenon DEF NodeType
<1>2. NoCall \in CallRecords /\ NoCall.kind = "none"
  BY Zenon DEF NoCall, CallRecords, Mods
<1> DEFINE c == [call EXCEPT !.try = 2]
<1>3. c \in CallRecords /\ c.kind = call.kind /\ c.act = call.act /\ c.at = call.at
  BY <1>1, Zenon DEF CallRecords
<1> HIDE DEF c
<1>4. call.act \in Acts /\ call.kind # "none" => Message(c) \in Messages
  BY <1>3, Zenon DEF CallRecords, Message, Messages
<1> QED BY <1>1, <1>2, <1>3, <1>4, Zenon DEF CallRecords, c

(* A request to a manager. *)
LEMMA RequestFits ==
    ASSUME NEW kind \in {"register", "beat", "flush", "drain", "deregister"},
           NEW e \in Acts, NEW g \in Nat, NEW mods \in Mods
    PROVE  LET c == Asking(kind, e, g, mods) IN
           /\ c \in CallRecords /\ c.kind = kind /\ c.act = e /\ c.at = "waiting"
           /\ Message(c) \in Messages
BY Zenon DEF Asking, Message, Messages, CallRecords

(* A call is sent while no other holds the lock. *)
LEMMA SendFits ==
    ASSUME wire \subseteq Messages,
           NEW kind \in {"register", "beat", "flush", "drain", "deregister"},
           NEW e \in Acts, NEW g \in Nat, NEW mods \in Mods,
           Send(Asking(kind, e, g, mods))
    PROVE  /\ wire' \subseteq Messages /\ call' \in CallRecords
           /\ call'.kind = kind /\ call'.act = e /\ call'.at = "waiting"
<1> DEFINE c == Asking(kind, e, g, mods)
<1>1. call' = c /\ wire' = wire \cup {Message(c)}
  BY Zenon DEF Send
<1>2. /\ c \in CallRecords /\ c.kind = kind /\ c.act = e /\ c.at = "waiting"
      /\ Message(c) \in Messages
  BY RequestFits
<1> HIDE DEF c
<1> QED BY <1>1, <1>2, Zenon

(* The processes go on: nobody comes back from where it is past. *)
Onward ==
    /\ proc' \in [Acts -> Processes]
    /\ \A e \in Acts : proc'[e].ack = proc[e].ack /\ (proc[e].st \in Past => proc'[e].st \in Past)

(* An engine moves to a later control point.                               *)
LEMMA GotoFits ==
    ASSUME proc \in [Acts -> Processes], NEW e \in Acts,
           NEW s \in UpStates \cup {"off", "gone", "crashed"},
           proc[e].st \in Past => s \in Past, GoesTo(e, s)
    PROVE  Onward /\ proc'[e].st = s
<1> DEFINE p == [proc[e] EXCEPT !.st = s]
<1>1. proc' = [proc EXCEPT ![e] = p] /\ proc[e] \in Processes
  BY Zenon DEF GoesTo
<1>2. p \in Processes /\ p.st = s /\ p.ack = proc[e].ack
  BY <1>1, Zenon DEF Processes
<1> HIDE DEF p
<1> QED BY <1>1, <1>2, Zenon DEF Onward

(* An engine whose call failed is past: run_service and                    *)
(* run_engine_shutdown go on to the end.                                   *)
LEMMA AfterErrorFits ==
    ASSUME NEW s \in DOMAIN AfterError
    PROVE  AfterError[s] \in Past /\ AfterError[s] \in UpStates \cup {"off", "gone", "crashed"}
<1>1. s \in {"joining", "loaded", "failed", "stopping", "unacked", "acked", "leaving"}
  BY Zenon DEF AfterError
<1>2. /\ AfterError["joining"] = "gone" /\ AfterError["loaded"] = "failed"
      /\ AfterError["failed"] = "gone" /\ AfterError["stopping"] = "unacked"
      /\ AfterError["unacked"] = "gone" /\ AfterError["acked"] = "gone"
      /\ AfterError["leaving"] = "gone"
  BY Zenon DEF AfterError
<1>3. AfterError[s] \in {"gone", "failed", "unacked"}
  BY <1>1, <1>2, Zenon
<1> QED BY <1>3, Zenon DEF Past, UpStates

(* The caller that waits has a control point for an error.                 *)
LEMMA WaitsFits ==
    ASSUME NodeType, NEW e \in Acts, Waits(e)
    PROVE  proc[e].st \in DOMAIN AfterError
<1>1. call.kind \in {"none", "register", "beat", "flush", "drain", "deregister"}
  BY Zenon DEF NodeType, CallRecords
<1>2. /\ WaitsAt["register"] = "joining" /\ WaitsAt["beat"] = "loaded"
      /\ WaitsAt["drain"] = "stopping" /\ WaitsAt["deregister"] = "leaving"
      /\ WaitsAt["flush"] = "none" /\ WaitsAt["none"] = "none"
  BY Zenon DEF WaitsAt
<1>3. proc[e].st \in {"joining", "loaded", "stopping", "leaving", "none"}
  BY <1>1, <1>2, Zenon DEF Waits
<1>4. proc[e].st # "none"
  BY Zenon DEF NodeType, Processes, UpStates
<1> QED BY <1>3, <1>4, Zenon DEF AfterError

(* A failed call sends its caller on, if it still waits.                   *)
LEMMA CallerFailsFits ==
    ASSUME NodeType, NEW e \in Acts, CallerFails(e)
    PROVE  Onward
<1>1. proc \in [Acts -> Processes]
  BY Zenon DEF NodeType
<1>2. CASE proc' = proc
  BY <1>1, <1>2, Zenon DEF Onward
<1>3. CASE Waits(e) /\ GoesTo(e, AfterError[proc[e].st])
  BY <1>1, <1>3, WaitsFits, AfterErrorFits, GotoFits, Zenon
<1> QED BY <1>2, <1>3, Zenon DEF CallerFails

(* Steps of the node that leave the registry and the proxy's table alone,  *)
(* and acknowledge no drain.                                               *)
LEMMA NodeMoves ==
    ASSUME DrainInv, UNCHANGED <<registry, cache, revived>>, Onward,
           slot' \in Slots, slot'.act = NoAct => slot'.phase = "tombstoned",
           call' \in CallRecords, call'.kind # "none" => call'.act \in Acts,
           wire' \subseteq Messages, flush' \in Flushes,
           call'.kind = "drain" =>
              \/ call' = call
              \/ call'.at # "granted" /\ proc'[call'.act].st \in Past
    PROVE  DrainInv'
<1>1. /\ UNCHANGED <<version, route, row, owner, cache, revived>>
      /\ \A e \in Acts : Unrevived(e)' <=> Unrevived(e)
      /\ \A e \in Acts : Withdrawn(e)' <=> Withdrawn(e)
  BY Zenon DEF registry, Unrevived, Withdrawn
<1>2. RegistryType' /\ CacheFits'
  BY <1>1, Zenon DEF DrainInv, RegistryType, CacheFits, Serving
<1>3. NodeType'
  BY <1>1, Zenon DEF DrainInv, NodeType, Onward
<1>4. ASSUME NEW e \in Acts
      PROVE  DrainFits(e)'
  <2>1. DrainFits(e) /\ (proc[e].st \in Past => proc'[e].st \in Past) /\ proc'[e].ack = proc[e].ack
    BY Zenon DEF DrainInv, Onward
  <2> QED BY <1>1, <2>1, Zenon DEF DrainFits
<1> QED BY <1>2, <1>3, <1>4, Zenon DEF DrainInv

(* A manager executes a registration: late copies are noted. *)
LEMMA ExecuteRegisterKeeps ==
    ASSUME DrainInv, NEW m \in wire, Execute(m), ExecuteRegister(m)
    PROVE  DrainInv'
<1>1. /\ RegistryType /\ NodeType /\ m \in Messages /\ m.act \in Acts /\ m.kind = "register"
      /\ proc' = proc /\ slot' = slot /\ flush' = flush /\ cache' = cache /\ wire' = wire \ {m}
  BY Zenon DEF DrainInv, NodeType, Messages, Execute, ExecuteRegister
<1>2. Awaited(m) => call.kind = "register"
  BY <1>1 DEF Awaited, Message
<1>3. CASE RegisterTxn(m.act)
  <2>1. /\ call' = IF Awaited(m) THEN [call EXCEPT !.at = "granted", !.gen = owner'.gen] ELSE call
        /\ revived' = IF proc[m.act].st = "joining" THEN revived
                      ELSE revived \cup {<<m.act, proc[m.act].st>>}
    BY <1>3, Zenon DEF ExecuteRegister, Answer, RegisterTxn
  <2>2. Upholds(m.act) /\ owner'.gen \in Nat
    BY <1>1, <1>3, RegisterUpholds, Zenon
  <2>3. /\ call' \in CallRecords /\ call'.kind = call.kind /\ call'.act = call.act
        /\ call'.kind = "drain" => call' = call
    BY <1>1, <1>2, <2>1, <2>2, CallFits, Zenon DEF NodeType
  <2>4. NodeType'
    BY <1>1, <2>3, Zenon DEF NodeType
  <2>5. ASSUME NEW e \in Acts, Unrevived(e)'
        PROVE  Unrevived(e) /\ (proc[e].st \in Past => e # m.act)
    <3>1. revived \subseteq revived'
      BY <2>1, Zenon
    <3>2. Unrevived(e)
      BY <2>5, <3>1, Zenon DEF Unrevived
    <3>3. ASSUME proc[e].st \in Past, e = m.act
          PROVE  FALSE
      <4>1. <<e, proc[e].st>> \in revived'
        BY <2>1, <3>3, Zenon DEF Past
      <4>2. <<e, proc[e].st>>[1] = e /\ <<e, proc[e].st>>[2] = proc[e].st
        BY Zenon
      <4>3. proc[e].st \in {"loaded", "ready"}
        BY <2>5, <4>1, <4>2, Zenon DEF Unrevived
      <4> QED BY <3>3, <4>3, Zenon DEF Past
    <3> QED BY <3>2, <3>3, Zenon
  <2>6. \A e \in Acts : Unrevived(e)' => Unrevived(e) /\ (proc[e].st \in Past => e # m.act)
    BY <2>5, Zenon
  <2> QED BY <1>1, <2>2, <2>3, <2>4, <2>6, RegistryMoves, Zenon
<1>4. CASE ~RegisterAllowed(m.act) /\ Answer(m, [call EXCEPT !.at = "refused"])
           /\ UNCHANGED <<registry, revived>>
  <2>1. /\ call' \in CallRecords /\ call'.kind = call.kind /\ call'.act = call.act
        /\ call'.kind = "drain" => call' = call
    BY <1>1, <1>2, <1>4, CallFits, Zenon DEF Answer, NodeType
  <2>2. Onward
    BY <1>1, Zenon DEF Onward, NodeType
  <2> QED BY <1>1, <1>4, <2>1, <2>2, NodeMoves, Zenon DEF NodeType
<1> QED BY <1>3, <1>4, Zenon DEF ExecuteRegister

(* A manager refuses a request, or its answer reaches nobody. *)
LEMMA RefusalKeeps ==
    ASSUME DrainInv, NEW m \in wire, Answer(m, [call EXCEPT !.at = "refused"]),
           UNCHANGED <<registry, revived, proc, slot, flush, cache>>, wire' = wire \ {m}
    PROVE  DrainInv'
<1>1. NodeType /\ wire' \subseteq Messages
  BY Zenon DEF DrainInv, NodeType
<1>2. /\ call' \in CallRecords /\ call'.kind = call.kind /\ call'.act = call.act
      /\ call' = call \/ call'.at = "refused"
  BY <1>1, CallFits, Zenon DEF Answer, NodeType
<1>3. call'.kind = "drain" => proc'[call'.act].st \in Past
  <2>1. call.kind = "drain" => call.act \in Acts
    BY <1>1, Zenon DEF NodeType
  <2> QED BY <1>2, <2>1, Zenon DEF DrainInv, DrainFits
<1>4. Onward
  BY <1>1, Zenon DEF Onward, NodeType
<1> QED BY <1>1, <1>2, <1>3, <1>4, NodeMoves, Zenon DEF NodeType

(* A manager executes a heartbeat or a deregistration. *)
LEMMA ExecuteOthersKeeps ==
    ASSUME DrainInv, NEW m \in wire, Execute(m), ExecuteBeat(m) \/ ExecuteDeregister(m)
    PROVE  DrainInv'
<1>1. /\ RegistryType /\ NodeType /\ m \in Messages /\ m.act \in Acts
      /\ m.kind \in {"beat", "flush", "deregister"}
      /\ proc' = proc /\ slot' = slot /\ flush' = flush /\ cache' = cache /\ wire' = wire \ {m}
      /\ revived' = revived
  BY Zenon DEF DrainInv, NodeType, Messages, Execute, ExecuteBeat, ExecuteDeregister
<1>2. Awaited(m) => call.kind # "drain"
  BY <1>1 DEF Awaited, Message
<1>3. CASE Answer(m, [call EXCEPT !.at = "refused"]) /\ UNCHANGED registry
  BY <1>1, <1>3, RefusalKeeps, Zenon
<1>4. CASE \/ /\ PublishTxn(m.act, m.gen, m.mods)
              /\ Answer(m, [call EXCEPT !.at = "granted", !.ver = version'])
           \/ /\ DeregisterTxn(m.act, m.gen)
              /\ Answer(m, [call EXCEPT !.at = "granted"])
  <2>1. Upholds(NoAct)
    BY <1>1, <1>4, PublishUpholds, DeregisterUpholds, Zenon
  <2>2. version' \in Nat
    BY <2>1, Zenon DEF Upholds, RegistryType
  <2>3. /\ call' \in CallRecords /\ call'.kind = call.kind /\ call'.act = call.act
        /\ call'.kind = "drain" => call' = call
    <3>1. PICK c \in CallRecords : /\ c.kind = call.kind /\ c.act = call.act
                              /\ call' = IF Awaited(m) THEN c ELSE call
      BY <1>1, <1>4, <2>2, CallFits, Zenon DEF Answer
    <3>2. call \in CallRecords
      BY <1>1, Zenon DEF NodeType
    <3> QED BY <1>2, <3>1, <3>2, Zenon
  <2>4. NodeType'
    BY <1>1, <2>3, Zenon DEF NodeType
  <2>5. \A e \in Acts : Unrevived(e)' => Unrevived(e) /\ (proc[e].st \in Past => e # NoAct)
    BY <1>1, RegistryAssumption, Zenon DEF Unrevived
  <2> QED BY <1>1, <2>1, <2>3, <2>4, <2>5, RegistryMoves, Zenon
<1> QED BY <1>3, <1>4, Zenon DEF ExecuteBeat, ExecuteDeregister

(* A manager executes a drain: if its caller still waits, it learns the    *)
(* version that contains the withdrawal.                                   *)
LEMMA ExecuteDrainKeeps ==
    ASSUME DrainInv, NEW m \in wire, Execute(m), ExecuteDrain(m)
    PROVE  DrainInv'
<1>1. /\ RegistryType /\ NodeType /\ CacheFits /\ m \in Messages /\ m.act \in Acts
      /\ proc' = proc /\ slot' = slot /\ flush' = flush /\ cache' = cache /\ wire' = wire \ {m}
      /\ revived' = revived
  BY Zenon DEF DrainInv, NodeType, Messages, Execute, ExecuteDrain
<1>2. CASE Answer(m, [call EXCEPT !.at = "refused"]) /\ UNCHANGED registry
  BY <1>1, <1>2, RefusalKeeps, Zenon
<1>3. CASE DrainTxn(m.act, m.gen) /\ Answer(m, [call EXCEPT !.at = "granted", !.ver = version'])
  <2>1. Upholds(NoAct) /\ Withdrawn(m.act)'
    BY <1>1, <1>3, DrainUpholds, Zenon
  <2>2. version' \in Nat
    BY <2>1, Zenon DEF Upholds, RegistryType
  <2>3. \A e \in Acts : Unrevived(e)' <=> Unrevived(e)
    BY <1>1, Zenon DEF Unrevived
  <2>4. CASE ~Awaited(m)
    <3>1. call' = call
      BY <1>3, <2>4, Zenon DEF Answer
    <3>2. NodeType'
      BY <1>1, <3>1, Zenon DEF NodeType
    <3>3. \A e \in Acts : Unrevived(e)' => Unrevived(e) /\ (proc[e].st \in Past => e # NoAct)
      BY <2>3, RegistryAssumption, Zenon
    <3> QED BY <1>1, <2>1, <3>1, <3>2, <3>3, RegistryMoves, Zenon
  <2>5. CASE Awaited(m)
    <3>1. call.act = m.act
      BY <2>5, Zenon DEF Awaited, Message
    <3>2. /\ call' \in CallRecords /\ call'.kind = call.kind /\ call'.act = m.act
          /\ call'.at = "granted" /\ call'.ver = version'
      BY <1>1, <1>3, <2>2, <2>5, <3>1, CallFits, Zenon DEF Answer
    <3>3. NodeType'
      BY <1>1, <3>1, <3>2, Zenon DEF NodeType
    <3>4. RegistryType' /\ CacheFits'
      BY <1>1, <2>1, CacheUpheld, Zenon DEF Upholds
    <3>5. version' <= cache.ver => m.act \notin cache.up
      <4>1. version \in Nat /\ cache.ver \in Nat /\ cache.ver <= version /\ version <= version'
        BY <1>1, <2>1, Zenon DEF RegistryType, NodeType, CacheFits, Upholds
      <4>2. version' <= cache.ver => version' = version /\ cache.ver = version
        BY <2>2, <4>1
      <4>3. version' <= cache.ver => route' = route /\ cache.up = Serving
        BY <1>1, <2>1, <4>2, Zenon DEF CacheFits, Upholds
      <4> QED BY <2>1, <4>3, Zenon DEF Withdrawn, Serving
    <3>6. ASSUME NEW e \in Acts
          PROVE  DrainFits(e)'
      <4>1. DrainFits(e) /\ (Withdrawn(e) => Withdrawn(e)')
        BY <2>1, RegistryAssumption, Zenon DEF DrainInv, Upholds
      <4>2. CASE e = m.act
        BY <1>1, <2>1, <2>3, <3>1, <3>2, <3>5, <4>1, <4>2, Zenon DEF DrainFits
      <4>3. CASE e # m.act
        BY <1>1, <2>3, <3>2, <4>1, <4>3, Zenon DEF DrainFits
      <4> QED BY <4>2, <4>3, Zenon
    <3> QED BY <3>3, <3>4, <3>6, Zenon DEF DrainInv
  <2> QED BY <2>4, <2>5, Zenon
<1> QED BY <1>2, <1>3, Zenon DEF ExecuteDrain

(* A request that is lost, and a call that fails in transport. *)
LEMMA TransportKeeps ==
    ASSUME DrainInv, CallFails \/ (\E m \in wire : Vanish(m))
    PROVE  DrainInv'
<1>1. NodeType /\ UNCHANGED <<registry, proc, slot, flush, cache, revived>>
  BY Zenon DEF DrainInv, CallFails, Vanish
<1>2. Onward
  BY <1>1, Zenon DEF Onward, NodeType
<1>3. call.kind = "drain" => call.act \in Acts /\ proc[call.act].st \in Past
  <2>1. call.kind = "drain" => call.act \in Acts
    BY <1>1, Zenon DEF NodeType
  <2> QED BY <2>1, Zenon DEF DrainInv, DrainFits
<1>4. /\ call' \in CallRecords /\ call'.kind = call.kind /\ call'.act = call.act
      /\ call'.kind = "drain" => call' = call \/ call'.at # "granted"
  <2>1. CASE call' = call
    BY <1>1, <2>1, Zenon DEF NodeType
  <2>2. CASE call' = [call EXCEPT !.try = 2] /\ call.kind # "drain"
    BY <1>1, <2>2, CallFits, Zenon
  <2>3. CASE call' = [call EXCEPT !.at = "refused"]
    BY <1>1, <2>3, CallFits, Zenon
  <2> QED BY <2>1, <2>2, <2>3, Zenon DEF CallFails, Vanish
<1>5. wire' \subseteq Messages
  <2>1. CASE wire' \subseteq wire
    BY <1>1, <2>1, Zenon DEF NodeType
  <2>2. CASE wire' = wire \cup {Message([call EXCEPT !.try = 2])} /\ call.kind # "none"
    <3>1. Message([call EXCEPT !.try = 2]) \in Messages
      BY <1>1, <2>2, CallFits, Zenon DEF NodeType
    <3> QED BY <1>1, <2>2, <3>1, Zenon DEF NodeType
  <2> QED BY <2>1, <2>2, Zenon DEF CallFails, Vanish
<1> QED BY <1>1, <1>2, <1>3, <1>4, <1>5, NodeMoves, Zenon DEF NodeType

(* An engine process that starts, is told to stop, dies or gives up. *)
LEMMA ProcessKeeps ==
    ASSUME DrainInv, NEW e \in Acts, ProcStarts(e) \/ Stop(e) \/ Crash(e) \/ GivesUp(e)
    PROVE  DrainInv'
<1>1. NodeType /\ UNCHANGED <<registry, slot, flush, wire, cache, revived>>
  BY Zenon DEF DrainInv, ProcStarts, Stop, Crash, GivesUp
<1>2. Onward
  <2>1. proc \in [Acts -> Processes]
    BY <1>1, Zenon DEF NodeType
  <2>2. CASE ProcStarts(e)
    BY <2>1, <2>2, GotoFits, Zenon DEF ProcStarts, Past, UpStates
  <2>3. CASE Stop(e)
    BY <2>1, <2>3, GotoFits, Zenon DEF Stop, Past, UpStates
  <2>4. CASE Crash(e)
    BY <2>1, <2>4, GotoFits, Zenon DEF Crash, Past
  <2>5. CASE GivesUp(e)
    BY <2>1, <2>5, AfterErrorFits, GotoFits, Zenon DEF GivesUp
  <2> QED BY <2>2, <2>3, <2>4, <2>5, Zenon
<1>3. call' = call \/ call' = NoCall
  BY Zenon DEF ProcStarts, Stop, Crash, GivesUp
<1>4. /\ call' \in CallRecords /\ (call'.kind # "none" => call'.act \in Acts)
      /\ call'.kind = "drain" => call' = call
  BY <1>1, <1>3, CallFits, Zenon DEF NodeType
<1> QED BY <1>1, <1>2, <1>4, NodeMoves, Zenon DEF NodeType

(* An engine's registration or deregistration goes out, or its             *)
(* deregistration is refused by the proxy.                                 *)
LEMMA LeaveOrJoinKeeps ==
    ASSUME DrainInv, NEW e \in Acts, RegisterCall(e) \/ DeregisterCall(e)
    PROVE  DrainInv'
<1>1. /\ NodeType /\ UNCHANGED <<registry, flush, cache, revived>> /\ wire \subseteq Messages
      /\ proc \in [Acts -> Processes] /\ slot.gen \in Nat /\ "failing" \in Mods
  BY Zenon DEF DrainInv, NodeType, RegisterCall, DeregisterCall, Slots, Mods
<1>2. CASE RegisterCall(e)
  <2>1. wire' \subseteq Messages /\ call' \in CallRecords /\ call'.kind = "register" /\ call'.act = e
    BY <1>1, <1>2, SendFits, Zenon DEF RegisterCall
  <2>2. Onward /\ slot' = slot
    BY <1>1, <1>2, Zenon DEF Onward, RegisterCall
  <2> QED BY <1>1, <2>1, <2>2, NodeMoves, Zenon DEF NodeType
<1>3. CASE DeregisterCall(e) /\ GoesTo(e, "leaving")
  <2>1. proc[e].st \in Past
    BY <1>3, Zenon DEF DeregisterCall, Past
  <2>2. Onward
    BY <1>1, <1>3, <2>1, GotoFits, Zenon DEF Past, UpStates
  <2>3. proc' # [proc EXCEPT ![e].st = "gone"]
    <3>1. proc'[e].st = "leaving"
      BY <1>1, <1>3, <2>1, GotoFits, Zenon DEF Past, UpStates
    <3>2. [proc EXCEPT ![e].st = "gone"][e].st = "gone"
      BY <1>1, Zenon DEF Processes
    <3> QED BY <3>1, <3>2, Zenon
  <2>4. /\ slot.act = e
        /\ slot' = [slot EXCEPT !.phase = "tombstoned", !.mods = "failing"]
        /\ Send(Asking("deregister", e, slot.gen, "failing"))
    BY <1>3, <2>3, Zenon DEF DeregisterCall, GoesTo
  <2>5. wire' \subseteq Messages /\ call' \in CallRecords /\ call'.kind = "deregister" /\ call'.act = e
    BY <1>1, <2>4, SendFits, Zenon
  <2>6. slot' \in Slots /\ slot'.phase = "tombstoned"
    BY <1>1, <2>4, Zenon DEF NodeType, Slots
  <2> QED BY <1>1, <2>2, <2>5, <2>6, NodeMoves, Zenon DEF NodeType
<1>4. CASE DeregisterCall(e) /\ GoesTo(e, "gone") /\ UNCHANGED <<slot, call, wire>>
  <2>1. Onward
    BY <1>1, <1>4, GotoFits, Zenon DEF Past
  <2> QED BY <1>1, <1>4, <2>1, NodeMoves, Zenon DEF NodeType
<1> QED BY <1>2, <1>3, <1>4, Zenon DEF DeregisterCall

(* A heartbeat: remembered, sent on, or refused. *)
LEMMA HeartbeatCallKeeps ==
    ASSUME DrainInv, NEW e \in Acts, NEW mods \in Reports, HeartbeatCall(e, mods)
    PROVE  DrainInv'
<1>1. /\ NodeType /\ UNCHANGED <<registry, flush, cache, revived>> /\ wire \subseteq Messages
      /\ proc \in [Acts -> Processes] /\ proc[e].gen \in Nat /\ mods \in Mods
  BY Zenon DEF DrainInv, NodeType, HeartbeatCall, Processes, Mods
<1>2. Onward
  <2>1. CASE proc' = proc
    BY <1>1, <2>1, Zenon DEF Onward
  <2>2. CASE proc[e].st = "loaded" /\ GoesTo(e, "ready")
    BY <1>1, <2>2, GotoFits, Zenon DEF Past, UpStates
  <2>3. CASE proc[e].st = "loaded" /\ GoesTo(e, "failed")
    BY <1>1, <2>3, GotoFits, Zenon DEF Past, UpStates
  <2> QED BY <2>1, <2>2, <2>3, Zenon DEF HeartbeatCall
<1>3. /\ wire' \subseteq Messages /\ call' \in CallRecords /\ (call'.kind # "none" => call'.act \in Acts)
      /\ call'.kind = "drain" => call' = call
  <2>1. CASE UNCHANGED <<call, wire>>
    BY <1>1, <2>1, Zenon DEF NodeType
  <2>2. CASE Send(Asking("beat", e, proc[e].gen, mods))
    BY <1>1, <2>2, SendFits, Zenon
  <2> QED BY <2>1, <2>2, Zenon DEF HeartbeatCall
<1>4. slot' \in Slots /\ (slot'.act = NoAct => slot'.phase = "tombstoned")
  <2>1. CASE slot' = slot
    BY <1>1, <2>1, Zenon DEF NodeType
  <2>2. CASE Known(e) /\ slot' = [slot EXCEPT !.mods = mods]
    <3>1. slot' \in Slots /\ slot'.act = slot.act
      BY <1>1, <2>2, Zenon DEF NodeType, Slots
    <3> QED BY <2>2, <3>1, RegistryAssumption, Zenon DEF Known
  <2> QED BY <2>1, <2>2, Zenon DEF HeartbeatCall
<1> QED BY <1>1, <1>2, <1>3, <1>4, NodeMoves, Zenon DEF NodeType

(* A drain goes out, or the proxy refuses it. *)
LEMMA DrainCallKeeps ==
    ASSUME DrainInv, NEW e \in Acts, DrainCall(e)
    PROVE  DrainInv'
<1>1. /\ NodeType /\ UNCHANGED <<registry, flush, cache, revived>> /\ wire \subseteq Messages
      /\ proc \in [Acts -> Processes] /\ slot.gen \in Nat /\ "failing" \in Mods
      /\ proc[e].st = "stopping"
  BY Zenon DEF DrainInv, NodeType, DrainCall, Slots, Mods
<1>2. CASE /\ slot.act = e /\ proc' = proc
           /\ slot' = [slot EXCEPT !.phase = "draining", !.mods = "failing"]
           /\ Send(Asking("drain", e, slot.gen, "failing"))
  <2>1. wire' \subseteq Messages /\ call' \in CallRecords /\ call'.act = e /\ call'.at = "waiting"
    BY <1>1, <1>2, SendFits, Zenon
  <2>2. slot' \in Slots /\ slot'.act = e
    BY <1>1, <1>2, Zenon DEF NodeType, Slots
  <2>3. Onward /\ proc'[e].st \in Past
    BY <1>1, <1>2, Zenon DEF Onward, Past
  <2> QED BY <1>1, <2>1, <2>2, <2>3, RegistryAssumption, NodeMoves, Zenon DEF NodeType
<1>3. CASE GoesTo(e, "unacked") /\ UNCHANGED <<slot, call, wire>>
  <2>1. Onward
    BY <1>1, <1>3, GotoFits, Zenon DEF Past, UpStates
  <2> QED BY <1>1, <1>3, <2>1, NodeMoves, Zenon DEF NodeType
<1> QED BY <1>2, <1>3, Zenon DEF DrainCall

(* The end of a registration, a heartbeat or a deregistration. *)
LEMMA CallDoneKeeps ==
    ASSUME DrainInv, RegisterDone \/ HeartbeatDone \/ DeregisterDone
    PROVE  DrainInv'
<1> DEFINE e == call.act
<1>1. /\ NodeType /\ UNCHANGED <<registry, wire, flush, cache, revived>> /\ call' = NoCall
      /\ call.kind \in {"register", "beat", "deregister"}
  BY Zenon DEF DrainInv, RegisterDone, HeartbeatDone, DeregisterDone
<1>2. /\ e \in Acts /\ e # NoAct /\ call.gen \in Nat /\ call.mods \in Mods
      /\ proc \in [Acts -> Processes] /\ proc[e] \in Processes
  BY <1>1, RegistryAssumption, Zenon DEF NodeType, CallRecords
<1>3. slot' \in Slots /\ (slot'.act = NoAct => slot'.phase = "tombstoned")
  <2>1. CASE slot' = slot
    BY <1>1, <2>1, Zenon DEF NodeType
  <2>2. CASE slot' = [act |-> e, gen |-> call.gen, phase |-> "registered", mods |-> "failing"]
    BY <1>2, <2>2, Zenon DEF Slots, Mods
  <2>3. CASE slot' = [act |-> e, gen |-> call.gen, phase |-> "ready", mods |-> call.mods]
    BY <1>2, <2>3, Zenon DEF Slots
  <2> QED BY <2>1, <2>2, <2>3, Zenon DEF RegisterDone, HeartbeatDone, DeregisterDone
<1>4. Onward
  <2>1. CASE CallerFails(e)
    BY <1>1, <1>2, <2>1, CallerFailsFits, Zenon
  <2>2. CASE RegisterDone /\ Waits(e)
             /\ proc' = [proc EXCEPT ![e].st = "loaded", ![e].gen = call.gen]
    <3> DEFINE p == [[proc[e] EXCEPT !.st = "loaded"] EXCEPT !.gen = call.gen]
    <3>1. p \in Processes /\ p.ack = proc[e].ack
      BY <1>2, Zenon DEF Processes, UpStates
    <3>2. proc' = [proc EXCEPT ![e] = p]
      BY <1>2, <2>2, Zenon
    <3>3. proc[e].st = "joining"
      BY <2>2 DEF RegisterDone, Waits, WaitsAt
    <3> HIDE DEF p
    <3> QED BY <1>2, <3>1, <3>2, <3>3, Zenon DEF Onward, Past
  <2>3. CASE proc' = proc
    BY <1>2, <2>3, Zenon DEF Onward
  <2>4. CASE proc[e].st = "loaded" /\ GoesTo(e, "ready")
    BY <1>2, <2>4, GotoFits, Zenon DEF Past, UpStates
  <2> QED BY <2>1, <2>2, <2>3, <2>4, Zenon DEF RegisterDone, HeartbeatDone, DeregisterDone
<1>5. call' \in CallRecords /\ call'.kind = "none"
  BY <1>1, CallFits, Zenon
<1> QED BY <1>1, <1>3, <1>4, <1>5, NodeMoves, Zenon DEF NodeType

(* The proxy's own heartbeat flush. *)
LEMMA FlushKeeps ==
    ASSUME DrainInv, FlushTick \/ FlushCall \/ FlushDone
    PROVE  DrainInv'
<1>1. /\ NodeType /\ UNCHANGED <<registry, proc, slot, cache, revived>> /\ wire \subseteq Messages
  BY Zenon DEF DrainInv, NodeType, FlushTick, FlushCall, FlushDone
<1>2. Onward
  BY <1>1, Zenon DEF Onward, NodeType
<1>3. NoFlush \in Flushes
  BY Zenon DEF NoFlush, Flushes, Mods
<1>4. CASE FlushTick
  <2>1. flush' \in Flushes
    BY <1>1, <1>4, Zenon DEF FlushTick, NodeType, Slots, Flushes
  <2> QED BY <1>1, <1>2, <1>4, <2>1, NodeMoves, Zenon DEF NodeType, FlushTick
<1>5. CASE FlushCall
  <2>1. flush' \in Flushes
    BY <1>3, <1>5, Zenon DEF FlushCall
  <2>2. /\ wire' \subseteq Messages /\ call' \in CallRecords /\ (call'.kind # "none" => call'.act \in Acts)
        /\ call'.kind = "drain" => call' = call
    <3>1. CASE UNCHANGED <<call, wire>>
      BY <1>1, <3>1, Zenon DEF NodeType
    <3>2. CASE slot.phase = "ready" /\ slot.act = flush.act
               /\ Send(Asking("flush", flush.act, flush.gen, flush.mods))
      <4>1. flush.act \in Acts /\ flush.gen \in Nat /\ flush.mods \in Mods
        BY <1>1, <3>2, Zenon DEF NodeType, Slots, Flushes
      <4> QED BY <1>1, <3>2, <4>1, SendFits, Zenon
    <3> QED BY <1>5, <3>1, <3>2, Zenon DEF FlushCall
  <2> QED BY <1>1, <1>2, <2>1, <2>2, NodeMoves, Zenon DEF NodeType
<1>6. CASE FlushDone
  <2>1. call' \in CallRecords /\ call'.kind = "none" /\ wire' = wire /\ flush' = flush
    BY <1>1, <1>6, CallFits, Zenon DEF FlushDone
  <2> QED BY <1>1, <1>2, <2>1, NodeMoves, Zenon DEF NodeType
<1> QED BY <1>4, <1>5, <1>6, Zenon

(* The drain is acknowledged once the proxy's table is as new as the       *)
(* withdrawal.                                                             *)
LEMMA DrainDoneKeeps ==
    ASSUME DrainInv, DrainDone
    PROVE  DrainInv'
<1> DEFINE e == call.act
<1>1. /\ NodeType /\ UNCHANGED <<registry, slot, wire, flush, cache, revived>> /\ call' = NoCall
      /\ call.kind = "drain"
  BY Zenon DEF DrainInv, DrainDone
<1>2. call' \in CallRecords /\ call'.kind = "none"
  BY <1>1, CallFits, Zenon
<1>3. e \in Acts /\ proc \in [Acts -> Processes] /\ proc[e] \in Processes /\ DrainFits(e)
  BY <1>1, Zenon DEF NodeType, DrainInv
<1>4. CASE CallerFails(e) \/ proc' = proc
  <2>1. Onward
    BY <1>1, <1>3, <1>4, CallerFailsFits, Zenon DEF Onward
  <2> QED BY <1>1, <1>2, <2>1, NodeMoves, Zenon DEF NodeType
<1>5. CASE /\ call.at = "granted" /\ cache.ver >= call.ver
           /\ proc' = [proc EXCEPT ![e].st = "acked", ![e].ack = "yes"]
  <2> DEFINE p == [[proc[e] EXCEPT !.st = "acked"] EXCEPT !.ack = "yes"]
  <2>1. p \in Processes /\ p.st = "acked"
    BY <1>3, Zenon DEF Processes, UpStates
  <2>2. proc' = [proc EXCEPT ![e] = p]
    BY <1>3, <1>5, Zenon
  <2> HIDE DEF p
  <2>3. /\ proc' \in [Acts -> Processes] /\ proc'[e].st = "acked"
        /\ \A f \in Acts : f # e => proc'[f] = proc[f]
    BY <1>3, <2>1, <2>2, Zenon
  <2>4. cache.ver \in Nat /\ call.ver \in Nat
    BY <1>1, Zenon DEF NodeType, CallRecords
  <2>5. call.ver <= cache.ver
    BY <1>5, <2>4, Zenon
  <2>6. UNCHANGED <<version, route, row, owner, cache, revived>>
    BY <1>1, Zenon DEF registry
  <2>7. RegistryType' /\ CacheFits' /\ NodeType'
    BY <1>1, <1>2, <2>3, <2>6, Zenon DEF DrainInv, RegistryType, CacheFits, Serving, NodeType
  <2>8. \A f \in Acts : /\ Unrevived(f)' <=> Unrevived(f)
                        /\ Withdrawn(f)' <=> Withdrawn(f)
    BY <2>6, Zenon DEF Unrevived, Withdrawn
  <2>9. ASSUME NEW f \in Acts
        PROVE  DrainFits(f)'
    <3>1. CASE f = e
      <4>1. Unrevived(e) => Withdrawn(e) /\ e \notin cache.up
        BY <1>1, <1>3, <1>5, <2>5, Zenon DEF DrainFits
      <4> QED BY <1>2, <2>3, <2>6, <2>8, <3>1, <4>1, Zenon DEF DrainFits, Past
    <3>2. CASE f # e
      <4>1. DrainFits(f) /\ proc'[f] = proc[f]
        BY <2>3, <3>2, Zenon DEF DrainInv
      <4> QED BY <1>2, <2>6, <2>8, <4>1, Zenon DEF DrainFits
    <3> QED BY <3>1, <3>2, Zenon
  <2> QED BY <2>7, <2>9, Zenon DEF DrainInv
<1> QED BY <1>4, <1>5, Zenon DEF DrainDone

(* The proxy installs the registry's table. *)
LEMMA SyncKeeps ==
    ASSUME DrainInv, Sync
    PROVE  DrainInv'
<1>1. /\ RegistryType /\ NodeType /\ UNCHANGED <<registry, proc, slot, call, wire, flush, revived>>
      /\ cache' = [ver |-> version, up |-> Serving]
  BY Zenon DEF DrainInv, Sync
<1>2. UNCHANGED <<version, route, row, owner>>
  BY <1>1, Zenon DEF registry
<1>3. version \in Nat /\ Serving \subseteq Acts /\ Serving' = Serving
  BY <1>1, <1>2, Zenon DEF RegistryType, Serving
<1>4. RegistryType' /\ NodeType' /\ CacheFits'
  BY <1>1, <1>2, <1>3 DEF DrainInv, RegistryType, NodeType, CacheFits
<1>5. \A e \in Acts : /\ Unrevived(e)' <=> Unrevived(e)
                      /\ Withdrawn(e)' <=> Withdrawn(e)
                      /\ Withdrawn(e) => e \notin cache'.up
  BY <1>1, <1>2, Zenon DEF Unrevived, Withdrawn, Serving
<1>6. \A e \in Acts : DrainFits(e)'
  BY <1>1, <1>5, Zenon DEF DrainInv, DrainFits
<1> QED BY <1>4, <1>6, Zenon DEF DrainInv

(* A new proxy process serves nothing. *)
LEMMA ProxyRestartKeeps ==
    ASSUME DrainInv, ProxyRestart
    PROVE  DrainInv'
<1>1. /\ RegistryType /\ NodeType /\ UNCHANGED <<registry, wire, revived>>
      /\ slot' = NoSlot /\ call' = NoCall /\ flush' = NoFlush
      /\ cache' = [ver |-> 0, up |-> {}]
  BY Zenon DEF DrainInv, ProxyRestart
<1>2. UNCHANGED <<version, route, row, owner>>
  BY <1>1, Zenon DEF registry
<1>3. Onward
  <2>1. call.kind # "none" => call.act \in Acts
    BY <1>1, Zenon DEF NodeType
  <2> QED BY <1>1, <2>1, CallerFailsFits, Zenon DEF ProxyRestart, Onward, NodeType
<1>4. /\ call' \in CallRecords /\ call'.kind = "none"
      /\ slot' \in Slots /\ slot'.phase = "tombstoned" /\ flush' \in Flushes
  BY <1>1, CallFits, Zenon DEF NoSlot, NoFlush, Slots, Flushes, Mods
<1>5. NodeType'
  BY <1>1, <1>3, <1>4, Zenon DEF NodeType, Onward
<1>6. Serving' = Serving /\ version \in Nat
  BY <1>1, <1>2, Zenon DEF Serving, RegistryType
<1>7. RegistryType' /\ CacheFits'
  BY <1>1, <1>2, <1>6 DEF DrainInv, RegistryType, CacheFits
<1>8. \A e \in Acts : /\ Unrevived(e)' <=> Unrevived(e)
                      /\ Withdrawn(e)' <=> Withdrawn(e)
  BY <1>1, <1>2, Zenon DEF Unrevived, Withdrawn
<1>9. ASSUME NEW e \in Acts
      PROVE  DrainFits(e)'
  <2>1. /\ DrainFits(e) /\ proc'[e].ack = proc[e].ack
        /\ proc[e].st \in Past => proc'[e].st \in Past
    BY <1>3, Zenon DEF DrainInv, Onward
  <2> QED BY <1>1, <1>4, <1>8, <2>1, Zenon DEF DrainFits
<1> QED BY <1>5, <1>7, <1>9, Zenon DEF DrainInv

(* Nobody is registered and nobody drains in the beginning. *)
LEMMA DrainStarts ==
    ASSUME NodeInit
    PROVE  DrainInv
<1>1. RegistryType
  BY Zenon DEF NodeInit, RegistryInit, RegistryType, RowType, NoRow
<1>2. /\ NoSlot \in Slots /\ NoSlot.phase = "tombstoned" /\ NoFlush \in Flushes
      /\ NoCall \in CallRecords /\ NoCall.kind = "none"
  BY Zenon DEF NoSlot, NoFlush, NoCall, Slots, Flushes, CallRecords, Mods
<1>3. /\ proc \in [Acts -> Processes] /\ \A e \in Acts : proc[e].ack = "no"
  BY Zenon DEF NodeInit, Processes
<1>4. NodeType
  BY <1>2, <1>3, Zenon DEF NodeInit, NodeType
<1>5. Serving = {}
  BY Zenon DEF NodeInit, RegistryInit, Serving
<1>6. CacheFits
  BY <1>5 DEF NodeInit, RegistryInit, CacheFits
<1>7. \A e \in Acts : DrainFits(e)
  BY <1>2, <1>3, Zenon DEF NodeInit, DrainFits
<1> QED BY <1>1, <1>4, <1>6, <1>7, Zenon DEF DrainInv

(* The transactions nobody on the node asked for.                          *)
LEMMA BackgroundKeeps ==
    ASSUME DrainInv, Background
    PROVE  DrainInv'
<1>1. RegistryType /\ NodeType /\ UNCHANGED <<proc, slot, call, wire, flush, cache, revived>>
  BY Zenon DEF DrainInv, Background, node
<1>2. Upholds(NoAct)
  BY <1>1, BackgroundUpholds, Zenon DEF Background
<1>3. NodeType'
  BY <1>1, Zenon DEF NodeType
<1>4. \A e \in Acts : Unrevived(e)' => Unrevived(e) /\ (proc[e].st \in Past => e # NoAct)
  BY <1>1, RegistryAssumption, Zenon DEF Unrevived
<1> QED BY <1>1, <1>2, <1>3, <1>4, RegistryMoves, Zenon

(* Every step keeps the invariant.                                         *)
LEMMA DrainKeeps ==
    ASSUME DrainInv, [NodeNext]_nodeVars
    PROVE  DrainInv'
<1>1. CASE UNCHANGED nodeVars
  <2>1. UNCHANGED <<registry, proc, slot, call, wire, flush, cache, revived>>
    BY <1>1, Zenon DEF nodeVars, node
  <2>2. Onward
    BY <2>1, Zenon DEF DrainInv, NodeType, Onward
  <2> QED BY <2>1, <2>2, NodeMoves, Zenon DEF DrainInv, NodeType
<1>2. CASE Background
  BY <1>2, BackgroundKeeps, Zenon
<1>3. ASSUME NEW m \in wire, Execute(m)
      PROVE  DrainInv'
  BY <1>3, ExecuteRegisterKeeps, ExecuteOthersKeeps, ExecuteDrainKeeps, Zenon DEF Execute
<1>4. CASE CallFails \/ \E m \in wire : Vanish(m)
  BY <1>4, TransportKeeps, Zenon
<1>5. ASSUME NEW e \in Acts,
             \/ ProcStarts(e) \/ RegisterCall(e)
             \/ \E mods \in Reports : HeartbeatCall(e, mods)
             \/ Stop(e) \/ DrainCall(e) \/ DeregisterCall(e)
             \/ Crash(e) \/ GivesUp(e)
      PROVE  DrainInv'
  BY <1>5, ProcessKeeps, LeaveOrJoinKeeps, HeartbeatCallKeeps, DrainCallKeeps, Zenon
<1>6. CASE RegisterDone \/ HeartbeatDone \/ DeregisterDone
  BY <1>6, CallDoneKeeps, Zenon
<1>7. CASE FlushTick \/ FlushCall \/ FlushDone
  BY <1>7, FlushKeeps, Zenon
<1>8. CASE DrainDone \/ Sync \/ ProxyRestart
  BY <1>8, DrainDoneKeeps, SyncKeeps, ProxyRestartKeeps, Zenon
<1> QED BY <1>1, <1>2, <1>3, <1>4, <1>5, <1>6, <1>7, <1>8, Zenon DEF NodeNext

(* "BeginEngineDrain prevents later heartbeat publication, makes routes    *)
(* non-serving": for every number of engines and every interleaving of     *)
(* late, lost and repeated requests, engine crashes and proxy restarts, an *)
(* engine whose drain was acknowledged is served neither by the registry   *)
(* nor by its node's proxy, unless a copy of its registration was executed *)
(* after it began to stop.                                                 *)
THEOREM AcknowledgedDrainHolds == NodeSpec => []DrainHolds
<1>1. NodeInit => DrainInv
  BY DrainStarts, Zenon
<1>2. DrainInv /\ [NodeNext]_nodeVars => DrainInv'
  BY DrainKeeps, Zenon
<1>3. DrainInv => DrainHolds
  <2>1. ASSUME DrainInv, NEW e \in Acts, proc[e].ack = "yes", Unrevived(e)
        PROVE  e \notin Serving /\ e \notin cache.up
    BY <2>1, Zenon DEF DrainInv, DrainFits, Withdrawn, Serving
  <2> QED BY <2>1, Zenon DEF DrainHolds, Unrevived
<1> QED BY <1>1, <1>2, <1>3, PTL DEF NodeSpec
=============================================================================
