--------------------------- MODULE RolloutProofs ----------------------------
(***************************************************************************)
(* Proofs about the replacement of the managers' policy of ManagerRollout, *)
(* for any number of managers, policies, rollouts, crashes and resets.     *)
(***************************************************************************)
EXTENDS ManagerRollout, WellFoundedInduction, TLAPS

(* The guard, the record and the processes, by type.                       *)
Seen == [id : Nat, phase : Phases \cup {"none"}]
Procs == [st : {"down", "booting", "starting", "up", "draining"},
          pol : Policies \cup {NoPolicy}, gate : Gates, plan : Gates, seen : Seen]
Observers == [pc : {"idle", "gate", "row", "ack"}, want : Gates,
              role : {"none", "source", "target"}, seen : Seen]
Rows == {"absent", "staleopen"} \cup Gates
Acks == Gates \cup {"none"}
Guards == [acc : Policies \cup {NoPolicy}, active : {"yes", "no"}, permit : {"yes", "no"}]
Records == [id : Nat, phase : Phases, pol : Policies \cup {NoPolicy},
            src : SUBSET Managers, tgt : SUBSET Managers, recovery : {"yes", "no"}]
Selections == [pol : Policies \cup {NoPolicy}, masked : {"yes", "no"}]
CliPcs == {"none", "stage", "close", "closed", "start", "activating", "inspect"} \cup GivesUpAt
Executors == [pc : CliPcs, todo : SUBSET Managers, ep : Managers \cup {Nobody},
              pol : Policies \cup {NoPolicy}]

RolloutType ==
    /\ guard \in Guards /\ ro \in Records /\ cli \in Executors
    /\ ack \in [{"source", "target"} -> [Managers -> Acks]]
    /\ row \in [Managers -> Rows] /\ proc \in [Managers -> Procs]
    /\ obs \in [Managers -> Observers] /\ host \in [Managers -> Selections]

Lively(p) == p.st \in {"starting", "up", "draining"}

(* A manager is hot when its gate is open, when its observer has read that *)
(* it may open, or when a running process still has an open row.           *)
Hot(p, o, w) == p.gate = "open" \/ o.want = "open" \/ (Lively(p) /\ w = "open")

(* An observer lives in a running process, a live process runs what its    *)
(* host has installed, and nobody has read a later rollout than the latest.*)
ProcessFits(p, o, h, r) ==
    /\ ~Lively(p) => o = Quiet /\ p.gate = "closed"
    /\ p.st # "down" => p.pol = h.pol /\ p.pol # NoPolicy
    /\ o.seen.id <= r.id

(* Who may be hot while no rollout is active, and in each phase of one.    *)
HeatFits(m, p, o, w, h, g, r, c) ==
    /\ g.active = "no" =>
          /\ Hot(p, o, w) => p.pol = g.acc
          /\ p.st \in {"booting", "starting"} /\ p.plan = "open" => p.pol = g.acc
    /\ g.active = "yes" /\ p.st \in {"booting", "starting"} => p.plan = "closed"
    /\ g.active = "yes" /\ r.phase \in BeforeClose \cup {"ClosingOld"} =>
          /\ Hot(p, o, w) => m \in r.src
          /\ m \in r.src => h.pol = g.acc
    /\ g.active = "yes" /\ r.phase \in {"OldClosed", "StartingTarget", "TargetReadyClosed"} =>
          ~Hot(p, o, w)
    /\ g.active = "yes" /\ r.phase \in {"ActivatingTarget", "FailedClosed"} =>
          (Hot(p, o, w) => m \in r.tgt /\ p.pol = r.pol)
    /\ c.pc = "inspect" /\ m \in (r.src \cup r.tgt) \ c.todo => ~Hot(p, o, w)

(* A source has acknowledged that it is closed, or is about to, only when  *)
(* the closing has begun and it has closed its gate and its row.           *)
AckFits(p, o, w, a, g, r) ==
    g.active = "yes" =>
      /\ a = "closed" => r.phase \notin BeforeClose
      /\ a = "closed" /\ r.phase = "ClosingOld" => ~Hot(p, o, w)
      /\ o.role = "source" /\ o.seen.id = r.id /\ o.want = "closed" =>
            /\ r.phase \notin BeforeClose
            /\ o.pc \in {"row", "ack"} => p.gate = "closed"
            /\ o.pc = "ack" => ~(Lively(p) /\ w = "open")

Fits(m, p, o, w, h, a, g, r, c) ==
    ProcessFits(p, o, h, r) /\ HeatFits(m, p, o, w, h, g, r, c) /\ AckFits(p, o, w, a, g, r)

(* The step of the executor says which phase the record is in.             *)
PhaseOf(pc) ==
    CASE pc = "none" -> Phases
      [] pc = "stage" -> BeforeClose
      [] pc = "close" -> {"Staging"}
      [] pc = "closed" -> {"ClosingOld"}
      [] pc = "start" -> {"OldClosed"}
      [] pc = "activating" -> {"TargetReadyClosed"}
      [] pc = "complete" -> {"ActivatingTarget"}
      [] pc = "inspect" -> {"FailedClosed"}
      [] OTHER -> {"StartingTarget"}

ExecutorFits(g, r, c) ==
    /\ r.phase \in PhaseOf(c.pc)
    /\ c.pc # "none" => g.active = "yes"
    /\ c.pc \in {"install", "await", "stopped"} => c.todo # {}
    /\ g.active = "yes" => r.phase \notin {"Completed", "FailedPreClose"} /\ g.acc # NoPolicy

(* The inductive invariant of the rollouts. *)
RolloutInv ==
    /\ RolloutType /\ ExecutorFits(guard, ro, cli)
    /\ \A m \in Managers :
          Fits(m, proc[m], obs[m], row[m], host[m], ack.source[m], guard, ro, cli)

(* The acknowledgement of manager m as a source, and no other, becomes a.  *)
Acknowledges(m, a) ==
    /\ ack' \in [{"source", "target"} -> [Managers -> Acks]]
    /\ \A n \in Managers : ack'.source[n] = IF n = m THEN a ELSE ack.source[n]

(* A step of one manager leaves the others as they fit. *)
LEMMA ManagerMoves ==
    ASSUME RolloutInv, NEW m \in Managers,
           NEW p \in Procs, NEW o \in Observers, NEW w \in Rows, NEW h \in Selections,
           NEW c \in Executors, NEW a \in Acks,
           proc' = [proc EXCEPT ![m] = p], obs' = [obs EXCEPT ![m] = o],
           row' = [row EXCEPT ![m] = w], host' = [host EXCEPT ![m] = h],
           cli' = c, c = cli \/ c.pc # "inspect", UNCHANGED <<guard, ro>>,
           Acknowledges(m, a),
           ExecutorFits(guard, ro, c),
           Fits(m, p, o, w, h, a, guard, ro, c)
    PROVE  RolloutInv'
<1>1. RolloutType'
  BY Zenon DEF RolloutInv, RolloutType, Acknowledges
<1>2. ASSUME NEW n \in Managers
      PROVE  Fits(n, proc'[n], obs'[n], row'[n], host'[n], ack'.source[n], guard, ro, c)
  <2>0. Fits(n, proc[n], obs[n], row[n], host[n], ack.source[n], guard, ro, cli)
    BY Zenon DEF RolloutInv
  <2>1. CASE n = m
    BY <2>1, Zenon DEF RolloutInv, RolloutType, Acknowledges
  <2>2. CASE n # m
    <3>1. /\ proc'[n] = proc[n] /\ obs'[n] = obs[n] /\ row'[n] = row[n] /\ host'[n] = host[n]
          /\ ack'.source[n] = ack.source[n]
      BY <2>2, Zenon DEF RolloutInv, RolloutType, Acknowledges
    <3>2. Fits(n, proc[n], obs[n], row[n], host[n], ack.source[n], guard, ro, c)
      BY <2>0, Zenon DEF Fits, HeatFits
    <3> QED BY <3>1, <3>2, Zenon
  <2> QED BY <2>1, <2>2, Zenon
<1> QED BY <1>1, <1>2, Zenon DEF RolloutInv

(* A step of the record and of the executor, with the managers as they are.*)
LEMMA RecordMoves ==
    ASSUME RolloutInv, RolloutType', UNCHANGED <<proc, obs, row, host>>,
           ExecutorFits(guard', ro', cli'),
           \A m \in Managers : Fits(m, proc[m], obs[m], row[m], host[m], ack'.source[m],
                                    guard', ro', cli')
    PROVE  RolloutInv'
  BY Zenon DEF RolloutInv

(* What the invariant says of one manager. *)
LEMMA OneManager ==
    ASSUME RolloutInv, NEW m \in Managers
    PROVE  /\ proc[m] \in Procs /\ obs[m] \in Observers /\ row[m] \in Rows
           /\ host[m] \in Selections /\ ack.source[m] \in Acks
           /\ guard \in Guards /\ ro \in Records /\ cli \in Executors
           /\ ack \in [{"source", "target"} -> [Managers -> Acks]]
           /\ Fits(m, proc[m], obs[m], row[m], host[m], ack.source[m], guard, ro, cli)
           /\ ExecutorFits(guard, ro, cli)
  BY Zenon DEF RolloutInv, RolloutType

(* An acknowledgement that stays is one that becomes what it was. *)
LEMMA StillAcknowledges ==
    ASSUME RolloutInv, NEW m \in Managers, ack' = ack
    PROVE  Acknowledges(m, ack.source[m])
  BY Zenon DEF RolloutInv, RolloutType, Acknowledges

(* A process that is down, and an observer that waits, are of their types. *)
LEMMA IdleTypes == Down \in Procs /\ Quiet \in Observers
  BY Zenon DEF Down, Quiet, NotSeen, Procs, Observers, Seen, Gates

(* What they hold. *)
LEMMA IdleFields ==
    /\ Down.st = "down" /\ Down.gate = "closed"
    /\ Quiet.pc = "idle" /\ Quiet.want = "closed" /\ Quiet.role = "none" /\ Quiet.seen.id = 0
  BY Zenon DEF Down, Quiet, NotSeen

(* A step of a manager's process, of its row or of its observer, with      *)
(* everything else as it is.                                               *)
LEMMA ProcessMoves ==
    ASSUME RolloutInv, NEW m \in Managers,
           NEW p \in Procs, NEW o \in Observers, NEW w \in Rows,
           proc' = [proc EXCEPT ![m] = p], obs' = [obs EXCEPT ![m] = o],
           row' = [row EXCEPT ![m] = w], UNCHANGED <<guard, ro, ack, host, cli>>,
           Fits(m, p, o, w, host[m], ack.source[m], guard, ro, cli)
    PROVE  RolloutInv'
<1>1. host' = [host EXCEPT ![m] = host[m]]
  BY Zenon DEF RolloutInv, RolloutType
<1>2. Acknowledges(m, ack.source[m])
  BY StillAcknowledges, Zenon
<1>3. /\ host[m] \in Selections /\ cli \in Executors /\ ack.source[m] \in Acks
      /\ ExecutorFits(guard, ro, cli)
  BY OneManager, Zenon
<1> QED BY <1>1, <1>2, <1>3, ManagerMoves, Zenon

(* The same of one of them. *)
LEMMA Unmoved ==
    ASSUME RolloutInv, NEW m \in Managers
    PROVE  /\ proc = [proc EXCEPT ![m] = proc[m]] /\ obs = [obs EXCEPT ![m] = obs[m]]
           /\ row = [row EXCEPT ![m] = row[m]]
  BY Zenon DEF RolloutInv, RolloutType

(* A manager that loses its process is not hot, whatever its row says.     *)
LEMMA DownFits ==
    ASSUME RolloutInv, NEW m \in Managers, NEW w \in Rows
    PROVE  Fits(m, Down, Quiet, w, host[m], ack.source[m], guard, ro, cli)
<1>2. ~Hot(Down, Quiet, w)
  BY IdleFields, Zenon DEF Hot, Lively
<1>3. ro.id \in Nat
  BY OneManager, Zenon DEF Records
<1> QED BY <1>2, <1>3, IdleFields, OneManager
        DEF Fits, ProcessFits, HeatFits, AckFits, Lively

(* Registration, and the first manager's policy becoming the accepted one. *)
LEMMA StartKeeps ==
    ASSUME RolloutInv, NEW m \in Managers, Start(m)
    PROVE  RolloutInv'
<1> DEFINE acc == IF guard.acc = NoPolicy /\ ro.id = 0 THEN host[m].pol ELSE guard.acc
           p == [Down EXCEPT !.st = "booting", !.pol = host[m].pol,
                             !.plan = IF /\ guard.active = "no" /\ guard.permit = "no"
                                         /\ acc = host[m].pol
                                      THEN "open" ELSE "closed"]
           w == IF row[m] \in {"open", "staleopen"} THEN "open" ELSE "closed"
           g == [guard EXCEPT !.acc = acc]
<1>1. /\ proc[m].st = "down" /\ host[m].pol # NoPolicy
      /\ proc' = [proc EXCEPT ![m] = p] /\ row' = [row EXCEPT ![m] = w] /\ guard' = g
      /\ UNCHANGED <<ro, ack, obs, host, cli>>
  BY OneManager, Zenon
     DEF Start, Registered, Bootstrapped, OpenAtStartup, RolloutInv, RolloutType
<1>2. /\ p \in Procs /\ p.st = "booting" /\ p.pol = host[m].pol /\ p.gate = "closed"
      /\ p.plan = "open" => guard.active = "no" /\ acc = host[m].pol
      /\ p.plan \in Gates
  BY OneManager, Zenon DEF Down, NotSeen, Procs, Seen, Gates, Selections
<1>3. w \in Rows
  BY Zenon DEF Rows, Gates
<1>4. /\ g \in Guards /\ g.active = guard.active /\ g.acc = acc
      /\ guard.acc # NoPolicy => g = guard
  BY OneManager, Zenon DEF Guards, Selections
<1> HIDE DEF p, w, g, acc
<1>5. RolloutType'
  BY <1>1, <1>2, <1>3, <1>4, Zenon DEF RolloutInv, RolloutType
<1>6. ExecutorFits(g, ro, cli)
  BY <1>4, OneManager, Zenon DEF ExecutorFits
<1>7. ASSUME NEW n \in Managers
      PROVE  Fits(n, proc'[n], obs'[n], row'[n], host'[n], ack'.source[n], g, ro, cli)
  <2>0. /\ Fits(n, proc[n], obs[n], row[n], host[n], ack.source[n], guard, ro, cli)
        /\ proc[n] \in Procs /\ obs[n] \in Observers
    BY OneManager, Zenon
  <2>1. CASE n = m
    <3>1. proc'[n] = p /\ row'[n] = w /\ obs'[n] = obs[m] /\ host'[n] = host[m]
      BY <1>1, <2>1, Zenon DEF RolloutInv, RolloutType
    <3>2. obs[m] = Quiet /\ Quiet.want = "closed" /\ Quiet.role = "none"
      BY <1>1, <2>0, <2>1, Zenon DEF Fits, ProcessFits, Lively, Quiet
    <3>3. ~Hot(p, obs[m], w)
      BY <1>2, <3>2, Zenon DEF Hot, Lively
    <3>4. ProcessFits(p, obs[m], host[m], ro)
      BY <1>1, <1>2, <2>0, <2>1, <3>2, Zenon DEF Fits, ProcessFits, Lively
    <3>5. HeatFits(m, p, obs[m], w, host[m], g, ro, cli)
      BY <1>2, <1>4, <2>0, <2>1, <3>3, OneManager, Zenon DEF Fits, HeatFits, ExecutorFits, Gates
    <3>6. AckFits(p, obs[m], w, ack.source[m], g, ro)
      BY <1>4, <2>0, <2>1, <3>2, <3>3, Zenon DEF Fits, AckFits
    <3> QED BY <1>1, <2>1, <3>1, <3>4, <3>5, <3>6, Zenon DEF Fits
  <2>2. CASE n # m
    <3>1. proc'[n] = proc[n] /\ row'[n] = row[n]
      BY <1>1, <2>2, Zenon DEF RolloutInv, RolloutType
    <3>2. CASE guard.acc # NoPolicy
      BY <1>1, <1>4, <2>0, <3>1, <3>2, Zenon
    <3>3. CASE guard.acc = NoPolicy
      <4>1. guard.active = "no"
        BY <3>3, OneManager, Zenon DEF ExecutorFits, Guards
      <4>2. Hot(proc[n], obs[n], row[n]) => Lively(proc[n])
        BY <2>0 DEF Fits, ProcessFits, Hot, Quiet
      <4>3. /\ ~Hot(proc[n], obs[n], row[n])
            /\ ~(proc[n].st \in {"booting", "starting"} /\ proc[n].plan = "open")
        BY <2>0, <3>3, <4>1, <4>2, Zenon DEF Fits, ProcessFits, HeatFits, Lively
      <4> QED BY <1>1, <1>4, <2>0, <3>1, <4>1, <4>3, Zenon DEF Fits, HeatFits, AckFits
    <3> QED BY <3>2, <3>3, Zenon
  <2> QED BY <2>1, <2>2, Zenon
<1> QED BY <1>1, <1>4, <1>5, <1>6, <1>7, Zenon DEF RolloutInv

(* The row is written, the gate opened, and the process ends or is killed. *)
LEMMA LifeKeeps ==
    ASSUME RolloutInv, NEW m \in Managers,
           \/ Installed(m) \/ Ready(m) \/ Drained(m) \/ Stop(m) \/ Crash(m)
           \/ BeatAges(m) \/ Reap(m) \/ OperatorStops(m)
    PROVE  RolloutInv'
<1>0. /\ proc[m] \in Procs /\ obs[m] \in Observers /\ row[m] \in Rows
      /\ Fits(m, proc[m], obs[m], row[m], host[m], ack.source[m], guard, ro, cli)
      /\ guard \in Guards
  BY OneManager, Zenon
<1>1. CASE Installed(m)
  <2> DEFINE p == [proc[m] EXCEPT !.st = "starting"]
  <2>1. /\ p \in Procs /\ p.st = "starting" /\ p.pol = proc[m].pol /\ p.gate = proc[m].gate
        /\ p.plan = proc[m].plan /\ proc[m].plan \in Rows
    BY <1>0, Zenon DEF Procs, Rows
  <2>2. /\ proc' = [proc EXCEPT ![m] = p] /\ row' = [row EXCEPT ![m] = proc[m].plan]
        /\ proc[m].st = "booting" /\ UNCHANGED <<guard, ro, ack, obs, host, cli>>
    BY <1>1, Zenon DEF Installed
  <2> HIDE DEF p
  <2>3. obs[m] = Quiet /\ proc[m].gate = "closed" /\ Quiet.want = "closed" /\ Quiet.role = "none"
    BY <1>0, <2>2, Zenon DEF Fits, ProcessFits, Lively, Quiet
  <2>4. Hot(p, obs[m], proc[m].plan) => proc[m].plan = "open"
    BY <2>1, <2>3, Zenon DEF Hot
  <2>5. Fits(m, p, obs[m], proc[m].plan, host[m], ack.source[m], guard, ro, cli)
    <3>1. ProcessFits(p, obs[m], host[m], ro)
      BY <1>0, <2>1, <2>2, Zenon DEF Fits, ProcessFits, Lively
    <3>2. guard.active = "yes" => ~Hot(p, obs[m], proc[m].plan)
      BY <1>0, <2>2, <2>4, Zenon DEF Fits, HeatFits
    <3>3. HeatFits(m, p, obs[m], proc[m].plan, host[m], guard, ro, cli)
      BY <1>0, <2>1, <2>2, <2>4, <3>2, OneManager, Zenon DEF Fits, HeatFits, ExecutorFits, Guards
    <3>4. AckFits(p, obs[m], proc[m].plan, ack.source[m], guard, ro)
      BY <1>0, <2>3, <3>2, Zenon DEF Fits, AckFits
    <3> QED BY <3>1, <3>3, <3>4, Zenon DEF Fits
  <2> QED BY <1>0, <2>1, <2>2, <2>5, Unmoved, ProcessMoves, Zenon
<1>2. CASE Ready(m)
  <2> DEFINE p == [proc[m] EXCEPT !.st = "up",
                        !.gate = IF proc[m].plan = "open" THEN "open" ELSE proc[m].gate]
  <2>1. /\ p \in Procs /\ p.st = "up" /\ p.pol = proc[m].pol
        /\ p.gate = "open" => proc[m].plan = "open" \/ proc[m].gate = "open"
        /\ proc[m].plan # "open" => p.gate = proc[m].gate
    BY <1>0, Zenon DEF Procs, Gates
  <2>2. /\ proc' = [proc EXCEPT ![m] = p] /\ proc[m].st = "starting"
        /\ UNCHANGED <<guard, ro, ack, obs, host, cli, row>>
    BY <1>2, <1>0, Zenon DEF Ready, RolloutInv, RolloutType
  <2> HIDE DEF p
  <2>4. Hot(p, obs[m], row[m]) => proc[m].plan = "open" \/ Hot(proc[m], obs[m], row[m])
    BY <2>1, <2>2, Zenon DEF Hot, Lively
  <2>5. Fits(m, p, obs[m], row[m], host[m], ack.source[m], guard, ro, cli)
    <3>1. ProcessFits(p, obs[m], host[m], ro)
      BY <1>0, <2>1, <2>2, Zenon DEF Fits, ProcessFits, Lively
    <3>2. guard.active = "yes" => proc[m].plan # "open"
      BY <1>0, <2>2, Zenon DEF Fits, HeatFits
    <3>3. HeatFits(m, p, obs[m], row[m], host[m], guard, ro, cli)
      BY <1>0, <2>1, <2>2, <2>4, <3>2, OneManager, Zenon DEF Fits, HeatFits, ExecutorFits, Guards
    <3>4. AckFits(p, obs[m], row[m], ack.source[m], guard, ro)
      BY <1>0, <2>1, <2>2, <2>4, <3>2, Zenon DEF Fits, AckFits, Lively
    <3> QED BY <3>1, <3>3, <3>4, Zenon DEF Fits
  <2> QED BY <1>0, <2>1, <2>2, <2>5, Unmoved, ProcessMoves, Zenon
<1>3. CASE Drained(m)
  <2>1. "absent" \in Rows
    BY Zenon DEF Rows
  <2> QED BY <1>3, <2>1, IdleTypes, DownFits, ProcessMoves, Zenon DEF Drained
<1>4. CASE Crash(m)
  BY <1>4, <1>0, IdleTypes, DownFits, Unmoved, ProcessMoves, Zenon DEF Crash
<1>5. CASE Stop(m) \/ OperatorStops(m)
  <2> DEFINE p == [proc[m] EXCEPT !.st = "draining", !.gate = "closed"]
  <2>1. /\ p \in Procs /\ p.st = "draining" /\ p.pol = proc[m].pol /\ p.gate = "closed"
    BY <1>0, Zenon DEF Procs, Gates
  <2>2. /\ proc' = [proc EXCEPT ![m] = p] /\ proc[m].st = "up"
        /\ UNCHANGED <<guard, ro, ack, obs, host, cli, row>>
    BY <1>5, <1>0, Zenon DEF Stop, OperatorStops, Up, Draining
  <2> HIDE DEF p
  <2>3. Hot(p, obs[m], row[m]) => Hot(proc[m], obs[m], row[m])
    BY <2>1, <2>2, Zenon DEF Hot, Lively
  <2>5. Fits(m, p, obs[m], row[m], host[m], ack.source[m], guard, ro, cli)
    BY <1>0, <2>1, <2>2, <2>3, Zenon DEF Fits, ProcessFits, HeatFits, AckFits, Lively
  <2> QED BY <1>0, <2>1, <2>2, <2>5, Unmoved, ProcessMoves, Zenon
<1>6. CASE BeatAges(m) \/ Reap(m)
  <2> DEFINE w == IF BeatAges(m) /\ row[m] = "open" THEN "staleopen" ELSE "absent"
  <2>1. w \in Rows /\ w # "open"
    BY Zenon DEF Rows
  <2>2. row' = [row EXCEPT ![m] = w] /\ UNCHANGED <<guard, ro, ack, obs, host, cli, proc>>
    BY <1>6, <1>0, Zenon DEF BeatAges, Reap, RolloutInv, RolloutType
  <2> HIDE DEF w
  <2>3. Hot(proc[m], obs[m], w) => Hot(proc[m], obs[m], row[m])
    BY <2>1, Zenon DEF Hot
  <2>5. Fits(m, proc[m], obs[m], w, host[m], ack.source[m], guard, ro, cli)
    BY <1>0, <2>1, <2>3, Zenon DEF Fits, ProcessFits, HeatFits, AckFits
  <2> QED BY <1>0, <2>1, <2>2, <2>5, Unmoved, ProcessMoves, Zenon
<1> QED BY <1>1, <1>2, <1>3, <1>4, <1>5, <1>6, Zenon

(* The observer reads, and then writes gate, row and acknowledgement.      *)
LEMMA ObserverKeeps ==
    ASSUME RolloutInv, NEW m \in Managers,
           Observe(m) \/ ObserveGate(m) \/ ObserveRow(m) \/ ObserveAck(m)
    PROVE  RolloutInv'
<1>0. /\ proc[m] \in Procs /\ obs[m] \in Observers /\ row[m] \in Rows
      /\ Fits(m, proc[m], obs[m], row[m], host[m], ack.source[m], guard, ro, cli)
      /\ guard \in Guards /\ ro \in Records /\ ExecutorFits(guard, ro, cli)
      /\ ack \in [{"source", "target"} -> [Managers -> Acks]] /\ ack.source[m] \in Acks
      /\ cli \in Executors /\ host[m] \in Selections
  BY OneManager, Zenon
<1>1. CASE Observe(m)
  <2> DEFINE role == IF guard.active = "yes" THEN Role(m) ELSE "none"
             want == IF Opens(m) THEN "open" ELSE "closed"
             seen == IF guard.active = "yes" THEN [id |-> ro.id, phase |-> ro.phase] ELSE NotSeen
             o == [pc |-> "gate", want |-> want, role |-> role, seen |-> seen]
  <2>1. /\ want \in Gates /\ role \in {"none", "source", "target"} /\ seen \in Seen
        /\ seen.id <= ro.id
        /\ role = "source" => m \in ro.src
        /\ role = "target" => m \in ro.tgt /\ proc[m].pol = ro.pol
    BY <1>0 DEF Gates, Role, NotSeen, Seen, Records
  <2>2. /\ want = "open" => \/ guard.active = "no" /\ proc[m].pol = guard.acc
                            \/ /\ guard.active = "yes" /\ role = "source"
                               /\ ro.phase \in BeforeClose
                            \/ /\ guard.active = "yes" /\ role = "target"
                               /\ ro.phase = "ActivatingTarget"
        /\ want = "closed" /\ role = "source" => ro.phase \notin BeforeClose
    BY <1>0, Zenon DEF Opens, Guards
  <2>3. Running(m) /\ obs' = [obs EXCEPT ![m] = o] /\ UNCHANGED <<guard, ro, ack, row, proc, host, cli>>
    BY <1>1, Zenon DEF Observe
  <2> HIDE DEF role, want, seen
  <2>4. /\ o \in Observers /\ o.pc = "gate" /\ o.want = want /\ o.role = role /\ o.seen = seen
    BY <2>1, Zenon DEF Observers
  <2> HIDE DEF o
  <2>5. Hot(proc[m], o, row[m]) => want = "open" \/ Hot(proc[m], obs[m], row[m])
    BY <2>4, Zenon DEF Hot
  <2>6. ProcessFits(proc[m], o, host[m], ro)
    BY <1>0, <2>1, <2>3, <2>4, Zenon DEF Fits, ProcessFits, Running, Lively
  <2>7. HeatFits(m, proc[m], o, row[m], host[m], guard, ro, cli)
    <3>1. want = "open" => cli.pc # "inspect"
      BY <1>0, <2>2, Zenon DEF ExecutorFits, PhaseOf, BeforeClose
    <3> QED BY <1>0, <2>1, <2>2, <2>5, <3>1, Zenon DEF Fits, HeatFits, BeforeClose
  <2>8. AckFits(proc[m], o, row[m], ack.source[m], guard, ro)
    BY <1>0, <2>2, <2>4, <2>5, Zenon DEF Fits, AckFits, BeforeClose, Gates
  <2>9. Fits(m, proc[m], o, row[m], host[m], ack.source[m], guard, ro, cli)
    BY <2>6, <2>7, <2>8, Zenon DEF Fits
  <2>10. proc' = [proc EXCEPT ![m] = proc[m]] /\ row' = [row EXCEPT ![m] = row[m]]
    BY <2>3, Unmoved, Zenon
  <2> QED BY <1>0, <2>3, <2>4, <2>9, <2>10, ProcessMoves, Zenon
<1>2. CASE ObserveGate(m)
  <2> DEFINE p == [proc[m] EXCEPT !.gate = obs[m].want, !.seen = obs[m].seen]
             o == [obs[m] EXCEPT !.pc = "row"]
  <2>1. /\ p \in Procs /\ p.st = proc[m].st /\ p.pol = proc[m].pol /\ p.gate = obs[m].want
        /\ p.plan = proc[m].plan
    BY <1>0, Zenon DEF Procs, Observers
  <2>2. /\ o \in Observers /\ o.pc = "row" /\ o.want = obs[m].want /\ o.role = obs[m].role
        /\ o.seen = obs[m].seen
    BY <1>0, Zenon DEF Observers
  <2>3. /\ proc' = [proc EXCEPT ![m] = p] /\ obs' = [obs EXCEPT ![m] = o]
        /\ obs[m].pc = "gate" /\ UNCHANGED <<guard, ro, ack, row, host, cli>>
    BY <1>2, Zenon DEF ObserveGate
  <2> HIDE DEF p, o
  <2>4. Hot(p, o, row[m]) => Hot(proc[m], obs[m], row[m])
    BY <2>1, <2>2, Zenon DEF Hot, Lively
  <2>5. Lively(proc[m])
    BY <1>0, <2>3 DEF Fits, ProcessFits, Quiet
  <2>6. Fits(m, p, o, row[m], host[m], ack.source[m], guard, ro, cli)
    BY <1>0, <2>1, <2>2, <2>4, <2>5 DEF Fits, ProcessFits, HeatFits, AckFits, Lively
  <2> QED BY <1>0, <2>1, <2>2, <2>3, <2>6, Unmoved, ProcessMoves, Zenon
<1>3. CASE ObserveRow(m)
  <2> DEFINE w == IF row[m] = "absent" THEN row[m] ELSE obs[m].want
             o == IF obs[m].role = "none" THEN Quiet ELSE [obs[m] EXCEPT !.pc = "ack"]
  <2>1. w \in Rows /\ (w = "open" => obs[m].want = "open")
    BY <1>0, Zenon DEF Rows, Observers
  <2>2. /\ o \in Observers /\ (o.want = "open" => obs[m].want = "open")
        /\ o = Quiet \/ (o.pc = "ack" /\ o.want = obs[m].want /\ o.role = obs[m].role
                          /\ o.seen = obs[m].seen)
    BY <1>0, IdleTypes, Zenon DEF Observers, Quiet
  <2>3. /\ row' = [row EXCEPT ![m] = w] /\ obs' = [obs EXCEPT ![m] = o]
        /\ obs[m].pc = "row" /\ UNCHANGED <<guard, ro, ack, proc, host, cli>>
    BY <1>3, <1>0, Zenon DEF ObserveRow, RolloutInv, RolloutType
  <2> HIDE DEF w, o
  <2>4. Hot(proc[m], o, w) => Hot(proc[m], obs[m], row[m])
    BY <2>1, <2>2, Zenon DEF Hot
  <2>5. Lively(proc[m])
    BY <1>0, <2>3 DEF Fits, ProcessFits, Quiet
  <2>6. Quiet.role = "none" /\ Quiet.seen.id = 0 /\ ro.id \in Nat
    BY <1>0, Zenon DEF Quiet, NotSeen, Records
  <2>7. ProcessFits(proc[m], o, host[m], ro)
    BY <1>0, <2>2, <2>5, <2>6 DEF Fits, ProcessFits
  <2>8. HeatFits(m, proc[m], o, w, host[m], guard, ro, cli)
    BY <1>0, <2>4, Zenon DEF Fits, HeatFits
  <2>9. AckFits(proc[m], o, w, ack.source[m], guard, ro)
    BY <1>0, <2>1, <2>2, <2>3, <2>4, <2>6, Zenon DEF Fits, AckFits
  <2> QED BY <1>0, <2>1, <2>2, <2>3, <2>7, <2>8, <2>9, Unmoved, ProcessMoves, Zenon DEF Fits
<1>4. CASE ObserveAck(m)
  <2> DEFINE a == IF obs[m].seen.id = ro.id /\ obs[m].role = "source" THEN obs[m].want
                  ELSE ack.source[m]
  <2>1. a \in Acks /\ obs[m].want \in Acks
    BY <1>0, Zenon DEF Acks, Observers
  <2>2. /\ obs' = [obs EXCEPT ![m] = Quiet] /\ obs[m].pc = "ack"
        /\ UNCHANGED <<guard, ro, proc, row, host, cli>>
    BY <1>4, Zenon DEF ObserveAck
  <2>3. ack' \in [{"source", "target"} -> [Managers -> Acks]]
    BY <1>0, <1>4, <2>1, Zenon DEF ObserveAck
  <2>4. Acknowledges(m, a)
    BY <1>0, <1>4, <2>3, Zenon DEF ObserveAck, Acknowledges
  <2>5. /\ Quiet.want = "closed" /\ Quiet.role = "none" /\ Quiet.seen.id = 0 /\ ro.id \in Nat
    BY <1>0, Zenon DEF Quiet, NotSeen, Records
  <2>6. Hot(proc[m], Quiet, row[m]) => Hot(proc[m], obs[m], row[m])
    BY <2>5, Zenon DEF Hot
  <2>7. Lively(proc[m])
    BY <1>0, <2>2 DEF Fits, ProcessFits, Quiet
  <2>8. ProcessFits(proc[m], Quiet, host[m], ro)
    BY <1>0, <2>5, <2>7 DEF Fits, ProcessFits
  <2>9. HeatFits(m, proc[m], Quiet, row[m], host[m], guard, ro, cli)
    BY <1>0, <2>6, Zenon DEF Fits, HeatFits
  <2>10. AckFits(proc[m], Quiet, row[m], a, guard, ro)
    BY <1>0, <2>2, <2>5, <2>6, Zenon DEF Fits, AckFits, Hot
  <2> HIDE DEF a
  <2>11. host' = [host EXCEPT ![m] = host[m]]
    BY <2>2, Zenon DEF RolloutInv, RolloutType
  <2>12. Fits(m, proc[m], Quiet, row[m], host[m], a, guard, ro, cli)
    BY <2>8, <2>9, <2>10, Zenon DEF Fits
  <2>13. proc' = [proc EXCEPT ![m] = proc[m]] /\ row' = [row EXCEPT ![m] = row[m]]
    BY <2>2, Unmoved, Zenon
  <2> QED BY <1>0, <2>1, <2>2, <2>4, <2>11, <2>12, <2>13, IdleTypes, ManagerMoves, Zenon
<1> QED BY <1>1, <1>2, <1>3, <1>4, Zenon

(* A non-empty set of managers has a first one. *)
LEMMA FirstManager ==
    ASSUME NEW T \in SUBSET Managers, T # {}
    PROVE  Min(T) \in T
<1>1. T \subseteq Nat
  BY RolloutAssumption, Zenon
<1>2. PICK x \in T : \A y \in T : ~ (<<y, x>> \in OpToRel(<, Nat))
  BY <1>1, NatLessThanWellFounded, WFMin, Zenon
<1>3. \A y \in T : ~(y < x)
  BY <1>1, <1>2, Zenon DEF OpToRel
<1>4. \A y \in T : x =< y
  BY <1>1, <1>3
<1> QED BY <1>4, Zenon DEF Min

(* A host whose process is down gets another policy after the closing.     *)
LEMMA InstallMoves ==
    ASSUME RolloutInv, NEW t \in Managers, NEW h \in Selections, NEW c \in Executors,
           proc[t].st = "down", host' = [host EXCEPT ![t] = h], cli' = c,
           c = cli \/ c.pc # "inspect", ExecutorFits(guard, ro, c),
           ro.phase \in {"StartingTarget", "FailedClosed"}, guard.active = "yes",
           UNCHANGED <<guard, ro, ack, row, proc, obs>>
    PROVE  RolloutInv'
<1>2. /\ proc[t] \in Procs /\ obs[t] \in Observers /\ row[t] \in Rows
      /\ ack.source[t] \in Acks
      /\ ack \in [{"source", "target"} -> [Managers -> Acks]]
      /\ Fits(t, proc[t], obs[t], row[t], host[t], ack.source[t], guard, ro, cli)
  BY OneManager, Zenon
<1>3. Fits(t, proc[t], obs[t], row[t], h, ack.source[t], guard, ro, c)
  BY <1>2, Zenon DEF Fits, ProcessFits, HeatFits, BeforeClose
<1>4. /\ proc' = [proc EXCEPT ![t] = proc[t]] /\ obs' = [obs EXCEPT ![t] = obs[t]]
      /\ row' = [row EXCEPT ![t] = row[t]]
  BY Unmoved, Zenon
<1>5. Acknowledges(t, ack.source[t])
  BY StillAcknowledges, Zenon
<1> QED BY <1>2, <1>3, <1>4, <1>5, ManagerMoves, Zenon

(* The executor stops a manager's unit, or installs another policy on the  *)
(* host of one that is down; the operator does the latter.                 *)
LEMMA HostKeeps ==
    ASSUME RolloutInv,
           \/ CliActivate \/ CliDeactivate \/ CliInstall
           \/ \E m \in Managers : OperatorInstalls(m)
    PROVE  RolloutInv'
<1>0. cli \in Executors /\ guard \in Guards /\ ro \in Records /\ ExecutorFits(guard, ro, cli)
      /\ ack \in [{"source", "target"} -> [Managers -> Acks]]
  BY Zenon DEF RolloutInv, RolloutType
<1>1. CASE CliActivate \/ CliDeactivate
  <2> DEFINE t == Min(cli.todo)
             p == IF Running(t) THEN [proc[t] EXCEPT !.st = "draining", !.gate = "closed"] ELSE Down
             o == IF Running(t) THEN obs[t] ELSE Quiet
             h == [host[t] EXCEPT !.masked = "yes"]
             c == [cli EXCEPT !.pc = IF cli.pc = "activate" THEN "install" ELSE "stopped"]
  <2>1. cli.pc \in {"activate", "deactivate"} /\ cli.todo # {} /\ cli.todo \in SUBSET Managers
    BY <1>0, <1>1, Zenon DEF CliActivate, CliDeactivate, Executors
  <2>2. t \in Managers
    BY <2>1, FirstManager, Zenon
  <2>3. /\ proc' = [proc EXCEPT ![t] = p] /\ obs' = [obs EXCEPT ![t] = o]
        /\ host' = [host EXCEPT ![t] = h] /\ cli' = c
        /\ UNCHANGED <<guard, ro, ack, row>>
    BY <1>1, <2>2, Zenon DEF CliActivate, CliDeactivate, Draining, Goto, RolloutInv, RolloutType
  <2>4. /\ c \in Executors /\ c.pc \in {"install", "stopped"} /\ c.todo = cli.todo
    BY <1>0, <2>1, Zenon DEF Executors, CliPcs, GivesUpAt
  <2> HIDE DEF c, t
  <2>5. /\ proc[t] \in Procs /\ obs[t] \in Observers /\ row[t] \in Rows /\ host[t] \in Selections
        /\ ack.source[t] \in Acks
        /\ Fits(t, proc[t], obs[t], row[t], host[t], ack.source[t], guard, ro, cli)
    BY <2>2, OneManager, Zenon
  <2>6. h \in Selections /\ h.pol = host[t].pol
    BY <2>5, Zenon DEF Selections
  <2> HIDE DEF h
  <2>7. ExecutorFits(guard, ro, c)
    BY <1>0, <2>1, <2>4, Zenon DEF ExecutorFits, PhaseOf
  <2>8. p \in Procs /\ o \in Observers /\ Fits(t, p, o, row[t], h, ack.source[t], guard, ro, c)
    <3>1. CASE Running(t)
      <4>1. /\ p \in Procs /\ p.st = "draining" /\ p.pol = proc[t].pol /\ p.gate = "closed"
            /\ o = obs[t]
        BY <2>5, <3>1, Zenon DEF Procs, Gates
      <4> HIDE DEF p, o
      <4>2. Hot(p, o, row[t]) => Hot(proc[t], obs[t], row[t])
        BY <3>1, <4>1, Zenon DEF Hot, Lively, Running
      <4> QED BY <2>4, <2>5, <2>6, <3>1, <4>1, <4>2, Zenon
              DEF Fits, ProcessFits, HeatFits, AckFits, Lively, Running
    <3>2. CASE ~Running(t)
      <4>1. p = Down /\ o = Quiet
        BY <3>2, Zenon
      <4>2. Fits(t, Down, Quiet, row[t], host[t], ack.source[t], guard, ro, cli)
        BY <2>2, <2>5, DownFits, Zenon
      <4>3. Fits(t, Down, Quiet, row[t], h, ack.source[t], guard, ro, c)
        BY <2>4, <2>6, <4>2, Zenon DEF Fits, ProcessFits, HeatFits
      <4> QED BY <4>1, <4>3, IdleTypes, Zenon
    <3> QED BY <3>1, <3>2, Zenon
  <2> HIDE DEF p, o
  <2>9. row' = [row EXCEPT ![t] = row[t]] /\ Acknowledges(t, ack.source[t])
    BY <2>2, <2>3, Unmoved, StillAcknowledges, Zenon
  <2> QED BY <2>2, <2>3, <2>4, <2>5, <2>6, <2>7, <2>8, <2>9, ManagerMoves, Zenon
<1>2. CASE CliInstall
  <2> DEFINE t == Min(cli.todo)
             h == [pol |-> cli.pol, masked |-> "no"]
             c == [cli EXCEPT !.pc = "await"]
  <2>1. cli.pc = "install" /\ cli.todo # {} /\ cli.todo \in SUBSET Managers
    BY <1>0, <1>2, Zenon DEF CliInstall, ExecutorFits, Executors
  <2>2. t \in Managers
    BY <2>1, FirstManager, Zenon
  <2>3. h \in Selections /\ c \in Executors /\ c.pc = "await" /\ c.todo = cli.todo
    BY <1>0, Zenon DEF Selections, Executors, CliPcs, GivesUpAt
  <2>4. ExecutorFits(guard, ro, c) /\ ro.phase = "StartingTarget" /\ guard.active = "yes"
    BY <1>0, <2>1, <2>3, Zenon DEF ExecutorFits, PhaseOf
  <2>5. /\ proc[t].st = "down" /\ host' = [host EXCEPT ![t] = h] /\ cli' = c
        /\ UNCHANGED <<guard, ro, ack, row, proc, obs>>
    BY <1>2, Zenon DEF CliInstall, Goto
  <2> HIDE DEF t, h, c
  <2> QED BY <2>2, <2>3, <2>4, <2>5, InstallMoves, Zenon
<1>3. ASSUME NEW m \in Managers, OperatorInstalls(m) PROVE RolloutInv'
  <2>1. PICK p \in {guard.acc, ro.pol} : host' = [host EXCEPT ![m] = [pol |-> p, masked |-> "no"]]
    BY <1>3, Zenon DEF OperatorInstalls
  <2>2. [pol |-> p, masked |-> "no"] \in Selections
    BY <1>0, Zenon DEF Selections, Guards, Records
  <2>3. /\ proc[m].st = "down" /\ cli' = cli /\ guard.active = "yes"
        /\ ro.phase = "FailedClosed" /\ UNCHANGED <<guard, ro, ack, row, proc, obs>>
    BY <1>3, Zenon DEF OperatorInstalls
  <2> QED BY <1>0, <2>1, <2>2, <2>3, InstallMoves, Zenon
<1> QED BY <1>1, <1>2, <1>3, Zenon

(* The executor goes on, gives up or dies without touching the record; a   *)
(* reset inspects the next host and finds it down.                         *)
LEMMA ExecutorKeeps ==
    ASSUME RolloutInv,
           \/ CliAwait \/ CliStopped \/ CliDies \/ ResetInspect
           \/ \E m \in Managers : CliControl(m) \/ Rerun(m) \/ ResetFetch(m)
    PROVE  RolloutInv'
<1>0. cli \in Executors /\ guard \in Guards /\ ro \in Records /\ ExecutorFits(guard, ro, cli)
  BY Zenon DEF RolloutInv, RolloutType
<1> DEFINE Only ==
      /\ UNCHANGED <<guard, ro, ack, row, proc, obs, host>>
      /\ cli' \in Executors /\ ExecutorFits(guard, ro, cli')
      /\ cli'.pc = "inspect" =>
            \A m \in (ro.src \cup ro.tgt) \ cli'.todo :
                m \in Managers => ~Hot(proc[m], obs[m], row[m])
<1> SUFFICES Only
  <2>1. RolloutType'
    BY Zenon DEF RolloutInv, RolloutType
  <2>2. ASSUME NEW m \in Managers
        PROVE  Fits(m, proc[m], obs[m], row[m], host[m], ack.source[m], guard, ro, cli')
    BY OneManager, Zenon DEF Fits, HeatFits
  <2> QED BY <2>1, <2>2, RecordMoves, Zenon
<1>1. CASE CliAwait
  <2>1. cli.pc = "await" /\ UNCHANGED <<guard, ro, ack, row, proc, obs, host>>
    BY <1>1, Zenon DEF CliAwait
  <2> DEFINE rest == cli.todo \ {Min(cli.todo)}
  <2>2. cli' = [cli EXCEPT !.todo = rest, !.pc = IF rest = {} THEN "control" ELSE "activate"]
    BY <1>1, Zenon DEF CliAwait
  <2>3. rest \in SUBSET Managers
    BY <1>0, Zenon DEF Executors
  <2> HIDE DEF rest
  <2>4. cli' \in Executors /\ cli'.pc \in {"control", "activate"}
    BY <1>0, <2>2, <2>3, Zenon DEF Executors, CliPcs, GivesUpAt
  <2> QED BY <1>0, <2>1, <2>4, Zenon DEF ExecutorFits, PhaseOf
<1>2. CASE CliStopped
  <2>1. cli.pc = "stopped" /\ UNCHANGED <<guard, ro, ack, row, proc, obs, host>>
    BY <1>2, Zenon DEF CliStopped
  <2> DEFINE rest == cli.todo \ {Min(cli.todo)}
  <2>2. cli' = [cli EXCEPT !.todo = rest, !.pc = "deactivate"]
    BY <1>2, <1>0, Zenon DEF CliStopped, Executors
  <2>3. rest \in SUBSET Managers
    BY <1>0, Zenon DEF Executors
  <2> HIDE DEF rest
  <2>4. cli' \in Executors /\ cli'.pc = "deactivate"
    BY <1>0, <2>2, <2>3, Zenon DEF Executors, CliPcs, GivesUpAt
  <2> QED BY <1>0, <2>1, <2>4, Zenon DEF ExecutorFits, PhaseOf
<1>3. CASE CliDies
  <2>1. cli' = NoCli /\ UNCHANGED <<guard, ro, ack, row, proc, obs, host>>
    BY <1>3, Zenon DEF CliDies
  <2>2. NoCli \in Executors /\ NoCli.pc = "none"
    BY Zenon DEF NoCli, Executors, CliPcs
  <2> QED BY <1>0, <2>1, <2>2, Zenon DEF ExecutorFits, PhaseOf, Records
<1>4. CASE ResetInspect
  <2> DEFINE h == Min(cli.todo)
             c == [cli EXCEPT !.todo = cli.todo \ {h}, !.pol = host[h].pol]
  <2>1. /\ cli.pc = "inspect" /\ cli.todo # {} /\ cli.todo \in SUBSET Managers
        /\ UNCHANGED <<guard, ro, ack, row, proc, obs, host>>
    BY <1>0, <1>4, Zenon DEF ResetInspect, Executors
  <2>2. h \in Managers
    BY <2>1, FirstManager, Zenon
  <2>3. cli' = c /\ proc[h].st = "down"
    BY <1>4, <1>0, Zenon DEF ResetInspect, StoppedUniformly, Executors
  <2>4. host[h].pol \in Policies \cup {NoPolicy}
    BY <2>2, OneManager, Zenon DEF Selections
  <2> HIDE DEF h
  <2>5. c \in Executors /\ c.pc = "inspect" /\ c.todo = cli.todo \ {h}
    BY <1>0, <2>1, <2>4, Zenon DEF Executors
  <2> HIDE DEF c
  <2>6. ExecutorFits(guard, ro, c)
    BY <1>0, <2>1, <2>5, Zenon DEF ExecutorFits, PhaseOf
  <2>7. ~Hot(proc[h], obs[h], row[h])
    BY <2>2, <2>3, OneManager DEF Fits, ProcessFits, Hot, Lively, Quiet
  <2>8. ASSUME NEW m \in (ro.src \cup ro.tgt) \ c.todo, m \in Managers
        PROVE  ~Hot(proc[m], obs[m], row[m])
    BY <2>1, <2>5, <2>7, <2>8, OneManager, Zenon DEF Fits, HeatFits
  <2> QED BY <2>1, <2>3, <2>5, <2>6, <2>8, Zenon
<1>5. ASSUME NEW m \in Managers, CliControl(m) PROVE Only
  <2>1. /\ cli.pc = "control" /\ UNCHANGED <<guard, ro, ack, row, proc, obs, host>>
        /\ cli' = [cli EXCEPT !.pc = "deactivate", !.ep = m, !.todo = ro.src \ ro.tgt]
    BY <1>5, Zenon DEF CliControl
  <2>2. cli' \in Executors /\ cli'.pc = "deactivate"
    BY <1>0, <2>1, Zenon DEF Executors, CliPcs, GivesUpAt, Records
  <2> QED BY <1>0, <2>1, <2>2, Zenon DEF ExecutorFits, PhaseOf
<1>6. ASSUME NEW m \in Managers, Rerun(m) PROVE Only
  <2>1. /\ guard.active = "yes" /\ ro.phase \in BeforeClose
        /\ UNCHANGED <<guard, ro, ack, row, proc, obs, host>>
        /\ cli' = [pc |-> "stage", todo |-> {}, ep |-> m, pol |-> ro.pol]
    BY <1>6, Zenon DEF Rerun
  <2>2. cli' \in Executors /\ cli'.pc = "stage"
    BY <1>0, <2>1, Zenon DEF Executors, CliPcs, Records
  <2> QED BY <1>0, <2>1, <2>2, Zenon DEF ExecutorFits, PhaseOf
<1>7. ASSUME NEW m \in Managers, ResetFetch(m) PROVE Only
  <2>1. /\ guard.active = "yes" /\ ro.phase = "FailedClosed"
        /\ UNCHANGED <<guard, ro, ack, row, proc, obs, host>>
        /\ cli' = [pc |-> "inspect", todo |-> ro.src \cup ro.tgt, ep |-> m, pol |-> NoPolicy]
    BY <1>7, Zenon DEF ResetFetch
  <2>2. cli' \in Executors /\ cli'.pc = "inspect" /\ cli'.todo = ro.src \cup ro.tgt
    BY <1>0, <2>1, Zenon DEF Executors, CliPcs, Records
  <2> QED BY <1>0, <2>1, <2>2, Zenon DEF ExecutorFits, PhaseOf
<1> QED BY <1>1, <1>2, <1>3, <1>4, <1>5, <1>6, <1>7, Zenon

(* Begin reads the live open managers of a settled fleet as its sources:   *)
(* nobody else is hot, and all of them run the accepted policy.            *)
LEMMA BeginKeeps ==
    ASSUME RolloutInv, Settled, NEW m \in Managers, NEW p \in Policies, Begin(m, p)
    PROVE  RolloutInv'
<1> DEFINE r == [id |-> ro.id + 1, phase |-> "Prepared", pol |-> p, src |-> LiveOpen,
                 tgt |-> Enrolled[p], recovery |-> guard.permit]
           g == [guard EXCEPT !.active = "yes", !.permit = "no"]
           c == [pc |-> "stage", todo |-> {}, ep |-> m, pol |-> p]
           sources == [n \in Managers |-> IF n \in LiveOpen THEN "open" ELSE "none"]
<1>0. cli \in Executors /\ guard \in Guards /\ ro \in Records
  BY Zenon DEF RolloutInv, RolloutType
<1>1. /\ FleetSettled /\ guard.active = "no" /\ guard.acc # NoPolicy
      /\ ro' = r /\ guard' = g /\ cli' = c
      /\ ack' = [source |-> sources, target |-> [n \in Managers |-> "none"]]
      /\ UNCHANGED <<row, proc, obs, host>>
  BY Zenon DEF Begin, BeginTxn, BeginAllowed
<1>2. /\ r \in Records /\ r.id = ro.id + 1 /\ r.phase = "Prepared" /\ r.src = LiveOpen
      /\ ro.id \in Nat
  BY <1>0, RolloutAssumption DEF Records, Guards, LiveOpen, Phases, BeforeClose
<1>3. g \in Guards /\ g.active = "yes" /\ g.acc = guard.acc
  BY <1>0, Zenon DEF Guards
<1>4. c \in Executors /\ c.pc = "stage"
  BY Zenon DEF Executors, CliPcs
<1>5. /\ ack' \in [{"source", "target"} -> [Managers -> Acks]]
      /\ \A n \in Managers : ack'.source[n] # "closed"
  BY <1>1 DEF Acks, Gates
<1> HIDE DEF r, g, c
<1>6. RolloutType'
  BY <1>1, <1>2, <1>3, <1>4, <1>5, Zenon DEF RolloutInv, RolloutType
<1>7. ExecutorFits(g, r, c)
  BY <1>1, <1>2, <1>3, <1>4, Zenon DEF ExecutorFits, PhaseOf, BeforeClose
<1>8. ASSUME NEW n \in Managers
      PROVE  Fits(n, proc[n], obs[n], row[n], host[n], ack'.source[n], g, r, c)
  <2>0. /\ Fits(n, proc[n], obs[n], row[n], host[n], ack.source[n], guard, ro, cli)
        /\ obs[n] \in Observers
    BY OneManager, Zenon
  <2>1. /\ proc[n].st \in {"down", "up"} /\ (n \in LiveOpen => proc[n].st = "up")
        /\ proc[n].gate = "open" \/ obs[n].want = "open" => n \in LiveOpen
    BY <1>1, Zenon DEF FleetSettled
  <2>2. Hot(proc[n], obs[n], row[n]) <=> n \in LiveOpen
    BY <2>1, Zenon DEF Hot, LiveOpen, Lively
  <2>3. n \in LiveOpen => host[n].pol = guard.acc
    BY <1>1, <2>0, <2>1, <2>2, Zenon DEF Fits, ProcessFits, HeatFits
  <2>4. obs[n].seen.id <= ro.id /\ obs[n].seen.id \in Nat
    BY <2>0, Zenon DEF Fits, ProcessFits, Observers, Seen
  <2>5. ProcessFits(proc[n], obs[n], host[n], r)
    <3>1. obs[n].seen.id <= r.id
      BY <1>2, <2>4
    <3> QED BY <2>0, <3>1, Zenon DEF Fits, ProcessFits
  <2>6. HeatFits(n, proc[n], obs[n], row[n], host[n], g, r, c)
    BY <1>2, <1>3, <1>4, <2>1, <2>2, <2>3, Zenon DEF HeatFits
  <2>7. AckFits(proc[n], obs[n], row[n], ack'.source[n], g, r)
    BY <1>2, <1>5, <2>4 DEF AckFits
  <2> QED BY <2>5, <2>6, <2>7, Zenon DEF Fits
<1> QED BY <1>1, <1>6, <1>7, <1>8, RecordMoves, Zenon

(* What a committed phase transition, or a replay of one, leaves.          *)
LEMMA AdvanceShape ==
    ASSUME RolloutInv, NEW from, NEW next \in Phases, AdvanceTxn(from, next),
           guard.active = "yes"
    PROVE  /\ ro' \in Records /\ guard' \in Guards
           /\ ro'.phase = next /\ ro'.id = ro.id /\ ro'.pol = ro.pol
           /\ ro'.src = ro.src /\ ro'.tgt = ro.tgt
           /\ \/ /\ ro.phase = from /\ Barrier(next)
                 /\ guard'.active = IF next \in {"Completed", "FailedPreClose"} THEN "no" ELSE "yes"
                 /\ guard'.acc = IF next = "Completed" THEN ro.pol ELSE guard.acc
              \/ ro.phase = next /\ ro' = ro /\ guard' = guard
<1>0. guard \in Guards /\ ro \in Records
  BY Zenon DEF RolloutInv, RolloutType
<1>1. CASE /\ ro.phase = from /\ Barrier(next)
           /\ ro' = [ro EXCEPT !.phase = next]
           /\ guard' = [guard EXCEPT
                          !.active = IF next \in {"Completed", "FailedPreClose"} THEN "no" ELSE @,
                          !.acc = IF next = "Completed" THEN ro.pol ELSE @]
  BY <1>0, <1>1, Zenon DEF Guards, Records
<1>2. CASE ro.phase = next /\ UNCHANGED <<ro, guard>>
  BY <1>0, <1>2, Zenon
<1> QED BY <1>1, <1>2, Zenon DEF AdvanceTxn

(* The transitions the executor asks for, in the order it asks for them.   *)
Transitions ==
    {<<"Prepared", "Staging">>, <<"Staging", "FailedPreClose">>, <<"Staging", "ClosingOld">>,
     <<"ClosingOld", "OldClosed">>, <<"OldClosed", "StartingTarget">>,
     <<"StartingTarget", "TargetReadyClosed">>, <<"TargetReadyClosed", "ActivatingTarget">>,
     <<"ActivatingTarget", "Completed">>, <<"StartingTarget", "FailedClosed">>,
     <<"ActivatingTarget", "FailedClosed">>}

(* Each of them keeps the invariant: a barrier that passes has seen every  *)
(* source closed.                                                          *)
LEMMA AdvanceKeeps ==
    ASSUME RolloutInv, NEW from, NEW next, <<from, next>> \in Transitions,
           AdvanceTxn(from, next), guard.active = "yes",
           cli' \in Executors, cli'.pc # "inspect", ExecutorFits(guard', ro', cli'),
           UNCHANGED <<ack, row, proc, obs, host>>
    PROVE  RolloutInv'
<1>1. next \in Phases
  BY Zenon DEF Transitions, Phases, BeforeClose, AfterClose, Failed
<1>2. /\ ro' \in Records /\ guard' \in Guards
      /\ ro'.phase = next /\ ro'.id = ro.id /\ ro'.pol = ro.pol
      /\ ro'.src = ro.src /\ ro'.tgt = ro.tgt
      /\ \/ /\ ro.phase = from /\ Barrier(next)
            /\ guard'.active = IF next \in {"Completed", "FailedPreClose"} THEN "no" ELSE "yes"
            /\ guard'.acc = IF next = "Completed" THEN ro.pol ELSE guard.acc
         \/ ro.phase = next /\ ro' = ro /\ guard' = guard
  BY <1>1, AdvanceShape, Zenon
<1>3. RolloutType'
  BY <1>2, Zenon DEF RolloutInv, RolloutType
<1>4. ASSUME NEW m \in Managers
      PROVE  Fits(m, proc[m], obs[m], row[m], host[m], ack.source[m], guard', ro', cli')
  <2>0. /\ Fits(m, proc[m], obs[m], row[m], host[m], ack.source[m], guard, ro, cli)
        /\ proc[m] \in Procs /\ obs[m] \in Observers
    BY OneManager, Zenon
  <2>1. CASE ro' = ro /\ guard' = guard
    BY <2>0, <2>1, Zenon DEF Fits, HeatFits
  <2>2. CASE /\ ro.phase = from /\ Barrier(next)
             /\ guard'.active = IF next \in {"Completed", "FailedPreClose"} THEN "no" ELSE "yes"
             /\ guard'.acc = IF next = "Completed" THEN ro.pol ELSE guard.acc
    <3>1. ProcessFits(proc[m], obs[m], host[m], ro')
      BY <1>2, <2>0, Zenon DEF Fits, ProcessFits
    <3>2. Hot(proc[m], obs[m], row[m]) => Lively(proc[m]) /\ proc[m].pol = host[m].pol
      BY <2>0, IdleFields, Zenon DEF Fits, ProcessFits, Hot, Lively
    <3>3. proc[m].st \in {"booting", "starting"} => proc[m].plan = "closed"
      BY <2>0, Zenon DEF Fits, HeatFits
    <3>4. next = "OldClosed" => ~Hot(proc[m], obs[m], row[m])
      BY <2>0, <2>2, Zenon DEF Transitions, Fits, HeatFits, AckFits, Barrier, BeforeClose
    <3>5. HeatFits(m, proc[m], obs[m], row[m], host[m], guard', ro', cli')
      BY <1>2, <2>0, <2>2, <3>2, <3>3, <3>4, Zenon DEF Transitions, Fits, HeatFits, BeforeClose
    <3>6. AckFits(proc[m], obs[m], row[m], ack.source[m], guard', ro')
      BY <1>2, <2>0, <2>2, Zenon DEF Transitions, Fits, AckFits, BeforeClose
    <3> QED BY <3>1, <3>5, <3>6, Zenon DEF Fits
  <2> QED BY <1>2, <2>1, <2>2, Zenon
<1> QED BY <1>3, <1>4, RecordMoves, Zenon

(* The executor's calls that advance the record. *)
LEMMA RecordKeeps ==
    ASSUME RolloutInv,
           \/ CliStage \/ CliStagingFails \/ CliClose \/ CliClosed \/ CliStart \/ CliReady
           \/ CliActivating \/ CliComplete \/ CliGivesUp
    PROVE  RolloutInv'
<1>0. cli \in Executors /\ guard \in Guards /\ ro \in Records /\ ExecutorFits(guard, ro, cli)
  BY Zenon DEF RolloutInv, RolloutType
<1>1. NoCli \in Executors /\ NoCli.pc = "none"
  BY Zenon DEF NoCli, Executors, CliPcs
<1>2. ASSUME NEW pc \in CliPcs
      PROVE  LET c == [cli EXCEPT !.pc = pc] IN c \in Executors /\ c.pc = pc /\ c.todo = cli.todo
  BY <1>0, Zenon DEF Executors
<1>3. CASE CliStage
  <2>1. /\ AdvanceTxn("Prepared", "Staging") /\ cli.pc = "stage" /\ cli' = [cli EXCEPT !.pc = "close"]
        /\ UNCHANGED <<ack, row, proc, obs, host>>
    BY <1>3, Zenon DEF CliStage, Step, Goto
  <2>2. <<"Prepared", "Staging">> \in Transitions /\ "Staging" \in Phases /\ "close" \in CliPcs
    BY Zenon DEF Transitions, Phases, BeforeClose, CliPcs
  <2>3. guard.active = "yes" /\ cli' \in Executors /\ cli'.pc = "close"
    BY <1>0, <1>2, <2>1, <2>2, Zenon DEF ExecutorFits
  <2>4. ExecutorFits(guard', ro', cli')
    BY <1>0, <2>1, <2>2, <2>3, AdvanceShape, Zenon DEF ExecutorFits, PhaseOf
  <2> QED BY <2>1, <2>2, <2>3, <2>4, AdvanceKeeps, Zenon
<1>4. CASE CliStagingFails
  <2>1. /\ AdvanceTxn("Staging", "FailedPreClose") /\ cli.pc = "close" /\ cli' = NoCli
        /\ UNCHANGED <<ack, row, proc, obs, host>>
    BY <1>4, Zenon DEF CliStagingFails
  <2>2. <<"Staging", "FailedPreClose">> \in Transitions /\ "FailedPreClose" \in Phases
    BY Zenon DEF Transitions, Phases, Failed
  <2>3. guard.active = "yes" /\ ro.phase = "Staging"
    BY <1>0, <2>1, Zenon DEF ExecutorFits, PhaseOf
  <2>4. ExecutorFits(guard', ro', cli')
    BY <1>0, <1>1, <2>1, <2>2, <2>3, AdvanceShape, Zenon DEF ExecutorFits, PhaseOf
  <2> QED BY <1>1, <2>1, <2>2, <2>3, <2>4, AdvanceKeeps, Zenon
<1>5. CASE CliClose
  <2>1. /\ AdvanceTxn("Staging", "ClosingOld") /\ cli.pc = "close" /\ cli' = [cli EXCEPT !.pc = "closed"]
        /\ UNCHANGED <<ack, row, proc, obs, host>>
    BY <1>5, Zenon DEF CliClose, Step, Goto
  <2>2. <<"Staging", "ClosingOld">> \in Transitions /\ "ClosingOld" \in Phases /\ "closed" \in CliPcs
    BY Zenon DEF Transitions, Phases, CliPcs
  <2>3. guard.active = "yes" /\ cli' \in Executors /\ cli'.pc = "closed"
    BY <1>0, <1>2, <2>1, <2>2, Zenon DEF ExecutorFits
  <2>4. ExecutorFits(guard', ro', cli')
    BY <1>0, <2>1, <2>2, <2>3, AdvanceShape, Zenon DEF ExecutorFits, PhaseOf
  <2> QED BY <2>1, <2>2, <2>3, <2>4, AdvanceKeeps, Zenon
<1>6. CASE CliClosed
  <2>1. /\ AdvanceTxn("ClosingOld", "OldClosed") /\ cli.pc = "closed" /\ cli' = [cli EXCEPT !.pc = "start"]
        /\ UNCHANGED <<ack, row, proc, obs, host>>
    BY <1>6, Zenon DEF CliClosed, Step, Goto
  <2>2. <<"ClosingOld", "OldClosed">> \in Transitions /\ "OldClosed" \in Phases /\ "start" \in CliPcs
    BY Zenon DEF Transitions, Phases, AfterClose, CliPcs
  <2>3. guard.active = "yes" /\ cli' \in Executors /\ cli'.pc = "start"
    BY <1>0, <1>2, <2>1, <2>2, Zenon DEF ExecutorFits
  <2>4. ExecutorFits(guard', ro', cli')
    BY <1>0, <2>1, <2>2, <2>3, AdvanceShape, Zenon DEF ExecutorFits, PhaseOf
  <2> QED BY <2>1, <2>2, <2>3, <2>4, AdvanceKeeps, Zenon
<1>7. CASE CliStart
  <2>1. /\ AdvanceTxn("OldClosed", "StartingTarget") /\ cli.pc = "start"
        /\ cli' = [cli EXCEPT !.pc = "activate", !.todo = ro.tgt]
        /\ UNCHANGED <<ack, row, proc, obs, host>>
    BY <1>7, Zenon DEF CliStart
  <2>2. <<"OldClosed", "StartingTarget">> \in Transitions /\ "StartingTarget" \in Phases
    BY Zenon DEF Transitions, Phases, AfterClose
  <2>3. guard.active = "yes" /\ cli' \in Executors /\ cli'.pc = "activate"
    BY <1>0, <2>1, Zenon DEF ExecutorFits, Executors, CliPcs, GivesUpAt, Records
  <2>4. ExecutorFits(guard', ro', cli')
    BY <1>0, <2>1, <2>2, <2>3, AdvanceShape, Zenon DEF ExecutorFits, PhaseOf
  <2> QED BY <2>1, <2>2, <2>3, <2>4, AdvanceKeeps, Zenon
<1>8. CASE CliReady
  <2>1. /\ AdvanceTxn("StartingTarget", "TargetReadyClosed") /\ cli.pc = "deactivate"
        /\ cli' = [cli EXCEPT !.pc = "activating"]
        /\ UNCHANGED <<ack, row, proc, obs, host>>
    BY <1>8, Zenon DEF CliReady, Step, Goto
  <2>2. /\ <<"StartingTarget", "TargetReadyClosed">> \in Transitions
        /\ "TargetReadyClosed" \in Phases /\ "activating" \in CliPcs
    BY Zenon DEF Transitions, Phases, AfterClose, CliPcs
  <2>3. guard.active = "yes" /\ cli' \in Executors /\ cli'.pc = "activating"
    BY <1>0, <1>2, <2>1, <2>2, Zenon DEF ExecutorFits
  <2>4. ExecutorFits(guard', ro', cli')
    BY <1>0, <2>1, <2>2, <2>3, AdvanceShape, Zenon DEF ExecutorFits, PhaseOf
  <2> QED BY <2>1, <2>2, <2>3, <2>4, AdvanceKeeps, Zenon
<1>9. CASE CliActivating
  <2>1. /\ AdvanceTxn("TargetReadyClosed", "ActivatingTarget") /\ cli.pc = "activating"
        /\ cli' = [cli EXCEPT !.pc = "complete"]
        /\ UNCHANGED <<ack, row, proc, obs, host>>
    BY <1>9, Zenon DEF CliActivating, Step, Goto
  <2>2. /\ <<"TargetReadyClosed", "ActivatingTarget">> \in Transitions
        /\ "ActivatingTarget" \in Phases /\ "complete" \in CliPcs
    BY Zenon DEF Transitions, Phases, AfterClose, CliPcs, GivesUpAt
  <2>3. guard.active = "yes" /\ cli' \in Executors /\ cli'.pc = "complete"
    BY <1>0, <1>2, <2>1, <2>2, Zenon DEF ExecutorFits
  <2>4. ExecutorFits(guard', ro', cli')
    BY <1>0, <2>1, <2>2, <2>3, AdvanceShape, Zenon DEF ExecutorFits, PhaseOf
  <2> QED BY <2>1, <2>2, <2>3, <2>4, AdvanceKeeps, Zenon
<1>10. CASE CliComplete
  <2>1. /\ AdvanceTxn("ActivatingTarget", "Completed") /\ cli.pc = "complete" /\ cli' = NoCli
        /\ UNCHANGED <<ack, row, proc, obs, host>>
    BY <1>10, Zenon DEF CliComplete
  <2>2. <<"ActivatingTarget", "Completed">> \in Transitions /\ "Completed" \in Phases
    BY Zenon DEF Transitions, Phases
  <2>3. guard.active = "yes" /\ ro.phase = "ActivatingTarget"
    BY <1>0, <2>1, Zenon DEF ExecutorFits, PhaseOf
  <2>4. ExecutorFits(guard', ro', cli')
    BY <1>0, <1>1, <2>1, <2>2, <2>3, AdvanceShape, Zenon DEF ExecutorFits, PhaseOf
  <2> QED BY <1>1, <2>1, <2>2, <2>3, <2>4, AdvanceKeeps, Zenon
<1>11. CASE CliGivesUp
  <2>1. /\ cli.pc \in GivesUpAt /\ cli' = NoCli /\ UNCHANGED <<ack, row, proc, obs, host>>
    BY <1>11, Zenon DEF CliGivesUp
  <2>2. guard.active = "yes"
    BY <1>0, <2>1, Zenon DEF ExecutorFits, GivesUpAt
  <2>3. CASE UNCHANGED <<guard, ro>>
    <3>1. RolloutType' /\ ExecutorFits(guard', ro', cli')
      BY <1>0, <1>1, <2>1, <2>3, Zenon DEF RolloutInv, RolloutType, ExecutorFits, PhaseOf, Records
    <3>2. ASSUME NEW m \in Managers
          PROVE  Fits(m, proc[m], obs[m], row[m], host[m], ack'.source[m], guard', ro', cli')
      BY <1>1, <2>1, <2>3, OneManager, Zenon DEF Fits, HeatFits
    <3> QED BY <2>1, <3>1, <3>2, RecordMoves, Zenon
  <2>4. ASSUME NEW from \in {"StartingTarget", "ActivatingTarget"}, AdvanceTxn(from, "FailedClosed")
        PROVE  RolloutInv'
    <3>1. <<from, "FailedClosed">> \in Transitions /\ "FailedClosed" \in Phases
      BY Zenon DEF Transitions, Phases, Failed
    <3>2. /\ ro' \in Records /\ guard' \in Guards /\ ro'.phase = "FailedClosed"
          /\ guard'.acc = guard.acc
      BY <2>2, <2>4, <3>1, AdvanceShape, Zenon
    <3>3. ExecutorFits(guard', ro', cli')
      BY <1>0, <1>1, <2>1, <2>2, <3>2, <3>1, Zenon DEF ExecutorFits, PhaseOf
    <3> QED BY <1>1, <2>1, <2>2, <2>4, <3>1, <3>3, AdvanceKeeps, Zenon
  <2> QED BY <1>11, <2>3, <2>4, Zenon DEF CliGivesUp
<1> QED BY <1>3, <1>4, <1>5, <1>6, <1>7, <1>8, <1>9, <1>10, <1>11, Zenon

(* A reset is accepted when every declared host was inspected: nobody is   *)
(* hot when the permit is given.                                           *)
LEMMA ResetKeeps ==
    ASSUME RolloutInv, ResetSubmit
    PROVE  RolloutInv'
<1> DEFINE g == [guard EXCEPT !.active = "no", !.permit = "yes"]
<1>0. cli \in Executors /\ guard \in Guards /\ ro \in Records
  BY Zenon DEF RolloutInv, RolloutType
<1>1. /\ cli.pc = "inspect" /\ cli.todo = {} /\ ro.phase = "FailedClosed" /\ guard.active = "yes"
      /\ guard' = g /\ cli' = NoCli /\ UNCHANGED <<ro, ack, row, proc, obs, host>>
  BY Zenon DEF ResetSubmit, ResetTxn
<1>2. g \in Guards /\ g.active = "no"
  BY <1>0, Zenon DEF Guards
<1>3. NoCli \in Executors /\ NoCli.pc = "none"
  BY Zenon DEF NoCli, Executors, CliPcs
<1> HIDE DEF g
<1>4. RolloutType' /\ ExecutorFits(guard', ro', cli')
  BY <1>0, <1>1, <1>2, <1>3, Zenon DEF RolloutInv, RolloutType, ExecutorFits, PhaseOf, Records
<1>5. ASSUME NEW m \in Managers
      PROVE  Fits(m, proc[m], obs[m], row[m], host[m], ack'.source[m], g, ro, NoCli)
  <2>1. ~Hot(proc[m], obs[m], row[m])
    BY <1>1, OneManager, Zenon DEF Fits, HeatFits
  <2>2. proc[m].st \in {"booting", "starting"} => proc[m].plan = "closed"
    BY <1>1, OneManager, Zenon DEF Fits, HeatFits
  <2> QED BY <1>1, <1>2, <1>3, <2>1, <2>2, OneManager, Zenon DEF Fits, HeatFits, AckFits
<1> QED BY <1>1, <1>4, <1>5, RecordMoves, Zenon

(* The managers of the first policy are down at first. *)
LEMMA RolloutStarts == Init => RolloutInv
<1> SUFFICES ASSUME Init PROVE RolloutInv
  BY Zenon
<1> USE DEF Init, InitOf
<1>1. /\ guard \in Guards /\ guard.active = "no"
  BY Zenon DEF Guards
<1>2. /\ ro \in Records /\ ro.id = 0 /\ ro.phase = "Completed"
  BY Zenon DEF Records, Phases
<1>3. cli \in Executors /\ cli.pc = "none"
  BY Zenon DEF NoCli, Executors, CliPcs
<1>4. ack \in [{"source", "target"} -> [Managers -> Acks]]
  BY DEF Acks
<1>5. host \in [Managers -> Selections]
  BY RolloutAssumption, Zenon DEF Selections
<1>6. RolloutType
  BY <1>1, <1>2, <1>3, <1>4, <1>5, IdleTypes, Zenon DEF RolloutType, Rows
<1>7. ExecutorFits(guard, ro, cli)
  BY <1>1, <1>2, <1>3, Zenon DEF ExecutorFits, PhaseOf, Phases
<1>8. ASSUME NEW m \in Managers
      PROVE  Fits(m, proc[m], obs[m], row[m], host[m], ack.source[m], guard, ro, cli)
  <2>1. proc[m] = Down /\ obs[m] = Quiet
    BY Zenon
  <2>2. ~Hot(Down, Quiet, row[m]) /\ ProcessFits(Down, Quiet, host[m], ro)
    BY <1>2, IdleFields DEF Hot, Lively, ProcessFits
  <2>3. HeatFits(m, Down, Quiet, row[m], host[m], guard, ro, cli)
    BY <1>1, <1>3, <2>2, IdleFields, Zenon DEF HeatFits
  <2>4. AckFits(Down, Quiet, row[m], ack.source[m], guard, ro)
    BY <1>1, Zenon DEF AckFits
  <2> QED BY <2>1, <2>2, <2>3, <2>4, Zenon DEF Fits
<1> QED BY <1>6, <1>7, <1>8, Zenon DEF RolloutInv

(* Every step keeps the invariant. *)
LEMMA RolloutStep ==
    ASSUME RolloutInv, Settled, [Next]_vars
    PROVE  RolloutInv'
<1>1. CASE UNCHANGED vars
  BY <1>1, Zenon DEF vars, RolloutInv, RolloutType
<1>2. ASSUME NEW m \in Managers, Manager(m) \/ Crash(m) \/ Stop(m) \/ OperatorStops(m)
      PROVE  RolloutInv'
  BY <1>2, StartKeeps, LifeKeeps, ObserverKeeps, Zenon DEF Manager
<1>3. ASSUME NEW m \in Managers, NEW p \in Policies, Begin(m, p) PROVE RolloutInv'
  BY <1>3, BeginKeeps, Zenon
<1>4. CASE \/ CliAwait \/ CliStopped \/ CliDies \/ ResetInspect
           \/ \E m \in Managers : CliControl(m) \/ Rerun(m) \/ ResetFetch(m)
  BY <1>4, ExecutorKeeps, Zenon
<1>5. CASE CliActivate \/ CliDeactivate \/ CliInstall \/ \E m \in Managers : OperatorInstalls(m)
  BY <1>5, HostKeeps, Zenon
<1>6. CASE \/ CliStage \/ CliStagingFails \/ CliClose \/ CliClosed \/ CliStart \/ CliReady
           \/ CliActivating \/ CliComplete \/ CliGivesUp
  BY <1>6, RecordKeeps, Zenon
<1>7. CASE ResetSubmit
  BY <1>7, ResetKeeps, Zenon
<1> QED BY <1>1, <1>2, <1>3, <1>4, <1>5, <1>6, <1>7, Zenon DEF Next, Executor

(* While the operator begins rollouts of settled fleets only, privileged   *)
(* mutations are admitted under the permitted policy alone, for any number *)
(* of managers, policies, rollouts, crashes and resets: the barriers of    *)
(* advance_manager_rollout order what the observers of main.rs write one   *)
(* after the other.                                                        *)
THEOREM AdmitsUnderOnePolicy ==
    ASSUME Settled
    PROVE  Spec => []AdmitsAsPermitted
<1>1. RolloutInv => AdmitsAsPermitted
  <2> SUFFICES ASSUME RolloutInv, NEW m \in Managers, proc[m].gate = "open"
               PROVE  proc[m].pol \in Permitted
    BY Zenon DEF AdmitsAsPermitted
  <2>1. /\ Fits(m, proc[m], obs[m], row[m], host[m], ack.source[m], guard, ro, cli)
        /\ guard \in Guards /\ ro \in Records /\ ExecutorFits(guard, ro, cli)
    BY OneManager, Zenon
  <2>2. Hot(proc[m], obs[m], row[m]) /\ proc[m].pol = host[m].pol
    BY <2>1, Zenon DEF Hot, Fits, ProcessFits, Lively
  <2>3. CASE guard.active = "no"
    BY <2>1, <2>2, <2>3, Zenon DEF Fits, HeatFits, Permitted
  <2>4. CASE guard.active = "yes"
    BY <2>1, <2>2, <2>4, Zenon DEF Fits, HeatFits, Permitted, ExecutorFits, Records,
                            Phases, BeforeClose, AfterClose, Failed
  <2> QED BY <2>1, <2>3, <2>4, Zenon DEF Guards
<1>2. RolloutInv /\ [Next]_vars => RolloutInv'
  BY RolloutStep, Zenon
<1> QED BY <1>1, <1>2, RolloutStarts, PTL DEF Spec
=============================================================================
