----------------------------- MODULE MCProcesses -----------------------------
(***************************************************************************)
(* What runs on a node, a part at a time: the admission gate by itself, as *)
(* the manager and the engine use it; one proxy process around its gate;   *)
(* the foreground runner with one proxy and one engine; `wr-cli lifecycle  *)
(* wait`; and the commands that deploy a release.  The parts a scenario    *)
(* leaves out rest in a final state.  Store buffers are for the gate by    *)
(* itself.                                                                 *)
(***************************************************************************)
EXTENDS ServiceProcess, ForegroundRunner, LifecycleWait, NodeDeployment

Owners == [reporter |-> "reporting", listener |-> "data", sync |-> "background"]

OneOfEach == <<"proxy", "engine">>

\* Commands one after another, or two at the same time.
Settings ==
    {[kind |-> "deploy", tenant |-> TRUE, together |-> FALSE, runs |-> 2]}
    \cup {[kind |-> k, tenant |-> FALSE, together |-> b, runs |-> IF b THEN 2 ELSE 3] :
             k \in {"deploy", "rollback"}, b \in BOOLEAN}

service == <<vars, procVars>>

commands == <<runnerVars, waitVars, deployVars>>

allVars == <<service, commands>>

NoProcess ==
    /\ pc = "killed" /\ life = "Stopping" /\ task = [t \in Tasks |-> "none"]
    /\ cancelled = {} /\ failure = "some" /\ inventory = "none" /\ reporter = "no"
    /\ late = "no" /\ signal = "taken"

NoRunner ==
    /\ stage = "absent"
    /\ child = [c \in Children |-> "none"] /\ held = child /\ start = child /\ stop = child
    /\ scenario = NoScenario /\ claims = 0 /\ ack = {}
    /\ interrupts = [sent |-> 0, wanted |-> FALSE, count |-> 0]
    /\ primary = "none" /\ unclean = FALSE

NoGate ==
    /\ memory = "ordered" /\ open = "no" /\ pending = "no" /\ inflight = 0
    /\ req = [r \in Reqs |-> "out"] /\ closer = "off" /\ notified = "none"

NoWait ==
    /\ phase = [i \in Instances |-> "gone"] /\ been = [i \in Instances |-> {}]
    /\ await = [at |-> "timeout", state |-> "Ready", kind |-> "any", pin |-> NoInstance,
                answer |-> NoInstance, shown |-> "none", polls |-> 0]

NoDeployment ==
    DeployInit({[kind |-> "deploy", tenant |-> FALSE, together |-> FALSE, runs |-> 0]})

MCInit ==
    \/ Init /\ (NoProcess \/ ProcInit) /\ NoRunner /\ NoWait /\ NoDeployment
    \/ NoGate /\ NoProcess /\ RunnerInit /\ NoWait /\ NoDeployment
    \/ NoGate /\ NoProcess /\ NoRunner /\ WaitInit({"proxy"}) /\ NoDeployment
    \/ NoGate /\ NoProcess /\ NoRunner /\ NoWait /\ DeployInit(Settings)

GateAlone == pc = "killed" /\ life = "Stopping" /\ stage = "absent"

GateFairness ==
    /\ \A r \in Reqs : WF_vars(GateAlone /\ Handles(r))
    /\ WF_vars(GateAlone /\ ShutsDown)

MCNext ==
    \/ GateAlone /\ Next /\ UNCHANGED <<procVars, commands>>
    \/ ProcNext /\ UNCHANGED commands
    \/ stage # "absent" /\ RunnerNext /\ UNCHANGED <<service, waitVars, deployVars>>
    \/ WaitNext /\ UNCHANGED <<service, runnerVars, deployVars>>
    \/ DeployNext /\ UNCHANGED <<service, runnerVars, waitVars>>

MCSpec == MCInit /\ [][MCNext]_allVars /\ GateFairness /\ ProcFairness /\ RunnerFairness
=============================================================================
