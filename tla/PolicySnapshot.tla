--------------------------- MODULE PolicySnapshot ---------------------------
(***************************************************************************)
(* How a workload learns who may call it.  Every manager serves a snapshot *)
(* of the policy it runs, valid for a fixed time from its own clock; a     *)
(* proxy polls for one every few seconds, an engine finds one in the       *)
(* answer to its registration and to every heartbeat.  The consumer        *)
(* (wr-common/src/snapshot_consumer.rs) keeps the last accepted snapshot,  *)
(* refuses to go back to an older policy, and admits a peer only while the *)
(* snapshot is fresh.                                                      *)
(*                                                                         *)
(* One consumer is modelled.  Its requests go to whichever manager it is   *)
(* pinned to, one at a time; the answer may be late or be lost.  Time is   *)
(* the consumer's clock; a manager's clock differs from it by Skew.        *)
(***************************************************************************)
EXTENDS Integers

CONSTANTS
    Managers,
    Policies,       \* every policy a manager may be started with
    GenOf,          \* the generation a policy file states
    Peers,          \* principals, each with one certificate
    Enrolled,       \* Enrolled[p]: peers enrolled and not revoked by policy p
    Skew,           \* Skew[m]: manager clock minus consumer clock
    Validity,       \* SNAPSHOT_VALIDITY
    MaxFutureSkew,  \* MAX_FUTURE_SKEW
    None

ASSUME PolicyAssumption ==
    /\ GenOf \in [Policies -> Nat]
    /\ Enrolled \in [Policies -> SUBSET Peers]
    /\ Validity \in Nat /\ MaxFutureSkew \in Nat
    /\ Skew \in [Managers -> Int]
    /\ \A m \in Managers : Skew[m] <= MaxFutureSkew
    /\ None \notin Policies

VARIABLES
    now,        \* the consumer's clock
    running,    \* the policy each manager runs
    reply,      \* the answer on its way to the consumer, or None
    state,      \* SnapshotConsumerState
    policy,     \* the policy of the retained snapshot, or None
    freshUntil, \* when the retained snapshot expires, while state is fresh
    recovery,   \* RecoveryPredicate, while state is blocked
    lastRun,    \* when some manager last ran a policy that enrols the peer
    verdict     \* the last admission decision

snapshotVars == <<now, running, reply, state, policy, freshUntil, recovery,
                  lastRun, verdict>>

consumer == <<state, policy, freshUntil, recovery>>

Snapshots == [pol : Policies, issued : Int]

NoReply == [pol |-> None, issued |-> 0]

NoVerdict == [peer |-> None, admitted |-> FALSE, since |-> 0]

SnapshotInit(initial) ==
    /\ now = 0
    /\ running = initial
    /\ reply = NoReply
    /\ state = "empty" /\ policy = None /\ freshUntil = 0 /\ recovery = "none"
    /\ lastRun = [x \in Peers |-> 0]
    /\ verdict = NoVerdict

(* The peers some manager would still vouch for. *)
Vouched == {x \in Peers : \E m \in Managers : x \in Enrolled[running[m]]}

Tick ==
    /\ now' = now + 1
    /\ lastRun' = [x \in Peers |-> IF x \in Vouched THEN now + 1 ELSE lastRun[x]]
    /\ UNCHANGED <<running, reply, consumer, verdict>>

(* A manager is replaced by one that runs another policy. *)
Rollout(m, p) ==
    /\ p # running[m]
    /\ running' = [running EXCEPT ![m] = p]
    /\ lastRun' = [x \in Peers |->
           IF x \in Enrolled[p] \cup Vouched THEN now ELSE lastRun[x]]
    /\ UNCHANGED <<now, reply, consumer, verdict>>

(* build_snapshot *)
Build(m) ==
    /\ reply = NoReply
    /\ reply' = [pol |-> running[m], issued |-> now + Skew[m]]
    /\ UNCHANGED <<now, running, consumer, lastRun, verdict>>

(* expire: a snapshot past its time is kept, but stale. *)
Expired == state = "fresh" /\ now >= freshUntil

IsFresh == state = "fresh" /\ now < freshUntil

Expire == state' = IF Expired THEN "stale" ELSE state

(* A request failed, the bytes do not decode, or the answer belongs to     *)
(* another owner of the engine's slot.                                     *)
ConsumeError ==
    /\ state' = "blocked"
    /\ recovery' = IF state = "blocked" THEN recovery
                   ELSE IF policy # None THEN "matching" ELSE "any"
    /\ UNCHANGED <<policy, freshUntil>>

(* decode_snapshot: the freshness envelope; the shape of the bytes is left *)
(* to the failing answers.                                                 *)
Decodes(snap) ==
    /\ snap.issued <= now + MaxFutureSkew
    /\ now < snap.issued + Validity

Regressed(snap) == policy # None /\ GenOf[snap.pol] < GenOf[policy]

Conflicting(snap) ==
    policy # None /\ GenOf[snap.pol] = GenOf[policy] /\ snap.pol # policy

(* A conflict is only forgiven to a strictly higher generation. *)
Withheld(snap) ==
    /\ policy # None /\ state = "blocked" /\ recovery = "higher"
    /\ GenOf[snap.pol] <= GenOf[policy]

Block(predicate) ==
    /\ state' = "blocked"
    /\ recovery' = predicate
    /\ UNCHANGED <<policy, freshUntil>>

Withhold == Expire /\ UNCHANGED <<policy, freshUntil, recovery>>

\* Defect: a snapshot is good for its full validity from its arrival.
AcceptFromArrival(snap) ==
    /\ state' = "fresh"
    /\ policy' = snap.pol
    /\ freshUntil' = now + Validity
    /\ recovery' = "none"

(* The time left on the manager's stamp, and never more than a validity. *)
Accept(snap) ==
    /\ state' = "fresh"
    /\ policy' = snap.pol
    /\ freshUntil' = IF snap.issued < now THEN snap.issued + Validity ELSE now + Validity
    /\ recovery' = "none"

\* Defect: an answer that decodes is accepted whatever its generation.
ConsumeAnyGeneration(snap) ==
    IF ~Decodes(snap) THEN ConsumeError ELSE Accept(snap)

(* consume, for an answer that arrived. *)
Consume(snap) ==
    IF ~Decodes(snap) THEN ConsumeError
    ELSE IF Regressed(snap) THEN Block("matching")
    ELSE IF Conflicting(snap) THEN Block("higher")
    ELSE IF Withheld(snap) THEN Withhold
    ELSE Accept(snap)

ReceiveSnapshot ==
    /\ reply # NoReply
    /\ Consume(reply)
    /\ reply' = NoReply
    /\ UNCHANGED <<now, running, lastRun, verdict>>

Lose ==
    /\ ConsumeError
    /\ reply' = NoReply
    /\ UNCHANGED <<now, running, lastRun, verdict>>

(* authorize_manager of the engine's job administration, and the proxy's   *)
(* check of a peer connection: expire, then ask the retained snapshot.     *)
Decide(x) ==
    /\ Expire
    /\ verdict' = [peer |-> x,
                   admitted |-> IsFresh /\ policy # None /\ x \in Enrolled[policy],
                   since |-> now - lastRun[x]]
    /\ UNCHANGED <<now, running, reply, policy, freshUntil, recovery, lastRun>>

SnapshotNext ==
    \/ Tick
    \/ \E m \in Managers : Build(m) \/ \E p \in Policies : Rollout(m, p)
    \/ ReceiveSnapshot \/ Lose
    \/ \E x \in Peers : Decide(x)

SnapshotSpec ==
    /\ \E initial \in [Managers -> Policies] : SnapshotInit(initial)
    /\ [][SnapshotNext]_snapshotVars

---------------------------------------------------------------------------

SnapshotTypeOK ==
    /\ now \in Nat
    /\ running \in [Managers -> Policies]
    /\ reply \in Snapshots \cup {NoReply}
    /\ state \in {"empty", "fresh", "stale", "blocked"}
    /\ policy \in Policies \cup {None}
    /\ freshUntil \in Int
    /\ recovery \in {"none", "any", "matching", "higher"}
    /\ lastRun \in [Peers -> Nat]

(* Why a revocation takes hold: the peers still vouched for are up to      *)
(* date, and no snapshot, on its way or retained, outlives by more than    *)
(* the tolerated skew the policy that enrolled its peers.                  *)
SnapshotInv ==
    /\ SnapshotTypeOK
    /\ \A x \in Peers : lastRun[x] <= now
    /\ \A x \in Vouched : lastRun[x] = now
    /\ reply # NoReply =>
         \A x \in Enrolled[reply.pol] : reply.issued <= lastRun[x] + MaxFutureSkew
    /\ state = "fresh" =>
         /\ policy \in Policies
         /\ \A x \in Enrolled[policy] :
              freshUntil <= lastRun[x] + Validity + MaxFutureSkew

(* A peer that no manager's policy enrols any more is turned away at the   *)
(* latest one validity, plus the clock skew the decoder tolerates, after   *)
(* the last such policy went out of use: however late the last answer      *)
(* came, decode_snapshot and the freshness budget of consume count from    *)
(* the manager's stamp.                                                    *)
RevocationTakesHold ==
    verdict.admitted => verdict.since < Validity + MaxFutureSkew

(* The consumer never goes back: what it retains is replaced only by a     *)
(* policy of a higher generation, never by another of the same one, in     *)
(* whatever order the managers of a rolling upgrade answer (consume).      *)
NeverBackward ==
    [][policy # None /\ policy' # policy =>
         policy' # None /\ GenOf[policy'] > GenOf[policy]]_snapshotVars

(* After two policies of one generation were seen, only a strictly higher  *)
(* generation is trusted again.                                            *)
ConflictNeedsHigher ==
    [][state = "blocked" /\ recovery = "higher" =>
         \/ state' = "blocked" /\ recovery' = "higher"
         \/ policy' # None /\ GenOf[policy'] > GenOf[policy]]_snapshotVars
=============================================================================
