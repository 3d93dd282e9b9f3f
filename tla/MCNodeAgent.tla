----------------------------- MODULE MCNodeAgent -----------------------------
(***************************************************************************)
(* Operations on a node with one or two slots.  Revision 1 is the source   *)
(* and 2 the target, 0 is none.                                            *)
(***************************************************************************)
EXTENDS NodeAgent, TLC

Faults(allowed) == [k \in Kinds |-> IF k \in DOMAIN allowed THEN allowed[k] ELSE 0]

(* One slot and the proxy, from revisions a to revisions b. *)
OneSlot(a, b, affected, releases, allowed) ==
    [slots |-> {1}, source |-> 0 :> a[1] @@ 1 :> a[2], target |-> 0 :> b[1] @@ 1 :> b[2],
     affected |-> affected, maxUnavailable |-> 1, allowDowntime |-> "yes",
     releases |-> releases, operator |-> "any", faults |-> Faults(allowed)]

Deploy(releases, allowed) == OneSlot(<<1, 1>>, <<2, 2>>, {0, 1}, releases, allowed)

(* Two slots, to revision p of the proxy and revisions b of the slots,     *)
(* without downtime.                                                       *)
TwoSlots(p, b, affected, allowed) ==
    [slots |-> {1, 2}, source |-> 0 :> 1 @@ 1 :> 1 @@ 2 :> 1,
     target |-> 0 :> p @@ 1 :> b[1] @@ 2 :> b[2], affected |-> affected,
     maxUnavailable |-> 1, allowDowntime |-> "no", releases |-> "no",
     operator |-> "any", faults |-> Faults(allowed)]

Patiently(p) == [p EXCEPT !.operator = "patient"]

RestartEnds ==
    Patiently(OneSlot(<<1, 1>>, <<1, 1>>, {1}, "no", [crash |-> 1, loss |-> 1, resume |-> 8]))
DeployEnds == Patiently(Deploy("no", [crash |-> 1, loss |-> 1, resume |-> 8]))
Recovers == Deploy("no", [crash |-> 1, error |-> 1, resume |-> 1, cancel |-> 1])
Ages == Deploy("yes", [lapse |-> 1, age |-> 1, late |-> 1])
Breaks == Deploy("yes", [fail |-> 1, forced |-> 1, cancel |-> 1])
FirstDeploy ==
    OneSlot(<<0, 0>>, <<2, 2>>, {0, 1}, "yes",
            [crash |-> 1, loss |-> 1, resume |-> 1, cancel |-> 1])
RestartsOne == TwoSlots(1, <<1, 1>>, {1}, [cancel |-> 1, crash |-> 1, fail |-> 1, resume |-> 1])
Shrinks == TwoSlots(2, <<2, 0>>, {0, 1, 2}, [cancel |-> 1, crash |-> 1, resume |-> 1])

MCPlans ==
    {RestartEnds, DeployEnds, Recovers, Ages, Breaks, FirstDeploy, RestartsOne, Shrinks}
=============================================================================
