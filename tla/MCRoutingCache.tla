--------------------------- MODULE MCRoutingCache ---------------------------
(* Two activations, of revisions 1 and 2, contend for one slot. *)
EXTENDS RoutingCache, TLC

CONSTANTS a1, a2

MCRev == (a1 :> 1) @@ (a2 :> 2)

=============================================================================
