--------------------------- MODULE MCNodeControl ----------------------------
(* Small instances of NodeControl: both processes run the same revision.   *)
EXTENDS NodeControl, TLC

MCRevOne == [e \in Acts |-> 1]

(* Both run the same revision, so they are interchangeable. *)
MCSymmetry == Permutations(Acts)

=============================================================================
