----------------------- MODULE MCReconciliationQueue -----------------------
(* Instances of ReconciliationQueue for TLC. *)
EXTENDS ReconciliationQueueRefinement, TLC

CONSTANTS s1, s2
Symmetry == Permutations(Scopes)
=============================================================================
