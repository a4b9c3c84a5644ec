------------------------- MODULE MCAnomalyLifecycle -------------------------
(* TLC instances of AnomalyLifecycle.                                      *)
EXTENDS AnomalyLifecycleInv, TLC

\* Nothing in the specification tells one vehicle or one worker from another.
Symmetry == Permutations(Vehicles) \cup Permutations(Workers)
=============================================================================
