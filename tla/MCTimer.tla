-------------------------------- MODULE MCTimer --------------------------------
(* Instances of Timer for TLC. *)
EXTENDS Timer, TLC

\* Interchangeable tasks; only for runs without liveness.
Symmetry == Permutations(Tasks \ Nesting)
=============================================================================
