----------------------------- MODULE MCThreadPool -----------------------------
(* Instances of ThreadPool for TLC. *)
EXTENDS ThreadPool, TLC

\* Interchangeable threads and tasks; only for runs without liveness.
Symmetry == Permutations(Clients) \cup Permutations(Workers)
            \cup Permutations(Tasks \ Nesting)
=============================================================================
