---------------------------- MODULE MCDagRuntime ----------------------------
(* Model-checking instance of DagRuntime. *)
EXTENDS DagRuntime, TLC

\* Processes and handler outputs are interchangeable.
Symmetry == Permutations(Pids) \cup Permutations(Outputs)
=============================================================================
