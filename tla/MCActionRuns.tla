---------------------------- MODULE MCActionRuns ----------------------------
(* Small instances of ActionRuns for TLC. *)
EXTENDS ActionRuns, TLC

\* Replicas, task slots and runs are interchangeable.
Symmetry == Permutations(Gateways) \cup Permutations(Tasks) \cup Permutations(Runs)

=============================================================================
