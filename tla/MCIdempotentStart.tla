------------------------- MODULE MCIdempotentStart -------------------------
(* Small instances of IdempotentStart for TLC. *)
EXTENDS IdempotentStart, TLC

Symmetry == Permutations(Reqs)

=============================================================================
