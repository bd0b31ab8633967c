-------------------------- MODULE MCRepoLifecycle --------------------------
(* Two names, one of them perhaps in use; two organisations and their users. *)
EXTENDS RepoLifecycle, TLC

Keep == [visibility |-> "keep", mode |-> "keep", tags |-> "keep"]

MCUpdates ==
  {Keep, [Keep EXCEPT !.visibility = "private"], [Keep EXCEPT !.mode = "tailscale"],
   [Keep EXCEPT !.mode = "tailscale", !.tags = "some"], [Keep EXCEPT !.tags = "none"]}

MCSymmetry == Permutations(Requests) \cup Permutations(Existing)

=============================================================================
