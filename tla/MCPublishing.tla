---------------------------- MODULE MCPublishing ----------------------------
(* Publishing over three commits: a bare card, a ready model, a conflict. *)
EXTENDS Publishing, TLC

File0(id, storage, size, metadata, conflicted) ==
  [id |-> id, storage |-> storage, size |-> size, metadata |-> metadata,
   conflicted |-> conflicted]

MCTree ==
  "c0" :> ("card" :> File0(1, "git", 0, FALSE, FALSE)
               @@ "weights" :> File0(6, "arachne", 2, FALSE, FALSE))
    @@ "c1" :> ("card" :> File0(2, "git", 1, TRUE, FALSE)
               @@ "weights" :> File0(3, "arachne", 2, FALSE, FALSE))
    @@ "c2" :> ("card" :> File0(4, "git", 1, TRUE, FALSE)
               @@ "weights" :> File0(5, "git", 2, FALSE, TRUE))

\* A merge and a download touch nothing in common: releases alone relate them,
\* so a behaviour with both adds no state that one of them does not have. Where
\* main is at the start matters to releases and downloads only; and to a release
\* only that a merge moves main, not what it was judged by, so the world moves
\* once around the two.
Related ==
  LET asking == {reqs[q].kind : q \in Requests}
      merging == asking \cap {"merge_pull", "put_merge_policy"}
  IN  /\ merging # {} => asking \cap {"hub", "get_release_file"} = {}
      /\ merging # {} /\ merged = None => main = Base
      /\ {"merge_pull", "create_release"} \subseteq asking => moves <= 1

Symmetry == Permutations(Requests)
=============================================================================
