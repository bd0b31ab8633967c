------------------------------- MODULE JjRepo -------------------------------
(***************************************************************************)
(* What clotho-vcs uses of jj-lib: the commit graph, the views an          *)
(* operation records, and how jj merges them. jj-lib is not part of the    *)
(* repository; these operators say what the engine relies on.              *)
(*                                                                         *)
(* A commit is the index of its record in a sequence cs, parents before    *)
(* children. A change keeps its id when its commit is rewritten. The file  *)
(* tree of a commit is the set of changes whose edits it contains.         *)
(*                                                                         *)
(* A ref target is the set of commits a ref may point at: {None} when the  *)
(* ref is absent, one commit normally, several when the ref is conflicted. *)
(***************************************************************************)
EXTENDS Naturals, Sequences, FiniteSets, FiniteSetsExt

CONSTANT None   \* no commit

ASSUME NoCommitAssumption == None \notin Nat

-----------------------------------------------------------------------------
(* The commit graph *)

WithCommit(cs, parents, change, edits) ==
  Append(cs, [change |-> change, parents |-> parents, edits |-> edits,
              anc |-> (UNION {cs[p].anc : p \in parents}) \cup {Len(cs) + 1}])

\* The changes in the history of commit c.
History(cs, c) == {cs[a].change : a \in cs[c].anc}

\* The tree of several parents, merged: an edit one of them undid stays undone.
MergedEdits(cs, parents) ==
  {e \in UNION {cs[p].edits : p \in parents} :
     \A p \in parents : e \in History(cs, p) => e \in cs[p].edits}

\* rebase_commit: the difference between c and its parents, on new parents.
Rebase(cs, c, parents) ==
  LET old == MergedEdits(cs, cs[c].parents)
      own == cs[c].edits
  IN  WithCommit(cs, parents, cs[c].change,
                 (MergedEdits(cs, parents) \ (old \ own)) \cup (own \ old))

HeadsOf(cs, S) == {c \in S : \A d \in S \ {c} : c \notin cs[d].anc}

-----------------------------------------------------------------------------
(* Views: the heads, the bookmark main and the git ref last seen *)

Visible(cs, view) == UNION {cs[h].anc : h \in view.heads}

AsNormal(ref) == IF Cardinality(ref) = 1 THEN CHOOSE c \in ref : TRUE ELSE None

\* merge_ref_targets: one side unchanged, or both the same, is trivial; of two
\* new commits above the base the descendant wins; all else is a conflict.
MergeRef(cs, left, base, right) ==
  LET Below(c, d) == c = None \/ (d # None /\ c \in cs[d].anc)
      new == (left \cup right) \ base
  IN  IF left = right \/ right = base THEN left
      ELSE IF left = base THEN right
      ELSE {c \in new : ~ \E d \in new \ {c} :
                            /\ c # None /\ Below(c, d)
                            /\ \E b \in base : Below(b, c)}

\* The commits of "new" that carry on the change of c.
Successors(cs, new, c) == {n \in new : cs[n].change = cs[c].change}

\* The commits of "lost" that were rewritten as one of "new", or abandoned. A
\* commit rewritten in two ways is neither: nothing moves from it, but a ref to it
\* becomes a conflict of the two.
Gone(cs, lost, new) == {c \in lost : Cardinality(Successors(cs, new, c)) <= 1}

\* What is visible and built on them moves along, unless it is lost itself.
Moving(cs, view, lost, gone) == {c \in Visible(cs, view) \ lost : cs[c].anc \cap gone # {}}

\* acc: the commits written so far, and what each commit has become. A commit
\* that was abandoned becomes its parents; one whose parents stay where they are
\* stays as well. (A successor that moves in its turn is not followed.)
MoveCommit(cs, gone, moving, new, acc, c) ==
  LET onto == UNION {acc.map[p] : p \in cs[c].parents}
  IN  CASE c \in moving /\ onto # cs[c].parents ->
                           [cs |-> Rebase(acc.cs, c, onto),
                            map |-> [acc.map EXCEPT ![c] = {Len(acc.cs) + 1}]]
        [] c \in gone -> [acc EXCEPT !.map[c] = IF Successors(cs, new, c) = {} THEN onto
                                                ELSE Successors(cs, new, c)]
        [] OTHER -> acc

\* Parents are moved before their children.
MoveAll(cs, gone, moving, new) ==
  LET moved[c \in 0 .. Len(cs)] ==
        IF c = 0 THEN [cs |-> cs, map |-> [d \in DOMAIN cs |-> {d}]]
        ELSE MoveCommit(cs, gone, moving, new, moved[c - 1], c)
  IN  moved[Len(cs)]

\* rebase_descendants: what was built on the commits that are gone is rebased on
\* what these have become, and main moves along. What is lost is no head any more;
\* parents left behind become heads.
RebaseDescendants(cs, view, lost, new) ==
  LET gone == Gone(cs, lost, new)
      moving == Moving(cs, view, lost, gone)
      end == MoveAll(cs, gone, moving, new)
      left == (UNION {cs[c].parents : c \in lost \cup moving}) \ (lost \cup moving)
      Now(c) == IF c = None THEN {None}
                ELSE IF c \in lost \ gone THEN Successors(cs, new, c)
                ELSE end.map[c]
  IN  [cs |-> end.cs,
       view |-> [view EXCEPT
                   !.heads = HeadsOf(end.cs, ((UNION {end.map[h] : h \in @}) \ lost) \cup left),
                   !.main = UNION {Now(c) : c \in @}]]

\* merge_operation: the views of two diverged operations and of their closest
\* common ancestor, merged.
MergeViews(cs, left, base, right) ==
  LET Lost(view) == Visible(cs, base) \ Visible(cs, view)
      Added(view) == Visible(cs, view) \ Visible(cs, base)
      heads == (left.heads \ (base.heads \ right.heads)) \cup (right.heads \ base.heads)
  IN  RebaseDescendants(cs, [heads |-> HeadsOf(cs, heads),
                             main |-> MergeRef(cs, left.main, base.main, right.main),
                             git |-> MergeRef(cs, left.git, base.git, right.git)],
                        Lost(left) \cup Lost(right), Added(left) \cup Added(right))

=============================================================================
