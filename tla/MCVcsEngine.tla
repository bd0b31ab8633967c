---------------------------- MODULE MCVcsEngine ----------------------------
(***************************************************************************)
(* Small instances of VcsEngine for model checking.                        *)
(***************************************************************************)
EXTENDS VcsEngine, TLC

Symmetry == Permutations(Callers)

\* Pushes, commits and restores together make too many states for the overlap
\* run: it pushes only while nobody commits or restores, so that what it adds to
\* the commits and restores are the interleavings of submissions with a push.
PushesApart == pushed = {} \/ \A c \in Callers : calls[c].kind \notin {"commit", "restore"}

=============================================================================
