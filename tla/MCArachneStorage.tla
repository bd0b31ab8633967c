-------------------------- MODULE MCArachneStorage --------------------------
(* Two payloads that share a chunk. *)
EXTENDS ArachneStorage

CONSTANTS c1, c2

MCPayloads == {<<c1, c2>>, <<c2>>}

MCRanges == {<<0, 0>>, <<1, 2>>, <<3, 2>>, <<4, 1>>, <<5, 0>>}

MCSymmetry == Permutations(Uploads)

=============================================================================
