--------------------------- MODULE MCMergeAliases ---------------------------
(* Instances of MergeAliases for TLC. *)
EXTENDS MergeAliases, TLC

CONSTANTS b1, b2, m1
MCSymmetry == Permutations(Bundle)

\* Neighbours are close: merges make a chain of two hops.
MCChain == {<<1, 2>>, <<2, 3>>}
=============================================================================
