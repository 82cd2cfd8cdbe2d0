--------------------------- MODULE MCSenderKeys ----------------------------
(***************************************************************************)
(* Symmetry for TLC's instances of SenderKeys.                             *)
(***************************************************************************)
EXTENDS SenderKeys, TLC

Symmetry ==
    Permutations(Early \cap Smaller) \cup Permutations(Early \ Smaller)
    \cup Permutations(Smaller \ Early) \cup Permutations(Peers \ (Early \cup Smaller))
    \cup Permutations(Calls)
=============================================================================
