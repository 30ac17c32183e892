------------------------- MODULE MCSearchProjection -------------------------
(* Small instances of SearchProjection for TLC. *)
EXTENDS SearchProjection, TLC

Symmetry == Permutations(Docs) \cup Permutations(Workers) \cup Permutations(Tokens)
=============================================================================
