--------------------------- MODULE MCAccountErasure ---------------------------
(* Instances of AccountErasure for TLC. *)
EXTENDS AccountErasure, TLC

CONSTANTS d1, v1, q1, w1, w2, g1, g2

\* Every version belongs to the one document.
MCDocOf == [v \in {v1} |-> d1]

\* Workers are interchangeable, and so are generations.
MCSymmetry == Permutations({w1, w2}) \cup Permutations({g1, g2})
=============================================================================
