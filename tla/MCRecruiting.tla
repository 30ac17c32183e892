----------------------------- MODULE MCRecruiting -----------------------------
EXTENDS Recruiting, TLC
Symmetry == Permutations(People) \cup Permutations(RecruitingSlots)
=============================================================================
