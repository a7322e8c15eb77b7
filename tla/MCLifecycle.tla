---------------------------- MODULE MCLifecycle ----------------------------
(***************************************************************************)
(* Instances of Lifecycle for TLC.                                          *)
(***************************************************************************)
EXTENDS Lifecycle, TLC

CONSTANTS p1, p2, a1, a2, w1, w2, k1, k2

Symmetry ==
    Permutations(Procs) \cup Permutations(Auths) \cup Permutations(Workers)
      \cup Permutations(Keys)
=============================================================================
