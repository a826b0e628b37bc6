---------------------------- MODULE MCSenderPool ----------------------------
(***************************************************************************)
(* SenderPool for TLC: jobs of one kind are interchangeable.               *)
(***************************************************************************)
EXTENDS SenderPool, TLC

Symmetry ==
  Permutations(Operational) \cup Permutations(Unattended)
    \cup Permutations(Job \ (Operational \cup Unattended))
=============================================================================
