---------------------------- MODULE MCNodeMount -----------------------------
(* Instances of NodeMount for TLC. *)
EXTENDS NodeMount, TLC

AllFaults == FaultKinds
LostAnswers == {"kubelet"}

Symmetry == Permutations(Calls) \cup Permutations(Paths)
=============================================================================
