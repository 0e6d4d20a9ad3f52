----------------------------- MODULE MCLifecycle ----------------------------
(* Instances of Lifecycle for TLC. *)
EXTENDS Lifecycle, TLC

Alike == Permutations(Updates) \cup Permutations(Rests) \cup Permutations(Jobs)
=============================================================================
