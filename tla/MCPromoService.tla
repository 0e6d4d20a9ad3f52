--------------------------- MODULE MCPromoService ---------------------------
(* Instances of PromoService for TLC: the faults and the spellings a run     *)
(* allows, and the symmetry of the safety runs.                              *)
EXTENDS PromoService, TLC

NoFaults == {}
AllFaults == {"statement", "write", "commit", "crash"}
ConcurrentFaults == {"write", "commit"}

BareOnly == {"bare"}
BareAndPadded == {"bare", "padded"}

Alike == Permutations(Workers) \cup Permutations(Terms) \cup Permutations(Users)
=============================================================================
