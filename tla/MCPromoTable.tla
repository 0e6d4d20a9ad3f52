---------------------------- MODULE MCPromoTable ----------------------------
(* Instances of PromoTable for TLC: the list can be sorted by code and by    *)
(* capacity; "since" is one more column like capacity.                       *)
EXTENDS PromoTable, TLC

CapacityColumn == {"capacity"}

Alike == Permutations(Presses)
=============================================================================
