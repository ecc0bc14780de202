------------------------------- MODULE MCStock -------------------------------
(* Model values and symmetry for the run of the two books of consumables. *)
EXTENDS LotIssues, TLC

CONSTANTS o1, c1, l1, l2, k1, k2

TwoLots == {l1, l2}
TwoContainers == {k1, k2}

OfficeOpenings == {o1} \X {c1} \X {l1, l2, NoLot}

(* The kind that lots are picked for *)
TwoDates == [k \in AnyKind |-> IF k = "Lot" THEN {1, 2} ELSE {1}]

Alike == Permutations(TwoLots) \cup Permutations(TwoContainers)
=============================================================================
