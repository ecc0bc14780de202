--------------------------- MODULE MCRequisitions ---------------------------
(* Model values and symmetry for the run of the requisitions. *)
EXTENDS Requisitions, TLC

CONSTANTS w1, w2, a1, a2, l1, l2

TwoWorkers == {w1, w2}
TwoAssignments == {a1, a2}
OneOfEach == {<<"MOVEABLE", TRUE>>, <<"CONSUMABLE", FALSE>>}
TwoLines == {l1, l2}

Alike == Permutations(TwoWorkers) \cup Permutations(TwoAssignments) \cup Permutations(TwoLines)
=============================================================================
