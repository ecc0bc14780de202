--------------------------- MODULE MCMaintenance ---------------------------
(* Model values and symmetry for the runs of the maintenance component. *)
EXTENDS Maintenance, TLC

CONSTANTS w1, w2, i1, i2, m1, m2

TwoWorkers == {w1, w2}
TwoItems == {i1, i2}
TwoRecords == {m1, m2}
AnyItem == {Keep, i1, i2}

Serial == Permutations(TwoItems) \cup Permutations(TwoRecords)
Overlapping == Permutations(TwoWorkers) \cup Serial
=============================================================================
