---------------------------- MODULE MCTransfers ----------------------------
(* Model values and symmetry for the runs of the transfer component. *)
EXTENDS Transfers, TLC

CONSTANTS w1, w2, w3, t1, t2, i1, i2, o1, o2

ThreeWorkers == {w1, w2, w3}
TwoTransfers == {t1, t2}
TwoOffices == {o1, o2}
TwoItems == {i1, i2}
Single == {{i1}}
AllLineSets == {{i1}, {i2}, {i1, i2}}

Overlapping == Permutations(ThreeWorkers) \cup Permutations(TwoOffices)
Serial == Permutations(TwoTransfers) \cup Permutations(TwoOffices)
              \cup Permutations(TwoItems)
=============================================================================
