-------------------------- MODULE MCReturnRequests --------------------------
(* Model values and symmetry for the runs of the return requests. *)
EXTENDS ReturnRequests, TLC

CONSTANTS w1, w2, a1, a2, i1, i2, e1, r1, r2

TwoWorkers == {w1, w2}
TwoAssignments == {a1, a2}
TwoItems == {i1, i2}
TwoRequests == {r1, r2}
PartAndAll == {{i1}, {i1, i2}}

Overlapping == Permutations(TwoWorkers) \cup Permutations(TwoAssignments)
                   \cup Permutations(TwoRequests)
=============================================================================
