-------------------------- MODULE MCApprovalMatrix --------------------------
(* Model values and symmetry for the runs of the approval matrix: u1 is    *)
(* the maker of every transaction.                                         *)
EXTENDS ApprovalMatrix, TLC

CONSTANTS w1, w2, w3, u1, u2, u3

TwoWorkers == {w1, w2}
ThreeWorkers == {w1, w2, w3}
Staff == {u1, u2, u3}

Peers == Permutations({u2, u3})
Pair == Permutations(TwoWorkers) \cup Peers
Overlapping == Permutations(ThreeWorkers) \cup Peers
=============================================================================
