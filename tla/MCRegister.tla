----------------------------- MODULE MCRegister -----------------------------
(* Model values and symmetry for the run of the register. *)
EXTENDS Register, TLC

CONSTANTS w1, w2

TwoWorkers == {w1, w2}

Alike == Permutations(TwoWorkers)
=============================================================================
