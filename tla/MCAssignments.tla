--------------------------- MODULE MCAssignments ---------------------------
(* Model values and symmetry for the runs of the assignment component. *)
EXTENDS Assignments, TLC

CONSTANTS w1, w2, a1, a2, a3, i1, i2

TwoWorkers == {w1, w2}
TwoAssignments == {a1, a2}
ThreeAssignments == {a1, a2, a3}
TwoItems == {i1, i2}
AnyItemEdit == {Keep, i1, i2}

(* An item may also be entered as broken, with the status that goes with it. *)
NewOrBroken == AsNew \cup {[assignment |-> "Unassigned", functional |-> "Needs Repair",
                            status |-> s, active |-> TRUE] : s \in {"Available", "Maintenance"}}

Overlapping == Permutations(TwoWorkers) \cup Permutations(TwoAssignments)
                   \cup Permutations(TwoItems)
Serial == Permutations(ThreeAssignments) \cup Permutations(TwoItems)
=============================================================================
