---------------------------- MODULE MCReminders ----------------------------
(* Sizes for the run of the reminders. *)
EXTENDS Reminders

CONSTANTS u1, l1

TwoRecords == {1, 2}

(* Both get due soon; the second gets overdue, too. *)
SoonOrOverdue(r) == IF r = 1 THEN {"MAINTENANCE_DUE"}
                    ELSE {"MAINTENANCE_DUE", "MAINTENANCE_OVERDUE"}
=============================================================================
