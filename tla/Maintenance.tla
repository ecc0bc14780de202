---------------------------- MODULE Maintenance ----------------------------
(***************************************************************************)
(* maintenance.controller.ts: while a maintenance record of an item is     *)
(* open the item is out of use.  Creating and completing a record write    *)
(* the record and the item in one transaction; editing and removing one    *)
(* save the record first and then bring the item up to date in writes of   *)
(* their own, with reads between them.                                     *)
(***************************************************************************)
EXTENDS Assignments

CONSTANTS Records,            \* bound: the maintenance record ids that get used
          MaintenanceItems,   \* bounds: the values bodies carry for
          MaintenanceOpens,   \*   asset_item_id and maintenance_status
          Removals            \* bound: the records that get deleted

ASSUME MaintenanceConstants ==
    /\ MaintenanceItems \subseteq Items \cup {Keep}
    /\ MaintenanceOpens \subseteq BOOLEAN \cup {Keep}
    /\ Removals \subseteq Records

VARIABLE mnt   \* mnt[m]: the MaintenanceRecord document m, or NoRecord

NoRecord == [item |-> NoItem]

(* open: maintenance_status is Scheduled or InProgress, not Completed or   *)
(* Cancelled (so a save() from one of the first two to the other, or of    *)
(* the last two, writes nothing here); registered: its entry in the records register is Completed   *)
MaintenanceRow == [item: Items, open: BOOLEAN, active: BOOLEAN, registered: BOOLEAN]

MaintenanceRequest ==
    [op: {"CreateMaintenance"}, item: Items, open: BOOLEAN]
    \cup [op: {"CompleteMaintenance", "RemoveMaintenance"}, mnt: Records, loaded: MaintenanceRow]
    \cup [op: {"UpdateMaintenance"}, mnt: Records, loaded: MaintenanceRow,
          item: Items \cup {Keep}, open: BOOLEAN \cup {Keep}]
    \cup [op: {"Force"}, item: Items, then: Items \cup {NoItem}]
    \cup [op: {"SyncRecords", "SyncItem"}, item: Items]
    \cup [op: {"Settle"}, item: Items, status: ItemStatus]

Recorded(m) == mnt[m] # NoRecord
InRepair(m) == Recorded(m) /\ mnt[m].open /\ mnt[m].active
OpenRecords(i) == {m \in Records : InRepair(m) /\ mnt[m].item = i}

MaintenanceInit == mnt = [m \in Records |-> NoRecord]

WithStatus(i, s) == item' = [item EXCEPT ![i].status = s]

(* The status of an item with no open record *)
FreeStatus(i) == IF item[i].assignment = "Assigned" THEN "Assigned" ELSE "Available"

-----------------------------------------------------------------------------
(* POST /maintenance, by a manager or by the employee who has the item;    *)
(* open unless the body says the work is over.                             *)
CreateMaintenanceRead(w, i, open) ==
    /\ item[i].active /\ HeldByOffice(i)
    /\ Starts(w, [op |-> "CreateMaintenance", item |-> i, open |-> (open # FALSE)])
    /\ UNCHANGED <<item, asg, mnt>>

CreateMaintenanceCommit(w, m) ==
    /\ Serving(w, "CreateMaintenance")
    /\ ~Recorded(m)
    /\ mnt' = [mnt EXCEPT ![m] = [item |-> req[w].item, open |-> req[w].open,
                                  active |-> TRUE, registered |-> FALSE]]
    /\ WithStatus(req[w].item, "Maintenance")
    /\ Ends(w)
    /\ UNCHANGED asg

(* PUT /maintenance/:id/complete, once its documents are uploaded *)
CompleteMaintenanceRead(w, m) ==
    /\ Recorded(m) /\ HeldByOffice(mnt[m].item)
    /\ Starts(w, [op |-> "CompleteMaintenance", mnt |-> m, loaded |-> mnt[m]])
    /\ UNCHANGED <<item, asg, mnt>>

(* Mutant: the item is released without looking at its other records. *)
CompleteMaintenanceReleases(w) ==
    /\ Serving(w, "CompleteMaintenance")
    /\ ~mnt[req[w].mnt].registered
    /\ mnt' = [mnt EXCEPT ![req[w].mnt].open = FALSE, ![req[w].mnt].registered = TRUE]
    /\ WithStatus(req[w].loaded.item, FreeStatus(req[w].loaded.item))
    /\ Ends(w)
    /\ UNCHANGED asg

(* Its transaction reads the other records of the item and writes the item *)
(* in any case, so transactions about one item exclude each other.  The    *)
(* register refuses a second completion.                                   *)
CompleteMaintenanceCommit(w) ==
    /\ Serving(w, "CompleteMaintenance")
    /\ LET m == req[w].mnt
           i == req[w].loaded.item
           open == Saved(mnt[m].open, req[w].loaded.open, FALSE)
           others == OpenRecords(i) \ {m}
           itself == {m} \cap {n \in OpenRecords(i) : open}
       IN  /\ ~mnt[m].registered
           /\ mnt' = [mnt EXCEPT ![m].open = open, ![m].registered = TRUE]
           /\ WithStatus(i, IF others \cup itself # {} THEN "Maintenance" ELSE FreeStatus(i))
    /\ Ends(w)
    /\ UNCHANGED asg

-----------------------------------------------------------------------------
(* PUT /maintenance/:id: save the record, then force the item it names     *)
(* into maintenance, and let go of the item it named before.               *)
UpdateMaintenanceRead(w, m, i, open) ==
    /\ Recorded(m) /\ HeldByOffice(mnt[m].item)
    /\ i # Keep => HeldByOffice(i)
    /\ Starts(w, [op |-> "UpdateMaintenance", mnt |-> m, loaded |-> mnt[m],
                  item |-> i, open |-> open])
    /\ UNCHANGED <<item, asg, mnt>>

(* Mutant: a field the body leaves out is written too. *)
UpdateMaintenanceAllFields(w) ==
    /\ Serving(w, "UpdateMaintenance")
    /\ mnt' = [mnt EXCEPT ![req[w].mnt].item = req[w].item, ![req[w].mnt].open = req[w].open]
    /\ Ends(w)
    /\ UNCHANGED <<item, asg>>

UpdateMaintenanceSave(w) ==
    /\ Serving(w, "UpdateMaintenance")
    /\ LET m == req[w].mnt
           loaded == req[w].loaded
           i == Edited(loaded.item, req[w].item)
           open == Edited(loaded.open, req[w].open)
       IN  /\ mnt' = [mnt EXCEPT ![m].item = Saved(@, loaded.item, i),
                                 ![m].open = Saved(@, loaded.open, open)]
           /\ req' = [req EXCEPT ![w] =
                 IF i # loaded.item THEN [op |-> "Force", item |-> i, then |-> loaded.item]
                 ELSE IF open THEN [op |-> "Force", item |-> i, then |-> NoItem]
                 ELSE Idle]
    /\ UNCHANGED <<item, asg>>

(* DELETE /maintenance/:id *)
RemoveMaintenanceRead(w, m) ==
    /\ Recorded(m) /\ HeldByOffice(mnt[m].item)
    /\ Starts(w, [op |-> "RemoveMaintenance", mnt |-> m, loaded |-> mnt[m]])
    /\ UNCHANGED <<item, asg, mnt>>

RemoveMaintenanceSave(w) ==
    /\ Serving(w, "RemoveMaintenance")
    /\ mnt' = [mnt EXCEPT ![req[w].mnt].active = Saved(@, req[w].loaded.active, FALSE)]
    /\ req' = [req EXCEPT ![w] = [op |-> "SyncRecords", item |-> req[w].loaded.item]]
    /\ UNCHANGED <<item, asg>>

(* syncAssetItemStatusForMaintenance outside a transaction: find the open  *)
(* records, or else read the assignment status, and then write.            *)
ForceItem(w) ==
    /\ Serving(w, "Force")
    /\ WithStatus(req[w].item, "Maintenance")
    /\ req' = [req EXCEPT ![w] = IF req[w].then = NoItem THEN Idle
                                 ELSE [op |-> "SyncRecords", item |-> req[w].then]]
    /\ UNCHANGED <<asg, mnt>>

(* Mutant: the other records of the item are not looked for. *)
SyncRecordsNone(w) ==
    /\ Serving(w, "SyncRecords")
    /\ req' = [req EXCEPT ![w] = [op |-> "SyncItem", item |-> req[w].item]]
    /\ UNCHANGED <<item, asg, mnt>>

SyncRecords(w) ==
    /\ Serving(w, "SyncRecords")
    /\ req' = [req EXCEPT ![w] =
                 IF OpenRecords(req[w].item) # {}
                   THEN [op |-> "Settle", item |-> req[w].item, status |-> "Maintenance"]
                   ELSE [op |-> "SyncItem", item |-> req[w].item]]
    /\ UNCHANGED <<item, asg, mnt>>

SyncItem(w) ==
    /\ Serving(w, "SyncItem")
    /\ req' = [req EXCEPT ![w] = [op |-> "Settle", item |-> req[w].item,
                                  status |-> FreeStatus(req[w].item)]]
    /\ UNCHANGED <<item, asg, mnt>>

Settle(w) ==
    /\ Serving(w, "Settle")
    /\ WithStatus(req[w].item, req[w].status)
    /\ Ends(w)
    /\ UNCHANGED <<asg, mnt>>

(* Bound: none of them stops between its writes. *)
Unfinished(w) == req[w].op \in {"Force", "SyncRecords", "SyncItem", "Settle"}

MaintenanceStep(w) ==
    \/ \E i \in Items, open \in MaintenanceOpens : CreateMaintenanceRead(w, i, open)
    \/ \E m \in Records :
          \/ CreateMaintenanceCommit(w, m) \/ CompleteMaintenanceRead(w, m)
          \/ \E i \in MaintenanceItems, open \in MaintenanceOpens :
                UpdateMaintenanceRead(w, m, i, open)
    \/ \E m \in Removals : RemoveMaintenanceRead(w, m)
    \/ CompleteMaintenanceCommit(w) \/ UpdateMaintenanceSave(w) \/ RemoveMaintenanceSave(w)
    \/ ForceItem(w) \/ SyncRecords(w) \/ SyncItem(w) \/ Settle(w)

-----------------------------------------------------------------------------
(* Maintenance beside the assignment handlers and the removal of items. *)
mvars == <<item, req, asg, mnt>>

MInit == AInit /\ MaintenanceInit

MNext == \E w \in Workers :
            \/ MaintenanceStep(w)
            \/ AssignmentStep(w) /\ UNCHANGED mnt
            \/ ItemStep(w) /\ UNCHANGED <<asg, mnt>>
            \/ Fail(w) /\ ~Unfinished(w) /\ UNCHANGED <<item, asg, mnt>>

MSpec == MInit /\ [][MNext]_mvars

(* Type invariant of the maintenance component. *)
MaintenanceTypeOK ==
    /\ item \in [Items -> ItemRow]
    /\ req \in [Workers -> {Idle} \cup ItemRequest \cup AssignmentRequest
                                  \cup MaintenanceRequest]
    /\ asg \in [Assignments -> AssignmentRow \cup {Unwritten}]
    /\ mnt \in [Records -> MaintenanceRow \cup {NoRecord}]

(* An item with an open maintenance record is never free to be given out,  *)
(* however many records it has, whoever had it when it broke, and through  *)
(* whichever of the handlers it comes back; the edit of a record that is   *)
(* still bringing its items up to date is waited for.                      *)
RepairKeepsOut ==
    (\A w \in Workers : ~Unfinished(w)) =>
        \A i \in Items : OpenRecords(i) # {} => ~Assignable(item[i])
=============================================================================
