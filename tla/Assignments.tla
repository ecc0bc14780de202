---------------------------- MODULE Assignments ----------------------------
(***************************************************************************)
(* assignment.controller.ts and its model: an assignment gives an office's *)
(* asset item to an employee or a sub-location, from DRAFT through ISSUED  *)
(* and RETURN_REQUESTED to RETURNED, or to CANCELLED.                      *)
(*                                                                         *)
(* A snapshot transaction aborts when a document it writes was changed     *)
(* under it, so conditions on written documents hold at the commit; what   *)
(* it only reads may be stale by then.  The lookup of an open assignment   *)
(* before a draft is created is such a read (it belongs to CreateRead):    *)
(* what protects the item is the pair of unique indexes.                   *)
(***************************************************************************)
EXTENDS AssetItems

CONSTANTS Assignments,    \* bound: the assignment ids that get used
          Employees,
          SubLocation,    \* the assignee of an assignment without employee_id
          Targets,        \* bound: the assignees requisitions are for
          NoItem,
          ItemEdits,      \* bounds: the values PUT bodies carry for
          EmployeeEdits,  \*   asset_item_id, employee_id (null: SubLocation),
          IsActiveEdits,  \*   is_active and
          ReturnedEdits   \*   returned_date (set, null or absent)

Assignees == Employees \cup {SubLocation}

ASSUME AssignmentConstants ==
    /\ Targets \subseteq Assignees
    /\ NoItem \notin Items
    /\ Keep \notin Items \cup Assignees
    /\ EmployeeEdits \subseteq Assignees \cup {Keep}
    /\ ItemEdits \subseteq Items \cup {Keep}
    /\ IsActiveEdits \subseteq BOOLEAN \cup {Keep}
    /\ ReturnedEdits \subseteq BOOLEAN \cup {Keep}

VARIABLE asg   \* asg[a]: the Assignment document a, or Unwritten

Open == {"DRAFT", "ISSUED", "RETURN_REQUESTED"}
Closed == {"RETURNED", "CANCELLED"}

Unwritten == [status |-> "NONE", item |-> NoItem, to |-> SubLocation, who |-> SubLocation,
              active |-> FALSE, returned |-> FALSE]

(* to: assigned_to_id; who: employee_id; returned: returned_date is not null *)
AssignmentRow == [status: Open \cup Closed, item: Items, to: Assignees, who: Assignees,
                  active: BOOLEAN, returned: BOOLEAN]

Draft(i, e) == [status |-> "DRAFT", item |-> i, to |-> e, who |-> e,
                active |-> TRUE, returned |-> FALSE]

(* Mutant: only what was assigned to an employee is looked at. *)
ValidOfEmployee(row) == row.to \in Employees => row.who = row.to

(* What save() validates and findByIdAndUpdate does not: employee_id is    *)
(* assigned_to_id, or null for a sub-location.                             *)
Valid(row) == row.who = row.to

AssignmentRequest ==
    [op: {"CreateAssignment"}, item: Items, who: Assignees]
    \cup [op: {"Handover"}, asg: Assignments, item: Items]
    \cup [op: {"RequestReturn", "RemoveAssignment"}, asg: Assignments]
    \cup [op: {"SignedReturn"}, asg: Assignments, item: Items,
          next: {"Maintenance", "Available"}]
    \cup [op: {"UpdateAssignment"}, asg: Assignments,
          item: Items \cup {Keep}, who: Assignees \cup {Keep},
          active: BOOLEAN \cup {Keep}, returned: BOOLEAN \cup {Keep}]

Written(a) == asg[a] # Unwritten
IsOpen(a) == asg[a].status \in Open

(* ensureAssignmentAssetScope: the assigned item must be held by an office *)
InScope(a) == Written(a) /\ HeldByOffice(asg[a].item)

-----------------------------------------------------------------------------
(* Mutant: the second index is all there is. *)
OpenIndexAllows(a, row) ==
    \A b \in Assignments \ {a} :
        asg[b].item = row.item => ~(row.status \in Open /\ IsOpen(b))

(* The two unique partial indexes of assignment.model.ts: per item, one    *)
(* document with is_active true and one with an open status.               *)
IndexAllows(a, row) ==
    \A b \in Assignments \ {a} :
        asg[b].item = row.item => /\ ~(row.active /\ asg[b].active)
                                  /\ ~(row.status \in Open /\ IsOpen(b))

(* Mutant: no index at all, only the lookup before the insert. *)
WriteUnindexed(a, row) == asg' = [asg EXCEPT ![a] = row]

WriteAssignment(a, row) == /\ IndexAllows(a, row)
                           /\ asg' = [asg EXCEPT ![a] = row]

AssignmentsInit == asg = [a \in Assignments |-> Unwritten]

-----------------------------------------------------------------------------
NoOpenAssignment(i) == \A a \in Assignments : asg[a].item = i => ~IsOpen(a)

CanDraft(i) == HeldByOffice(i) /\ Assignable(item[i]) /\ NoOpenAssignment(i)

(* POST /assignments, for the target of an approved requisition *)
CreateRead(w, i, e) ==
    /\ CanDraft(i)
    /\ Starts(w, [op |-> "CreateAssignment", item |-> i, who |-> e])
    /\ UNCHANGED <<item, asg>>

(* PUT /assignments/:id/reassign, from a RETURNED assignment of the item *)
ReassignRead(w, a, e) ==
    /\ Written(a) /\ asg[a].status = "RETURNED"
    /\ CanDraft(asg[a].item)
    /\ Starts(w, [op |-> "CreateAssignment", item |-> asg[a].item, who |-> e])
    /\ UNCHANGED <<item, asg>>

CreateCommit(w, a) ==
    /\ Serving(w, "CreateAssignment")
    /\ ~Written(a)
    /\ WriteAssignment(a, Draft(req[w].item, req[w].who))
    /\ Ends(w)
    /\ UNCHANGED item

(* POST /assignments/:id/handover-slip/upload-signed.  The item that gets  *)
(* marked is the one the assignment named when it was read.                *)
HandoverRead(w, a) ==
    /\ InScope(a) /\ asg[a].status = "DRAFT"
    /\ Assignable(item[asg[a].item])
    /\ Starts(w, [op |-> "Handover", asg |-> a, item |-> asg[a].item])
    /\ UNCHANGED <<item, asg>>

(* Mutant: the update is by id, without the status filter. *)
HandoverUnfiltered(w) ==
    /\ Serving(w, "Handover")
    /\ WriteAssignment(req[w].asg, [asg[req[w].asg] EXCEPT !.status = "ISSUED", !.active = TRUE])
    /\ item' = [item EXCEPT ![req[w].item] =
                   [@ EXCEPT !.assignment = "Assigned", !.status = "Assigned"]]
    /\ Ends(w)

HandoverCommit(w) ==
    /\ Serving(w, "Handover")
    /\ LET a == req[w].asg IN
         /\ asg[a].status = "DRAFT"
         /\ WriteAssignment(a, [asg[a] EXCEPT !.status = "ISSUED", !.active = TRUE])
    /\ item' = [item EXCEPT ![req[w].item] =
                   [@ EXCEPT !.assignment = "Assigned", !.status = "Assigned"]]
    /\ Ends(w)

(* POST /assignments/:id/request-return *)
RequestReturnRead(w, a) ==
    /\ InScope(a) /\ asg[a].status = "ISSUED"
    /\ Starts(w, [op |-> "RequestReturn", asg |-> a])
    /\ UNCHANGED <<item, asg>>

RequestReturnWrite(w) ==
    /\ Serving(w, "RequestReturn")
    /\ LET a == req[w].asg IN
         /\ asg[a].status = "ISSUED"
         /\ WriteAssignment(a, [asg[a] EXCEPT !.status = "RETURN_REQUESTED", !.active = TRUE])
    /\ Ends(w)
    /\ UNCHANGED item

(* Mutant: what comes back is available. *)
SignedReturnAvailable(w, a) ==
    /\ InScope(a) /\ asg[a].status \in {"ISSUED", "RETURN_REQUESTED"}
    /\ Starts(w, [op |-> "SignedReturn", asg |-> a, item |-> asg[a].item,
                  next |-> "Available"])
    /\ UNCHANGED <<item, asg>>

(* POST /assignments/:id/return-slip/upload-signed *)
SignedReturnRead(w, a) ==
    /\ InScope(a) /\ asg[a].status \in {"ISSUED", "RETURN_REQUESTED"}
    /\ LET i == asg[a].item IN
         Starts(w, [op |-> "SignedReturn", asg |-> a, item |-> i,
                    next |-> IF item[i].status = "Maintenance"
                               THEN "Maintenance" ELSE "Available"])
    /\ UNCHANGED <<item, asg>>

SignedReturnCommit(w) ==
    /\ Serving(w, "SignedReturn")
    /\ LET a == req[w].asg IN
         /\ asg[a].status \in {"ISSUED", "RETURN_REQUESTED"}
         /\ WriteAssignment(a, [asg[a] EXCEPT !.status = "RETURNED", !.active = FALSE,
                                           !.returned = TRUE])
    /\ item' = [item EXCEPT ![req[w].item] =
                   [@ EXCEPT !.assignment = "Unassigned", !.status = req[w].next]]
    /\ Ends(w)

(* PUT /assignments/:id writes asset_item_id, employee_id, is_active and   *)
(* returned_date as given, at any status and past the checks of save();    *)
(* for a new item or employee the item must be in an office and assignable. *)
UpdateAssignmentRead(w, a, i, e, act, ret) ==
    /\ InScope(a)
    /\ i # Keep \/ e # Keep => LET target == Edited(asg[a].item, i) IN
                                 HeldByOffice(target) /\ Assignable(item[target])
    /\ Starts(w, [op |-> "UpdateAssignment", asg |-> a, item |-> i, who |-> e,
                  active |-> act, returned |-> ret])
    /\ UNCHANGED <<item, asg>>

(* Mutant: a field the body leaves out is written too. *)
UpdateAssignmentAllFields(w) ==
    /\ Serving(w, "UpdateAssignment")
    /\ LET a == req[w].asg IN
         WriteAssignment(a, [asg[a] EXCEPT !.item = req[w].item, !.who = req[w].who,
                                           !.active = Edited(@, req[w].active),
                                           !.returned = Edited(@, req[w].returned)])
    /\ Ends(w)
    /\ UNCHANGED item

UpdateAssignmentWrite(w) ==
    /\ Serving(w, "UpdateAssignment")
    /\ LET a == req[w].asg IN
         WriteAssignment(a, [asg[a] EXCEPT !.item = Edited(@, req[w].item),
                                           !.who = Edited(@, req[w].who),
                                           !.active = Edited(@, req[w].active),
                                           !.returned = Edited(@, req[w].returned)])
    /\ Ends(w)
    /\ UNCHANGED item

(* DELETE /assignments/:id cancels at any status and leaves the item. *)
RemoveAssignmentRead(w, a) ==
    /\ InScope(a)
    /\ Starts(w, [op |-> "RemoveAssignment", asg |-> a])
    /\ UNCHANGED <<item, asg>>

RemoveAssignmentWrite(w) ==
    /\ Serving(w, "RemoveAssignment")
    /\ LET a == req[w].asg IN
         WriteAssignment(a, [asg[a] EXCEPT !.status = "CANCELLED", !.active = FALSE,
                                           !.returned = TRUE])
    /\ Ends(w)
    /\ UNCHANGED item

AssignmentStep(w) ==
    \/ \E i \in Items, e \in Targets : CreateRead(w, i, e)
    \/ \E a \in Assignments :
          \/ \E e \in Employees : ReassignRead(w, a, e)
          \/ CreateCommit(w, a) \/ HandoverRead(w, a)
          \/ RequestReturnRead(w, a) \/ SignedReturnRead(w, a)
          \/ RemoveAssignmentRead(w, a)
          \/ \E i \in ItemEdits, e \in EmployeeEdits, act \in IsActiveEdits,
                ret \in ReturnedEdits : UpdateAssignmentRead(w, a, i, e, act, ret)
    \/ HandoverCommit(w) \/ RequestReturnWrite(w) \/ SignedReturnCommit(w)
    \/ UpdateAssignmentWrite(w) \/ RemoveAssignmentWrite(w)

-----------------------------------------------------------------------------
(* The assignment component with the item edits that disturb it. *)
avars == <<item, req, asg>>

AInit == ItemsInit /\ AssignmentsInit

ANext == \E w \in Workers : \/ AssignmentStep(w)
                            \/ ItemStep(w) /\ UNCHANGED asg
                            \/ Fail(w) /\ UNCHANGED <<item, asg>>

ASpec == AInit /\ [][ANext]_avars

(* A request names an assignment that exists: none is ever deleted. *)
NamesWritten(w) ==
    req[w].op \in {"Handover", "RequestReturn", "RemoveAssignment", "SignedReturn",
                   "UpdateAssignment"} => Written(req[w].asg)

(* Type invariant: documents and requests in progress have their fields,   *)
(* and the document a request loaded is there when it writes.              *)
AssignmentTypeOK ==
    /\ item \in [Items -> ItemRow]
    /\ req \in [Workers -> {Idle} \cup ItemRequest \cup AssignmentRequest]
    /\ asg \in [Assignments -> AssignmentRow \cup {Unwritten}]
    /\ \A w \in Workers : NamesWritten(w)

(* "Only one active assignment per asset item" (assignment.model.ts): two  *)
(* requests that both found the item free never both give it out, also     *)
(* when an edit moves an assignment to another item or revives is_active.  *)
OneTenant == \A a, b \in Assignments :
    a # b /\ asg[a].item = asg[b].item => /\ ~(asg[a].active /\ asg[b].active)
                                          /\ ~(IsOpen(a) /\ IsOpen(b))

(* An assignment moves along the lifecycle only: issued from a draft,      *)
(* asked back once issued, returned once issued, and a cancelled one stays *)
(* cancelled, whatever was true when the handler validated it.             *)
Lifecycle == {<<"NONE", "DRAFT">>, <<"DRAFT", "ISSUED">>,
              <<"ISSUED", "RETURN_REQUESTED">>, <<"ISSUED", "RETURNED">>,
              <<"RETURN_REQUESTED", "RETURNED">>}
             \cup {<<s, "CANCELLED">> : s \in Open \cup Closed}

FollowsLifecycle == [][\A a \in Assignments : asg'[a].status # asg[a].status
                         => <<asg[a].status, asg'[a].status>> \in Lifecycle]_avars

(* "Functional status ... only allows asset state: ..."                    *)
(* (assetItemStatusRules.ts): an item in use that was noted as needing     *)
(* repair is not shown as available or assigned until somebody notes it as *)
(* working, also when it was noted while the item was out and the item     *)
(* came back since, or was retired and taken into use again.  It is about  *)
(* the states the rule lists: a body may also say Damaged, InTransit or    *)
(* Transferred of an item that needs repair, which the rule lets pass, and *)
(* the return slip then makes that item Available; and it is about the     *)
(* handlers of items and assignments only.                                 *)
BrokenStaysOut ==
    \A i \in Items : item[i].active /\ item[i].functional = "Needs Repair"
                        => item[i].status \notin {"Available", "Assigned"}

(* The promise: one tenancy per item at a time, none taken up again. *)
Tenancies == INSTANCE Tenancy WITH
    tenant <- {p \in Items \X Assignments : IsOpen(p[2]) /\ asg[p[2]].item = p[1]},
    over <- {a \in Assignments : asg[a].status \in Closed}

KeepsTenancy == Tenancies!Spec
=============================================================================
