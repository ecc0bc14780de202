----------------------------- MODULE AssetItems -----------------------------
(***************************************************************************)
(* The asset item: one row per physical asset, its custody fields, and the *)
(* two handlers of assetItem.controller.ts that edit a row in place.       *)
(*                                                                         *)
(* Every HTTP handler of the asset side works in two steps: it loads       *)
(* documents and validates them, and later, after further awaits, writes.  *)
(* A worker w is one such request in progress; req[w] is what it keeps     *)
(* from its reads.  The steps named ...Read validate and fill req[w], the  *)
(* steps named ...Write and ...Commit perform the write (one document      *)
(* write, or one MongoDB transaction, each atomic) with whatever it kept,  *)
(* re-checking only what the code re-checks.  Requests of different        *)
(* workers interleave between the two.                                     *)
(***************************************************************************)
CONSTANTS Items, Offices,
          Store,             \* the head-office store, the only store
          Workers,           \* bound: requests in progress at one time
          Keep,              \* "this field is not in the payload"
          NewStates,         \* bound: what items are created with
          StatusEdits,       \* bounds: the values PUT bodies carry for
          FunctionalEdits,   \*   item_status, functional_status,
          AssignmentEdits,   \*   assignment_status and is_active
          ActiveEdits,
          Retirements        \* bound: the items DELETE is called for

ItemStatus == {"Available", "Assigned", "Maintenance", "Retired",
               "Transferred", "InTransit", "Damaged"}
FunctionalStatus == {"Functional", "Needs Repair", "Non-Repairable"}
AssignmentStatus == {"Unassigned", "Assigned", "InTransit"}

(* A holder is the pair <<holder_type, holder_id>>. *)
Places == Offices \cup {Store}
Holders == {"OFFICE", "STORE"} \X Places
InOffice(o) == <<"OFFICE", o>>
InStore == <<"STORE", Store>>

ASSUME ItemConstants ==
    /\ Store \notin Offices
    /\ Keep \notin ItemStatus \cup FunctionalStatus \cup AssignmentStatus
    /\ Keep \notin BOOLEAN
    /\ NewStates \subseteq [assignment: AssignmentStatus, status: ItemStatus,
                             functional: FunctionalStatus, active: BOOLEAN]
    /\ StatusEdits \subseteq ItemStatus \cup {Keep}
    /\ FunctionalEdits \subseteq FunctionalStatus \cup {Keep}
    /\ AssignmentEdits \subseteq AssignmentStatus \cup {Keep}
    /\ ActiveEdits \subseteq BOOLEAN \cup {Keep}
    /\ Retirements \subseteq Items

VARIABLES item,   \* item[i]: the AssetItem document of i
          req     \* req[w]: the request worker w is serving

ItemRow == [holder: Holders, assignment: AssignmentStatus, status: ItemStatus,
            functional: FunctionalStatus, active: BOOLEAN]

Idle == [op |-> "Idle"]

ItemRequest ==
    [op: {"UpdateItem"}, item: Items, functional: FunctionalStatus,
     status: ItemStatus \cup {Keep}, assignment: AssignmentStatus \cup {Keep},
     active: BOOLEAN \cup {Keep}]
    \cup [op: {"RemoveItem"}, item: Items, loaded: ItemRow]

Starts(w, r) == req[w] = Idle /\ req' = [req EXCEPT ![w] = r]
Ends(w) == req' = [req EXCEPT ![w] = Idle]
Serving(w, op) == req[w].op = op

(* A handler that throws: a failed check, an upload or a network error, a  *)
(* duplicate key or an aborted transaction.  Nothing it did is kept.       *)
Fail(w) == req[w] # Idle /\ Ends(w)

-----------------------------------------------------------------------------
(* assetItemStatusRules.ts *)

(* getAssetItemOfficeId(x) is not null *)
HeldByOffice(i) == item[i].holder[1] = "OFFICE"

(* getAssetItemAssignmentBlockReason(x) === null *)
Assignable(x) == /\ x.active
                 /\ x.assignment = "Unassigned"
                 /\ x.status = "Available"
                 /\ x.functional = "Functional"

AllowedStatuses ==
    [f \in FunctionalStatus |->
        CASE f = "Functional" -> {"Available", "Assigned"}
          [] f = "Needs Repair" -> {"Maintenance"}
          [] f = "Non-Repairable" -> {"Retired"}]

DefaultStatus ==
    [f \in FunctionalStatus |->
        CASE f = "Functional" -> "Available"
          [] f = "Needs Repair" -> "Maintenance"
          [] f = "Non-Repairable" -> "Retired"]

(* system-managed and legacy statuses go with every functional status *)
CombinationOk(s, f) ==
    s \in AllowedStatuses[f] \cup {"Transferred", "InTransit", "Damaged"}

-----------------------------------------------------------------------------
(* Value of NewStates: bodies that say nothing of the state *)
AsNew == {[assignment |-> "Unassigned", status |-> DefaultStatus["Functional"],
           functional |-> "Functional", active |-> TRUE]}

(* POST /asset-items and /batch.  A body may say any state; only that the  *)
(* status goes with the functional one is checked.                         *)
NewItem(h, x) == [holder |-> h, assignment |-> x.assignment, status |-> x.status,
                  functional |-> x.functional, active |-> x.active]

Creatable == {x \in NewStates : CombinationOk(x.status, x.functional)}

ItemsInit ==
    /\ item \in [Items -> {NewItem(h, x) : h \in {InStore} \cup {InOffice(o) : o \in Offices},
                                          x \in Creatable}]
    /\ req = [w \in Workers |-> Idle]

(* PUT /asset-items/:id.  The payload's functional status is always        *)
(* written, from the document as it was read when the body has none; a     *)
(* status that no longer fits it is replaced by the default one.           *)
UpdateItemRead(w, i, s, f, a, act) ==
    LET f2 == IF f = Keep THEN item[i].functional ELSE f
        candidate == IF s = Keep THEN item[i].status ELSE s
        s2 == IF s = Keep /\ ~CombinationOk(candidate, f2)
                THEN DefaultStatus[f2] ELSE candidate
    IN  /\ CombinationOk(s2, f2)
        /\ Starts(w, [op |-> "UpdateItem", item |-> i, functional |-> f2,
                      status |-> IF s = Keep /\ s2 = item[i].status THEN Keep ELSE s2,
                      assignment |-> a, active |-> act])
        /\ UNCHANGED item

Edited(old, new) == IF new = Keep THEN old ELSE new

EditedRow(x, body) == [x EXCEPT !.functional = body.functional,
                                !.status = Edited(@, body.status),
                                !.assignment = Edited(@, body.assignment),
                                !.active = Edited(@, body.active)]

UpdateItemWrite(w) ==
    /\ Serving(w, "UpdateItem")
    /\ item' = [item EXCEPT ![req[w].item] = EditedRow(@, req[w])]
    /\ Ends(w)

(* DELETE /asset-items/:id.  Mongoose's save() writes the fields whose     *)
(* values differ from the loaded document, and no others.                  *)
RemoveItemRead(w, i) ==
    /\ Starts(w, [op |-> "RemoveItem", item |-> i, loaded |-> item[i]])
    /\ UNCHANGED item

Saved(now, loaded, new) == IF loaded = new THEN now ELSE new

RetiredRow(x, loaded) == [x EXCEPT !.active = Saved(@, loaded.active, FALSE),
                                   !.assignment = Saved(@, loaded.assignment, "Unassigned"),
                                   !.status = Saved(@, loaded.status, "Retired")]

RemoveItemWrite(w) ==
    /\ Serving(w, "RemoveItem")
    /\ item' = [item EXCEPT ![req[w].item] = RetiredRow(@, req[w].loaded)]
    /\ Ends(w)

ItemStep(w) ==
    \/ \E i \in Items, s \in StatusEdits, f \in FunctionalEdits,
          a \in AssignmentEdits, act \in ActiveEdits : UpdateItemRead(w, i, s, f, a, act)
    \/ UpdateItemWrite(w)
    \/ \E i \in Retirements : RemoveItemRead(w, i)
    \/ RemoveItemWrite(w)
=============================================================================
